---------------------------- MODULE Reconciliation ----------------------------
(***************************************************************************)
(* What the two model passes' answers make of a review: the pairing of the *)
(* first reviewer's issues with the critic's, the first reviewer's hard    *)
(* rejections the critic may not drop, the Floor invariants judged         *)
(* violated, and the hard-rejection ledger.  An issue is a topic and a     *)
(* section; the first reviewer's issues are known by their position.       *)
(* A critic's answer has its own issues, its decision, a disposition for   *)
(* each of the first reviewer's issues and one for each ledger rule.       *)
(***************************************************************************)
EXTENDS Naturals, SequencesExt

Issue(topic, section) == [topic |-> topic, section |-> section]

Topics(issues) == {issue.topic : issue \in issues}

DroppedIssues(reply) == {p \in DOMAIN reply.disposed : reply.disposed[p] = "drop"}

\* The first of the critic's issues that may answer issue p and is not taken.
PairUp(pairs, p, candidates) ==
  LET free == candidates \ Range(pairs)
  IN IF p \in DOMAIN pairs \/ free = {} THEN pairs
     ELSE [q \in {p} \cup DOMAIN pairs |-> IF q = p THEN Min(free) ELSE pairs[q]]

SameTopic(issue, reply) == {c \in DOMAIN reply.issues : reply.issues[c].topic = issue.topic}

\* First by topic and section, then by topic.
PairIssuesOfAnyDisposition(raised, reply) ==
  LET exact[p \in 0 .. Len(raised)] ==
        IF p = 0 THEN <<>>
        ELSE PairUp(exact[p - 1], p, {c \in DOMAIN reply.issues : reply.issues[c] = raised[p]})
      all[p \in 0 .. Len(raised)] ==
        IF p = 0 THEN exact[Len(raised)]
        ELSE PairUp(all[p - 1], p, SameTopic(raised[p], reply))
  IN all[Len(raised)]

\* First by topic and section; then, unless the critic dropped it, by topic.
PairIssues(raised, reply) ==
  LET exact[p \in 0 .. Len(raised)] ==
        IF p = 0 THEN <<>>
        ELSE PairUp(exact[p - 1], p, {c \in DOMAIN reply.issues : reply.issues[c] = raised[p]})
      all[p \in 0 .. Len(raised)] ==
        IF p = 0 THEN exact[Len(raised)]
        ELSE IF p \in DroppedIssues(reply) THEN all[p - 1]
        ELSE PairUp(all[p - 1], p, SameTopic(raised[p], reply))
  IN all[Len(raised)]

Unpaired(raised, reply) == DOMAIN raised \ DOMAIN PairIssues(raised, reply)

\* An issue the critic keeps and its own issues do not carry.
KeptWithoutCounterpart(raised, reply) ==
  {p \in Unpaired(raised, reply) : reply.disposed[p] = "keep"}

\* critic_delta_rejection, and the same checks again in reconcile.
DispositionsRejected(raised, reply) ==
  \/ \E p \in DOMAIN raised : reply.disposed[p] = "missing"
  \/ \E rule \in DOMAIN reply.rules : reply.rules[rule] = "missing"
  \/ KeptWithoutCounterpart(raised, reply) # {}

\* The critic's issues, the hard rejections it dropped and, of the Floor
\* invariants judged violated, those whose topic is not there yet.
Reconcile(raised, reply, violated, hard) ==
  LET retained == {raised[p] : p \in {u \in Unpaired(raised, reply) : raised[u].topic \in hard}}
      kept == Range(reply.issues) \cup retained
      issues == kept \cup {Issue(i, i) : i \in violated \ Topics(kept)}
  IN [decision |-> IF reply.decision = "REQUEST_CHANGE" \/ issues # {}
                   THEN "REQUEST_CHANGE" ELSE "ACCEPT",
      issues   |-> issues]

\* A ledger rule stays asserted unless the critic's quotation proves it met.
Asserted(reply) == {rule \in DOMAIN reply.rules : reply.rules[rule] # "proven"}

Enforce(reconciled, asserted) ==
  IF asserted = {} THEN reconciled
  ELSE [decision |-> "REQUEST_CHANGE",
        issues   |-> reconciled.issues \cup {Issue(rule, rule) : rule \in asserted}]

=============================================================================
