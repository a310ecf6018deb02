--------------------------- MODULE RedlineChangeSets ---------------------------
(***************************************************************************)
(* The change sets of a reconciled review, compiled into one redline.  An  *)
(* issue's edits land together or not at all: an issue of which some       *)
(* landed and some did not is rolled out and the rest compiled again.  In  *)
(* a notes mode with internal content each hard-rejection ledger rule that *)
(* was not inserted is named in a footnote, which another issue's          *)
(* insertion must host.                                                    *)
(***************************************************************************)
EXTENDS Naturals, FiniteSets

CONSTANT Keys  \* the issues' keys, in the order of the review's issues

ASSUME KeyAssumption == Keys \subseteq Nat /\ IsFiniteSet(Keys)

VARIABLES
  issue,     \* each issue: who raised it, its edits, what becomes of them
  internal,  \* the notes mode carries internal notes
  critical,  \* there are notes on what the critic changed
  pass,      \* compilations so far
  dropped,   \* issues rolled out of the transcript
  refused,   \* issues recorded as having failed to compile
  document   \* none yet, not delivered, or the issues that landed and the hosts

redlineVars == <<issue, internal, critical, pass, dropped, refused, document>>

\* A ledger rule has its own insertion or none (no standard language, or a
\* critic's copy stands in for it: `copies`); what its edits do to the
\* document shows when they are compiled.
EditKinds == {"none", "insertion", "deletion"}
Fates == {"lands", "half", "fails"}
IssueRecord ==
  {i \in [by : {"model", "ledger"}, edits : EditKinds, fate : Fates,
          copies : BOOLEAN, refusable : BOOLEAN] :
     /\ i.edits = "none" => i.fate = "lands"
     /\ i.edits # "insertion" => ~i.copies /\ ~i.refusable
     /\ i.by = "ledger" => i.edits # "deletion" /\ ~i.copies /\ ~i.refusable /\ i.fate # "half"
     /\ ~(i.copies /\ i.refusable)}

NoDocument == [status |-> "none"]

Ledger == {k \in Keys : issue[k].by = "ledger"}
Edited == {k \in Keys : issue[k].edits # "none"}
\* Insertions against the playbook's pen rules; the ledger's are not judged.
PenRefused == {k \in Keys : issue[k].refusable}

Working(out) == Edited \ out
Inserting(out) == {k \in Working(out) : issue[k].edits = "insertion"}

\* Ledger rules whose insertion is not in this compilation.
Unhosted(out) == Ledger \ Inserting(out)

\* Issues whose footnote carries a note: one host may take them all, and a
\* note on a section prefers the insertion of that section.
Hosts(out) ==
  IF ~internal \/ (Unhosted(out) = {} /\ ~critical) THEN {{}}
  ELSE IF Inserting(out) = {} THEN {{}}
  ELSE (SUBSET Inserting(out)) \ {{}}

RedlineInit ==
  /\ issue \in [Keys -> IssueRecord]
  /\ internal \in BOOLEAN /\ critical \in BOOLEAN
  /\ pass = 0
  /\ dropped = PenRefused /\ refused = {}
  /\ document = NoDocument

NotDelivered == [status |-> "not delivered"]
NothingLeft == [status |-> "compiled", landed |-> {}, hosts |-> {}]

\* Half a change set is left in the document.
CompileKeepsHalf(failed, landed, hosts) ==
  LET stranded == {k \in failed : k \in hosts \/ (k \in Ledger /\ internal)}
  IN IF stranded # {} THEN dropped' = dropped \cup stranded /\ UNCHANGED document
     ELSE /\ document' = [status |-> "compiled", landed |-> landed, hosts |-> hosts]
          /\ UNCHANGED dropped

\* With half a change set in the document every failed issue is rolled out;
\* without, only the failed hosts of a note and, where internal notes are
\* shown, failed ledger insertions.
Compiled(failed, landed, hosts) ==
  LET half == failed \cap landed
      stranded == {k \in failed : k \in hosts \/ (k \in Ledger /\ internal)}
      again == IF half # {} THEN failed ELSE stranded
  IN IF again # {} THEN dropped' = dropped \cup again /\ UNCHANGED document
     ELSE /\ document' = [status |-> "compiled", landed |-> landed, hosts |-> hosts]
          /\ UNCHANGED dropped

\* One compilation of what is left of the transcript.  A document that does
\* not open again fails everything that had landed.
Compile ==
  /\ document = NoDocument /\ Working(dropped) # {}
  /\ pass' = pass + 1
  /\ \E hosts \in Hosts(dropped), opens \in BOOLEAN :
       LET landed == IF opens THEN {k \in Working(dropped) : issue[k].fate # "fails"} ELSE {}
           failed == IF opens THEN {k \in Working(dropped) : issue[k].fate # "lands"}
                              ELSE Working(dropped)
       IN /\ refused' = refused \cup failed
          /\ Compiled(failed, landed, hosts)
  /\ UNCHANGED <<issue, internal, critical>>

\* The proofs over the whole document refuse it.
CompileRefused ==
  /\ document = NoDocument /\ Working(dropped) # {}
  /\ pass' = pass + 1
  /\ document' = NotDelivered
  /\ UNCHANGED <<issue, internal, critical, dropped, refused>>

NothingToCompile ==
  /\ document = NoDocument /\ Working(dropped) = {}
  /\ document' = NothingLeft
  /\ UNCHANGED <<issue, internal, critical, pass, dropped, refused>>

\* The transcript proposed the language of some ledger rule.
ProposesProtection ==
  \E k \in Keys : issue[k].edits = "insertion" /\ (k \in Ledger \/ issue[k].copies)

\* Whatever landed is delivered.
DeliverUnguarded ==
  /\ document.status = "compiled"
  /\ document' = IF document.landed = {} THEN NotDelivered ELSE [document EXCEPT !.status = "delivered"]
  /\ UNCHANGED <<issue, internal, critical, pass, dropped, refused>>

\* A document without an insertion is not delivered if a protection was
\* proposed; nor one that the output scan or the round trip refuses.
DeliverRedline ==
  /\ document.status = "compiled"
  /\ \/ /\ document.landed # {}
        /\ ~(internal /\ ProposesProtection /\ Inserting(dropped) = {})
        /\ document' = [document EXCEPT !.status = "delivered"]
     \/ document' = NotDelivered
  /\ UNCHANGED <<issue, internal, critical, pass, dropped, refused>>

RedlineNext == Compile \/ CompileRefused \/ NothingToCompile \/ DeliverRedline

RedlineSpec == RedlineInit /\ [][RedlineNext]_redlineVars

-----------------------------------------------------------------------------

Delivered == document.status = "delivered"

\* The loop of compilations settles within its bound.  A delivered redline
\* has no half change set and nothing the pen rules refused, and every issue
\* that wanted an edit either landed or is listed as refused.
WholeChangeSets ==
  /\ pass <= Cardinality(Edited) + 1
  /\ Delivered =>
       /\ \A k \in document.landed : issue[k].fate = "lands" /\ k \notin PenRefused
       /\ Edited \subseteq document.landed \cup refused \cup PenRefused

\* In a notes mode with internal content no document is delivered in which
\* a proposed protection is neither inserted nor named: each ledger rule's
\* own insertion landed, or every note rides on an insertion that did.
ProtectionNamed ==
  Delivered /\ internal /\ ProposesProtection =>
    \/ Ledger \subseteq document.landed
    \/ document.hosts # {} /\ document.hosts \subseteq document.landed

=============================================================================
