-------------------------- MODULE IdempotencyWindow --------------------------
(***************************************************************************)
(* Which submission a POST resumes or creates: one owner's submissions of  *)
(* one document, keyed by the client or by a bucket of the clock.          *)
(*                                                                         *)
(* The route resolves the key and probes; submit_review, given that key,   *)
(* probes again with the clock of that moment, and only then creates.      *)
(***************************************************************************)
EXTENDS Integers

CONSTANTS
  Requests,      \* POSTs of the document
  ClientKeys,    \* keys clients supply
  Width,         \* BUCKET_WIDTH_MINUTES, in clock ticks
  MaxTime        \* bound: the clock's last tick

ASSUME WidthAssumption == Width \in Nat \ {0} /\ MaxTime \in Nat

VARIABLES
  now,      \* the clock
  table,    \* the review_submissions rows of the document
  req       \* each request

vars == <<now, table, req>>

\* _current_bucket
Bucket(t) == t \div Width

Derived(b) == <<"derived", b>>
Supplied(k) == <<"client", k>>
Keys == {Derived(b) : b \in 0 .. Bucket(MaxTime)} \cup {Supplied(k) : k \in ClientKeys}

\* Mutant: the current bucket only.
CandidatesNow(key, t) == <<key, Derived(Bucket(t))>>

\* The keys find_existing_submission tries at time t, in its order: the one
\* it was given, and the document's current and previous bucket.
Candidates(key, t) == <<key, Derived(Bucket(t)), Derived(Bucket(t - Width))>>

NoKey == <<"none", 0>>
\* "at", "routed" and "probed" are when the key was resolved, when the route
\* probed (its bucket) and when submit_review probed a table of rows "seen".
Fresh == [pc |-> "new", key |-> NoKey, at |-> 0, review |-> "none",
          routed |-> 0, probed |-> 0, seen |-> {}]
Rows == [key : Keys, review : Requests, by : Requests]

Request ==
  [pc : {"new", "route", "submit", "create", "done"}, key : Keys \cup {NoKey},
   at : Nat, review : Requests \cup {"none"}, routed : Nat, probed : Nat,
   seen : SUBSET Rows]

TypeOK ==
  /\ now \in 0 .. MaxTime
  /\ table \subseteq Rows
  /\ req \in [Requests -> Request]
  /\ \A q \in Requests :
       /\ req[q].at <= now /\ req[q].routed <= Bucket(now) /\ req[q].probed <= now
       /\ req[q].seen \subseteq table

Init ==
  /\ now = 0
  /\ table = {}
  /\ req = [q \in Requests |-> Fresh]

Under(key) == {row \in table : row.key = key}

\* find_existing_submission: the row under the first candidate that has one.
Existing(key) ==
  LET keys == Candidates(key, now) IN
  {row \in table : \E i \in DOMAIN keys :
     row.key = keys[i] /\ \A j \in 1 .. i - 1 : Under(keys[j]) = {}}

\* resolve_idempotency_key: the client's, or one derived now.
Resolve(q) ==
  /\ req[q].pc = "new"
  /\ \E key \in {Derived(Bucket(now))} \cup {Supplied(k) : k \in ClientKeys} :
       req' = [req EXCEPT ![q].pc = "route", ![q].key = key, ![q].at = now]
  /\ UNCHANGED <<now, table>>

\* The route's probe fixes the review id and the upload: an existing one's,
\* or a new one's (a review is named after the request that minted it).
RouteProbe(q) ==
  /\ req[q].pc = "route"
  /\ \E review \in {row.review : row \in Existing(req[q].key)}
                   \cup (IF Existing(req[q].key) = {} THEN {q} ELSE {}) :
       req' = [req EXCEPT ![q].pc = "submit", ![q].review = review,
                          ![q].routed = Bucket(now)]
  /\ UNCHANGED <<now, table>>

\* Mutant: the route's probe is relied on.
SubmitProbeSkipped(q) ==
  /\ req[q].pc = "submit"
  /\ req' = [req EXCEPT ![q].pc = "create", ![q].probed = now, ![q].seen = table]
  /\ UNCHANGED <<now, table>>

\* submit_review's own probe.
SubmitProbe(q) ==
  /\ req[q].pc = "submit"
  /\ \/ /\ Existing(req[q].key) # {}
        /\ req' = [req EXCEPT ![q].pc = "done"]
     \/ /\ Existing(req[q].key) = {}
        /\ req' = [req EXCEPT ![q].pc = "create", ![q].probed = now,
                              ![q].seen = table]
  /\ UNCHANGED <<now, table>>

\* The conditional put, under the key resolved at the start.
CreateRow(q) ==
  /\ req[q].pc = "create"
  /\ \A row \in table : row.key # req[q].key
  /\ table' = table \cup {[key |-> req[q].key, review |-> req[q].review, by |-> q]}
  /\ req' = [req EXCEPT ![q].pc = "done"]
  /\ UNCHANGED now

\* The loser of a race is answered 409.
CreateRefused(q) ==
  /\ req[q].pc = "create"
  /\ \E row \in table : row.key = req[q].key
  /\ req' = [req EXCEPT ![q].pc = "done"]
  /\ UNCHANGED <<now, table>>

Tick ==
  /\ now < MaxTime
  /\ now' = now + 1
  /\ UNCHANGED <<table, req>>

Next ==
  \/ \E q \in Requests :
       Resolve(q) \/ RouteProbe(q) \/ SubmitProbe(q) \/ CreateRow(q) \/ CreateRefused(q)
  \/ Tick

Spec == Init /\ [][Next]_vars

-----------------------------------------------------------------------------
IsDerived(row) == row.key[1] = "derived"

\* A second submission of the document under a derived key is made only by a
\* request that probed before the first was recorded, or more than a whole
\* bucket after the first derived its key: no edge lets a retry slip through.
DuplicatesExplained ==
  \A first, second \in table :
    /\ first # second /\ IsDerived(first) /\ IsDerived(second)
    /\ first \in req[second.by].seen
    => req[second.by].probed > req[first.by].at + Width

\* A request records a second submission for a review another one owns only
\* when a bucket edge fell between its two probes: the route's found that
\* review, and submit_review's, a bucket later, missed it.
SharedReviewExplained ==
  \A row \in table :
    row.review # row.by => req[row.by].routed < Bucket(req[row.by].probed)

=============================================================================
