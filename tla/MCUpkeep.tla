------------------------------ MODULE MCUpkeep ------------------------------
(* Instances of the semaphore and of the retention module for TLC: what is  *)
(* held on a review's behalf, and given back.  The two share no variable,   *)
(* and a behaviour moves one of them.                                       *)
EXTENDS Semaphore, Retention

CONSTANTS e1, e2, e3, r1, h1, h2

VARIABLE subject

upkeepVars == <<subject, vars, retentionVars>>

UpkeepInit == subject \in {"slots", "documents"} /\ Init /\ RetentionInit

UpkeepNext ==
  /\ UNCHANGED subject
  /\ \/ subject = "slots" /\ Next /\ UNCHANGED retentionVars
     \/ subject = "documents" /\ RetentionNext /\ UNCHANGED vars

\* The fairness of FairSpec and of RetentionSpec, each for what moves.
UpkeepSpec ==
  /\ UpkeepInit /\ [][UpkeepNext]_upkeepVars
  /\ \A e \in Executions :
       WF_vars(/\ subject = "slots"
               /\ Acquire(e) \/ StagesDone(e) \/ Release(e) \/ LambdaDies(e))
  /\ \A r \in Reviews : WF_retentionVars(subject = "documents" /\ Pipeline(r))
  /\ \A h \in Admins : WF_retentionVars(subject = "documents" /\ HoldStep(h))
  /\ \A h \in Users :
       WF_retentionVars(subject = "documents" /\ (CoverWrite(h) \/ DispositionWrite(h)))
  /\ WF_retentionVars(subject = "documents" /\ Sweep)

=============================================================================
