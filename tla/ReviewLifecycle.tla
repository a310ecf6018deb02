--------------------------- MODULE ReviewLifecycle ---------------------------
(***************************************************************************)
(* What a reader of the reviews table is promised about one status         *)
(* attribute: a review is accepted, runs, and ends once.  The deployments  *)
(* implement this with conditional writes by several components.           *)
(***************************************************************************)
CONSTANT Reviews

VARIABLE status

Finished == {"DONE", "ERROR", "CANCELLED", "QUARANTINED"}

LifecycleInit == status = [r \in Reviews |-> "absent"]

Becomes(r, s) == status' = [status EXCEPT ![r] = s]

Accept(r) == status[r] = "absent" /\ Becomes(r, "PENDING")

Begin(r) == status[r] = "PENDING" /\ Becomes(r, "RUNNING")

Finish(r) ==
  /\ status[r] \in {"PENDING", "RUNNING"}
  /\ \E s \in Finished : Becomes(r, s)

\* A submission whose first POST died before it put the reviews row is run
\* all the same by a retry, and its row is born terminal.
FinishUnaccepted(r) ==
  status[r] = "absent" /\ \E s \in {"DONE", "ERROR"} : Becomes(r, s)

LifecycleNext ==
  \E r \in Reviews : Accept(r) \/ Begin(r) \/ Finish(r) \/ FinishUnaccepted(r)

LifecycleSpec == LifecycleInit /\ [][LifecycleNext]_status

=============================================================================
