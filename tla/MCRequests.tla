----------------------------- MODULE MCRequests -----------------------------
(* Instances of the submission, idempotency and panel modules for TLC: what *)
(* happens around a request, in the API, by the clock and in the browser.   *)
(* The three share no variable, and a behaviour moves one of them.          *)
EXTENDS Submission, IdempotencyWindow, ReviewPanel, TLC

CONSTANTS r1, r2, r3, h1, h2, q1, q2, q3, k1, o1, o2

\* The requests of the window are interchangeable.
Alike == Permutations(Requests)

VARIABLE subject

submissionVars == <<tables, api, made, credits>>

RequestsInit ==
  /\ subject \in {"submission", "window", "panel"}
  /\ SubmissionInit /\ Init /\ PanelInit

RequestsNext ==
  /\ UNCHANGED subject
  /\ \/ subject = "submission" /\ SubmissionNext /\ UNCHANGED <<vars, panelVars>>
     \/ subject = "window" /\ Next /\ UNCHANGED <<submissionVars, panelVars>>
     \/ subject = "panel" /\ PanelNext /\ UNCHANGED <<submissionVars, vars>>

RequestsSpec ==
  RequestsInit /\ [][RequestsNext]_<<subject, submissionVars, vars, panelVars>>

=============================================================================
