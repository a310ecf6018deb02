------------------------------ MODULE DtsReview ------------------------------
(***************************************************************************)
(* The Docker Compose deployment: the API of Submission in one process     *)
(* with the worker pool that runs the real pipeline, its shutdown, its     *)
(* death at any call, and the recovery of the next boot.                   *)
(*                                                                         *)
(* Runs, handlers and the pool's memory die together; the tables survive.  *)
(* A boot is taken to read its start time in a later second than the old   *)
(* process's last write, so every row it finds is older than it is.        *)
(***************************************************************************)
EXTENDS Submission

CONSTANTS
  Workers,      \* PIPELINE_MAX_CONCURRENCY
  FloorAmount,  \* worst case of the Floor judge, in cents
  MaxCost,      \* largest actual cost of a review, in cents
  MaxFaults     \* bound: DynamoDB calls of the runner or recovery that raise

ASSUME PoolAssumption == Workers \in Nat \ {0}
ASSUME CostAssumption == FloorAmount \in Nat /\ MaxCost \in Nat
ASSUME FaultAssumption == MaxFaults \in Nat

VARIABLES
  proc,     \* the process
  started,  \* execution names its in-process client has seen
  run,      \* where the pool's run of each review is
  floor,    \* reviews whose submission records a Floor top-up
  called,   \* reviews with a billed model call in the ledger
  spent,    \* daily_spend.settled_usd_cents
  todo,     \* reviews the shutdown or the recovery has still to handle
  boot,     \* the review the recovery is settling
  faults    \* DynamoDB calls of the runner or of the recovery that raised

process == <<proc, started, todo, boot>>
pool == <<process, faults>>
vars == <<tables, api, made, credits, pool, run, floor, called, spent>>

\* "pass" is every model call; "settle" and "flag" follow a successful lookup.
Working == {"check", "verify", "floor", "floorAdd", "floorStamp", "pass",
            "terminal", "cancelling", "failing", "lookup", "settle", "flag"}
RunPc == {"none", "queued"} \cup Working
NoBoot == [pc |-> "idle", rev |-> NoReview]

TypeOK ==
  /\ SubmissionTypeOK
  /\ proc \in {"up", "stopping", "down", "booting"}
  /\ started \subseteq Reviews
  /\ run \in [Reviews -> RunPc]
  /\ floor \subseteq reservation
  /\ called \subseteq Reviews
  /\ spent \in Nat
  /\ todo \subseteq Reviews
  /\ boot \in {NoBoot} \cup [pc : {"lookup", "settle", "flag"}, rev : Reviews]
  /\ faults \in 0 .. MaxFaults

Init ==
  /\ SubmissionInit
  /\ proc = "up"
  /\ started = {}
  /\ run = [r \in Reviews |-> "none"]
  /\ floor = {}
  /\ called = {}
  /\ spent = 0
  /\ todo = {}
  /\ boot = NoBoot
  /\ faults = 0

\* A table call raises.
Raises == faults < MaxFaults /\ faults' = faults + 1

-----------------------------------------------------------------------------
(***************************************************************************)
(* Requests, served while the process is up.                               *)
(***************************************************************************)

\* A name already seen is ExecutionAlreadyExists, and nothing is queued.
PostStart(h) ==
  LET r == api[h].rev IN
  /\ CallStart(h)
  /\ started' = started \cup {r}
  /\ run' = IF r \in started THEN run ELSE [run EXCEPT ![r] = "queued"]
  /\ UNCHANGED <<proc, todo, boot, faults, floor, called, spent>>

CancelBegin(h, r) ==
  /\ api[h] = Idle
  /\ status[r] \in NonTerminal
  /\ api' = [api EXCEPT ![h] = [pc |-> "intent", rev |-> r]]
  /\ UNCHANGED <<tables, made, credits>>

\* A pseudo-ARN names nothing to stop: the run's checkpoints do the rest.
CancelIntent(h) ==
  /\ At(h, "intent")
  /\ StampCancel(api[h].rev)
  /\ Return(h)
  /\ UNCHANGED <<submissions, subArn, reservation, released, status, rowArn,
                 reserved, made, credits>>

Serve(h) ==
  /\ proc = "up"
  /\ \/ PostStart(h)
     \/ /\ \/ PostStep(h)
           \/ \E r \in Reviews : CancelBegin(h, r)
           \/ CancelIntent(h)
        /\ UNCHANGED <<pool, run, floor, called, spent>>

-----------------------------------------------------------------------------
(***************************************************************************)
(* run_real_pipeline on a worker thread.                                   *)
(***************************************************************************)

RunGoto(r, pc) == run' = [run EXCEPT ![r] = pc]

\* Mutant: the update has no condition.
RunBeginAlways(r) ==
  /\ run[r] = "queued"
  /\ Cardinality({q \in Reviews : run[q] \in Working}) < Workers
  /\ status' = [status EXCEPT ![r] = "RUNNING"] /\ RunGoto(r, "check")
  /\ UNCHANGED <<submissions, subArn, reservation, released, rowArn,
                 cancelAsked, reserved, api, made, credits, pool, floor,
                 called, spent>>

\* _mark_running: a row that is not PENDING is not this run's to touch.
RunBegin(r) ==
  /\ run[r] = "queued"
  /\ Cardinality({q \in Reviews : run[q] \in Working}) < Workers
  /\ IF status[r] = "PENDING"
     THEN status' = [status EXCEPT ![r] = "RUNNING"] /\ RunGoto(r, "check")
     ELSE RunGoto(r, "none") /\ UNCHANGED status
  /\ UNCHANGED <<submissions, subArn, reservation, released, rowArn,
                 cancelAsked, reserved, api, made, credits, pool, floor,
                 called, spent>>

\* Mutant: the intent is never read.
PollBlind(r, asked) == asked = FALSE /\ UNCHANGED faults

\* cancel_requested: a poll that raises reads "not cancelled".
Poll(r, asked) ==
  \/ asked = (r \in cancelAsked) /\ UNCHANGED faults
  \/ asked = FALSE /\ r \in cancelAsked /\ Raises

\* The first checkpoint, before anything is loaded.
RunCheck(r) ==
  /\ run[r] = "check"
  /\ \/ Poll(r, FALSE) /\ RunGoto(r, "verify")
     \/ Poll(r, TRUE) /\ RunGoto(r, "cancelling")
  /\ UNCHANGED <<tables, api, made, credits, process, floor, called, spent>>

\* The submission-time bundle is still active, or the row is quarantined,
\* whatever status it has.
RunVerify(r) ==
  /\ run[r] = "verify"
  /\ \/ RunGoto(r, "floor") /\ UNCHANGED status
     \/ RunGoto(r, "lookup") /\ status' = [status EXCEPT ![r] = "QUARANTINED"]
  /\ UNCHANGED <<submissions, subArn, reservation, released, rowArn,
                 cancelAsked, reserved, api, made, credits, pool, floor,
                 called, spent>>

\* Only a playbook with judged invariants tops its reservation up, and only
\* while there is a reservation to top up.
RunFloor(r) ==
  /\ run[r] = "floor"
  /\ \/ RunGoto(r, "pass")
     \/ FloorAmount > 0 /\ SettlementDue(r) /\ RunGoto(r, "floorAdd")
  /\ UNCHANGED <<tables, api, made, credits, pool, floor, called, spent>>

\* Not checked against the cap, which gates starts.
RunFloorAdd(r) ==
  /\ run[r] = "floorAdd"
  /\ reserved' = reserved + FloorAmount
  /\ RunGoto(r, "floorStamp")
  /\ UNCHANGED <<submissions, subArn, reservation, released, status, rowArn,
                 cancelAsked, api, made, credits, pool, floor, called, spent>>

RunFloorStamp(r) ==
  /\ run[r] = "floorStamp"
  /\ floor' = floor \cup {r}
  /\ RunGoto(r, "pass")
  /\ UNCHANGED <<tables, api, made, credits, pool, called, spent>>

\* Every attempt of every pass asks first.
RunModelCall(r) ==
  /\ run[r] = "pass"
  /\ \/ Poll(r, FALSE) /\ called' = called \cup {r} /\ UNCHANGED run
     \/ Poll(r, TRUE) /\ RunGoto(r, "cancelling") /\ UNCHANGED called
  /\ UNCHANGED <<tables, api, made, credits, process, floor, spent>>

RunPassesDone(r) ==
  /\ run[r] = "pass" /\ r \in called
  /\ RunGoto(r, "terminal")
  /\ UNCHANGED <<tables, api, made, credits, pool, floor, called, spent>>

RunWriteTerminal(r) ==
  /\ run[r] = "terminal"
  /\ \E s \in {"DONE", "ERROR"} :
       status' = IF status[r] = "RUNNING" THEN [status EXCEPT ![r] = s] ELSE status
  /\ RunGoto(r, "lookup")
  /\ UNCHANGED <<submissions, subArn, reservation, released, rowArn,
                 cancelAsked, reserved, api, made, credits, pool, floor,
                 called, spent>>

RunCancelled(r) ==
  /\ run[r] = "cancelling"
  /\ MarkCancelled(r)
  /\ RunGoto(r, "lookup")
  /\ UNCHANGED <<submissions, subArn, reservation, released, rowArn,
                 cancelAsked, reserved, api, made, credits, pool, floor,
                 called, spent>>

\* Mutant: the failure handler covers the settlement too.
UnfinishedUntilFlagged == Working \ {"cancelling", "failing"}

Unfinished == {"check", "verify", "floor", "floorAdd", "floorStamp", "pass",
               "terminal"}

\* An exception before the terminal write has returned: S3, the model, a table.
RunFails(r) ==
  /\ \/ run[r] \in Unfinished /\ UNCHANGED faults
     \/ run[r] = "queued" /\ Raises
  /\ RunGoto(r, "failing")
  /\ UNCHANGED <<tables, api, made, credits, process, floor, called, spent>>

\* record_stage_failure: only DONE is protected.
RunRecordFailure(r) ==
  /\ run[r] = "failing"
  /\ status' = IF status[r] # "DONE" THEN [status EXCEPT ![r] = "ERROR"] ELSE status
  /\ RunGoto(r, "lookup")
  /\ UNCHANGED <<submissions, subArn, reservation, released, rowArn,
                 cancelAsked, reserved, api, made, credits, pool, floor,
                 called, spent>>

\* The actual cost, known from the client's usage or from the ledger.
Cost(r) == IF r \in called THEN 0 .. MaxCost ELSE {0}

\* Mutant: a Floor top-up is reversed whether it was recorded or not.
SettleActualWithFloor(r) ==
  \E actual \in Cost(r) :
    /\ reserved' = reserved - Amount - FloorAmount + actual
    /\ spent' = spent + actual
    /\ credits' = [credits EXCEPT ![r] = @ + 1]

\* settle_spend: reverse what was reserved, as recorded, and add the actual.
SettleActual(r) ==
  \E actual \in Cost(r) :
    /\ reserved' = reserved - Amount - (IF r \in floor THEN FloorAmount ELSE 0)
                   + actual
    /\ spent' = spent + actual
    /\ credits' = [credits EXCEPT ![r] = @ + 1]

RunLookup(r) ==
  /\ run[r] = "lookup"
  /\ RunGoto(r, IF SettlementDue(r) THEN "settle" ELSE "none")
  /\ UNCHANGED <<tables, api, made, credits, pool, floor, called, spent>>

RunSettle(r) ==
  /\ run[r] = "settle"
  /\ SettleActual(r)
  /\ RunGoto(r, "flag")
  /\ UNCHANGED <<submissions, subArn, reservation, released, status, rowArn,
                 cancelAsked, api, made, pool, floor, called>>

RunFlag(r) ==
  /\ run[r] = "flag"
  /\ FlagReleased(r)
  /\ RunGoto(r, "none")
  /\ UNCHANGED <<submissions, subArn, reservation, status, rowArn, cancelAsked,
                 reserved, api, made, credits, pool, floor, called, spent>>

\* An error while settling is logged and dropped; one while recording the
\* cancel or the failure leaves the thread.
RunLost(r) ==
  /\ run[r] \in {"cancelling", "failing", "lookup", "settle", "flag"}
  /\ Raises
  /\ RunGoto(r, "none")
  /\ UNCHANGED <<tables, api, made, credits, process, floor, called, spent>>

RunStep(r) ==
  /\ proc \in {"up", "stopping"}
  /\ \/ RunBegin(r) \/ RunCheck(r) \/ RunVerify(r)
     \/ RunFloor(r) \/ RunFloorAdd(r) \/ RunFloorStamp(r)
     \/ RunModelCall(r) \/ RunPassesDone(r) \/ RunWriteTerminal(r)
     \/ RunCancelled(r) \/ RunFails(r) \/ RunRecordFailure(r)
     \/ RunLookup(r) \/ RunSettle(r) \/ RunFlag(r) \/ RunLost(r)

-----------------------------------------------------------------------------
(***************************************************************************)
(* The process.                                                            *)
(***************************************************************************)

\* Requests are drained first; then queued work is dropped, and every review
\* the pool held is to be stamped with a cancel intent.
BeginStop ==
  /\ proc = "up" /\ \A h \in Handlers : api[h] = Idle
  /\ proc' = "stopping"
  /\ todo' = {r \in Reviews : run[r] # "none"}
  /\ run' = [r \in Reviews |-> IF run[r] = "queued" THEN "none" ELSE run[r]]
  /\ UNCHANGED <<tables, api, made, credits, started, boot, faults, floor,
                 called, spent>>

StampIntent(r) ==
  /\ proc = "stopping" /\ r \in todo
  /\ StampCancel(r)
  /\ todo' = todo \ {r}
  /\ UNCHANGED <<submissions, subArn, reservation, released, status, rowArn,
                 reserved, api, made, credits, proc, started, boot, faults, run,
                 floor, called, spent>>

\* At any moment, with every thread it has.
Die ==
  /\ proc # "down"
  /\ proc' = "down"
  /\ started' = {}
  /\ run' = [r \in Reviews |-> "none"]
  /\ api' = [h \in Handlers |-> Idle]
  /\ todo' = {}
  /\ boot' = NoBoot
  /\ UNCHANGED <<tables, made, credits, faults, floor, called, spent>>

\* Mutant: only a row that was running is recovered.
OrphansRunning == {r \in Reviews : status[r] = "RUNNING"}

\* is_orphaned of a row older than the process: every row whose ARN is not
\* a Step Functions one, which none is here.
Orphans == {r \in Reviews : status[r] \in NonTerminal}

Boot ==
  /\ proc = "down"
  /\ proc' = "booting"
  /\ todo' = Orphans
  /\ UNCHANGED <<tables, api, made, credits, started, boot, faults, run,
                 floor, called, spent>>

Relabel(r) ==
  /\ proc = "booting" /\ boot = NoBoot /\ r \in todo
  /\ status' = IF status[r] \in NonTerminal
               THEN [status EXCEPT ![r] = "ERROR"] ELSE status
  /\ boot' = IF status[r] \in NonTerminal
             THEN [pc |-> "lookup", rev |-> r] ELSE NoBoot
  /\ todo' = todo \ {r}
  /\ UNCHANGED <<submissions, subArn, reservation, released, rowArn,
                 cancelAsked, reserved, api, made, credits, proc, started, faults,
                 run, floor, called, spent>>

BootLookup ==
  /\ boot.pc = "lookup"
  /\ boot' = IF SettlementDue(boot.rev) THEN [boot EXCEPT !.pc = "settle"] ELSE NoBoot
  /\ UNCHANGED <<tables, api, made, credits, proc, started, todo, faults, run,
                 floor, called, spent>>

BootSettle ==
  /\ boot.pc = "settle"
  /\ SettleActual(boot.rev)
  /\ boot' = [boot EXCEPT !.pc = "flag"]
  /\ UNCHANGED <<submissions, subArn, reservation, released, status, rowArn,
                 cancelAsked, api, made, proc, started, todo, faults, run, floor,
                 called>>

BootFlag ==
  /\ boot.pc = "flag"
  /\ FlagReleased(boot.rev)
  /\ boot' = NoBoot
  /\ UNCHANGED <<submissions, subArn, reservation, status, rowArn, cancelAsked,
                 reserved, api, made, credits, proc, started, todo, faults, run,
                 floor, called, spent>>

\* One bad row, or one failed settlement, does not strand the rest.
BootSkip ==
  /\ Raises
  /\ \/ boot # NoBoot /\ boot' = NoBoot /\ UNCHANGED todo
     \/ /\ proc = "booting" /\ boot = NoBoot
        /\ \E r \in todo : todo' = todo \ {r}
        /\ UNCHANGED boot
  /\ UNCHANGED <<tables, api, made, credits, proc, started, run, floor, called,
                 spent>>

BootDone ==
  /\ proc = "booting" /\ boot = NoBoot /\ todo = {}
  /\ proc' = "up"
  /\ UNCHANGED <<tables, api, made, credits, started, todo, boot, faults, run,
                 floor, called, spent>>

Recover == BootLookup \/ BootSettle \/ BootFlag \/ BootSkip \/ BootDone

Process ==
  \/ BeginStop \/ Die \/ Boot \/ Recover
  \/ \E r \in Reviews : StampIntent(r) \/ Relabel(r)

-----------------------------------------------------------------------------
Next ==
  \/ \E h \in Handlers : Serve(h)
  \/ \E r \in Reviews : RunStep(r)
  \/ Process

Spec == Init /\ [][Next]_vars

\* Worker threads make progress (the model client bounds every request by a
\* timeout, and attempts are bounded); a stopping container is killed when its
\* grace period ends and restarted; and a boot that is killed again and again
\* is not killed at the same call for ever.
FairSpec ==
  /\ Spec
  /\ \A r \in Reviews : WF_vars(RunStep(r)) /\ SF_vars(Relabel(r))
  /\ WF_vars(proc = "stopping" /\ Die)
  /\ WF_vars(Boot)
  /\ SF_vars(Recover)

=============================================================================
