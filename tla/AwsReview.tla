------------------------------ MODULE AwsReview ------------------------------
(***************************************************************************)
(* The AWS deployment: the API of Submission, the Step Functions execution *)
(* of a review (its stages, retries, Catch and execution timeout), the     *)
(* cancel route's StopExecution and the scheduled orphan reconciler.       *)
(*                                                                         *)
(* Step Functions cannot kill a Lambda in flight: a stage that was running *)
(* when its execution was stopped or timed out may still make its writes,  *)
(* and it never reaches the next stage.                                    *)
(***************************************************************************)
EXTENDS Submission

CONSTANTS
  MaxPersistRetries,  \* addRetry maxAttempts of the persist stage
  NullIsMissing       \* does attribute_not_exists hold of a NULL attribute?

ASSUME PersistRetryAssumption == MaxPersistRetries \in Nat
ASSUME NullAssumption == NullIsMissing \in BOOLEAN

VARIABLES
  exec,      \* Step Functions' status of the execution named after r
  task,      \* the stage r's execution is at
  outcome,   \* the terminal status r's decision stands for, once reviewed
  retries,   \* persist retries used
  rec        \* the reconciler's run

awsVars == <<exec, task, outcome, retries, rec>>
vars == <<tables, api, made, credits, awsVars>>

\* Mutant: an execution that timed out is not looked for.
DeadButTimedOut == {"failed", "aborted"}

Dead == {"failed", "timedOut", "aborted"}
ExecStatus == {"none", "running", "succeeded"} \cup Dead

\* "intake" is acquire, extract and retrieve; "review" is the review and the
\* redline; "tail" is audit and release: stages that leave these tables alone.
\* The persist Lambda makes four calls, "persist" to "flag".
PersistPc == {"persist", "lookup", "settle", "flag"}
Task == {"none", "intake", "mark", "review", "tail", "catch", "over"} \cup PersistPc

NoRun == [pc |-> "idle", rev |-> NoReview, due |-> FALSE]
RecState ==
  {NoRun} \cup [pc : {"lookup", "transition", "settle", "flag",
                      "start", "writeSubArn", "writeRowArn"},
                rev : Reviews, due : BOOLEAN]

TypeOK ==
  /\ SubmissionTypeOK
  /\ exec \in [Reviews -> ExecStatus]
  /\ task \in [Reviews -> Task]
  /\ outcome \in [Reviews -> {"none", "DONE", "ERROR"}]
  /\ retries \in [Reviews -> 0 .. MaxPersistRetries]
  /\ rec \in RecState

Init ==
  /\ SubmissionInit
  /\ exec = [r \in Reviews |-> "none"]
  /\ task = [r \in Reviews |-> "none"]
  /\ outcome = [r \in Reviews |-> "none"]
  /\ retries = [r \in Reviews |-> 0]
  /\ rec = NoRun

-----------------------------------------------------------------------------
(***************************************************************************)
(* StartExecution, and the handlers of Submission.                         *)
(***************************************************************************)

\* The deterministic name makes a second start, even of a closed execution,
\* ExecutionAlreadyExists.
StartExecution(r) ==
  IF exec[r] = "none"
  THEN /\ exec' = [exec EXCEPT ![r] = "running"]
       /\ task' = [task EXCEPT ![r] = "intake"]
  ELSE UNCHANGED <<exec, task>>

PostStart(h) ==
  /\ CallStart(h)
  /\ StartExecution(api[h].rev)
  /\ UNCHANGED <<outcome, retries, rec>>

Post(h) ==
  \/ PostStep(h) /\ UNCHANGED awsVars
  \/ PostStart(h)

-----------------------------------------------------------------------------
(***************************************************************************)
(* POST /api/reviews/{review_id}/cancel.                                   *)
(***************************************************************************)

\* get_review_detail: a terminal review is answered 409 here.
CancelBegin(h, r) ==
  /\ api[h] = Idle
  /\ status[r] \in NonTerminal
  /\ api' = [api EXCEPT ![h] = [pc |-> "intent", rev |-> r]]
  /\ UNCHANGED <<tables, made, credits, awsVars>>

CancelIntent(h) ==
  LET r == api[h].rev IN
  /\ At(h, "intent")
  /\ StampCancel(r)
  /\ IF status[r] \in NonTerminal THEN Goto(h, "stop") ELSE Return(h)
  /\ UNCHANGED <<submissions, subArn, reservation, released, status, rowArn,
                 reserved, made, credits, awsVars>>

\* No ARN on the reviews row: nothing to stop, 202.  Stopping an execution
\* that has already ended succeeds and changes nothing.
CancelStop(h) ==
  LET r == api[h].rev IN
  /\ At(h, "stop")
  /\ \/ /\ r \notin rowArn
        /\ Return(h)
        /\ UNCHANGED exec
     \/ /\ r \in rowArn
        /\ Goto(h, "mark")
        /\ exec' = IF exec[r] = "running"
                   THEN [exec EXCEPT ![r] = "aborted"] ELSE exec
  /\ UNCHANGED <<tables, made, credits, task, outcome, retries, rec>>

CancelMark(h) ==
  /\ At(h, "mark")
  /\ MarkCancelled(api[h].rev)
  /\ Goto(h, "lookup")
  /\ UNCHANGED <<submissions, subArn, reservation, released, rowArn,
                 cancelAsked, reserved, made, credits, awsVars>>

\* mark_cancelled may have been refused; settlement goes ahead all the same.
CancelLookup(h) ==
  LET r == api[h].rev IN
  /\ At(h, "lookup")
  /\ \/ SettlementDue(r) /\ Goto(h, "settle")
     \/ ~SettlementDue(r) /\ Return(h)
  /\ UNCHANGED <<tables, made, credits, awsVars>>

CancelSettle(h) ==
  /\ At(h, "settle")
  /\ SettleSpend(api[h].rev)
  /\ Goto(h, "flag")
  /\ UNCHANGED <<submissions, subArn, reservation, released, status, rowArn,
                 cancelAsked, made, awsVars>>

CancelFlag(h) ==
  /\ At(h, "flag")
  /\ FlagReleased(api[h].rev)
  /\ Return(h)
  /\ UNCHANGED <<submissions, subArn, reservation, status, rowArn, cancelAsked,
                 reserved, made, credits, awsVars>>

Cancel(h) ==
  \/ \E r \in Reviews : CancelBegin(h, r)
  \/ CancelIntent(h)
  \/ CancelStop(h)
  \/ CancelMark(h)
  \/ CancelLookup(h)
  \/ CancelSettle(h)
  \/ CancelFlag(h)

-----------------------------------------------------------------------------
(***************************************************************************)
(* The execution.                                                          *)
(***************************************************************************)

Running(r) == exec[r] = "running"

\* A stage's Lambda returned: the next stage is entered only if the
\* execution is still running.
EnterStage(r, stage) ==
  task' = [task EXCEPT ![r] = IF Running(r) THEN stage ELSE "over"]

IntakeDone(r) ==
  /\ task[r] = "intake" /\ Running(r)
  /\ EnterStage(r, "mark")
  /\ UNCHANGED <<tables, api, made, credits, exec, outcome, retries, rec>>

\* Mutant: the update has no condition.
MarkRunningAlways(r) ==
  /\ task[r] = "mark"
  /\ status' = [status EXCEPT ![r] = "RUNNING"]
  /\ EnterStage(r, "review")
  /\ UNCHANGED <<submissions, subArn, reservation, released, rowArn,
                 cancelAsked, reserved, api, made, credits, exec, outcome,
                 retries, rec>>

\* Only PENDING becomes RUNNING; any other row is left as it is and the
\* pipeline goes on.
MarkRunning(r) ==
  /\ task[r] = "mark"
  /\ status' = IF status[r] = "PENDING"
               THEN [status EXCEPT ![r] = "RUNNING"] ELSE status
  /\ EnterStage(r, "review")
  /\ UNCHANGED <<submissions, subArn, reservation, released, rowArn,
                 cancelAsked, reserved, api, made, credits, exec, outcome,
                 retries, rec>>

ReviewDone(r) ==
  /\ task[r] = "review" /\ Running(r)
  /\ \E d \in {"DONE", "ERROR"} : outcome' = [outcome EXCEPT ![r] = d]
  /\ EnterStage(r, "persist")
  /\ UNCHANGED <<tables, api, made, credits, exec, retries, rec>>

\* A status-less row is written; an ERROR or CANCELLED one is left alone.
PersistTerminal(r) ==
  /\ task[r] = "persist"
  /\ status' = IF status[r] \notin {"ERROR", "CANCELLED"}
               THEN [status EXCEPT ![r] = outcome[r]] ELSE status
  /\ task' = [task EXCEPT ![r] = "lookup"]
  /\ UNCHANGED <<submissions, subArn, reservation, released, rowArn,
                 cancelAsked, reserved, api, made, credits, exec, outcome,
                 retries, rec>>

PersistLookup(r) ==
  /\ task[r] = "lookup"
  /\ IF SettlementDue(r)
     THEN task' = [task EXCEPT ![r] = "settle"]
     ELSE EnterStage(r, "tail")
  /\ UNCHANGED <<tables, api, made, credits, exec, outcome, retries, rec>>

PersistSettle(r) ==
  /\ task[r] = "settle"
  /\ SettleSpend(r)
  /\ task' = [task EXCEPT ![r] = "flag"]
  /\ UNCHANGED <<submissions, subArn, reservation, released, status, rowArn,
                 cancelAsked, api, made, exec, outcome, retries, rec>>

PersistFlag(r) ==
  /\ task[r] = "flag"
  /\ FlagReleased(r)
  /\ EnterStage(r, "tail")
  /\ UNCHANGED <<submissions, subArn, reservation, status, rowArn, cancelAsked,
                 reserved, api, made, credits, exec, outcome, retries, rec>>

\* The persist Lambda failed between two of its calls and is invoked again.
PersistRetry(r) ==
  /\ task[r] \in {"lookup", "settle", "flag"} /\ Running(r)
  /\ retries[r] < MaxPersistRetries
  /\ retries' = [retries EXCEPT ![r] = @ + 1]
  /\ task' = [task EXCEPT ![r] = "persist"]
  /\ UNCHANGED <<tables, api, made, credits, exec, outcome, rec>>

TailDone(r) ==
  /\ task[r] = "tail" /\ Running(r)
  /\ exec' = [exec EXCEPT ![r] = "succeeded"]
  /\ task' = [task EXCEPT ![r] = "over"]
  /\ UNCHANGED <<tables, api, made, credits, outcome, retries, rec>>

\* A stage is out of retries: its Catch invokes TransitionToError.
StageFails(r) ==
  /\ Running(r) /\ task[r] \notin {"none", "catch", "over"}
  /\ task' = [task EXCEPT ![r] = "catch"]
  /\ UNCHANGED <<tables, api, made, credits, exec, outcome, retries, rec>>

\* DONE and CANCELLED win over the failure; then the execution fails.
TransitionToError(r) ==
  /\ task[r] = "catch"
  /\ status' = IF status[r] \notin {"DONE", "CANCELLED"}
               THEN [status EXCEPT ![r] = "ERROR"] ELSE status
  /\ exec' = IF Running(r) THEN [exec EXCEPT ![r] = "failed"] ELSE exec
  /\ task' = [task EXCEPT ![r] = "over"]
  /\ UNCHANGED <<submissions, subArn, reservation, released, rowArn,
                 cancelAsked, reserved, api, made, credits, outcome, retries,
                 rec>>

\* TransitionToError has neither Retry nor Catch of its own.
TransitionFails(r) ==
  /\ task[r] = "catch" /\ Running(r)
  /\ exec' = [exec EXCEPT ![r] = "failed"]
  /\ task' = [task EXCEPT ![r] = "over"]
  /\ UNCHANGED <<tables, api, made, credits, outcome, retries, rec>>

\* The execution-level timeout, at any stage.
ExecutionTimeout(r) ==
  /\ Running(r)
  /\ exec' = [exec EXCEPT ![r] = "timedOut"]
  /\ UNCHANGED <<tables, api, made, credits, task, outcome, retries, rec>>

Pipeline(r) ==
  \/ IntakeDone(r) \/ MarkRunning(r) \/ ReviewDone(r)
  \/ PersistTerminal(r) \/ PersistLookup(r) \/ PersistSettle(r) \/ PersistFlag(r)
  \/ PersistRetry(r) \/ TailDone(r)
  \/ StageFails(r) \/ TransitionToError(r) \/ TransitionFails(r)
  \/ ExecutionTimeout(r)

-----------------------------------------------------------------------------
(***************************************************************************)
(* The orphan reconciler, run every two minutes.                           *)
(***************************************************************************)

RecGoto(pc) == rec' = [rec EXCEPT !.pc = pc]

\* A PENDING or RUNNING row with an ARN whose execution is dead.
RecPick(r) ==
  /\ rec = NoRun
  /\ status[r] \in NonTerminal /\ r \in rowArn /\ exec[r] \in Dead
  /\ rec' = [pc |-> "lookup", rev |-> r, due |-> FALSE]
  /\ UNCHANGED <<tables, api, made, credits, exec, task, outcome, retries>>

\* The submission is read here, before the transition, and judged by this
\* copy afterwards.
RecLookup ==
  /\ rec.pc = "lookup"
  /\ rec' = [rec EXCEPT !.pc = "transition", !.due = SettlementDue(rec.rev)]
  /\ UNCHANGED <<tables, api, made, credits, exec, task, outcome, retries>>

\* A row that turned terminal since the scan fails the condition, which
\* ends the run.
RecTransition ==
  LET r == rec.rev IN
  /\ rec.pc = "transition"
  /\ \/ /\ status[r] \in NonTerminal
        /\ status' = [status EXCEPT ![r] = "ERROR"]
        /\ IF rec.due THEN RecGoto("settle") ELSE rec' = NoRun
     \/ /\ status[r] \notin NonTerminal
        /\ rec' = NoRun
        /\ UNCHANGED status
  /\ UNCHANGED <<submissions, subArn, reservation, released, rowArn,
                 cancelAsked, reserved, api, made, credits, exec, task,
                 outcome, retries>>

\* Mutant: the reservation is flagged released and never credited.
RecSettleByFlag ==
  /\ rec.pc = "settle"
  /\ RecGoto("flag")
  /\ UNCHANGED <<tables, api, made, credits, exec, task, outcome, retries>>

RecSettle ==
  /\ rec.pc = "settle"
  /\ SettleSpend(rec.rev)
  /\ RecGoto("flag")
  /\ UNCHANGED <<submissions, subArn, reservation, released, status, rowArn,
                 cancelAsked, api, made, exec, task, outcome, retries>>

RecFlag ==
  /\ rec.pc = "flag"
  /\ FlagReleased(rec.rev)
  /\ rec' = NoRun
  /\ UNCHANGED <<submissions, subArn, reservation, status, rowArn, cancelAsked,
                 reserved, api, made, credits, exec, task, outcome, retries>>

\* Mutant: only a submission that holds a reservation is re-driven.
RecRedriveReserved(r) ==
  /\ rec = NoRun
  /\ NullIsMissing
  /\ r \in reservation \ subArn
  /\ \A h \in Handlers : ~Creating(h, r)
  /\ rec' = [pc |-> "start", rev |-> r, due |-> FALSE]
  /\ UNCHANGED <<tables, api, made, credits, exec, task, outcome, retries>>

\* attribute_not_exists(execution_arn): create_submission_record writes the
\* attribute as NULL.  The age threshold is taken to outlast the POST that
\* created the row, not the requests that came later.
RecRedrive(r) ==
  /\ rec = NoRun
  /\ NullIsMissing
  /\ r \in submissions \ subArn
  /\ \A h \in Handlers : ~Creating(h, r)
  /\ rec' = [pc |-> "start", rev |-> r, due |-> FALSE]
  /\ UNCHANGED <<tables, api, made, credits, exec, task, outcome, retries>>

RecStart ==
  /\ rec.pc = "start"
  /\ StartExecution(rec.rev)
  /\ RecGoto("writeSubArn")
  /\ UNCHANGED <<tables, api, made, credits, outcome, retries>>

RecWriteSubArn ==
  /\ rec.pc = "writeSubArn"
  /\ subArn' = subArn \cup {rec.rev}
  /\ RecGoto("writeRowArn")
  /\ UNCHANGED <<submissions, reservation, released, status, rowArn,
                 cancelAsked, reserved, api, made, credits, exec, task,
                 outcome, retries>>

RecWriteRowArn ==
  /\ rec.pc = "writeRowArn"
  /\ rowArn' = rowArn \cup {rec.rev}
  /\ rec' = NoRun
  /\ UNCHANGED <<submissions, subArn, reservation, released, status,
                 cancelAsked, reserved, api, made, credits, exec, task,
                 outcome, retries>>

RecCrash ==
  /\ rec # NoRun
  /\ rec' = NoRun
  /\ UNCHANGED <<tables, api, made, credits, exec, task, outcome, retries>>

RecRun ==
  \/ RecLookup \/ RecTransition \/ RecSettle \/ RecFlag
  \/ RecStart \/ RecWriteSubArn \/ RecWriteRowArn
  \/ RecCrash

Reconcile ==
  \/ \E r \in Reviews : RecPick(r) \/ RecRedrive(r)
  \/ RecRun

-----------------------------------------------------------------------------
Next ==
  \/ \E h \in Handlers : Post(h) \/ Cancel(h)
  \/ \E r \in Reviews : Pipeline(r)
  \/ Reconcile

Spec == Init /\ [][Next]_vars

\* Step Functions drives an execution it is running; a POST that creates a
\* submission goes on or fails, as every call it makes is timed; EventBridge
\* runs the reconciler for ever, and a run that keeps being killed is not
\* killed at the same call every time.  Nothing more is assumed of clients.
Fairness ==
  /\ \A r \in Reviews : /\ WF_vars(Running(r) /\ Pipeline(r))
                        /\ SF_vars(RecPick(r))
                        /\ SF_vars(RecRedrive(r))
  /\ \A h \in Handlers : WF_vars(api[h].pc \in CreatorPc /\ Post(h))
  /\ WF_vars(RecRun)
  /\ SF_vars(RecLookup) /\ SF_vars(RecTransition) /\ SF_vars(RecStart)

FairSpec == Spec /\ Fairness

=============================================================================
