-------------------------- MODULE AwsReviewProofs --------------------------
(***************************************************************************)
(* Theorems about the AWS deployment, for any number of reviews, requests  *)
(* and persist retries, overlapping client retries or not, and either      *)
(* reading of a NULL attribute; the last three where no client retries     *)
(* while its first request still runs.                                     *)
(***************************************************************************)
EXTENDS AwsReviewProps, SubmissionProofs

\* The persist Lambda runs on a decision, and DONE is what was decided.
Decided ==
  \A r \in Reviews :
    /\ exec[r] = "none" => task[r] = "none"
    /\ task[r] \in PersistPc => outcome[r] # "none"
    /\ status[r] = "DONE" =>
         /\ outcome[r] = "DONE"
         /\ task[r] \in PersistPc \cup {"tail", "catch", "over"}
    /\ status[r] # "QUARANTINED"

\* Whoever is about to settle or to flag has read a reservation, and
\* whoever is about to start an execution has read a submission.
HasRow ==
  /\ \A r \in Reviews : task[r] \in {"settle", "flag"} => r \in reservation
  /\ rec.due \/ rec.pc \in {"settle", "flag"} => rec.rev \in reservation
  /\ rec.pc \in {"start", "writeSubArn"} => rec.rev \in submissions

\* A flag is written after a credit.
CreditBeforeFlag ==
  /\ \A h \in Handlers : At(h, "flag") => credits[api[h].rev] >= 1
  /\ \A r \in Reviews : task[r] = "flag" => credits[r] >= 1
  /\ rec.pc = "flag" => credits[rec.rev] >= 1
  /\ ReleasedMeansCredited

AwsInv ==
  /\ SubmissionInv
  /\ TypeOK
  /\ Decided
  /\ HasRow
  /\ CreditBeforeFlag

\* The empty tables satisfy the invariant.
LEMMA AwsInitInv == Init => AwsInv
<1> SUFFICES ASSUME Init PROVE AwsInv
  OBVIOUS
<1>1. SubmissionInv
  BY InitInv DEF Init
<1>2. TypeOK
  BY <1>1, PersistRetryAssumption
  DEF Init, TypeOK, SubmissionInv, RecState, ExecStatus, Task
<1>3. Decided /\ HasRow /\ CreditBeforeFlag
  BY DEF Init, SubmissionInit, Decided, HasRow, CreditBeforeFlag, PersistPc,
         NoRun, Idle, At, ReleasedMeansCredited
<1> QED
  BY <1>1, <1>2, <1>3 DEF AwsInv

\* What Submission's invariant says survives the cancel route.
LEMMA CancelKeepsSubmissionInv ==
  ASSUME NEW h \in Handlers, AwsInv, Cancel(h)
  PROVE  SubmissionInv'
<1> DEFINE Control == RowBehindPost /\ OneCreator /\ NothingYet
                        /\ CancelHasReservation /\ ReservedOnce
           TypedApi == api \in [Handlers -> ApiState]
<1>0. /\ SubmissionTypeOK /\ Control /\ TypedApi
      /\ api[h] # Idle => /\ api[h] \in [pc : PostPc \cup CancelPc, rev : Reviews]
                          /\ api[h].rev \in Reviews
  BY DEF AwsInv, SubmissionInv, SubmissionTypeOK, ApiState, Idle
<1>1. ASSUME NEW pc \in CancelPc, api[h] # Idle,
             api' = [api EXCEPT ![h].pc = pc],
             pc \in {"settle", "flag"} => api[h].rev \in reservation,
             UNCHANGED <<submissions, made>>, reservation' = reservation
      PROVE  Control' /\ TypedApi'
  <2>1. TypedApi'
    BY <1>0, <1>1 DEF ApiState
  <2>2. /\ api'[h].pc = pc /\ api'[h].rev = api[h].rev
        /\ \A g \in Handlers : g # h => api'[g] = api[g]
    BY <1>0, <1>1
  <2> QED
    BY <1>0, <1>1, <2>1, <2>2
    DEF RowBehindPost, OneCreator, NothingYet, CancelHasReservation,
        ReservedOnce, Creating, At, BehindRow, CreatorPc, CancelPc
<1>2. ASSUME api' = [api EXCEPT ![h] = Idle],
             UNCHANGED <<submissions, made>>, reservation' = reservation
      PROVE  Control' /\ TypedApi'
  BY <1>0, <1>2
  DEF ApiState, RowBehindPost, OneCreator, NothingYet, CancelHasReservation,
      ReservedOnce, Creating, At, BehindRow, CreatorPc, Idle
<1>3. CASE \E r \in Reviews : CancelBegin(h, r)
  <2>1. PICK r \in Reviews : CancelBegin(h, r)
    BY <1>3
  <2>2. /\ api' = [api EXCEPT ![h] = [pc |-> "intent", rev |-> r]]
        /\ UNCHANGED <<submissions, subArn, reservation, released, status, rowArn,
                        cancelAsked, reserved, made, credits>>
    BY <2>1 DEF CancelBegin, tables
  <2>3. TypedApi'
    BY <1>0, <2>2 DEF ApiState, CancelPc
  <2>4. Control'
    BY <1>0, <2>2
    DEF RowBehindPost, OneCreator, NothingYet, CancelHasReservation,
        ReservedOnce, Creating, At, BehindRow, CreatorPc
  <2> QED
    BY <1>0, <2>2, <2>3, <2>4 DEF SubmissionInv, SubmissionTypeOK
<1>4. CASE CancelIntent(h)
  <2>1. /\ api[h] # Idle
        /\ \/ api' = [api EXCEPT ![h].pc = "stop"]
           \/ api' = [api EXCEPT ![h] = Idle]
        /\ UNCHANGED <<submissions, subArn, reservation, released, status, rowArn,
                        reserved, made, credits>>
    BY <1>4 DEF CancelIntent, At, Goto, Return, Idle
  <2>2. cancelAsked' \subseteq Reviews
    BY <1>0, <1>4, <2>1 DEF CancelIntent, StampCancel, SubmissionTypeOK
  <2>3. Control' /\ TypedApi'
    BY <1>1, <1>2, <2>1 DEF CancelPc
  <2> QED
    BY <1>0, <2>1, <2>2, <2>3 DEF SubmissionInv, SubmissionTypeOK
<1>5. CASE CancelStop(h)
  <2>1. /\ api[h] # Idle
        /\ \/ api' = [api EXCEPT ![h].pc = "mark"]
           \/ api' = [api EXCEPT ![h] = Idle]
        /\ UNCHANGED <<submissions, subArn, reservation, released, status, rowArn,
                        cancelAsked, reserved, made, credits>>
    BY <1>5 DEF CancelStop, At, Goto, Return, Idle, tables
  <2>2. Control' /\ TypedApi'
    BY <1>1, <1>2, <2>1 DEF CancelPc
  <2> QED
    BY <1>0, <2>1, <2>2 DEF SubmissionInv, SubmissionTypeOK
<1>6. CASE CancelMark(h)
  <2>1. /\ api[h] # Idle
        /\ api' = [api EXCEPT ![h].pc = "lookup"]
        /\ UNCHANGED <<submissions, subArn, reservation, released, rowArn,
                        cancelAsked, reserved, made, credits>>
    BY <1>6 DEF CancelMark, At, Goto, Idle
  <2>2. Control' /\ TypedApi'
    BY <1>1, <2>1 DEF CancelPc
  <2>3. status' \in [Reviews -> Status]
    BY <1>0, <1>6 DEF CancelMark, MarkCancelled, SubmissionTypeOK, Status, Terminal
  <2> QED
    BY <1>0, <2>1, <2>2, <2>3 DEF SubmissionInv, SubmissionTypeOK
<1>7. CASE CancelLookup(h)
  <2>1. /\ api[h] # Idle
        /\ \/ api' = [api EXCEPT ![h].pc = "settle"] /\ api[h].rev \in reservation
           \/ api' = [api EXCEPT ![h] = Idle]
        /\ UNCHANGED <<submissions, subArn, reservation, released, status, rowArn,
                        cancelAsked, reserved, made, credits>>
    BY <1>7 DEF CancelLookup, SettlementDue, At, Goto, Return, Idle, tables
  <2>2. Control' /\ TypedApi'
    BY <1>1, <1>2, <2>1 DEF CancelPc
  <2> QED
    BY <1>0, <2>1, <2>2 DEF SubmissionInv, SubmissionTypeOK
<1>8. CASE CancelSettle(h)
  <2>1. /\ api[h] # Idle /\ api[h].rev \in reservation
        /\ api' = [api EXCEPT ![h].pc = "flag"]
        /\ UNCHANGED <<submissions, subArn, reservation, released, status, rowArn,
                        cancelAsked, made>>
    BY <1>0, <1>8 DEF CancelSettle, CancelHasReservation, At, Goto, Idle
  <2>2. Control' /\ TypedApi'
    BY <1>1, <2>1 DEF CancelPc
  <2>3. reserved' \in Int /\ credits' \in [Reviews -> Nat]
    BY <1>0, <1>8, <2>1, SpendAssumption
    DEF CancelSettle, SettleSpend, SubmissionTypeOK
  <2> QED
    BY <1>0, <2>1, <2>2, <2>3 DEF SubmissionInv, SubmissionTypeOK
<1>9. CASE CancelFlag(h)
  <2>1. /\ api[h] # Idle /\ api[h].rev \in reservation
        /\ api' = [api EXCEPT ![h] = Idle]
        /\ released' = released \cup {api[h].rev}
        /\ UNCHANGED <<submissions, subArn, reservation, status, rowArn,
                        cancelAsked, reserved, made, credits>>
    BY <1>0, <1>9
    DEF CancelFlag, CancelHasReservation, FlagReleased, At, Return, Idle
  <2>2. Control' /\ TypedApi'
    BY <1>2, <2>1
  <2> QED
    BY <1>0, <2>1, <2>2 DEF SubmissionInv, SubmissionTypeOK
<1> QED
  BY <1>3, <1>4, <1>5, <1>6, <1>7, <1>8, <1>9 DEF Cancel

\* ... and every step of the executor and of the reconciler, which leave the
\* requests, the submission rows and the reserve history alone.
LEMMA BackgroundKeepsSubmissionInv ==
  ASSUME AwsInv,
         (\E r \in Reviews : Pipeline(r)) \/ Reconcile
  PROVE  SubmissionInv'
<1> USE SpendAssumption
    DEF AwsInv, SubmissionInv, SubmissionTypeOK, tables
<1>0. SubmissionTypeOK' /\ UNCHANGED <<submissions, api, made>>
        /\ reservation \subseteq reservation' => SubmissionInv'
  BY DEF RowBehindPost, OneCreator, NothingYet, CancelHasReservation,
         ReservedOnce, Creating, At
<1>1. ASSUME NEW r \in Reviews, Pipeline(r)
      PROVE  SubmissionTypeOK' /\ UNCHANGED <<submissions, api, made, reservation>>
  <2>1. CASE IntakeDone(r) \/ ReviewDone(r) \/ PersistLookup(r) \/ PersistRetry(r)
             \/ TailDone(r) \/ StageFails(r) \/ TransitionFails(r)
             \/ ExecutionTimeout(r)
    BY <2>1 DEF IntakeDone, ReviewDone, PersistLookup, PersistRetry, TailDone,
                StageFails, TransitionFails, ExecutionTimeout
  <2>2. CASE MarkRunning(r) \/ TransitionToError(r)
    BY <2>2 DEF MarkRunning, TransitionToError, Status, NonTerminal, Terminal
  <2>3. CASE PersistTerminal(r)
    BY <2>3 DEF PersistTerminal, Decided, PersistPc, TypeOK, Status, Terminal
  <2>4. CASE PersistSettle(r)
    BY <2>4 DEF PersistSettle, SettleSpend
  <2>5. CASE PersistFlag(r)
    BY <2>5 DEF PersistFlag, FlagReleased, HasRow
  <2> QED
    BY <1>1, <2>1, <2>2, <2>3, <2>4, <2>5 DEF Pipeline
<1>2. ASSUME Reconcile
      PROVE  SubmissionTypeOK' /\ UNCHANGED <<submissions, api, made, reservation>>
  <2>1. CASE (\E r \in Reviews : RecPick(r) \/ RecRedrive(r)) \/ RecLookup
             \/ RecStart \/ RecCrash
    BY <2>1 DEF RecPick, RecRedrive, RecLookup, RecStart, RecCrash
  <2>2. rec # NoRun => rec.rev \in Reviews
    BY DEF TypeOK, RecState
  <2>3. CASE RecTransition
    BY <2>2, <2>3 DEF RecTransition, Status, Terminal, NoRun
  <2>4. CASE RecSettle
    BY <2>2, <2>4 DEF RecSettle, SettleSpend, NoRun
  <2>5. CASE RecFlag
    BY <2>2, <2>5 DEF RecFlag, FlagReleased, HasRow, NoRun
  <2>6. CASE RecWriteSubArn
    BY <2>2, <2>6 DEF RecWriteSubArn, HasRow, NoRun
  <2>7. CASE RecWriteRowArn
    BY <2>2, <2>7 DEF RecWriteRowArn, NoRun
  <2> QED
    BY <1>2, <2>1, <2>3, <2>4, <2>5, <2>6, <2>7 DEF Reconcile, RecRun
<1> QED
  BY <1>0, <1>1, <1>2

\* The requests, the rows and the reserve history stay related as in the API
\* alone: no other component reserves, or erases a submission.
LEMMA SubmissionInvStep == AwsInv /\ [Next]_vars => SubmissionInv'
<1> SUFFICES ASSUME AwsInv, [Next]_vars PROVE SubmissionInv'
  OBVIOUS
<1>1. CASE UNCHANGED vars
  BY <1>1
  DEF AwsInv, vars, tables, SubmissionInv, SubmissionTypeOK, RowBehindPost,
      OneCreator, NothingYet, CancelHasReservation, ReservedOnce, Creating, At
<1>2. CASE \E h \in Handlers : Post(h)
  BY <1>2, ApiStepInv DEF AwsInv, Post, PostStart, ApiStep
<1>3. CASE \E h \in Handlers : Cancel(h)
  BY <1>3, CancelKeepsSubmissionInv
<1> QED
  BY <1>1, <1>2, <1>3, BackgroundKeepsSubmissionInv DEF Next

\* Every action of the deployment keeps the types of all the variables.
LEMMA TypeOKStep == AwsInv /\ [Next]_vars => TypeOK'
<1> SUFFICES ASSUME AwsInv, [Next]_vars PROVE TypeOK'
  OBVIOUS
<1> USE PersistRetryAssumption DEF AwsInv, TypeOK, awsVars
<1>0. SubmissionTypeOK'
  BY SubmissionInvStep DEF SubmissionInv
<1>1. CASE UNCHANGED vars
  BY <1>0, <1>1 DEF vars
<1>2. ASSUME NEW h \in Handlers, Post(h)
      PROVE  TypeOK'
  <2>1. CASE PostStep(h) /\ UNCHANGED awsVars
    BY <1>0, <2>1
  <2>2. CASE PostStart(h)
    BY <1>0, <2>2
    DEF PostStart, StartExecution, ExecStatus, Task
  <2> QED
    BY <1>2, <2>1, <2>2 DEF Post
<1>3. ASSUME NEW h \in Handlers, Cancel(h)
      PROVE  TypeOK'
  <2>0. api[h] # Idle => api[h].rev \in Reviews
    BY DEF SubmissionTypeOK, ApiState
  <2>1. CASE (\E r \in Reviews : CancelBegin(h, r)) \/ CancelIntent(h)
             \/ CancelMark(h) \/ CancelSettle(h)
    BY <1>0, <2>1 DEF CancelBegin, CancelIntent, CancelMark, CancelSettle
  <2>2. CASE CancelStop(h)
    BY <1>0, <2>2 DEF CancelStop, ExecStatus, Dead
  <2>3. CASE CancelLookup(h) \/ CancelFlag(h)
    BY <1>0, <2>0, <2>3 DEF CancelLookup, CancelFlag, At, Idle
  <2> QED
    BY <1>3, <2>1, <2>2, <2>3 DEF Cancel
<1>4. ASSUME NEW r \in Reviews, Pipeline(r)
      PROVE  TypeOK'
  <2>1. CASE IntakeDone(r) \/ MarkRunning(r) \/ PersistTerminal(r)
             \/ PersistLookup(r) \/ PersistSettle(r) \/ PersistFlag(r)
             \/ StageFails(r)
    BY <1>0, <2>1
    DEF IntakeDone, MarkRunning, PersistTerminal, PersistLookup, PersistSettle,
        PersistFlag, StageFails, EnterStage, Task, PersistPc
  <2>2. CASE ReviewDone(r)
    BY <1>0, <2>2 DEF ReviewDone, EnterStage, Task, PersistPc
  <2>3. CASE PersistRetry(r)
    BY <1>0, <2>3 DEF PersistRetry, Task, PersistPc
  <2>4. CASE TailDone(r) \/ TransitionToError(r) \/ TransitionFails(r)
             \/ ExecutionTimeout(r)
    BY <1>0, <2>4
    DEF TailDone, TransitionToError, TransitionFails, ExecutionTimeout, Task,
        ExecStatus, Dead
  <2> QED
    BY <1>4, <2>1, <2>2, <2>3, <2>4 DEF Pipeline
<1>5. ASSUME Reconcile
      PROVE  TypeOK'
  <2>0. rec # NoRun =>
          rec \in [pc : {"lookup", "transition", "settle", "flag", "start",
                        "writeSubArn", "writeRowArn"},
                  rev : Reviews, due : BOOLEAN]
    BY DEF RecState
  <2>1. CASE \E r \in Reviews : RecPick(r) \/ RecRedrive(r)
    <3>1. PICK r \in Reviews : RecPick(r) \/ RecRedrive(r)
      BY <2>1
    <3>2. \/ rec' = [pc |-> "lookup", rev |-> r, due |-> FALSE]
          \/ rec' = [pc |-> "start", rev |-> r, due |-> FALSE]
      BY <3>1 DEF RecPick, RecRedrive
    <3>3. ASSUME NEW pc \in {"lookup", "start"}, NEW due \in BOOLEAN
          PROVE  [pc |-> pc, rev |-> r, due |-> due] \in RecState
      BY DEF RecState
    <3>4. rec' \in RecState
      BY <3>2, <3>3
    <3>5. UNCHANGED <<exec, task, outcome, retries>>
      BY <3>1 DEF RecPick, RecRedrive
    <3> QED
      BY <1>0, <3>4, <3>5
  <2>2. CASE RecLookup \/ RecTransition \/ RecSettle \/ RecFlag
    <3>1. rec # NoRun
      BY <2>2 DEF RecLookup, RecTransition, RecSettle, RecFlag, NoRun
    <3>2. SettlementDue(rec.rev) \in BOOLEAN
      BY DEF SettlementDue
    <3>3. rec' \in RecState
      BY <2>0, <2>2, <3>1, <3>2
      DEF RecLookup, RecTransition, RecSettle, RecFlag, RecGoto, RecState
    <3> QED
      BY <1>0, <2>2, <3>3 DEF RecLookup, RecTransition, RecSettle, RecFlag
  <2>3. CASE RecStart
    BY <1>0, <2>3
    DEF RecStart, StartExecution, RecGoto, RecState, NoRun, ExecStatus, Task
  <2>4. CASE RecWriteSubArn \/ RecWriteRowArn \/ RecCrash
    BY <1>0, <2>4
    DEF RecWriteSubArn, RecWriteRowArn, RecCrash, RecGoto, RecState, NoRun
  <2> QED
    BY <1>5, <2>1, <2>2, <2>3, <2>4 DEF Reconcile, RecRun
<1> QED
  BY <1>1, <1>2, <1>3, <1>4, <1>5 DEF Next

\* Nobody unflags a reservation or takes a credit back.
LEMMA OnlyMore ==
  AwsInv /\ [Next]_vars =>
    /\ submissions \subseteq submissions'
    /\ reservation \subseteq reservation'
    /\ \A r \in Reviews : credits[r] <= credits'[r]
<1> SUFFICES ASSUME AwsInv, [Next]_vars
             PROVE  /\ submissions \subseteq submissions'
                    /\ reservation \subseteq reservation'
                    /\ \A r \in Reviews : credits[r] <= credits'[r]
  OBVIOUS
<1>1. credits \in [Reviews -> Nat]
  BY DEF AwsInv, SubmissionInv, SubmissionTypeOK
<1>2. CASE UNCHANGED vars
  BY <1>1, <1>2 DEF vars, tables
<1>3. ASSUME NEW h \in Handlers, Post(h)
      PROVE  /\ submissions \subseteq submissions'
             /\ reservation \subseteq reservation'
             /\ credits' = credits
  BY <1>3
  DEF Post, PostStart, CallStart, PostStep, PostBegin, Probe, Create, Reserve,
      RecordReservation, CreateReviewRow, WriteSubmissionArn, WriteRowArn,
      HandlerFails, tables
<1>4. ASSUME NEW h \in Handlers, Cancel(h)
      PROVE  /\ UNCHANGED <<submissions, reservation>>
             /\ credits' = credits
                \/ credits' = [credits EXCEPT ![api[h].rev] = @ + 1]
  BY <1>4
  DEF Cancel, CancelBegin, CancelIntent, CancelStop, CancelMark, CancelLookup,
      CancelSettle, CancelFlag, SettleSpend, tables
<1>5. ASSUME NEW r \in Reviews, Pipeline(r)
      PROVE  /\ UNCHANGED <<submissions, reservation>>
             /\ credits' = credits \/ credits' = [credits EXCEPT ![r] = @ + 1]
  BY <1>5
  DEF Pipeline, IntakeDone, MarkRunning, ReviewDone, PersistTerminal,
      PersistLookup, PersistSettle, PersistFlag, PersistRetry, TailDone,
      StageFails, TransitionToError, TransitionFails, ExecutionTimeout,
      SettleSpend, tables
<1>6. ASSUME Reconcile
      PROVE  /\ UNCHANGED <<submissions, reservation>>
             /\ credits' = credits \/ credits' = [credits EXCEPT ![rec.rev] = @ + 1]
  BY <1>6
  DEF Reconcile, RecRun, RecPick, RecRedrive, RecLookup, RecTransition,
      RecSettle, RecFlag, RecStart, RecWriteSubArn, RecWriteRowArn, RecCrash,
      SettleSpend, tables
<1>7. \A s : credits' = [credits EXCEPT ![s] = @ + 1] =>
              \A r \in Reviews : credits[r] <= credits'[r]
  BY <1>1
<1>8. credits' = credits => \A r \in Reviews : credits[r] <= credits'[r]
  BY <1>1
<1> QED
  BY <1>2, <1>3, <1>4, <1>5, <1>6, <1>7, <1>8 DEF Next

\* The terminal write never runs without a decision, in the execution or in a
\* Lambda that outlived it.
LEMMA DecidedStep == AwsInv /\ [Next]_vars => Decided'
<1> SUFFICES ASSUME AwsInv, [Next]_vars PROVE Decided'
  OBVIOUS
<1>0. /\ status \in [Reviews -> Status] /\ task \in [Reviews -> Task]
      /\ outcome \in [Reviews -> {"none", "DONE", "ERROR"}]
      /\ exec \in [Reviews -> ExecStatus]
      /\ \A h \in Handlers : api[h] # Idle => api[h].rev \in Reviews
      /\ rec # NoRun => rec.rev \in Reviews
      /\ Decided
  BY DEF AwsInv, SubmissionInv, TypeOK, SubmissionTypeOK, ApiState, RecState
<1>1. CASE UNCHANGED <<status, task, outcome, exec>>
  BY <1>0, <1>1 DEF Decided
\* The writes to a status that are not DONE or QUARANTINED.
<1>2. ASSUME NEW r \in Reviews, NEW s \in {"PENDING", "RUNNING", "ERROR", "CANCELLED"},
             status' = [status EXCEPT ![r] = s], UNCHANGED <<outcome, task, exec>>
      PROVE  Decided'
  BY <1>0, <1>2 DEF Decided
<1>3. ASSUME NEW r \in Reviews, StartExecution(r), UNCHANGED <<status, outcome>>
      PROVE  Decided'
  BY <1>0, <1>3 DEF Decided, StartExecution, PersistPc
\* The executor's moves that leave outcome and status alone.
<1>4. ASSUME NEW r \in Reviews, NEW t \in Task,
             task[r] \in PersistPc \cup {"tail", "catch", "over"} =>
               t \in PersistPc \cup {"tail", "catch", "over"},
             t \in PersistPc => outcome[r] # "none",
             task' = [task EXCEPT ![r] = t], exec[r] # "none",
             UNCHANGED <<status, outcome, exec>>
      PROVE  Decided'
  BY <1>0, <1>4 DEF Decided
<1>5. ASSUME NEW r \in Reviews, NEW x \in ExecStatus \ {"none"},
             exec' = [exec EXCEPT ![r] = x],
             task' = task \/ task' = [task EXCEPT ![r] = "over"],
             UNCHANGED outcome,
             \/ UNCHANGED status
             \/ status' = [status EXCEPT ![r] = "ERROR"]
      PROVE  Decided'
  BY <1>0, <1>5 DEF Decided, PersistPc
<1>6. ASSUME NEW h \in Handlers, Post(h)
      PROVE  Decided'
  <2>1. CASE CreateReviewRow(h) /\ UNCHANGED awsVars
    <3>1. /\ api[h].rev \in Reviews
          /\ status' = [status EXCEPT ![api[h].rev] = "PENDING"]
          /\ UNCHANGED <<outcome, task, exec>>
      BY <1>0, <2>1 DEF CreateReviewRow, At, Idle, awsVars
    <3> QED
      BY <1>2, <3>1
  <2>2. CASE PostStart(h)
    BY <1>0, <1>3, <2>2 DEF PostStart, CallStart, At, Idle, tables
  <2>3. ~CreateReviewRow(h) /\ ~PostStart(h) => UNCHANGED <<status, task, outcome, exec>>
    BY <1>6
    DEF Post, PostStep, PostBegin, Probe, Create, Reserve, RecordReservation,
        WriteSubmissionArn, WriteRowArn, HandlerFails, tables, awsVars
  <2> QED
    BY <1>1, <1>6, <2>1, <2>2, <2>3 DEF Post, PostStep
<1>7. ASSUME NEW h \in Handlers, Cancel(h)
      PROVE  Decided'
  <2>1. CASE CancelStop(h)
    BY <1>0, <1>1, <1>5, <2>1 DEF CancelStop, At, Idle, tables, ExecStatus, Dead
  <2>2. CASE CancelMark(h)
    BY <1>0, <1>1, <1>2, <2>2 DEF CancelMark, MarkCancelled, At, Idle, awsVars
  <2>3. ~CancelStop(h) /\ ~CancelMark(h) => UNCHANGED <<status, task, outcome, exec>>
    BY <1>7
    DEF Cancel, CancelBegin, CancelIntent, CancelLookup, CancelSettle,
        CancelFlag, tables, awsVars
  <2> QED
    BY <1>1, <2>1, <2>2, <2>3
<1>8. ASSUME NEW r \in Reviews, Pipeline(r)
      PROVE  Decided'
  <2>0. Running(r) \/ task[r] # "none" => exec[r] # "none"
    BY <1>0 DEF Decided, Running
  <2>1. CASE IntakeDone(r)
    BY <1>0, <1>4, <2>0, <2>1 DEF IntakeDone, EnterStage, Task, PersistPc, tables
  <2>2. CASE MarkRunning(r)
    BY <1>0, <2>2 DEF MarkRunning, EnterStage, Decided, PersistPc
  <2>3. CASE ReviewDone(r)
    BY <1>0, <2>3 DEF ReviewDone, EnterStage, Decided, PersistPc, tables
  <2>4. CASE PersistTerminal(r)
    BY <1>0, <2>4 DEF PersistTerminal, Decided, PersistPc
  <2>5. CASE PersistLookup(r) \/ PersistFlag(r)
    BY <1>0, <1>4, <2>0, <2>5
    DEF PersistLookup, PersistFlag, EnterStage, Task, PersistPc, Decided, tables
  <2>6. CASE PersistSettle(r) \/ PersistRetry(r) \/ StageFails(r)
    BY <1>0, <1>4, <2>0, <2>6
    DEF PersistSettle, PersistRetry, StageFails, Task, PersistPc, Decided, tables
  <2>7. CASE TailDone(r) \/ TransitionFails(r) \/ ExecutionTimeout(r)
    BY <1>0, <1>5, <2>7
    DEF TailDone, TransitionFails, ExecutionTimeout, ExecStatus, Dead, tables
  <2>8. CASE TransitionToError(r)
    BY <1>0, <2>8 DEF TransitionToError, Decided, PersistPc
  <2> QED
    BY <1>8, <2>1, <2>2, <2>3, <2>4, <2>5, <2>6, <2>7, <2>8 DEF Pipeline
<1>9. ASSUME Reconcile
      PROVE  Decided'
  <2>1. CASE RecTransition
    BY <1>0, <1>1, <1>2, <2>1 DEF RecTransition, NoRun
  <2>2. CASE RecStart
    BY <1>0, <1>3, <2>2 DEF RecStart, NoRun, tables
  <2>3. ~RecTransition /\ ~RecStart => UNCHANGED <<status, task, outcome, exec>>
    BY <1>9
    DEF Reconcile, RecRun, RecPick, RecRedrive, RecLookup, RecSettle, RecFlag,
        RecWriteSubArn, RecWriteRowArn, RecCrash, tables
  <2> QED
    BY <1>1, <2>1, <2>2, <2>3
<1>10. CASE UNCHANGED vars
  BY <1>1, <1>10 DEF vars, tables, awsVars
<1> QED
  BY <1>6, <1>7, <1>8, <1>9, <1>10 DEF Next

\* Whoever works for a review works for one that was submitted.
LEMMA HasRowStep == AwsInv /\ [Next]_vars => HasRow'
<1> SUFFICES ASSUME AwsInv, [Next]_vars PROVE HasRow'
  OBVIOUS
<1>0. /\ task \in [Reviews -> Task]
      /\ HasRow
      /\ submissions \subseteq submissions'
      /\ reservation \subseteq reservation'
  BY OnlyMore DEF AwsInv, TypeOK
<1>1. ASSUME UNCHANGED <<task, rec>>
      PROVE  HasRow'
  BY <1>0, <1>1 DEF HasRow
<1>2. ASSUME NEW r \in Reviews, NEW t, task' = [task EXCEPT ![r] = t],
             t \in {"settle", "flag"} => r \in reservation, UNCHANGED rec
      PROVE  HasRow'
  BY <1>0, <1>2 DEF HasRow
<1>3. ASSUME NEW h \in Handlers, Post(h) \/ Cancel(h)
      PROVE  HasRow'
  <2>1. CASE PostStart(h)
    BY <1>0, <2>1 DEF PostStart, StartExecution, HasRow
  <2>2. ~PostStart(h) => UNCHANGED <<task, rec>>
    BY <1>3
    DEF Post, Cancel, CancelBegin, CancelIntent, CancelStop, CancelMark,
        CancelLookup, CancelSettle, CancelFlag, awsVars
  <2> QED
    BY <1>1, <2>1, <2>2
<1>4. ASSUME NEW r \in Reviews, Pipeline(r)
      PROVE  HasRow'
  <2>1. CASE ExecutionTimeout(r)
    BY <1>1, <2>1 DEF ExecutionTimeout
  <2>2. CASE PersistLookup(r)
    BY <1>0, <1>2, <2>2 DEF PersistLookup, SettlementDue, EnterStage
  <2>3. CASE PersistSettle(r)
    BY <1>0, <1>2, <2>3 DEF PersistSettle, HasRow
  <2>4. CASE IntakeDone(r) \/ MarkRunning(r) \/ ReviewDone(r) \/ PersistTerminal(r)
             \/ PersistFlag(r) \/ PersistRetry(r) \/ TailDone(r) \/ StageFails(r)
             \/ TransitionToError(r) \/ TransitionFails(r)
    BY <1>0, <1>2, <2>4
    DEF IntakeDone, MarkRunning, ReviewDone, PersistTerminal, PersistFlag,
        PersistRetry, TailDone, StageFails, TransitionToError, TransitionFails,
        EnterStage
  <2> QED
    BY <1>4, <2>1, <2>2, <2>3, <2>4 DEF Pipeline
<1>5. ASSUME Reconcile
      PROVE  HasRow'
  <2>1. CASE RecStart
    BY <1>0, <2>1 DEF RecStart, StartExecution, RecGoto, HasRow
  <2>2. CASE \E r \in Reviews : RecPick(r) \/ RecRedrive(r)
    BY <1>0, <2>2 DEF RecPick, RecRedrive, HasRow
  <2>3. CASE RecLookup
    BY <1>0, <2>3 DEF RecLookup, SettlementDue, HasRow, AwsInv, TypeOK, RecState, NoRun
  <2>4. CASE RecTransition \/ RecSettle \/ RecFlag \/ RecWriteSubArn
             \/ RecWriteRowArn \/ RecCrash
    BY <1>0, <2>4
    DEF RecTransition, RecSettle, RecFlag, RecWriteSubArn, RecWriteRowArn,
        RecCrash, RecGoto, NoRun, HasRow, AwsInv, TypeOK, RecState
  <2> QED
    BY <1>5, <2>1, <2>2, <2>3, <2>4 DEF Reconcile, RecRun
<1>6. CASE UNCHANGED vars
  BY <1>1, <1>6 DEF vars, awsVars
<1> QED
  BY <1>3, <1>4, <1>5, <1>6 DEF Next

\* Persist, the cancel route and the reconciler each credit before they flag.
LEMMA CreditStep == AwsInv /\ [Next]_vars => CreditBeforeFlag'
<1> SUFFICES ASSUME AwsInv, [Next]_vars PROVE CreditBeforeFlag'
  OBVIOUS
<1>0. /\ task \in [Reviews -> Task] /\ api \in [Handlers -> ApiState]
      /\ credits \in [Reviews -> Nat] /\ credits' \in [Reviews -> Nat]
      /\ released \subseteq Reviews
      /\ \A h \in Handlers : api[h] # Idle => api[h].rev \in Reviews
      /\ rec # NoRun => rec.rev \in Reviews
      /\ CreditBeforeFlag
      /\ \A r \in Reviews : credits[r] <= credits'[r]
  BY OnlyMore, SubmissionInvStep
  DEF AwsInv, SubmissionInv, TypeOK, SubmissionTypeOK, ApiState, RecState
\* Nobody newly at "flag", and the flags as they were.
<1>1. ASSUME UNCHANGED released,
             \A h \in Handlers : api'[h].pc = "flag" => api'[h] = api[h],
             \A r \in Reviews : task'[r] = "flag" => task[r] = "flag",
             rec'.pc = "flag" => rec' = rec
      PROVE  CreditBeforeFlag'
  BY <1>0, <1>1 DEF CreditBeforeFlag, ReleasedMeansCredited, At, Idle, NoRun
<1>2. ASSUME NEW h \in Handlers, Post(h)
      PROVE  CreditBeforeFlag'
  <2>1. UNCHANGED <<released, rec>>
    BY <1>2
    DEF Post, PostStart, CallStart, PostStep, PostBegin, Probe, Create, Reserve,
        RecordReservation, CreateReviewRow, WriteSubmissionArn, WriteRowArn,
        HandlerFails, tables, awsVars
  <2>2. \A r \in Reviews : task'[r] = "flag" => task[r] = "flag"
    BY <1>0, <1>2 DEF Post, PostStart, StartExecution, awsVars
  <2>3. /\ api[h] # Idle \/ \E r \in Reviews : PostBegin(h, r)
        /\ \/ api' = [api EXCEPT ![h] = Idle]
           \/ \E pc \in PostPc : api' = [api EXCEPT ![h].pc = pc]
           \/ \E r \in Reviews : api' = [api EXCEPT ![h] = [pc |-> "probe", rev |-> r]]
    BY <1>2
    DEF Post, PostStart, CallStart, PostStep, PostBegin, Probe, Create, Reserve,
        RecordReservation, CreateReviewRow, WriteSubmissionArn, WriteRowArn,
        HandlerFails, Goto, Return, At, Idle, PostPc, CreatorPc
  <2>4. CASE api' = [api EXCEPT ![h] = Idle]
    BY <1>0, <1>1, <2>1, <2>2, <2>4 DEF Idle
  <2>5. ASSUME NEW r \in Reviews, api' = [api EXCEPT ![h] = [pc |-> "probe", rev |-> r]]
        PROVE  CreditBeforeFlag'
    BY <1>0, <1>1, <2>1, <2>2, <2>5
  <2>6. ASSUME NEW pc \in PostPc, api' = [api EXCEPT ![h].pc = pc]
        PROVE  CreditBeforeFlag'
    <3>1. api[h] \in ApiState /\ pc # "flag"
      BY <1>0 DEF PostPc, CreatorPc
    <3>2. api'[h].pc # "flag"
      BY <1>0, <2>6, <3>1 DEF ApiState, Idle
    <3> QED
      BY <1>0, <1>1, <2>1, <2>2, <2>6, <3>2
  <2> QED
    BY <2>3, <2>4, <2>5, <2>6
<1>3. ASSUME NEW h \in Handlers, Cancel(h)
      PROVE  CreditBeforeFlag'
  <2>0. UNCHANGED <<task, rec>>
    BY <1>3
    DEF Cancel, CancelBegin, CancelIntent, CancelStop, CancelMark, CancelLookup,
        CancelSettle, CancelFlag, awsVars
  <2>1. CASE CancelSettle(h)
    BY <1>0, <2>0, <2>1
    DEF CancelSettle, SettleSpend, Goto, At, Idle, CreditBeforeFlag,
        ReleasedMeansCredited, NoRun
  <2>2. CASE CancelFlag(h)
    BY <1>0, <2>0, <2>2
    DEF CancelFlag, FlagReleased, Return, At, Idle, CreditBeforeFlag,
        ReleasedMeansCredited, NoRun
  <2>3. CASE (\E r \in Reviews : CancelBegin(h, r)) \/ CancelIntent(h)
             \/ CancelStop(h) \/ CancelMark(h) \/ CancelLookup(h)
    <3>1. /\ UNCHANGED released
          /\ \/ api' = [api EXCEPT ![h] = Idle]
             \/ \E pc \in CancelPc \ {"flag"} :
                  api[h] # Idle /\ api' = [api EXCEPT ![h].pc = pc]
             \/ \E r \in Reviews :
                  api' = [api EXCEPT ![h] = [pc |-> "intent", rev |-> r]]
      BY <2>3
      DEF CancelBegin, CancelIntent, CancelStop, CancelMark, CancelLookup, Goto,
          Return, At, Idle, tables, CancelPc
    <3>2. api'[h].pc # "flag"
      BY <1>0, <3>1 DEF ApiState, Idle
    <3>3. \A g \in Handlers : g # h => api'[g] = api[g]
      BY <1>0, <3>1
    <3> QED
      BY <1>1, <2>0, <3>1, <3>2, <3>3
  <2> QED
    BY <1>3, <2>1, <2>2, <2>3 DEF Cancel
<1>4. ASSUME NEW r \in Reviews, Pipeline(r)
      PROVE  CreditBeforeFlag'
  <2>0. UNCHANGED <<api, rec>>
    BY <1>4
    DEF Pipeline, IntakeDone, MarkRunning, ReviewDone, PersistTerminal,
        PersistLookup, PersistSettle, PersistFlag, PersistRetry, TailDone,
        StageFails, TransitionToError, TransitionFails, ExecutionTimeout
  <2>1. CASE PersistSettle(r)
    BY <1>0, <2>0, <2>1
    DEF PersistSettle, SettleSpend, CreditBeforeFlag, ReleasedMeansCredited, At,
        Idle, NoRun
  <2>2. CASE PersistFlag(r)
    BY <1>0, <2>0, <2>2
    DEF PersistFlag, FlagReleased, EnterStage, CreditBeforeFlag,
        ReleasedMeansCredited, At, Idle, NoRun
  <2>3. CASE IntakeDone(r) \/ MarkRunning(r) \/ ReviewDone(r) \/ PersistTerminal(r)
             \/ PersistLookup(r) \/ PersistRetry(r) \/ TailDone(r) \/ StageFails(r)
             \/ TransitionToError(r) \/ TransitionFails(r) \/ ExecutionTimeout(r)
    BY <1>0, <1>1, <2>0, <2>3
    DEF IntakeDone, MarkRunning, ReviewDone, PersistTerminal, PersistLookup,
        PersistRetry, TailDone, StageFails, TransitionToError, TransitionFails,
        ExecutionTimeout, EnterStage, tables
  <2> QED
    BY <1>4, <2>1, <2>2, <2>3 DEF Pipeline
<1>5. ASSUME Reconcile
      PROVE  CreditBeforeFlag'
  <2>1. CASE RecSettle
    BY <1>0, <2>1
    DEF RecSettle, SettleSpend, RecGoto, CreditBeforeFlag, ReleasedMeansCredited,
        At, Idle, NoRun
  <2>2. CASE RecFlag
    BY <1>0, <2>2
    DEF RecFlag, FlagReleased, CreditBeforeFlag, ReleasedMeansCredited, At, Idle,
        NoRun
  <2>3. CASE RecStart
    BY <1>0, <1>1, <2>3 DEF RecStart, StartExecution, RecGoto, NoRun, tables
  <2>4. CASE (\E r \in Reviews : RecPick(r) \/ RecRedrive(r)) \/ RecLookup
             \/ RecTransition \/ RecWriteSubArn \/ RecWriteRowArn \/ RecCrash
    <3>1. UNCHANGED <<released, api, task>>
      BY <2>4
      DEF RecPick, RecRedrive, RecLookup, RecTransition, RecWriteSubArn,
          RecWriteRowArn, RecCrash, tables
    <3>2. \/ \E r \in Reviews : RecPick(r) \/ RecRedrive(r)
          \/ rec' = NoRun
          \/ /\ rec # NoRun
             /\ RecLookup \/ RecGoto("settle") \/ RecGoto("writeRowArn")
      BY <2>4 DEF RecLookup, RecTransition, RecWriteSubArn, RecWriteRowArn, RecCrash, NoRun
    <3>3. rec # NoRun =>
            rec \in [pc : {"lookup", "transition", "settle", "flag", "start",
                          "writeSubArn", "writeRowArn"},
                    rev : Reviews, due : BOOLEAN]
      BY DEF AwsInv, TypeOK, RecState
    <3>4. ASSUME \E r \in Reviews : RecPick(r) \/ RecRedrive(r)
          PROVE  rec'.pc # "flag"
      BY <3>4 DEF RecPick, RecRedrive
    <3>5. ASSUME rec # NoRun, RecLookup \/ RecGoto("settle") \/ RecGoto("writeRowArn")
          PROVE  rec'.pc # "flag"
      BY <3>3, <3>5 DEF RecLookup, RecGoto
    <3> QED
      BY <1>1, <3>1, <3>2, <3>4, <3>5 DEF NoRun
  <2> QED
    BY <1>5, <2>1, <2>2, <2>3, <2>4 DEF Reconcile, RecRun
<1>6. CASE UNCHANGED vars
  BY <1>1, <1>6 DEF vars, tables, awsVars
<1> QED
  BY <1>2, <1>3, <1>4, <1>5, <1>6 DEF Next

\* The strengthened invariant holds of the whole deployment: POSTs, cancels,
\* the execution and the reconciler in any interleaving.
THEOREM AwsInvariant == Spec => []AwsInv
<1>1. AwsInv /\ [Next]_vars => AwsInv'
  BY SubmissionInvStep, TypeOKStep, DecidedStep, HasRowStep, CreditStep DEF AwsInv
<1> QED
  BY AwsInitInv, <1>1, PTL DEF Spec

\* Every variable of the deployment keeps its type, whatever interleaves.
THEOREM AwsTypeCorrect == Spec => []TypeOK
<1>1. AwsInv => TypeOK
  BY DEF AwsInv
<1> QED
  BY AwsInvariant, <1>1, PTL

\* However many reviews, requests, retries and reconciler runs interleave,
\* a reservation flagged released has been credited: no settler flags first.
THEOREM ReleasedIsCredited == Spec => []ReleasedMeansCredited
<1>1. AwsInv => ReleasedMeansCredited
  BY DEF AwsInv, CreditBeforeFlag
<1> QED
  BY AwsInvariant, <1>1, PTL

\* The deployment reserves at most once per review, executor, cancel route
\* and reconciler included.
THEOREM AwsReservesOnce == Spec => []ReservedOnce
<1>1. AwsInv => ReservedOnce
  BY DEF AwsInv, SubmissionInv
<1> QED
  BY AwsInvariant, <1>1, PTL

\* No conditional write of any component, in any order, moves a review out
\* of a terminal status once its first POST has put the row.
THEOREM TerminalIsFinal == Spec => TerminalFinal
<1>1. AwsInv /\ [Next]_vars =>
        [\A r \in Reviews :
           status[r] \in Terminal /\ (\A h \in Handlers : ~Creating(h, r))
             => status'[r] = status[r]]_vars
  <2> SUFFICES ASSUME AwsInv, Next, NEW r \in Reviews, status[r] \in Terminal,
                      \A h \in Handlers : ~Creating(h, r)
               PROVE  status'[r] = status[r]
    OBVIOUS
  <2>0. /\ status \in [Reviews -> Status]
        /\ status[r] = "DONE" => outcome[r] = "DONE"
        /\ status[r] # "QUARANTINED"
    BY DEF AwsInv, SubmissionInv, SubmissionTypeOK, Decided
  <2>1. ASSUME NEW h \in Handlers, Post(h)
        PROVE  status'[r] = status[r]
    <3>1. CASE CreateReviewRow(h)
      <4>1. api[h].rev # r
        BY <3>1 DEF CreateReviewRow, At, Creating, CreatorPc
      <4> QED
        BY <2>0, <3>1, <4>1 DEF CreateReviewRow
    <3>2. ~CreateReviewRow(h) => UNCHANGED status
      BY <2>1
      DEF Post, PostStart, CallStart, PostStep, PostBegin, Probe, Create, Reserve,
          RecordReservation, WriteSubmissionArn, WriteRowArn, HandlerFails, tables
    <3> QED
      BY <3>1, <3>2
  <2>2. ASSUME NEW h \in Handlers, Cancel(h)
        PROVE  status'[r] = status[r]
    <3>1. CASE CancelMark(h)
      BY <2>0, <3>1 DEF CancelMark, MarkCancelled, NonTerminal, Terminal
    <3>2. ~CancelMark(h) => UNCHANGED status
      BY <2>2
      DEF Cancel, CancelBegin, CancelIntent, CancelStop, CancelLookup,
          CancelSettle, CancelFlag, tables
    <3> QED
      BY <3>1, <3>2
  <2>3. ASSUME NEW s \in Reviews, Pipeline(s)
        PROVE  status'[r] = status[r]
    <3>1. CASE MarkRunning(s) \/ PersistTerminal(s) \/ TransitionToError(s)
      BY <2>0, <3>1 DEF MarkRunning, PersistTerminal, TransitionToError, Terminal
    <3>2. ~(MarkRunning(s) \/ PersistTerminal(s) \/ TransitionToError(s)) =>
            UNCHANGED status
      BY <2>3
      DEF Pipeline, IntakeDone, ReviewDone, PersistLookup, PersistSettle,
          PersistFlag, PersistRetry, TailDone, StageFails, TransitionFails,
          ExecutionTimeout, tables
    <3> QED
      BY <3>1, <3>2
  <2>4. ASSUME Reconcile
        PROVE  status'[r] = status[r]
    <3>1. CASE RecTransition
      BY <2>0, <3>1 DEF RecTransition, NonTerminal, Terminal
    <3>2. ~RecTransition => UNCHANGED status
      BY <2>4
      DEF Reconcile, RecRun, RecPick, RecRedrive, RecLookup, RecSettle, RecFlag,
          RecStart, RecWriteSubArn, RecWriteRowArn, RecCrash, tables
    <3> QED
      BY <3>1, <3>2
  <2> QED
    BY <2>1, <2>2, <2>3, <2>4 DEF Next
<1> QED
  BY AwsInvariant, <1>1, PTL DEF Spec, TerminalFinal

\* A review nobody submitted yet, or whose first POST still runs.
Fresh(r) == r \notin submissions \/ \E h \in Handlers : Creating(h, r)

\* Nothing is known of such a review but its submission: no row, no credit,
\* no execution, and the reconciler does not look at it.
FreshUntouched ==
  /\ \A r \in Reviews : Fresh(r) =>
       status[r] = "absent" /\ credits[r] = 0 /\ exec[r] = "none"
  /\ rec # NoRun => ~Fresh(rec.rev)

\* Whoever looks for a reservation to settle has seen, or written, the
\* terminal status.
SettlesTheEnded ==
  /\ \A h \in Handlers :
       /\ api[h].pc \in CancelPc => status[api[h].rev] # "absent"
       /\ api[h].pc \in {"lookup", "settle", "flag"} =>
            status[api[h].rev] \in Terminal
  /\ \A r \in Reviews :
       task[r] \in {"lookup", "settle", "flag"} => status[r] \in Terminal
  /\ rec.pc \in {"settle", "flag"} => status[rec.rev] \in Terminal
  /\ CreditedOnlyWhenOver

\* What holds besides while a client does not overlap its retries.
SerialInv ==
  /\ AwsInv
  /\ OnePost
  /\ FreshUntouched
  /\ SettlesTheEnded

\* Requests for one review follow one another, posts and cancels alike.
LEMMA OnePostStep ==
  ASSUME ~OverlappingRetries, AwsInv, OnePost, [Next]_vars
  PROVE  OnePost'
<1>0. /\ api \in [Handlers -> ApiState]
      /\ \A h \in Handlers : api[h] # Idle =>
           api[h] \in [pc : PostPc \cup CancelPc, rev : Reviews]
  BY DEF AwsInv, SubmissionInv, SubmissionTypeOK, ApiState
<1>1. CASE UNCHANGED api
  BY <1>1 DEF OnePost, Posting
<1>2. ASSUME NEW h \in Handlers, Post(h)
      PROVE  OnePost'
  <2>1. ApiStep(h)
    BY <1>2 DEF Post, PostStart, ApiStep
  <2>2. \A g \in Handlers : g # h => api'[g] = api[g]
    BY <1>0, <2>1
    DEF ApiStep, PostStep, PostBegin, Probe, Create, Reserve, RecordReservation,
        CreateReviewRow, WriteSubmissionArn, WriteRowArn, HandlerFails, CallStart,
        Goto, Return
  <2>3. \A r \in Reviews :
          Posting(h, r)' => Posting(h, r) \/ \A g \in Handlers : ~Posting(g, r)
    BY <2>1, PostsKeep DEF AwsInv
  <2> QED
    BY <2>2, <2>3 DEF OnePost, Posting
<1>3. ASSUME NEW h \in Handlers, Cancel(h)
      PROVE  OnePost'
  <2>1. \A g \in Handlers : g # h => api'[g] = api[g]
    BY <1>0, <1>3
    DEF Cancel, CancelBegin, CancelIntent, CancelStop, CancelMark, CancelLookup,
        CancelSettle, CancelFlag, Goto, Return
  <2>2. api'[h] = Idle \/ api'[h].pc \in CancelPc
    BY <1>0, <1>3
    DEF Cancel, CancelBegin, CancelIntent, CancelStop, CancelMark, CancelLookup,
        CancelSettle, CancelFlag, Goto, Return, At, Idle, CancelPc
  <2>3. \A r \in Reviews : ~Posting(h, r)'
    BY <2>2 DEF Posting, Idle, CancelPc, PostPc, CreatorPc
  <2> QED
    BY <2>1, <2>3 DEF OnePost, Posting
<1>4. ASSUME NEW r \in Reviews, Pipeline(r)
      PROVE  UNCHANGED api
  BY <1>4
  DEF Pipeline, IntakeDone, MarkRunning, ReviewDone, PersistTerminal,
      PersistLookup, PersistSettle, PersistFlag, PersistRetry, TailDone,
      StageFails, TransitionToError, TransitionFails, ExecutionTimeout
<1>5. ASSUME Reconcile
      PROVE  UNCHANGED api
  BY <1>5
  DEF Reconcile, RecRun, RecPick, RecRedrive, RecLookup, RecTransition,
      RecSettle, RecFlag, RecStart, RecWriteSubArn, RecWriteRowArn, RecCrash
<1> QED
  BY <1>1, <1>2, <1>3, <1>4, <1>5 DEF Next, vars

\* A review becomes fresh to nobody: only the winner of the conditional
\* create starts creating, and its review was fresh already.
LEMMA FreshWanes ==
  ASSUME ~OverlappingRetries, AwsInv, [Next]_vars, NEW r \in Reviews, Fresh(r)'
  PROVE  Fresh(r)
<1>0. /\ api \in [Handlers -> ApiState]
      /\ \A h \in Handlers : api[h] # Idle =>
           api[h] \in [pc : PostPc \cup CancelPc, rev : Reviews]
      /\ submissions \subseteq submissions'
  BY OnlyMore DEF AwsInv, SubmissionInv, SubmissionTypeOK, ApiState
<1>1. CASE r \notin submissions'
  BY <1>0, <1>1 DEF Fresh
<1>2. ASSUME NEW h \in Handlers, Creating(h, r)'
      PROVE  Fresh(r)
  <2>1. CASE api'[h] = api[h]
    BY <1>2, <2>1 DEF Creating, Fresh
  <2>2. ASSUME NEW g \in Handlers, Post(g), api'[h] # api[h]
        PROVE  Fresh(r)
    <3>1. ApiStep(g)
      BY <2>2 DEF Post, PostStart, ApiStep
    <3>2. g = h
      BY <1>0, <2>2, <3>1
      DEF ApiStep, PostStep, PostBegin, Probe, Create, Reserve,
          RecordReservation, CreateReviewRow, WriteSubmissionArn, WriteRowArn,
          HandlerFails, CallStart, Goto, Return
    <3> QED
      BY <1>2, <3>1, <3>2, PostsKeep DEF AwsInv, Fresh
  <2>3. ASSUME NEW g \in Handlers, Cancel(g)
        PROVE  api'[h] = api[h]
    <3>1. \A k \in Handlers : k # g => api'[k] = api[k]
      BY <1>0, <2>3
      DEF Cancel, CancelBegin, CancelIntent, CancelStop, CancelMark,
          CancelLookup, CancelSettle, CancelFlag, Goto, Return
    <3>2. api'[g] = Idle \/ api'[g].pc \in CancelPc
      BY <1>0, <2>3
      DEF Cancel, CancelBegin, CancelIntent, CancelStop, CancelMark,
          CancelLookup, CancelSettle, CancelFlag, Goto, Return, At, Idle, CancelPc
    <3> QED
      BY <1>2, <3>1, <3>2 DEF Creating, Idle, CancelPc, CreatorPc
  <2>4. ASSUME NEW s \in Reviews, Pipeline(s)
        PROVE  api' = api
    BY <2>4
    DEF Pipeline, IntakeDone, MarkRunning, ReviewDone, PersistTerminal,
        PersistLookup, PersistSettle, PersistFlag, PersistRetry, TailDone,
        StageFails, TransitionToError, TransitionFails, ExecutionTimeout
  <2>5. ASSUME Reconcile
        PROVE  api' = api
    BY <2>5
    DEF Reconcile, RecRun, RecPick, RecRedrive, RecLookup, RecTransition,
        RecSettle, RecFlag, RecStart, RecWriteSubArn, RecWriteRowArn, RecCrash
  <2> QED
    BY <2>1, <2>2, <2>3, <2>4, <2>5 DEF Next, vars
<1> QED
  BY <1>1, <1>2 DEF Fresh

\* Every write any component makes to a status is a step of the lifecycle.
LEMMA StatusMoves ==
  ASSUME SerialInv, [Next]_vars
  PROVE  [Lifecycle!LifecycleNext]_status
<1> USE DEF Lifecycle!LifecycleNext, Lifecycle!Accept, Lifecycle!Begin,
            Lifecycle!Finish, Lifecycle!FinishUnaccepted, Lifecycle!Becomes,
            Lifecycle!Finished
<1>0. /\ status \in [Reviews -> Status]
      /\ outcome \in [Reviews -> {"none", "DONE", "ERROR"}]
      /\ \A h \in Handlers : api[h] # Idle => api[h].rev \in Reviews
      /\ rec # NoRun => rec.rev \in Reviews
  BY DEF SerialInv, AwsInv, SubmissionInv, TypeOK, SubmissionTypeOK, ApiState, RecState
<1>1. ASSUME NEW h \in Handlers, Post(h)
      PROVE  Lifecycle!LifecycleNext \/ status' = status
  <2>1. CASE CreateReviewRow(h)
    <3>1. /\ api[h].rev \in Reviews /\ status[api[h].rev] = "absent"
          /\ status' = [status EXCEPT ![api[h].rev] = "PENDING"]
      BY <1>0, <2>1
      DEF CreateReviewRow, At, Idle, SerialInv, FreshUntouched, Fresh, Creating,
          CreatorPc
    <3> QED
      BY <3>1
  <2>2. ~CreateReviewRow(h) => status' = status
    BY <1>1
    DEF Post, PostStart, CallStart, PostStep, PostBegin, Probe, Create, Reserve,
        RecordReservation, WriteSubmissionArn, WriteRowArn, HandlerFails, tables
  <2> QED
    BY <2>1, <2>2
<1>2. ASSUME NEW h \in Handlers, Cancel(h)
      PROVE  Lifecycle!LifecycleNext \/ status' = status
  <2>1. CASE CancelMark(h)
    BY <1>0, <2>1 DEF CancelMark, MarkCancelled, NonTerminal, At, Idle
  <2>2. ~CancelMark(h) => status' = status
    BY <1>2
    DEF Cancel, CancelBegin, CancelIntent, CancelStop, CancelLookup,
        CancelSettle, CancelFlag, tables
  <2> QED
    BY <2>1, <2>2
<1>3. ASSUME NEW r \in Reviews, Pipeline(r)
      PROVE  Lifecycle!LifecycleNext \/ status' = status
  <2>1. CASE MarkRunning(r)
    BY <2>1 DEF MarkRunning
  <2>2. CASE PersistTerminal(r)
    <3>1. /\ outcome[r] \in {"DONE", "ERROR"}
          /\ status[r] = "DONE" => outcome[r] = "DONE"
          /\ status[r] # "QUARANTINED"
      BY <1>0, <2>2 DEF PersistTerminal, SerialInv, AwsInv, Decided, PersistPc
    <3>2. CASE status[r] \in {"DONE", "ERROR", "CANCELLED"}
      <4>1. status' = status
        BY <1>0, <2>2, <3>1, <3>2 DEF PersistTerminal
      <4> QED
        BY <4>1
    <3>3. CASE status[r] \in {"absent", "PENDING", "RUNNING"}
      <4>1. status' = [status EXCEPT ![r] = outcome[r]]
        BY <2>2, <3>3 DEF PersistTerminal
      <4> QED
        BY <3>1, <3>3, <4>1
    <3> QED
      BY <1>0, <3>1, <3>2, <3>3 DEF Status, NonTerminal, Terminal
  <2>3. CASE TransitionToError(r)
    <3>1. CASE status[r] \in {"DONE", "ERROR", "CANCELLED"}
      <4>1. status' = status
        BY <1>0, <2>3, <3>1 DEF TransitionToError
      <4> QED
        BY <4>1
    <3>2. CASE status[r] \in {"absent", "PENDING", "RUNNING"}
      <4>1. status' = [status EXCEPT ![r] = "ERROR"]
        BY <2>3, <3>2 DEF TransitionToError
      <4> QED
        BY <3>2, <4>1
    <3>3. status[r] # "QUARANTINED"
      BY DEF SerialInv, AwsInv, Decided
    <3> QED
      BY <1>0, <3>1, <3>2, <3>3 DEF Status, NonTerminal, Terminal
  <2>4. ~(MarkRunning(r) \/ PersistTerminal(r) \/ TransitionToError(r)) =>
          status' = status
    BY <1>3
    DEF Pipeline, IntakeDone, ReviewDone, PersistLookup, PersistSettle,
        PersistFlag, PersistRetry, TailDone, StageFails, TransitionFails,
        ExecutionTimeout, tables
  <2> QED
    BY <2>1, <2>2, <2>3, <2>4
<1>4. ASSUME Reconcile
      PROVE  Lifecycle!LifecycleNext \/ status' = status
  <2>1. CASE RecTransition
    BY <1>0, <2>1 DEF RecTransition, NonTerminal, NoRun
  <2>2. ~RecTransition => status' = status
    BY <1>4
    DEF Reconcile, RecRun, RecPick, RecRedrive, RecLookup, RecSettle, RecFlag,
        RecStart, RecWriteSubArn, RecWriteRowArn, RecCrash, tables
  <2> QED
    BY <2>1, <2>2
<1>5. CASE UNCHANGED vars
  BY <1>5 DEF vars, tables
<1> QED
  BY <1>1, <1>2, <1>3, <1>4, <1>5 DEF Next

\* So a terminal status stays as it is, and a row never goes away.
LEMMA StatusStays ==
  ASSUME SerialInv, [Next]_vars, NEW r \in Reviews
  PROVE  /\ status[r] \in Terminal => status'[r] = status[r]
         /\ status[r] # "absent" => status'[r] # "absent"
<1>1. status \in [Reviews -> Status]
  BY DEF SerialInv, AwsInv, SubmissionInv, SubmissionTypeOK
<1> QED
  BY <1>1, StatusMoves
  DEF Lifecycle!LifecycleNext, Lifecycle!Accept, Lifecycle!Begin,
      Lifecycle!Finish, Lifecycle!FinishUnaccepted, Lifecycle!Becomes,
      Lifecycle!Finished, Terminal

\* A review is untouched while it is fresh: its first POST alone could touch
\* it, and the row that POST puts ends the freshness.
LEMMA FreshStep ==
  ASSUME ~OverlappingRetries, SerialInv, [Next]_vars
  PROVE  FreshUntouched'
<1>0. /\ status \in [Reviews -> Status] /\ exec \in [Reviews -> ExecStatus]
      /\ credits \in [Reviews -> Nat] /\ api \in [Handlers -> ApiState]
      /\ \A h \in Handlers : api[h] # Idle =>
           api[h] \in [pc : PostPc \cup CancelPc, rev : Reviews]
      /\ rec # NoRun => rec.rev \in Reviews
      /\ SubmissionInv /\ Decided /\ FreshUntouched /\ SettlesTheEnded /\ OnePost
  BY DEF SerialInv, AwsInv, SubmissionInv, TypeOK, SubmissionTypeOK, ApiState, RecState
<1>1. \A r \in Reviews : Fresh(r)' =>
        Fresh(r) /\ status[r] = "absent" /\ credits[r] = 0 /\ exec[r] = "none"
  BY <1>0, FreshWanes DEF SerialInv, FreshUntouched
<1>2. ASSUME UNCHANGED rec,
             \A r \in Reviews : Fresh(r)' =>
               status'[r] = status[r] /\ credits'[r] = credits[r] /\ exec'[r] = exec[r]
      PROVE  FreshUntouched'
  BY <1>0, <1>1, <1>2 DEF FreshUntouched
<1>3. ASSUME NEW h \in Handlers, Post(h)
      PROVE  FreshUntouched'
  <2>1. UNCHANGED <<rec, credits>>
    BY <1>3
    DEF Post, PostStart, CallStart, PostStep, PostBegin, Probe, Create, Reserve,
        RecordReservation, CreateReviewRow, WriteSubmissionArn, WriteRowArn,
        HandlerFails, awsVars
  <2>2. CASE CreateReviewRow(h) /\ UNCHANGED awsVars
    <3> DEFINE q == api[h].rev
    <3>1. /\ api[h] # Idle /\ q \in Reviews /\ Creating(h, q)
          /\ q \in submissions /\ submissions' = submissions
          /\ api' = [api EXCEPT ![h].pc = "start"]
          /\ status' = [status EXCEPT ![q] = "PENDING"]
          /\ exec' = exec
      BY <1>0, <2>2
      DEF CreateReviewRow, At, Goto, Idle, Creating, CreatorPc, SubmissionInv,
          RowBehindPost, BehindRow, awsVars
    <3>2. ~Fresh(q)'
      BY <1>0, <3>1 DEF Fresh, Creating, CreatorPc, SubmissionInv, OneCreator
    <3> QED
      BY <1>0, <1>2, <2>1, <3>1, <3>2
  <2>3. CASE PostStart(h)
    <3> DEFINE q == api[h].rev
    <3>1. /\ api[h] # Idle /\ q \in Reviews /\ q \in submissions /\ Posting(h, q)
          /\ ~Creating(h, q)
          /\ submissions' = submissions
          /\ api' = [api EXCEPT ![h].pc = "writeSubArn"]
          /\ status' = status
          /\ exec' = exec \/ exec' = [exec EXCEPT ![q] = "running"]
      BY <1>0, <2>3
      DEF PostStart, CallStart, StartExecution, At, Goto, Idle, Posting, PostPc,
          Creating, CreatorPc, SubmissionInv, RowBehindPost, BehindRow, tables
    <3>2. ~Fresh(q)
      BY <1>0, <3>1 DEF Fresh, Creating, Posting, PostPc, OnePost
    <3> QED
      BY <1>0, <1>1, <1>2, <2>1, <3>1, <3>2
  <2>4. ~CreateReviewRow(h) /\ ~PostStart(h) => UNCHANGED <<status, exec>>
    BY <1>3
    DEF Post, PostStep, PostBegin, Probe, Create, Reserve, RecordReservation,
        WriteSubmissionArn, WriteRowArn, HandlerFails, tables, awsVars
  <2> QED
    BY <1>2, <1>3, <2>1, <2>2, <2>3, <2>4 DEF Post, PostStep
<1>4. ASSUME NEW h \in Handlers, Cancel(h)
      PROVE  FreshUntouched'
  <2>1. UNCHANGED rec
    BY <1>4
    DEF Cancel, CancelBegin, CancelIntent, CancelStop, CancelMark, CancelLookup,
        CancelSettle, CancelFlag, awsVars
  <2>2. CASE CancelStop(h)
    BY <1>0, <1>1, <1>2, <2>1, <2>2 DEF CancelStop, tables
  <2>3. CASE CancelMark(h)
    BY <1>0, <1>1, <1>2, <2>1, <2>3 DEF CancelMark, MarkCancelled, NonTerminal, awsVars
  <2>4. CASE CancelSettle(h)
    <3>1. /\ status[api[h].rev] # "absent" /\ UNCHANGED <<status, exec>>
          /\ credits' = [credits EXCEPT ![api[h].rev] = @ + 1]
      BY <1>0, <2>4
      DEF CancelSettle, SettleSpend, At, SettlesTheEnded, CancelPc, awsVars
    <3> QED
      BY <1>0, <1>1, <1>2, <2>1, <3>1
  <2>5. ~CancelStop(h) /\ ~CancelMark(h) /\ ~CancelSettle(h) =>
          UNCHANGED <<status, exec, credits>>
    BY <1>4
    DEF Cancel, CancelBegin, CancelIntent, CancelLookup, CancelFlag, tables, awsVars
  <2> QED
    BY <1>2, <2>1, <2>2, <2>3, <2>4, <2>5
<1>5. ASSUME NEW r \in Reviews, Pipeline(r)
      PROVE  FreshUntouched'
  <2>1. UNCHANGED rec /\ exec[r] # "none"
    BY <1>0, <1>5
    DEF Pipeline, IntakeDone, MarkRunning, ReviewDone, PersistTerminal,
        PersistLookup, PersistSettle, PersistFlag, PersistRetry, TailDone,
        StageFails, TransitionToError, TransitionFails, ExecutionTimeout, Running,
        Decided, PersistPc
  <2>2. ASSUME NEW s \in Reviews, s # r
        PROVE  status'[s] = status[s] /\ credits'[s] = credits[s] /\ exec'[s] = exec[s]
    BY <1>0, <1>5, <2>2
    DEF Pipeline, IntakeDone, MarkRunning, ReviewDone, PersistTerminal,
        PersistLookup, PersistSettle, PersistFlag, PersistRetry, TailDone,
        StageFails, TransitionToError, TransitionFails, ExecutionTimeout,
        SettleSpend, tables
  <2> QED
    BY <1>1, <1>2, <2>1, <2>2
<1>6. ASSUME Reconcile
      PROVE  FreshUntouched'
  <2>1. CASE \E r \in Reviews : RecPick(r) \/ RecRedrive(r)
    <3>1. PICK r \in Reviews : RecPick(r) \/ RecRedrive(r)
      BY <2>1
    <3>2. /\ rec'.rev = r /\ ~Fresh(r)
          /\ UNCHANGED <<submissions, api, status, exec, credits>>
      BY <1>0, <3>1
      DEF RecPick, RecRedrive, FreshUntouched, Fresh, NonTerminal, tables
    <3> QED
      BY <1>0, <1>1, <3>2 DEF FreshUntouched, Fresh, Creating
  <2>2. CASE RecRun
    <3>0. rec # NoRun /\ ~Fresh(rec.rev)
      BY <1>0, <2>2
      DEF RecRun, RecLookup, RecTransition, RecSettle, RecFlag, RecStart,
          RecWriteSubArn, RecWriteRowArn, RecCrash, NoRun, FreshUntouched
    <3>1. rec' = NoRun \/ rec'.rev = rec.rev
      <4>1. rec \in [pc : {"lookup", "transition", "settle", "flag", "start",
                          "writeSubArn", "writeRowArn"},
                    rev : Reviews, due : BOOLEAN]
        BY <3>0 DEF SerialInv, AwsInv, TypeOK, RecState
      <4>2. \/ rec' = NoRun
            \/ \E pc : rec' = [rec EXCEPT !.pc = pc]
            \/ \E pc, due : rec' = [rec EXCEPT !.pc = pc, !.due = due]
        BY <2>2, Zenon
        DEF RecRun, RecLookup, RecTransition, RecSettle, RecFlag, RecStart,
            RecWriteSubArn, RecWriteRowArn, RecCrash, RecGoto
      <4> QED
        BY <4>1, <4>2
    <3>2. ASSUME NEW s \in Reviews, s # rec.rev
          PROVE  status'[s] = status[s] /\ credits'[s] = credits[s] /\ exec'[s] = exec[s]
      BY <1>0, <2>2, <3>2
      DEF RecRun, RecLookup, RecTransition, RecSettle, RecFlag, RecStart,
          RecWriteSubArn, RecWriteRowArn, RecCrash, StartExecution, SettleSpend, tables
    <3> QED
      BY <1>0, <1>1, <3>0, <3>1, <3>2, FreshWanes DEF FreshUntouched, SerialInv
  <2> QED
    BY <1>6, <2>1, <2>2 DEF Reconcile
<1>7. CASE UNCHANGED vars
  BY <1>2, <1>7 DEF vars, tables, awsVars
<1> QED
  BY <1>3, <1>4, <1>5, <1>6, <1>7 DEF Next

\* A cancel saw a row, and goes on to settle only what is terminal by then.
LEMMA CancelsSettleTheEnded ==
  ASSUME SerialInv, [Next]_vars, NEW g \in Handlers
  PROVE  /\ api'[g].pc \in CancelPc => status'[api'[g].rev] # "absent"
         /\ api'[g].pc \in {"lookup", "settle", "flag"} =>
              status'[api'[g].rev] \in Terminal
<1>0. /\ status \in [Reviews -> Status] /\ api \in [Handlers -> ApiState]
      /\ \A h \in Handlers : api[h] # Idle =>
           api[h] \in [pc : PostPc \cup CancelPc, rev : Reviews]
      /\ api[g].pc \in CancelPc => status[api[g].rev] # "absent"
      /\ api[g].pc \in {"lookup", "settle", "flag"} => status[api[g].rev] \in Terminal
      /\ \A r \in Reviews :
           /\ status[r] \in Terminal => status'[r] = status[r]
           /\ status[r] # "absent" => status'[r] # "absent"
  BY StatusStays
  DEF SerialInv, AwsInv, SubmissionInv, SubmissionTypeOK, SettlesTheEnded, ApiState
<1>1. CASE api'[g] = api[g]
  BY <1>0, <1>1 DEF CancelPc, Idle
<1>2. CASE api'[g] = Idle
  BY <1>2 DEF CancelPc, Idle
<1>3. CASE Post(g)
  <2>1. api'[g] = Idle \/ api'[g].pc \in PostPc
    BY <1>0, <1>3
    DEF Post, PostStart, CallStart, PostStep, PostBegin, Probe, Create, Reserve,
        RecordReservation, CreateReviewRow, WriteSubmissionArn, WriteRowArn,
        HandlerFails, Goto, Return, At, Idle, PostPc, CreatorPc
  <2> QED
    BY <2>1 DEF PostPc, CreatorPc, CancelPc, Idle
<1>4. CASE Cancel(g)
  <2>1. CASE \E r \in Reviews : CancelBegin(g, r)
    <3>1. PICK r \in Reviews : CancelBegin(g, r)
      BY <2>1
    <3>2. api'[g] = [pc |-> "intent", rev |-> r] /\ status[r] # "absent"
      BY <1>0, <3>1 DEF CancelBegin, NonTerminal
    <3> QED
      BY <1>0, <3>2
  <2>2. CASE CancelIntent(g) \/ CancelStop(g)
    BY <1>0, <1>2, <2>2 DEF CancelIntent, CancelStop, Goto, Return, At, Idle, CancelPc
  <2>3. CASE CancelMark(g)
    BY <1>0, <2>3
    DEF CancelMark, MarkCancelled, Goto, At, Idle, CancelPc, Status, NonTerminal,
        Terminal
  <2>4. CASE CancelLookup(g) \/ CancelSettle(g) \/ CancelFlag(g)
    BY <1>0, <1>2, <2>4
    DEF CancelLookup, CancelSettle, CancelFlag, Goto, Return, At, Idle, CancelPc
  <2> QED
    BY <1>4, <2>1, <2>2, <2>3, <2>4 DEF Cancel
<1>5. ASSUME NEW h \in Handlers, h # g, Post(h) \/ Cancel(h)
      PROVE  api'[g] = api[g]
  BY <1>0, <1>5
  DEF Post, PostStart, CallStart, PostStep, PostBegin, Probe, Create, Reserve,
      RecordReservation, CreateReviewRow, WriteSubmissionArn, WriteRowArn,
      HandlerFails, Cancel, CancelBegin, CancelIntent, CancelStop, CancelMark,
      CancelLookup, CancelSettle, CancelFlag, Goto, Return
<1>6. ASSUME (\E r \in Reviews : Pipeline(r)) \/ Reconcile \/ UNCHANGED vars
      PROVE  api' = api
  BY <1>6
  DEF Pipeline, IntakeDone, MarkRunning, ReviewDone, PersistTerminal,
      PersistLookup, PersistSettle, PersistFlag, PersistRetry, TailDone,
      StageFails, TransitionToError, TransitionFails, ExecutionTimeout, Reconcile,
      RecRun, RecPick, RecRedrive, RecLookup, RecTransition, RecSettle, RecFlag,
      RecStart, RecWriteSubArn, RecWriteRowArn, RecCrash, vars
<1> QED
  BY <1>1, <1>3, <1>4, <1>5, <1>6 DEF Next

\* The persist stage settles after its terminal write, which either wrote a
\* terminal status or found one.
LEMMA PersistSettlesTheEnded ==
  ASSUME SerialInv, [Next]_vars, NEW s \in Reviews,
         task'[s] \in {"lookup", "settle", "flag"}
  PROVE  status'[s] \in Terminal
<1>0. /\ status \in [Reviews -> Status] /\ task \in [Reviews -> Task]
      /\ outcome \in [Reviews -> {"none", "DONE", "ERROR"}]
      /\ task[s] \in {"lookup", "settle", "flag"} => status[s] \in Terminal
      /\ status[s] \in Terminal => status'[s] = status[s]
      /\ Decided
  BY StatusStays
  DEF SerialInv, AwsInv, SubmissionInv, TypeOK, SubmissionTypeOK, SettlesTheEnded
<1>1. CASE task[s] \in {"lookup", "settle", "flag"}
  BY <1>0, <1>1
<1>2. CASE PersistTerminal(s)
  <2>1. outcome[s] \in {"DONE", "ERROR"}
    BY <1>0, <1>2 DEF PersistTerminal, Decided, PersistPc
  <2> QED
    BY <1>0, <1>2, <2>1 DEF PersistTerminal, Terminal
<1>3. task[s] \in {"lookup", "settle", "flag"} \/ PersistTerminal(s)
  <2>1. ASSUME NEW r \in Reviews, Pipeline(r)
        PROVE  task[s] \in {"lookup", "settle", "flag"} \/ PersistTerminal(s)
    BY <1>0, <2>1
    DEF Pipeline, IntakeDone, MarkRunning, ReviewDone, PersistLookup,
        PersistTerminal, PersistSettle, PersistFlag, PersistRetry, TailDone,
        StageFails, TransitionToError, TransitionFails, ExecutionTimeout, EnterStage
  <2>2. ASSUME (\E h \in Handlers : Post(h) \/ Cancel(h)) \/ Reconcile \/ UNCHANGED vars
        PROVE  task[s] \in {"lookup", "settle", "flag"}
    <3>1. UNCHANGED task \/ \E r : task' = [task EXCEPT ![r] = "intake"]
      BY <2>2
      DEF Post, PostStart, Cancel, CancelBegin, CancelIntent, CancelStop,
          CancelMark, CancelLookup, CancelSettle, CancelFlag, Reconcile, RecRun,
          RecPick, RecRedrive, RecLookup, RecTransition, RecSettle, RecFlag,
          RecStart, RecWriteSubArn, RecWriteRowArn, RecCrash, StartExecution,
          vars, awsVars
    <3> QED
      BY <1>0, <3>1
  <2> QED
    BY <2>1, <2>2 DEF Next
<1> QED
  BY <1>1, <1>2, <1>3

\* The reconciler settles after its own conditional transition to ERROR.
LEMMA ReconcilerSettlesTheEnded ==
  ASSUME SerialInv, [Next]_vars, rec'.pc \in {"settle", "flag"}
  PROVE  status'[rec'.rev] \in Terminal
<1>0. /\ status \in [Reviews -> Status]
      /\ rec # NoRun =>
           rec \in [pc : {"lookup", "transition", "settle", "flag", "start",
                         "writeSubArn", "writeRowArn"},
                   rev : Reviews, due : BOOLEAN]
      /\ rec.pc \in {"settle", "flag"} => status[rec.rev] \in Terminal
      /\ \A r \in Reviews : status[r] \in Terminal => status'[r] = status[r]
  BY StatusStays
  DEF SerialInv, AwsInv, SubmissionInv, TypeOK, SubmissionTypeOK, SettlesTheEnded,
      RecState
<1>1. CASE rec' = rec
  BY <1>0, <1>1 DEF NoRun
<1>2. CASE RecTransition
  BY <1>0, <1>2 DEF RecTransition, RecGoto, NoRun, Terminal
<1>3. CASE RecSettle
  BY <1>0, <1>3 DEF RecSettle, RecGoto, NoRun
<1>4. rec' = rec \/ RecTransition \/ RecSettle
  <2>1. ASSUME (\E h \in Handlers : Post(h) \/ Cancel(h))
                 \/ (\E r \in Reviews : Pipeline(r)) \/ UNCHANGED vars
        PROVE  rec' = rec
    BY <2>1
    DEF Post, PostStart, Cancel, CancelBegin, CancelIntent, CancelStop,
        CancelMark, CancelLookup, CancelSettle, CancelFlag, Pipeline, IntakeDone,
        MarkRunning, ReviewDone, PersistTerminal, PersistLookup, PersistSettle,
        PersistFlag, PersistRetry, TailDone, StageFails, TransitionToError,
        TransitionFails, ExecutionTimeout, vars, awsVars
  <2>2. CASE \E r \in Reviews : RecPick(r) \/ RecRedrive(r)
    BY <2>2 DEF RecPick, RecRedrive
  <2>3. CASE RecLookup \/ RecStart \/ RecWriteSubArn
    <3>1. rec # NoRun /\ \E pc \in {"transition", "writeSubArn", "writeRowArn"} :
                           \/ rec' = [rec EXCEPT !.pc = pc]
                           \/ \E due : rec' = [rec EXCEPT !.pc = pc, !.due = due]
      BY <2>3 DEF RecLookup, RecStart, RecWriteSubArn, RecGoto, NoRun
    <3>2. rec'.pc \notin {"settle", "flag"}
      BY <1>0, <3>1
    <3> QED
      BY <3>2
  <2>4. CASE RecFlag \/ RecWriteRowArn \/ RecCrash
    BY <2>4 DEF RecFlag, RecWriteRowArn, RecCrash, NoRun
  <2> QED
    BY <2>1, <2>2, <2>3, <2>4 DEF Next, Reconcile, RecRun
<1> QED
  BY <1>1, <1>2, <1>3, <1>4

\* Each settler credits what it knows to be terminal, so a credited review
\* has ended.
LEMMA CreditStaysBehindTheEnd ==
  ASSUME SerialInv, [Next]_vars
  PROVE  CreditedOnlyWhenOver'
<1>0. /\ credits \in [Reviews -> Nat]
      /\ rec # NoRun => rec.rev \in Reviews
      /\ SettlesTheEnded
      /\ \A r \in Reviews : status[r] \in Terminal => status'[r] = status[r]
  BY StatusStays
  DEF SerialInv, AwsInv, SubmissionInv, TypeOK, SubmissionTypeOK, RecState
<1> DEFINE CreditsAnEnded ==
      \/ credits' = credits
      \/ \E r : status[r] \in Terminal /\ credits' = [credits EXCEPT ![r] = @ + 1]
<1>1. CreditsAnEnded
  <2>1. ASSUME NEW h \in Handlers, Post(h) \/ Cancel(h)
        PROVE  CreditsAnEnded
    BY <1>0, <2>1
    DEF Post, PostStart, CallStart, PostStep, PostBegin, Probe, Create, Reserve,
        RecordReservation, CreateReviewRow, WriteSubmissionArn, WriteRowArn,
        HandlerFails, Cancel, CancelBegin, CancelIntent, CancelStop, CancelMark,
        CancelLookup, CancelSettle, CancelFlag, SettleSpend, At, SettlesTheEnded
  <2>2. ASSUME NEW r \in Reviews, Pipeline(r)
        PROVE  CreditsAnEnded
    BY <1>0, <2>2
    DEF Pipeline, IntakeDone, MarkRunning, ReviewDone, PersistTerminal,
        PersistLookup, PersistSettle, PersistFlag, PersistRetry, TailDone,
        StageFails, TransitionToError, TransitionFails, ExecutionTimeout,
        SettleSpend, SettlesTheEnded
  <2>3. ASSUME Reconcile
        PROVE  CreditsAnEnded
    BY <1>0, <2>3
    DEF Reconcile, RecRun, RecPick, RecRedrive, RecLookup, RecTransition,
        RecSettle, RecFlag, RecStart, RecWriteSubArn, RecWriteRowArn, RecCrash,
        SettleSpend, SettlesTheEnded
  <2> QED
    BY <2>1, <2>2, <2>3 DEF Next, vars
<1> QED
  BY <1>0, <1>1 DEF CreditedOnlyWhenOver, SettlesTheEnded

\* While no client overlaps its retries, the stronger invariant is kept by
\* every component in any interleaving.
THEOREM SerialInvariant ==
  ASSUME ~OverlappingRetries
  PROVE  Spec => []SerialInv
<1>1. Init => SerialInv
  BY AwsInitInv
  DEF Init, SubmissionInit, SerialInv, OnePost, Posting, FreshUntouched,
      SettlesTheEnded, CreditedOnlyWhenOver, Idle, PostPc, CreatorPc, CancelPc,
      NoRun
<1>2. SerialInv /\ [Next]_vars => SerialInv'
  <2>1. SerialInv /\ [Next]_vars => AwsInv'
    BY SubmissionInvStep, TypeOKStep, DecidedStep, HasRowStep, CreditStep
    DEF AwsInv, SerialInv
  <2>2. SerialInv /\ [Next]_vars => OnePost' /\ FreshUntouched'
    BY OnePostStep, FreshStep DEF SerialInv
  <2>3. SerialInv /\ [Next]_vars => SettlesTheEnded'
    BY CancelsSettleTheEnded, PersistSettlesTheEnded, ReconcilerSettlesTheEnded,
       CreditStaysBehindTheEnd
    DEF SettlesTheEnded
  <2> QED
    BY <2>1, <2>2, <2>3 DEF SerialInv
<1> QED
  BY <1>1, <1>2, PTL DEF Spec

\* No settler -- persist, cancel or reconciler -- credits a review that may
\* still run, however many of them race for it.
THEOREM CreditsFollowTheEnd ==
  ASSUME ~OverlappingRetries
  PROVE  Spec => []CreditedOnlyWhenOver
<1>1. SerialInv => CreditedOnlyWhenOver
  BY DEF SerialInv, SettlesTheEnded
<1> QED
  BY SerialInvariant, <1>1, PTL

\* The deployment implements the lifecycle a reader of the table relies on:
\* the writes of POST, cancel, persist, Catch and reconciler are its steps.
THEOREM AwsImplementsLifecycle ==
  ASSUME ~OverlappingRetries
  PROVE  Spec => ImplementsLifecycle
<1>1. Init => Lifecycle!LifecycleInit
  BY DEF Init, SubmissionInit, Lifecycle!LifecycleInit
<1>2. SerialInv /\ [Next]_vars => [Lifecycle!LifecycleNext]_status
  BY StatusMoves
<1> QED
  BY SerialInvariant, <1>1, <1>2, PTL
  DEF Spec, ImplementsLifecycle, Lifecycle!LifecycleSpec

=============================================================================
