---------------------------- MODULE RunnerProofs ----------------------------
(***************************************************************************)
(* Theorems about the review runner of a single process, for any number of *)
(* reviews, handlers, workers, restarts and failed table calls, and about  *)
(* the passes of the review it runs, for any playbook, any answers and any *)
(* bounds on attempts and requests.                                        *)
(***************************************************************************)
EXTENDS DtsReviewProps, ReviewPipeline, SubmissionProofs, FiniteSetTheorems,
        WellFoundedInduction

\* What a process holds dies with it.
LiveOnly ==
  /\ proc # "up" => \A h \in Handlers : api[h] = Idle
  /\ proc \in {"down", "booting"} => \A r \in Reviews : run[r] = "none"
  /\ boot # NoBoot => proc = "booting"

\* Nobody has run, ended or settled a review whose row is not there yet.
Fresh ==
  \A r \in Reviews :
    r \notin submissions \/ (\E h \in Handlers : Creating(h, r)) =>
      run[r] = "none" /\ status[r] = "absent" /\ credits[r] = 0

Begun == Unfinished \cup {"cancelling"}
Settling == {"lookup", "settle", "flag"}

\* A run owns the status of its review until it has ended it, and whoever
\* settles has ended it and has read its reservation.
RunsItself ==
  /\ \A r \in Reviews :
       /\ run[r] \in Begun \/ (run[r] = "failing" /\ faults = 0) => status[r] = "RUNNING"
       /\ run[r] \in Settling => status[r] \in Terminal
       /\ run[r] \in {"floorAdd", "floorStamp", "settle", "flag"} => r \in reservation
  /\ boot # NoBoot => status[boot.rev] \in Terminal
  /\ boot.pc \in {"settle", "flag"} => boot.rev \in reservation

\* Credits given, and the one a run or the recovery is on its way to give.
OnTheWay(r) ==
  run[r] \in Working \ {"flag"} \/ (boot.rev = r /\ boot.pc \in {"lookup", "settle"})

CreditsCounted ==
  \A r \in Reviews :
    /\ credits[r] > 0 => status[r] \in Terminal
    /\ credits[r] <= 1 + faults
    /\ OnTheWay(r) => credits[r] <= faults

\* The inductive invariant of the runner.
DtsInv ==
  /\ SubmissionInv
  /\ TypeOK
  /\ OnePost
  /\ LiveOnly
  /\ Fresh
  /\ RunsItself
  /\ CreditsCounted

-----------------------------------------------------------------------------
\* An empty table and an idle process satisfy it.
LEMMA DtsInitInv == Init => DtsInv
<1> SUFFICES ASSUME Init PROVE DtsInv
  OBVIOUS
<1>1. SubmissionInv
  BY InitInv DEF Init
<1>2. TypeOK
  BY <1>1, FaultAssumption DEF Init, TypeOK, SubmissionInv, RunPc, SubmissionInit
<1>3. OnePost /\ LiveOnly /\ Fresh /\ RunsItself /\ CreditsCounted
  BY FaultAssumption, NoReviewAssumption
  DEF Init, SubmissionInit, OnePost, LiveOnly, Fresh, RunsItself, CreditsCounted,
      Posting, Creating, CreatorPc, PostPc, Idle, NoBoot, Begun, Unfinished,
      Settling, OnTheWay, Working
<1> QED
  BY <1>1, <1>2, <1>3 DEF DtsInv

\* What a run or the recovery does leaves the handlers, the rows' creation and
\* the reservations alone.
LEMMA SubmissionKept ==
  ASSUME SubmissionInv, UNCHANGED <<submissions, subArn, reservation, api, made>>,
         released' \subseteq reservation, status' \in [Reviews -> Status],
         rowArn' \subseteq Reviews,
         cancelAsked' \subseteq Reviews, reserved' \in Int,
         credits' \in [Reviews -> Nat]
  PROVE  SubmissionInv'
  BY DEF SubmissionInv, SubmissionTypeOK, RowBehindPost, OneCreator, NothingYet,
         CancelHasReservation, ReservedOnce, Creating, At

\* Every step of a run leaves well-typed tables, and the submissions alone.
LEMMA RunTyped ==
  ASSUME DtsInv, NEW r \in Reviews, RunStep(r)
  PROVE  SubmissionInv' /\ TypeOK'
<1> USE SpendAssumption, CostAssumption, FaultAssumption
    DEF DtsInv, SubmissionInv, SubmissionTypeOK, TypeOK, tables, pool, process
<1>0. \A pc \in RunPc : RunGoto(r, pc) => run' \in [Reviews -> RunPc]
  BY DEF RunGoto
<1>1. CASE RunBegin(r)
  <2>1. status' \in [Reviews -> Status] /\ run' \in [Reviews -> RunPc]
    BY <1>0, <1>1 DEF RunBegin, RunPc, Working, Status, NonTerminal
  <2> QED
    BY <1>1, <2>1, SubmissionKept DEF RunBegin
<1>2. CASE RunCheck(r) \/ RunModelCall(r)
  <2>1. run' \in [Reviews -> RunPc] /\ faults' \in 0 .. MaxFaults
    BY <1>0, <1>2 DEF RunCheck, RunModelCall, Poll, Raises, RunPc, Working
  <2> QED
    BY <1>2, <2>1, SubmissionKept DEF RunCheck, RunModelCall
<1>3. CASE RunVerify(r)
  <2>1. status' \in [Reviews -> Status] /\ run' \in [Reviews -> RunPc]
    BY <1>0, <1>3 DEF RunVerify, RunPc, Working, Status, Terminal
  <2> QED
    BY <1>3, <2>1, SubmissionKept DEF RunVerify
<1>4. CASE RunFloor(r) \/ RunPassesDone(r) \/ RunLookup(r)
  <2>1. run' \in [Reviews -> RunPc]
    BY <1>0, <1>4 DEF RunFloor, RunPassesDone, RunLookup, RunPc, Working
  <2> QED
    BY <1>4, <2>1, SubmissionKept DEF RunFloor, RunPassesDone, RunLookup
<1>5. CASE RunFloorAdd(r)
  <2>1. reserved' \in Int /\ run' \in [Reviews -> RunPc]
    BY <1>0, <1>5 DEF RunFloorAdd, RunPc, Working
  <2> QED
    BY <1>5, <2>1, SubmissionKept DEF RunFloorAdd
<1>6. CASE RunFloorStamp(r)
  <2>1. floor' \subseteq reservation /\ run' \in [Reviews -> RunPc]
    BY <1>0, <1>6 DEF RunFloorStamp, RunPc, Working, RunsItself
  <2> QED
    BY <1>6, <2>1, SubmissionKept DEF RunFloorStamp
<1>7. CASE RunWriteTerminal(r) \/ RunCancelled(r) \/ RunRecordFailure(r)
  <2>1. status' \in [Reviews -> Status] /\ run' \in [Reviews -> RunPc]
    BY <1>0, <1>7
    DEF RunWriteTerminal, RunCancelled, RunRecordFailure, MarkCancelled, RunPc,
        Working, Status, Terminal
  <2> QED
    BY <1>7, <2>1, SubmissionKept DEF RunWriteTerminal, RunCancelled, RunRecordFailure
<1>8. CASE RunFails(r) \/ RunLost(r)
  <2>1. run' \in [Reviews -> RunPc] /\ faults' \in 0 .. MaxFaults
    BY <1>0, <1>8 DEF RunFails, RunLost, Raises, RunPc, Working
  <2> QED
    BY <1>8, <2>1, SubmissionKept DEF RunFails, RunLost
<1>9. CASE RunSettle(r)
  <2>1. PICK actual \in Cost(r) :
          /\ reserved' = reserved - Amount - (IF r \in floor THEN FloorAmount ELSE 0)
                         + actual
          /\ spent' = spent + actual
          /\ credits' = [credits EXCEPT ![r] = @ + 1]
    BY <1>9 DEF RunSettle, SettleActual
  <2>2. actual \in Nat
    BY DEF Cost
  <2>3. run' \in [Reviews -> RunPc]
    BY <1>0, <1>9 DEF RunSettle, RunPc, Working
  <2>4. /\ reserved' \in Int /\ spent' \in Nat
        /\ credits' \in [Reviews -> Nat]
    BY <2>1, <2>2
  <2> QED
    BY <1>9, <2>3, <2>4, SubmissionKept DEF RunSettle
<1>10. CASE RunFlag(r)
  <2>1. released' \subseteq reservation /\ run' \in [Reviews -> RunPc]
    BY <1>0, <1>10 DEF RunFlag, FlagReleased, RunPc, RunsItself
  <2> QED
    BY <1>10, <2>1, SubmissionKept DEF RunFlag
<1> QED
  BY <1>1, <1>2, <1>3, <1>4, <1>5, <1>6, <1>7, <1>8, <1>9, <1>10 DEF RunStep

\* A step of a run keeps the run the owner of its review, and counts what it
\* gives back.
LEMMA RunControl ==
  ASSUME DtsInv, NEW r \in Reviews, RunStep(r)
  PROVE  OnePost' /\ LiveOnly' /\ Fresh' /\ RunsItself' /\ CreditsCounted'
<1> DEFINE Steps == {"verify", "floor", "floorAdd", "floorStamp", "pass", "terminal",
                     "cancelling", "failing"}
<1> USE DEF DtsInv, SubmissionInv, SubmissionTypeOK, TypeOK, tables, pool, process
<1>1. /\ UNCHANGED <<api, proc, boot, submissions, reservation>>
      /\ run[r] # "none" /\ boot = NoBoot
      /\ run' = [run EXCEPT ![r] = run'[r]]
      /\ status' = [status EXCEPT ![r] = status'[r]]
      /\ credits' = [credits EXCEPT ![r] = credits'[r]]
      /\ faults <= faults'
  <2>1. run[r] # "none" /\ boot = NoBoot
    BY DEF RunStep, RunBegin, RunCheck, RunVerify, RunFloor, RunFloorAdd, RunFloorStamp,
           RunModelCall, RunPassesDone, RunWriteTerminal, RunCancelled, RunFails,
           RunRecordFailure, RunLookup, RunSettle, RunFlag, RunLost, Unfinished, LiveOnly
  <2>2. /\ UNCHANGED <<api, proc, boot, submissions, reservation>>
        /\ faults <= faults'
    BY DEF RunStep, RunBegin, RunCheck, RunVerify, RunFloor, RunFloorAdd, RunFloorStamp,
           RunModelCall, RunPassesDone, RunWriteTerminal, RunCancelled, RunFails,
           RunRecordFailure, RunLookup, RunSettle, RunFlag, RunLost, Poll, Raises
  <2>3. run' = [run EXCEPT ![r] = run'[r]]
    BY DEF RunStep, RunBegin, RunCheck, RunVerify, RunFloor, RunFloorAdd, RunFloorStamp,
           RunModelCall, RunPassesDone, RunWriteTerminal, RunCancelled, RunFails,
           RunRecordFailure, RunLookup, RunSettle, RunFlag, RunLost, RunGoto
  <2>4. /\ status' = [status EXCEPT ![r] = status'[r]]
        /\ credits' = [credits EXCEPT ![r] = credits'[r]]
    BY DEF RunStep, RunBegin, RunCheck, RunVerify, RunFloor, RunFloorAdd, RunFloorStamp,
           RunModelCall, RunPassesDone, RunWriteTerminal, RunCancelled, RunFails,
           RunRecordFailure, RunLookup, RunSettle, RunFlag, RunLost, MarkCancelled,
           SettleActual
  <2> QED
    BY <2>1, <2>2, <2>3, <2>4
<1>2. OnePost' /\ LiveOnly'
  BY <1>1 DEF OnePost, LiveOnly, Posting
<1>3. Fresh'
  <2>1. r \in submissions /\ \A h \in Handlers : ~Creating(h, r)
    BY <1>1 DEF Fresh
  <2> QED
    BY <1>1, <2>1 DEF Fresh, Creating
\* What the step does to its own review.
<1>4. /\ run'[r] \in Begun \/ (run'[r] = "failing" /\ faults' = 0) => status'[r] = "RUNNING"
      /\ run'[r] \in Settling => status'[r] \in Terminal
      /\ run'[r] \in {"floorAdd", "floorStamp", "settle", "flag"} => r \in reservation
  <2>1. CASE RunBegin(r)
    BY <2>1 DEF RunBegin, RunGoto, RunsItself, Begun, Unfinished, Settling
  <2>8. CASE RunCheck(r)
    BY <2>8 DEF RunCheck, RunGoto, RunsItself, Begun, Unfinished, Settling
  <2>9. CASE RunVerify(r)
    BY <2>9 DEF RunVerify, RunGoto, RunsItself, Begun, Unfinished, Settling, Terminal
  <2>2. CASE RunFloor(r) \/ RunFloorAdd(r) \/ RunFloorStamp(r) \/ RunModelCall(r) \/ RunPassesDone(r)
    BY <1>1, <2>2
    DEF RunFloor, RunFloorAdd, RunFloorStamp, RunModelCall, RunPassesDone, RunGoto, RunsItself,
        SettlementDue, Begun, Unfinished, Settling, Terminal
  <2>3. CASE RunWriteTerminal(r) \/ RunCancelled(r)
    BY <1>1, <2>3
    DEF RunWriteTerminal, RunCancelled, MarkCancelled, RunGoto, RunsItself,
        NonTerminal, Begun, Unfinished, Settling, Terminal
  <2>4. CASE RunFails(r) \/ RunRecordFailure(r)
    BY <1>1, <2>4, FaultAssumption
    DEF RunFails, RunRecordFailure, Raises, RunGoto, RunsItself,
        NonTerminal, Begun, Unfinished, Settling, Terminal
  <2>5. CASE RunLookup(r)
    BY <1>1, <2>5
    DEF RunLookup, SettlementDue, RunGoto, RunsItself, Begun, Unfinished, Settling
  <2>6. CASE RunSettle(r)
    BY <1>1, <2>6 DEF RunSettle, RunGoto, RunsItself, Begun, Unfinished, Settling
  <2>7. CASE RunFlag(r) \/ RunLost(r)
    BY <1>1, <2>7 DEF RunFlag, RunLost, RunGoto, RunsItself, Begun, Unfinished, Settling
  <2> QED
    BY <2>1, <2>2, <2>3, <2>4, <2>5, <2>6, <2>7, <2>8, <2>9
    DEF RunStep
<1>5. /\ credits'[r] > 0 => status'[r] \in Terminal
      /\ credits'[r] <= 1 + faults'
      /\ run'[r] \in Working \ {"flag"} => credits'[r] <= faults'
  <2>0. /\ credits[r] \in Nat /\ faults \in Nat /\ faults' \in Nat
        /\ credits[r] <= 1 + faults
        /\ credits[r] > 0 => status[r] \in Terminal
        /\ run[r] \in Working \ {"flag"} => credits[r] <= faults
    BY RunTyped, FaultAssumption DEF CreditsCounted, OnTheWay
  <2>1. CASE RunBegin(r)
    BY <1>1, <2>0, <2>1 DEF RunBegin, RunGoto, Working, Terminal
  <2>2. CASE RunFails(r)
    BY <1>1, <2>0, <2>2 DEF RunFails, Raises, RunGoto, Working, Unfinished
  <2>3. CASE RunSettle(r)
    <3>1. credits'[r] = credits[r] + 1 /\ run'[r] = "flag" /\ status' = status /\ faults' = faults
      BY <2>3 DEF RunSettle, SettleActual, RunGoto
    <3>2. run[r] = "settle" /\ status[r] \in Terminal
      BY <2>3 DEF RunSettle, RunsItself, Settling
    <3> QED
      BY <2>0, <3>1, <3>2 DEF Working
  <2>4. CASE RunStep(r) /\ ~RunBegin(r) /\ ~RunFails(r) /\ ~RunSettle(r)
    <3>1. credits' = credits
      BY <2>4
      DEF RunStep, RunCheck, RunVerify, RunFloor, RunFloorAdd, RunFloorStamp,
          RunModelCall, RunPassesDone, RunWriteTerminal, RunCancelled,
          RunRecordFailure, RunLookup, RunFlag, RunLost
    <3>2. run'[r] \in Working \ {"flag"} => run[r] \in Working \ {"flag"}
      BY <2>4
      DEF RunStep, RunCheck, RunVerify, RunFloor, RunFloorAdd, RunFloorStamp,
          RunModelCall, RunPassesDone, RunWriteTerminal, RunCancelled,
          RunRecordFailure, RunLookup, RunFlag, RunLost, RunGoto, Working
    <3>3. status[r] \in Terminal => status'[r] \in Terminal
      BY <2>4
      DEF RunStep, RunCheck, RunVerify, RunFloor, RunFloorAdd, RunFloorStamp,
          RunModelCall, RunPassesDone, RunWriteTerminal, RunCancelled, MarkCancelled,
          RunRecordFailure, RunLookup, RunFlag, RunLost, RunGoto, Terminal, NonTerminal
    <3> QED
      BY <1>1, <2>0, <3>1, <3>2, <3>3
  <2> QED
    BY <2>1, <2>2, <2>3, <2>4
<1>6. RunsItself'
  BY <1>1, <1>4 DEF RunsItself, NoBoot
<1>7. CreditsCounted'
  <2>1. faults \in Int /\ faults' \in Int /\ \A q \in Reviews : credits[q] \in Nat
    BY RunTyped, FaultAssumption
  <2>2. ASSUME NEW q \in Reviews, q # r
        PROVE  /\ credits'[q] > 0 => status'[q] \in Terminal
               /\ credits'[q] <= 1 + faults'
               /\ OnTheWay(q)' => credits'[q] <= faults'
    <3>1. /\ credits'[q] = credits[q] /\ status'[q] = status[q]
          /\ OnTheWay(q)' => OnTheWay(q)
      BY <1>1, <2>2 DEF OnTheWay
    <3>2. /\ credits[q] > 0 => status[q] \in Terminal
          /\ credits[q] <= 1 + faults
          /\ OnTheWay(q) => credits[q] <= faults
      BY DEF CreditsCounted
    <3> QED
      BY <1>1, <2>1, <3>1, <3>2
  <2>3. OnTheWay(r)' => run'[r] \in Working \ {"flag"}
    BY <1>1, NoReviewAssumption DEF OnTheWay, NoBoot
  <2> QED
    BY <1>5, <2>2, <2>3 DEF CreditsCounted
<1> QED
  BY <1>2, <1>3, <1>6, <1>7

-----------------------------------------------------------------------------
\* A handler's step in its own words: what it does to its own record, and
\* what it leaves.
LEMMA ServeShape ==
  ASSUME DtsInv, NEW h \in Handlers, Serve(h)
  PROVE  /\ proc = "up" /\ boot = NoBoot
         /\ UNCHANGED <<proc, todo, boot, faults, floor, called, spent, credits>>
         /\ \A g \in Handlers : g # h => api'[g] = api[g]
         /\ submissions \subseteq submissions' /\ reservation \subseteq reservation'
         /\ \/ status' = status
            \/ /\ At(h, "putRow") /\ api'[h].pc = "start"
               /\ status' = [status EXCEPT ![api[h].rev] = "PENDING"]
         /\ \/ run' = run
            \/ At(h, "start") /\ run' = [run EXCEPT ![api[h].rev] = "queued"]
<1> USE DEF DtsInv, SubmissionInv, SubmissionTypeOK, TypeOK, tables, pool, process
<1>1. proc = "up" /\ boot = NoBoot
  BY DEF Serve, LiveOnly
<1>2. UNCHANGED <<proc, todo, boot, faults, floor, called, spent, credits>>
  BY DEF Serve, PostStart, CallStart, CancelIntent, CancelBegin, PostStep, PostBegin,
         Probe, Create, Reserve, RecordReservation, CreateReviewRow,
         WriteSubmissionArn, WriteRowArn, HandlerFails
<1>3. \A g \in Handlers : g # h => api'[g] = api[g]
  BY DEF Serve, PostStart, CallStart, CancelIntent, CancelBegin, PostStep, PostBegin,
         Probe, Create, Reserve, RecordReservation, CreateReviewRow,
         WriteSubmissionArn, WriteRowArn, HandlerFails, Goto, Return
<1>4. submissions \subseteq submissions' /\ reservation \subseteq reservation'
  BY DEF Serve, PostStart, CallStart, CancelIntent, CancelBegin, PostStep, PostBegin,
         Probe, Create, Reserve, RecordReservation, CreateReviewRow,
         WriteSubmissionArn, WriteRowArn, HandlerFails
<1>5. \/ status' = status
      \/ /\ At(h, "putRow") /\ api'[h].pc = "start"
         /\ status' = [status EXCEPT ![api[h].rev] = "PENDING"]
  BY DEF Serve, PostStart, CallStart, CancelIntent, CancelBegin, PostStep, PostBegin,
         Probe, Create, Reserve, RecordReservation, CreateReviewRow,
         WriteSubmissionArn, WriteRowArn, HandlerFails, Goto, ApiState, Idle
<1>6. \/ run' = run
      \/ At(h, "start") /\ run' = [run EXCEPT ![api[h].rev] = "queued"]
  BY DEF Serve, PostStart, CallStart
<1> QED
  BY <1>1, <1>2, <1>3, <1>4, <1>5, <1>6

\* What the cancel route writes.
LEMMA CancelTyped ==
  ASSUME DtsInv, NEW h \in Handlers, (\E r \in Reviews : CancelBegin(h, r)) \/ CancelIntent(h)
  PROVE  SubmissionInv'
<1> USE DEF DtsInv, SubmissionInv, SubmissionTypeOK, tables
<1>1. CASE \E r \in Reviews : CancelBegin(h, r)
  BY <1>1
  DEF CancelBegin, ApiState, CancelPc, RowBehindPost, OneCreator, NothingYet,
      CancelHasReservation, ReservedOnce, Creating, At, BehindRow, CreatorPc
<1>2. CASE CancelIntent(h)
  <2>1. cancelAsked' \subseteq Reviews
    BY <1>2 DEF CancelIntent, StampCancel, At, ApiState, Idle
  <2> QED
    BY <1>2, <2>1
    DEF CancelIntent, Return, ApiState, RowBehindPost, OneCreator, NothingYet,
        CancelHasReservation, ReservedOnce, Creating, At, BehindRow, CreatorPc, Idle
<1> QED
  BY <1>1, <1>2

\* Every step of a handler leaves well-typed tables.
LEMMA ServeTyped ==
  ASSUME DtsInv, NEW h \in Handlers, Serve(h)
  PROVE  SubmissionInv' /\ TypeOK'
<1>1. SubmissionInv'
  BY ApiStepInv, CancelTyped DEF Serve, PostStart, ApiStep, DtsInv
<1>2. started' \subseteq Reviews /\ run' \in [Reviews -> RunPc]
  <2>1. CASE PostStart(h)
    BY <2>1
    DEF PostStart, CallStart, At, DtsInv, SubmissionInv, SubmissionTypeOK, TypeOK,
        ApiState, Idle, RunPc
  <2>2. CASE ~PostStart(h)
    BY <2>2 DEF Serve, pool, process, DtsInv, TypeOK
  <2> QED
    BY <2>1, <2>2
<1> QED
  BY <1>1, <1>2, ServeShape DEF SubmissionInv, TypeOK, DtsInv

\* No handler ends a review, or settles one that a run or the recovery holds.
LEMMA ServeControl ==
  ASSUME ~OverlappingRetries, DtsInv, NEW h \in Handlers, Serve(h)
  PROVE  OnePost' /\ LiveOnly' /\ Fresh' /\ RunsItself' /\ CreditsCounted'
<1> USE DEF DtsInv, SubmissionInv, SubmissionTypeOK, TypeOK
<1>0. /\ api \in [Handlers -> ApiState] /\ api' \in [Handlers -> ApiState]
      /\ api[h] # Idle => /\ api[h] \in [pc : PostPc \cup CancelPc, rev : Reviews]
                          /\ api[h].rev \in Reviews
  BY ServeTyped DEF ApiState, Idle
<1>1. \A r \in Reviews :
        /\ Posting(h, r)' => Posting(h, r) \/ \A g \in Handlers : ~Posting(g, r)
        /\ Creating(h, r)' => Creating(h, r) \/ (r \notin submissions /\ Posting(h, r))
  <2>1. CASE ApiStep(h)
    BY <2>1, PostsKeep
  <2>2. CASE (\E q \in Reviews : CancelBegin(h, q)) \/ CancelIntent(h)
    BY <1>0, <2>2
    DEF CancelBegin, CancelIntent, Return, Idle, Posting, Creating, PostPc, CreatorPc
  <2> QED
    BY <2>1, <2>2 DEF Serve, PostStart, ApiStep
<1>2. OnePost'
  BY <1>1, ServeShape DEF OnePost, Posting
<1>3. LiveOnly'
  BY ServeShape DEF LiveOnly
<1>3a. \A r \in Reviews :
         (r \notin submissions \/ \E g \in Handlers : Creating(g, r))'
           => r \notin submissions \/ \E g \in Handlers : Creating(g, r)
  BY <1>1, ServeShape DEF Creating
\* The row that is put, and the run that is queued, are not fresh afterwards.
<1>3b. ASSUME NEW r \in Reviews,
              (r \notin submissions \/ \E g \in Handlers : Creating(g, r))'
       PROVE  /\ ~(At(h, "putRow") /\ api'[h].pc = "start" /\ api[h].rev = r)
              /\ ~(At(h, "start") /\ api[h].rev = r)
  <2>1. SUFFICES ASSUME \/ At(h, "putRow") /\ api'[h].pc = "start"
                        \/ At(h, "start"),
                        api[h].rev = r
                 PROVE  FALSE
    OBVIOUS
  <2>2. r \in submissions'
    BY <2>1, ServeShape DEF At, RowBehindPost, BehindRow, CreatorPc
  <2>3. PICK g \in Handlers : Creating(g, r)'
    BY <1>3b, <2>2
  <2>4. g # h
    BY <1>1, <2>1, <2>2, <2>3, ServeShape
    DEF At, Creating, CreatorPc, RowBehindPost, BehindRow
  <2>5. Creating(g, r)
    BY <2>3, <2>4, ServeShape DEF Creating
  <2> QED
    BY <2>1, <2>4, <2>5 DEF OnePost, Posting, Creating, At, PostPc, CreatorPc
<1>4. Fresh'
  BY <1>0, <1>3a, <1>3b, ServeShape DEF Fresh
\* Neither does it touch a review that runs, ends or is settled.
<1>4a. \A r \in Reviews :
         /\ status'[r] # status[r] => run[r] = "none" /\ run'[r] = "none" /\ credits[r] = 0
         /\ run'[r] = run[r] \/ run'[r] = "queued"
  <2>1. At(h, "putRow") => Creating(h, api[h].rev) /\ run' = run
    BY ServeShape DEF At, Creating, CreatorPc
  <2> QED
    BY <1>0, <2>1, ServeShape DEF Fresh, Creating, At, CreatorPc, Idle
<1>5. RunsItself'
  BY <1>4a, ServeShape DEF RunsItself, Begun, Unfinished, Settling, NoBoot
<1>6. CreditsCounted'
  BY <1>4a, ServeShape, NoReviewAssumption DEF CreditsCounted, OnTheWay, Working, NoBoot
<1> QED
  BY <1>2, <1>3, <1>4, <1>5, <1>6

-----------------------------------------------------------------------------
\* A crash, a shutdown, a boot and its recovery leave well-typed tables.
LEMMA ProcessTyped ==
  ASSUME DtsInv, Process
  PROVE  SubmissionInv' /\ TypeOK'
<1> USE SpendAssumption, CostAssumption, FaultAssumption
    DEF DtsInv, SubmissionInv, SubmissionTypeOK, TypeOK, tables, pool, process
<1>1. CASE BeginStop \/ Boot \/ BootDone \/ BootLookup \/ BootSkip
  <2>1. /\ run' \in [Reviews -> RunPc] /\ todo' \subseteq Reviews
        /\ boot' \in {NoBoot} \cup [pc : {"lookup", "settle", "flag"}, rev : Reviews]
        /\ faults' \in 0 .. MaxFaults
    BY <1>1
    DEF BeginStop, Boot, BootDone, BootLookup, BootSkip, Raises, RunPc, Orphans, NoBoot
  <2> QED
    BY <1>1, <2>1, SubmissionKept DEF BeginStop, Boot, BootDone, BootLookup, BootSkip
<1>2. CASE Die
  <2>1. SubmissionInv'
    BY <1>2
    DEF Die, ApiState, Idle, RowBehindPost, OneCreator, NothingYet,
        CancelHasReservation, ReservedOnce, Creating, At, BehindRow, CreatorPc
  <2> QED
    BY <1>2, <2>1 DEF Die, RunPc
<1>3. CASE \E r \in Reviews : StampIntent(r)
  BY <1>3, SubmissionKept DEF StampIntent, StampCancel
<1>4. CASE \E r \in Reviews : Relabel(r)
  <2>1. /\ status' \in [Reviews -> Status] /\ todo' \subseteq Reviews
        /\ boot' \in {NoBoot} \cup [pc : {"lookup", "settle", "flag"}, rev : Reviews]
    BY <1>4 DEF Relabel, Status, Terminal
  <2> QED
    BY <1>4, <2>1, SubmissionKept DEF Relabel
<1>5. CASE BootSettle
  <2>1. boot.rev \in Reviews /\ boot' \in [pc : {"lookup", "settle", "flag"}, rev : Reviews]
    BY <1>5 DEF BootSettle, NoBoot
  <2>2. PICK actual \in Cost(boot.rev) :
          /\ reserved' = reserved - Amount
               - (IF boot.rev \in floor THEN FloorAmount ELSE 0) + actual
          /\ spent' = spent + actual
          /\ credits' = [credits EXCEPT ![boot.rev] = @ + 1]
    BY <1>5 DEF BootSettle, SettleActual
  <2>3. actual \in Nat
    BY DEF Cost
  <2>4. /\ reserved' \in Int /\ spent' \in Nat
        /\ credits' \in [Reviews -> Nat]
    BY <2>1, <2>2, <2>3
  <2> QED
    BY <1>5, <2>1, <2>4, SubmissionKept DEF BootSettle
<1>6. CASE BootFlag
  <2>1. released' \subseteq reservation
    BY <1>6 DEF BootFlag, FlagReleased, RunsItself
  <2> QED
    BY <1>6, <2>1, SubmissionKept DEF BootFlag
<1> QED
  BY <1>1, <1>2, <1>3, <1>4, <1>5, <1>6 DEF Process, Recover

\* What died with the process holds nothing, and the recovery settles only
\* reviews it has ended.
LEMMA ProcessControl ==
  ASSUME DtsInv, Process
  PROVE  OnePost' /\ LiveOnly' /\ Fresh' /\ RunsItself' /\ CreditsCounted'
<1> USE DEF DtsInv, SubmissionInv, SubmissionTypeOK, TypeOK, tables, pool, process
<1>1. CASE BeginStop
  <2>1. \A r \in Reviews : run'[r] = run[r] \/ run'[r] = "none"
    BY <1>1 DEF BeginStop
  <2> QED
    BY <1>1, <2>1
    DEF BeginStop, OnePost, LiveOnly, Fresh, RunsItself, CreditsCounted, OnTheWay,
        Posting, Creating, Begun, Unfinished, Settling, Working
<1>2. CASE Die
  BY <1>2, NoReviewAssumption, FaultAssumption
  DEF Die, OnePost, LiveOnly, Fresh, RunsItself, CreditsCounted, OnTheWay, Posting,
      Creating, Begun, Unfinished, Settling, Working, Idle, NoBoot
<1>3. CASE Boot \/ BootDone \/ \E r \in Reviews : StampIntent(r)
  BY <1>3
  DEF Boot, BootDone, StampIntent, OnePost, LiveOnly, Fresh, RunsItself,
      CreditsCounted, OnTheWay, Posting, Creating
<1>4. CASE \E r \in Reviews : Relabel(r)
  <2>1. PICK r \in Reviews : Relabel(r)
    BY <1>4
  <2>2. CASE status[r] \in NonTerminal
    <3>1. /\ status' = [status EXCEPT ![r] = "ERROR"]
          /\ boot' = [pc |-> "lookup", rev |-> r] /\ boot = NoBoot
          /\ proc = "booting" /\ run[r] = "none" /\ \A q \in Reviews : run[q] = "none"
          /\ credits[r] = 0
          /\ UNCHANGED <<submissions, reservation, api, credits, proc, run, faults>>
      BY <2>1, <2>2
      DEF Relabel, LiveOnly, CreditsCounted, NonTerminal, Terminal
    <3>2. OnePost' /\ LiveOnly' /\ RunsItself'
      BY <3>1
      DEF OnePost, Posting, LiveOnly, RunsItself, Begun, Unfinished, Settling, Terminal, NoBoot
    <3>3. r \in submissions /\ \A h \in Handlers : ~Creating(h, r)
      BY <2>2 DEF Fresh, NonTerminal
    <3>4. Fresh'
      BY <3>1, <3>3 DEF Fresh, Creating
    <3>5. CreditsCounted'
      BY <3>1, FaultAssumption DEF CreditsCounted, OnTheWay, Terminal, NoBoot
    <3> QED
      BY <3>2, <3>4, <3>5
  <2>3. CASE status[r] \notin NonTerminal
    <3>1. UNCHANGED <<status, boot, submissions, reservation, api, credits, proc, run, faults>>
      BY <2>1, <2>3 DEF Relabel
    <3> QED
      BY <3>1
      DEF OnePost, Posting, LiveOnly, Fresh, Creating, RunsItself, CreditsCounted, OnTheWay
  <2> QED
    BY <2>2, <2>3
<1>5. CASE BootLookup \/ BootFlag \/ BootSkip
  <2>1. /\ UNCHANGED <<submissions, reservation, api, credits, proc, run, status>>
        /\ faults <= faults'
        /\ \/ boot' = boot \/ boot' = NoBoot
           \/ /\ boot.pc = "lookup" /\ boot' = [boot EXCEPT !.pc = "settle"]
              /\ boot.rev \in reservation
    BY <1>5 DEF BootLookup, BootFlag, BootSkip, Raises, SettlementDue
  <2>2. OnePost' /\ Fresh'
    BY <2>1 DEF OnePost, Posting, Fresh, Creating
  <2>3. LiveOnly' /\ RunsItself'
    BY <2>1, FaultAssumption DEF LiveOnly, RunsItself, NoBoot
  <2>4. ASSUME NEW r \in Reviews
        PROVE  OnTheWay(r)' => OnTheWay(r)
    BY <2>1, NoReviewAssumption DEF OnTheWay, NoBoot
  <2>5. CreditsCounted'
    BY <2>1, <2>4, ProcessTyped, FaultAssumption DEF CreditsCounted
  <2> QED
    BY <2>2, <2>3, <2>5
<1>6. CASE BootSettle
  <2>1. /\ boot.pc = "settle" /\ boot.rev \in Reviews /\ boot # NoBoot
        /\ boot' = [boot EXCEPT !.pc = "flag"]
        /\ credits' = [credits EXCEPT ![boot.rev] = @ + 1]
        /\ UNCHANGED <<submissions, reservation, api, proc, run, status, faults>>
    BY <1>6 DEF BootSettle, SettleActual, NoBoot
  <2>2. OnePost' /\ LiveOnly' /\ RunsItself'
    BY <2>1 DEF OnePost, Posting, LiveOnly, RunsItself, NoBoot
  <2>3. boot.rev \in submissions /\ \A h \in Handlers : ~Creating(h, boot.rev)
    BY <2>1 DEF RunsItself, Fresh, Terminal
  <2>4. Fresh'
    BY <2>1, <2>3 DEF Fresh, Creating
  <2>5. CreditsCounted'
    BY <2>1, FaultAssumption DEF CreditsCounted, OnTheWay, RunsItself, LiveOnly, Working
  <2> QED
    BY <2>2, <2>4, <2>5
<1> QED
  BY <1>1, <1>2, <1>3, <1>4, <1>5, <1>6 DEF Process, Recover

-----------------------------------------------------------------------------
\* Every step of the deployment preserves the invariant, if the requests of a
\* client for one review do not overlap.
LEMMA DtsStep ==
  ASSUME ~OverlappingRetries, DtsInv, [Next]_vars
  PROVE  DtsInv'
<1>1. CASE \E h \in Handlers : Serve(h)
  BY <1>1, ServeTyped, ServeControl DEF DtsInv
<1>2. CASE \E r \in Reviews : RunStep(r)
  BY <1>2, RunTyped, RunControl DEF DtsInv
<1>3. CASE Process
  BY <1>3, ProcessTyped, ProcessControl DEF DtsInv
<1>4. CASE UNCHANGED vars
  BY <1>4
  DEF vars, tables, pool, process, DtsInv, SubmissionInv, SubmissionTypeOK, RowBehindPost,
      OneCreator, NothingYet, CancelHasReservation, ReservedOnce, Creating, At, TypeOK,
      OnePost, Posting, LiveOnly, Fresh, RunsItself, CreditsCounted, OnTheWay
<1> QED
  BY <1>1, <1>2, <1>3, <1>4 DEF Next

\* The invariant holds throughout, unless a client overlaps its retries.
THEOREM DtsInvariant ==
  ASSUME ~OverlappingRetries
  PROVE  Spec => []DtsInv
<1>1. DtsInv /\ [Next]_vars => DtsInv'
  BY DtsStep
<1> QED
  BY DtsInitInv, <1>1, PTL DEF Spec

\* Every variable keeps its type, through restarts at any call.
THEOREM DtsTypeCorrect ==
  ASSUME ~OverlappingRetries
  PROVE  Spec => []TypeOK
<1>1. DtsInv => TypeOK
  BY DEF DtsInv
<1> QED
  BY DtsInvariant, <1>1, PTL

\* Run, failure handler and recovery give a reservation back once and after
\* the end of its review, for any number of reviews, workers and restarts;
\* each table call that raises can cost one more.
THEOREM CreditedOnceHolds ==
  ASSUME ~OverlappingRetries
  PROVE  Spec => []CreditedOnce
<1>1. DtsInv => CreditedOnce
  BY DEF DtsInv, CreditsCounted, CreditedOnce
<1> QED
  BY DtsInvariant, <1>1, PTL

-----------------------------------------------------------------------------
\* The histories: until a table call fails `calm` is the statuses, and a review
\* cancelled in the queue stays cancelled, the first poll of its run being the
\* only way past.
CalmIsStatus == faults = 0 => calm = status

\* A run past its first poll and before its end.
Unseen == Unfinished \ {"check"}

\* A review cancelled in the queue got past a poll only if that poll failed.
SparedSeen ==
  /\ \A r \in cancelAsked : status[r] # "absent"
  /\ spared \subseteq cancelAsked
  /\ \A r \in spared :
       /\ run[r] \in Unseen => faults >= 1
       /\ r \in called => faults >= 2

\* The invariant together with the histories.
WatchedInv == DtsInv /\ CalmIsStatus /\ SparedSeen

\* Faults are only ever counted up.
LEMMA FaultsGrow ==
  ASSUME DtsInv, [Next]_vars
  PROVE  faults \in Nat /\ faults' \in Nat /\ faults <= faults'
<1> USE FaultAssumption DEF DtsInv, TypeOK, Raises, pool, process
<1>1. CASE \E h \in Handlers : Serve(h)
  BY <1>1, ServeShape
<1>2. CASE \E r \in Reviews : RunStep(r)
  BY <1>2
  DEF RunStep, RunBegin, RunCheck, RunVerify, RunFloor, RunFloorAdd, RunFloorStamp,
      RunModelCall, RunPassesDone, RunWriteTerminal, RunCancelled, RunFails,
      RunRecordFailure, RunLookup, RunSettle, RunFlag, RunLost, Poll
<1>3. CASE Process
  BY <1>3
  DEF Process, Recover, BeginStop, Die, Boot, BootLookup, BootSettle, BootFlag, BootSkip,
      BootDone, StampIntent, Relabel
<1> QED
  BY <1>1, <1>2, <1>3 DEF Next, vars

\* Until a table call fails, a step moves at most one status, and only along
\* the lifecycle.
LEMMA StatusStep ==
  ASSUME ~OverlappingRetries, DtsInv, [Next]_vars, faults' = 0
  PROVE  \/ status' = status
         \/ \E r \in Reviews :
              \/ status[r] = "absent" /\ status' = [status EXCEPT ![r] = "PENDING"]
              \/ status[r] = "PENDING" /\ status' = [status EXCEPT ![r] = "RUNNING"]
              \/ /\ status[r] \in NonTerminal
                 /\ \E s \in Terminal : status' = [status EXCEPT ![r] = s]
<1> USE DEF DtsInv, SubmissionInv, SubmissionTypeOK, TypeOK, tables, pool, process,
        NonTerminal, Terminal
<1>0. faults = 0
  BY FaultsGrow
<1>1. CASE \E h \in Handlers : Serve(h)
  <2>1. PICK h \in Handlers : Serve(h)
    BY <1>1
  <2>2. At(h, "putRow") => Creating(h, api[h].rev) /\ api[h].rev \in Reviews
    BY DEF At, Creating, CreatorPc, ApiState, Idle
  <2> QED
    BY <2>1, <2>2, ServeShape DEF Fresh
<1>2. CASE \E r \in Reviews : RunStep(r)
  <2>1. PICK r \in Reviews : RunStep(r)
    BY <1>2
  <2>2. CASE RunBegin(r)
    BY <2>2 DEF RunBegin
  <2>3. CASE RunVerify(r)
    BY <2>3 DEF RunVerify, RunsItself, Begun, Unfinished
  <2>4. CASE RunWriteTerminal(r)
    BY <2>4 DEF RunWriteTerminal
  <2>5. CASE RunCancelled(r)
    BY <2>5 DEF RunCancelled, MarkCancelled
  <2>6. CASE RunRecordFailure(r)
    BY <1>0, <2>6 DEF RunRecordFailure, RunsItself
  <2>7. CASE ~(RunBegin(r) \/ RunVerify(r) \/ RunWriteTerminal(r) \/ RunCancelled(r)
                 \/ RunRecordFailure(r))
    BY <2>1, <2>7
    DEF RunStep, RunCheck, RunFloor, RunFloorAdd, RunFloorStamp, RunModelCall,
        RunPassesDone, RunFails, RunLookup, RunSettle, RunFlag, RunLost
  <2> QED
    BY <2>2, <2>3, <2>4, <2>5, <2>6, <2>7
<1>3. CASE Process
  <2>1. CASE \E r \in Reviews : Relabel(r)
    BY <2>1 DEF Relabel
  <2>2. CASE ~\E r \in Reviews : Relabel(r)
    BY <1>3, <2>2
    DEF Process, Recover, BeginStop, Die, Boot, BootLookup, BootSettle, BootFlag,
        BootSkip, BootDone, StampIntent
  <2> QED
    BY <2>1, <2>2
<1>4. CASE UNCHANGED vars
  BY <1>4 DEF vars
<1> QED
  BY <1>1, <1>2, <1>3, <1>4 DEF Next

\* A cancel intent stays on the row, which is put before it can be written.
LEMMA IntentsStay ==
  ASSUME ~OverlappingRetries, DtsInv, SparedSeen, [Next]_vars
  PROVE  /\ cancelAsked \subseteq cancelAsked'
         /\ \A r \in cancelAsked' : status'[r] # "absent"
<1> USE DEF DtsInv, SubmissionInv, SubmissionTypeOK, TypeOK, tables, pool, process
<1>1. CASE \E h \in Handlers : Serve(h)
  <2>1. PICK h \in Handlers : Serve(h)
    BY <1>1
  <2>2. CASE CreateReviewRow(h)
    <3>1. api[h].rev \in Reviews /\ status[api[h].rev] = "absent"
      BY <2>2 DEF CreateReviewRow, At, ApiState, Idle, Fresh, Creating, CreatorPc
    <3> QED
      BY <2>2, <3>1 DEF CreateReviewRow, SparedSeen
  <2>3. CASE CancelIntent(h)
    BY <2>3 DEF CancelIntent, StampCancel, SparedSeen, NonTerminal
  <2>4. CASE ~CreateReviewRow(h) /\ ~CancelIntent(h)
    BY <2>1, <2>4
    DEF Serve, PostStart, CallStart, CancelBegin, PostStep, PostBegin, Probe, Create,
        Reserve, RecordReservation, WriteSubmissionArn, WriteRowArn, HandlerFails, SparedSeen
  <2> QED
    BY <2>2, <2>3, <2>4
<1>2. CASE \E r \in Reviews : RunStep(r)
  <2>1. PICK r \in Reviews : RunStep(r)
    BY <1>2
  <2>2. cancelAsked' = cancelAsked
    BY <2>1
    DEF RunStep, RunBegin, RunCheck, RunVerify, RunFloor, RunFloorAdd, RunFloorStamp,
        RunModelCall, RunPassesDone, RunWriteTerminal, RunCancelled, RunFails,
        RunRecordFailure, RunLookup, RunSettle, RunFlag, RunLost
  <2>3. \A q \in Reviews : status'[q] = status[q] \/ status'[q] # "absent"
    BY <2>1
    DEF RunStep, RunBegin, RunCheck, RunVerify, RunFloor, RunFloorAdd, RunFloorStamp,
        RunModelCall, RunPassesDone, RunWriteTerminal, RunCancelled, MarkCancelled, RunFails,
        RunRecordFailure, RunLookup, RunSettle, RunFlag, RunLost
  <2> QED
    BY <2>2, <2>3 DEF SparedSeen
<1>3. CASE Process
  <2>1. CASE \E r \in Reviews : Relabel(r)
    BY <2>1 DEF Relabel, SparedSeen
  <2>2. CASE \E r \in Reviews : StampIntent(r)
    BY <2>2 DEF StampIntent, StampCancel, SparedSeen, NonTerminal
  <2>3. CASE ~\E r \in Reviews : Relabel(r) \/ StampIntent(r)
    BY <1>3, <2>3
    DEF Process, Recover, BeginStop, Die, Boot, BootLookup, BootSettle, BootFlag,
        BootSkip, BootDone, SparedSeen
  <2> QED
    BY <2>1, <2>2, <2>3
<1>4. CASE UNCHANGED vars
  BY <1>4 DEF vars, SparedSeen
<1> QED
  BY <1>1, <1>2, <1>3, <1>4 DEF Next

\* A run gets past its first poll, or reaches a model, only by a poll that
\* failed, if a cancel is on the row.
LEMMA PollsSeen ==
  ASSUME DtsInv, [Next]_vars, NEW r \in Reviews
  PROVE  /\ run'[r] \in Unseen /\ run[r] \notin Unseen /\ r \in cancelAsked => faults' = faults + 1
         /\ r \in called' /\ r \notin called =>
              run[r] \in Unseen /\ (r \in cancelAsked => faults' = faults + 1)
<1> USE DEF DtsInv, TypeOK, tables, pool, process, Unseen, Unfinished
<1>1. CASE \E h \in Handlers : Serve(h)
  BY <1>1, ServeShape, NoReviewAssumption DEF SubmissionInv, SubmissionTypeOK, ApiState, Idle
<1>2. CASE \E q \in Reviews : RunStep(q)
  <2>1. PICK q \in Reviews : RunStep(q)
    BY <1>2
  <2>2. CASE q # r
    <3>1. run'[r] = run[r]
      BY <2>1, <2>2
      DEF RunStep, RunBegin, RunCheck, RunVerify, RunFloor, RunFloorAdd, RunFloorStamp,
          RunModelCall, RunPassesDone, RunWriteTerminal, RunCancelled, RunFails,
          RunRecordFailure, RunLookup, RunSettle, RunFlag, RunLost, RunGoto
    <3>2. r \in called' => r \in called
      BY <2>1, <2>2
      DEF RunStep, RunBegin, RunCheck, RunVerify, RunFloor, RunFloorAdd, RunFloorStamp,
          RunModelCall, RunPassesDone, RunWriteTerminal, RunCancelled, RunFails,
          RunRecordFailure, RunLookup, RunSettle, RunFlag, RunLost
    <3> QED
      BY <3>1, <3>2
  <2>3. CASE RunCheck(r)
    BY <2>3 DEF RunCheck, Poll, Raises, RunGoto
  <2>4. CASE RunModelCall(r)
    BY <2>4 DEF RunModelCall, Poll, Raises, RunGoto
  <2>5. CASE q = r /\ ~RunCheck(r) /\ ~RunModelCall(r)
    <3>1. run'[r] \in Unseen => run[r] \in Unseen
      BY <2>1, <2>5
      DEF RunStep, RunBegin, RunVerify, RunFloor, RunFloorAdd, RunFloorStamp,
          RunPassesDone, RunWriteTerminal, RunCancelled, RunFails,
          RunRecordFailure, RunLookup, RunSettle, RunFlag, RunLost, RunGoto
    <3>2. called' = called
      BY <2>1, <2>5
      DEF RunStep, RunBegin, RunVerify, RunFloor, RunFloorAdd, RunFloorStamp,
          RunPassesDone, RunWriteTerminal, RunCancelled, RunFails,
          RunRecordFailure, RunLookup, RunSettle, RunFlag, RunLost
    <3> QED
      BY <3>1, <3>2
  <2> QED
    BY <2>1, <2>2, <2>3, <2>4, <2>5
<1>3. CASE Process
  BY <1>3
  DEF Process, Recover, BeginStop, Die, Boot, BootLookup, BootSettle, BootFlag,
      BootSkip, BootDone, Relabel, StampIntent
<1>4. CASE UNCHANGED vars
  BY <1>4 DEF vars
<1> QED
  BY <1>1, <1>2, <1>3, <1>4 DEF Next

\* Nothing is cancelled and nothing has failed at first.
LEMMA WatchedInitInv == WatchedInit => WatchedInv
  BY DtsInitInv
  DEF WatchedInit, WatchedInv, CalmIsStatus, SparedSeen, Init, SubmissionInit

\* Every step keeps the histories true.
LEMMA WatchedStep ==
  ASSUME ~OverlappingRetries, WatchedInv, [WatchedNext]_watched
  PROVE  WatchedInv'
<1> USE DEF WatchedInv
<1>1. [Next]_vars
  BY DEF WatchedNext, watched
<1>2. DtsInv'
  BY <1>1, DtsStep
<1>3. CalmIsStatus'
  <2>1. CASE WatchedNext
    BY <2>1 DEF WatchedNext, CalmIsStatus
  <2>2. CASE UNCHANGED watched
    BY <2>2 DEF watched, vars, pool, tables, CalmIsStatus
  <2> QED
    BY <2>1, <2>2
<1>4. SparedSeen'
  <2>1. \A r \in spared' :
          r \in spared \/ (r \in cancelAsked' \ called' /\ run'[r] = "queued")
    BY DEF WatchedNext, watched
  <2>2. spared' \subseteq cancelAsked'
    BY <1>1, <2>1, IntentsStay DEF SparedSeen
  <2>3. cancelAsked' \subseteq Reviews
    BY <1>2 DEF DtsInv, SubmissionInv, SubmissionTypeOK
  <2>4. ASSUME NEW r \in spared'
        PROVE  /\ run'[r] \in Unseen => faults' >= 1
               /\ r \in called' => faults' >= 2
    <3>1. CASE r \in spared
      BY <1>1, <2>2, <2>3, <3>1, FaultsGrow, PollsSeen DEF SparedSeen
    <3>2. CASE r \notin spared
      BY <2>1, <3>2 DEF Unseen, Unfinished
    <3> QED
      BY <3>1, <3>2
  <2> QED
    BY <1>1, <2>2, <2>4, IntentsStay DEF SparedSeen
<1> QED
  BY <1>2, <1>3, <1>4

\* They are true throughout.
THEOREM WatchedInvariant ==
  ASSUME ~OverlappingRetries
  PROVE  WatchedSpec => []WatchedInv
<1>1. WatchedInv /\ [WatchedNext]_watched => WatchedInv'
  BY WatchedStep
<1> QED
  BY WatchedInitInv, <1>1, PTL DEF WatchedSpec

\* Both polls between the queue and a model call have to fail before a review
\* cancelled in the queue costs anything.
THEOREM CancelledCostsNothing ==
  ASSUME ~OverlappingRetries
  PROVE  WatchedSpec => []CancelledInQueueCostsNothing
<1>1. WatchedInv => CancelledInQueueCostsNothing
  BY DEF WatchedInv, SparedSeen, CancelledInQueueCostsNothing
<1> QED
  BY WatchedInvariant, <1>1, PTL

\* The in-process deployment implements ReviewLifecycle until a table call
\* fails: its initial statuses are the lifecycle's, and every step of a
\* handler, a run, the shutdown, a death or the recovery is a step of the
\* lifecycle or leaves the statuses alone.
THEOREM DtsImplementsLifecycle ==
  ASSUME ~OverlappingRetries
  PROVE  WatchedSpec => ImplementsLifecycle
<1>1. WatchedInit => Lifecycle!LifecycleInit
  BY DEF WatchedInit, Init, SubmissionInit, Lifecycle!LifecycleInit
<1>2. WatchedInv /\ [WatchedNext]_watched => [Lifecycle!LifecycleNext]_calm
  <2> SUFFICES ASSUME WatchedInv, WatchedNext, calm' # calm
               PROVE  Lifecycle!LifecycleNext
    BY DEF watched
  <2>1. faults' = 0 /\ calm' = status' /\ [Next]_vars
    BY DEF WatchedNext
  <2>2. calm = status
    BY <2>1, FaultsGrow DEF WatchedInv, CalmIsStatus
  <2>3. \E r \in Reviews :
          \/ status[r] = "absent" /\ status' = [status EXCEPT ![r] = "PENDING"]
          \/ status[r] = "PENDING" /\ status' = [status EXCEPT ![r] = "RUNNING"]
          \/ /\ status[r] \in NonTerminal
             /\ \E s \in Terminal : status' = [status EXCEPT ![r] = s]
    BY <2>1, <2>2, StatusStep DEF WatchedInv
  <2> QED
    BY <2>1, <2>2, <2>3
    DEF NonTerminal, Terminal, Lifecycle!LifecycleNext, Lifecycle!Accept, Lifecycle!Begin,
        Lifecycle!Finish, Lifecycle!Finished, Lifecycle!Becomes
<1> QED
  BY WatchedInvariant, <1>1, <1>2, PTL
  DEF WatchedSpec, ImplementsLifecycle, Lifecycle!LifecycleSpec

-----------------------------------------------------------------------------
(* The spend counter and the reservations it has to cover.                 *)

\* A nonempty set of natural numbers has a least element.
LEMMA LeastNumber ==
  ASSUME NEW T \in SUBSET Nat, T # {}
  PROVE  \E n \in T : \A m \in T : n <= m
<1> DEFINE Less == {ss \in Nat \X Nat : ss[1] < ss[2]}
<1>2. IsWellFoundedOn(Less, Nat)
  BY NatLessThanWellFounded, Zenon DEF OpToRel
<1>3. PICK n \in T : \A m \in T : ~(<<m, n>> \in Less)
  <2> HIDE DEF Less
  <2> QED
    BY <1>2, WFMin, Zenon
<1>4. \A m \in T : ~(m < n)
  BY <1>3
<1> QED
  BY <1>4

\* The element a fold takes first.
First(s) == CHOOSE x \in s : TRUE

\* it adds up f over the subsets of S that are in D, as MapThenSumSet does.
Adds(it, f, D) ==
  it = [s \in D |-> IF s = {} THEN 0 ELSE f[First(s)] + it[s \ {First(s)}]]

\* The subsets with at most n elements.
UpTo(S, n) == {s \in SUBSET S : Cardinality(s) <= n}

\* One taken from a subset of a finite set leaves one fewer.
LEMMA FirstIn ==
  ASSUME NEW S, IsFiniteSet(S), NEW s \in SUBSET S, s # {}
  PROVE  /\ First(s) \in s /\ First(s) \in S
         /\ s \ {First(s)} \in SUBSET S
         /\ IsFiniteSet(s) /\ Cardinality(s) \in Nat \ {0}
         /\ Cardinality(s \ {First(s)}) = Cardinality(s) - 1
<1>1. First(s) \in s
  BY DEF First
<1>2. IsFiniteSet(s)
  BY FS_Subset
<1>3. Cardinality(s) \in Nat /\ Cardinality(s) # 0
  BY <1>2, FS_EmptySet, FS_CardinalityType
<1>4. Cardinality(s \ {First(s)}) = Cardinality(s) - 1
  BY <1>1, <1>2, FS_RemoveElement
<1> QED
  BY <1>1, <1>2, <1>3, <1>4

\* There is such a sum.
LEMMA SumUpTo ==
  ASSUME NEW S, IsFiniteSet(S), NEW f, NEW n \in Nat
  PROVE  \E it : Adds(it, f, UpTo(S, n))
<1> DEFINE Without == {m \in Nat : ~\E it : Adds(it, f, UpTo(S, m))}
<1>1. SUFFICES ASSUME Without # {} PROVE FALSE
  OBVIOUS
<1>2. PICK m \in Without : \A k \in Without : m <= k
  <2>1. Without \in SUBSET Nat
    OBVIOUS
  <2> HIDE DEF Without
  <2> QED
    BY <1>1, <2>1, LeastNumber
<1>3. CASE m = 0
  <2> DEFINE it == [s \in UpTo(S, 0) |-> 0]
  <2>1. \A s \in UpTo(S, 0) : s = {}
    <3> TAKE s \in UpTo(S, 0)
    <3>1. s \in SUBSET S /\ Cardinality(s) <= 0
      BY DEF UpTo
    <3>2. s # {} => Cardinality(s) \in Nat \ {0}
      BY <3>1, FirstIn
    <3> QED
      BY <3>1, <3>2
  <2>2. it = [s \in UpTo(S, 0) |-> IF s = {} THEN 0 ELSE f[First(s)] + it[s \ {First(s)}]]
    BY <2>1
  <2>3. Adds(it, f, UpTo(S, 0))
    BY <2>2 DEF Adds
  <2> QED
    BY <1>3, <2>3
<1>4. CASE m # 0
  <2>1. m - 1 \in Nat /\ m - 1 \notin Without
    BY <1>2, <1>4
  <2>2. PICK h : Adds(h, f, UpTo(S, m - 1))
    BY <2>1
  <2> DEFINE it == [s \in UpTo(S, m) |-> IF s = {} THEN 0 ELSE f[First(s)] + h[s \ {First(s)}]]
  <2>3. ASSUME NEW s \in UpTo(S, m), s # {}
        PROVE  it[s \ {First(s)}] = h[s \ {First(s)}]
    <3>0. s \in SUBSET S /\ Cardinality(s) <= m
      BY DEF UpTo
    <3> DEFINE t == s \ {First(s)}
    <3>1. t \in SUBSET S /\ Cardinality(t) <= m - 1 /\ Cardinality(t) <= m
      BY <3>0, <2>3, FirstIn
    <3>2. t \in UpTo(S, m - 1) /\ t \in UpTo(S, m)
      BY <3>1 DEF UpTo
    <3> HIDE DEF t
    <3>3. h[t] = IF t = {} THEN 0 ELSE f[First(t)] + h[t \ {First(t)}]
      BY <2>2, <3>2 DEF Adds
    <3>4. it[t] = h[t]
      BY <3>2, <3>3
    <3> QED
      BY <3>4 DEF t
  <2>4. it = [s \in UpTo(S, m) |-> IF s = {} THEN 0 ELSE f[First(s)] + it[s \ {First(s)}]]
    BY <2>3
  <2>5. Adds(it, f, UpTo(S, m))
    <3> HIDE DEF it
    <3> QED BY <2>4 DEF Adds
  <2> QED
    BY <1>2, <2>5
<1> QED
  BY <1>3, <1>4

\* Over every subset of a finite set.
LEMMA SumExists ==
  ASSUME NEW S, IsFiniteSet(S), NEW f
  PROVE  \E it : Adds(it, f, SUBSET S)
<1>1. Cardinality(S) \in Nat /\ UpTo(S, Cardinality(S)) = SUBSET S
  BY FS_CardinalityType, FS_Subset DEF UpTo
<1>2. \E it : Adds(it, f, UpTo(S, Cardinality(S)))
  BY <1>1, SumUpTo
<1> QED
  BY <1>1, <1>2

\* The sum of f over S.
Total(f, S) == (CHOOSE it : Adds(it, f, SUBSET S))[S]

\* If no term but that of r grows by more than nothing, and that of r by no
\* more than d, the sum grows by no more than d.
LEMMA SumMoves ==
  ASSUME NEW S, IsFiniteSet(S), NEW f \in [S -> Int], NEW g \in [S -> Int],
         NEW d \in Int, NEW r,
         \A x \in S : g[x] <= f[x] + (IF x = r THEN d ELSE 0)
  PROVE  /\ Total(f, S) \in Int /\ Total(g, S) \in Int
         /\ Total(g, S) <= Total(f, S) + (IF r \in S THEN d ELSE 0)
<1> DEFINE F == CHOOSE it : Adds(it, f, SUBSET S)
           G == CHOOSE it : Adds(it, g, SUBSET S)
<1>1. Adds(F, f, SUBSET S) /\ Adds(G, g, SUBSET S)
  BY SumExists
<1>2. Total(f, S) = F[S] /\ Total(g, S) = G[S]
  BY DEF Total
<1> HIDE DEF F, G
<1> DEFINE Moved(s) == F[s] \in Int /\ G[s] \in Int /\ G[s] <= F[s] + (IF r \in s THEN d ELSE 0)
           Bad == {n \in Nat : \E s \in SUBSET S : Cardinality(s) = n /\ ~Moved(s)}
<1>3. ASSUME NEW s \in SUBSET S PROVE Moved(s)
  <2>1. SUFFICES ASSUME ~Moved(s) PROVE FALSE
    OBVIOUS
  <2>2. Cardinality(s) \in Bad
    BY <2>1, FS_Subset, FS_CardinalityType
  <2>3. PICK n \in Bad : \A m \in Bad : n <= m
    <3>1. Bad \in SUBSET Nat
      OBVIOUS
    <3> HIDE DEF Bad
    <3> QED
      BY <2>2, <3>1, LeastNumber
  <2>4. PICK t \in SUBSET S : Cardinality(t) = n /\ ~Moved(t)
    BY <2>3
  <2>5. F[t] = (IF t = {} THEN 0 ELSE f[First(t)] + F[t \ {First(t)}])
        /\ G[t] = (IF t = {} THEN 0 ELSE g[First(t)] + G[t \ {First(t)}])
    BY <1>1 DEF Adds
  <2>6. t # {}
    BY <2>4, <2>5
  <2> DEFINE u == t \ {First(t)}
  <2>7. /\ First(t) \in t /\ First(t) \in S /\ u \in SUBSET S
        /\ n \in Nat \ {0} /\ Cardinality(u) = n - 1
    BY <2>4, <2>6, FirstIn
  <2>8. Moved(u)
    <3>1. n - 1 \notin Bad
      BY <2>3, <2>7
    <3> HIDE DEF Moved
    <3> QED
      BY <2>7, <3>1
  <2>9. /\ F[t] = f[First(t)] + F[u] /\ G[t] = g[First(t)] + G[u]
        /\ g[First(t)] <= f[First(t)] + (IF First(t) = r THEN d ELSE 0)
        /\ (r \in t <=> r = First(t) \/ r \in u) /\ ~(r = First(t) /\ r \in u)
        /\ f[First(t)] \in Int /\ g[First(t)] \in Int
    BY <2>5, <2>6, <2>7
  <2> HIDE DEF u
  <2>10. Moved(t)
    BY <2>8, <2>9
  <2> QED
    BY <2>4, <2>10
<1> QED
  BY <1>2, <1>3

\* Nothing adds up to nothing.
LEMMA SumOfNothing ==
  ASSUME NEW S, IsFiniteSet(S), NEW f, \A x \in S : f[x] = 0
  PROVE  Total(f, S) = 0
<1> DEFINE F == CHOOSE it : Adds(it, f, SUBSET S)
<1>1. Adds(F, f, SUBSET S)
  BY SumExists
<1>2. Total(f, S) = F[S]
  BY DEF Total
<1> HIDE DEF F
<1> DEFINE Bad == {n \in Nat : \E s \in SUBSET S : Cardinality(s) = n /\ F[s] # 0}
<1>3. SUFFICES ASSUME F[S] # 0 PROVE FALSE
  BY <1>2
<1>4. Cardinality(S) \in Bad
  BY <1>3, FS_CardinalityType
<1>5. PICK n \in Bad : \A m \in Bad : n <= m
  <2>1. Bad \in SUBSET Nat
    OBVIOUS
  <2> HIDE DEF Bad
  <2> QED
    BY <1>4, <2>1, LeastNumber
<1>6. PICK t \in SUBSET S : Cardinality(t) = n /\ F[t] # 0
  BY <1>5
<1>7. F[t] = IF t = {} THEN 0 ELSE f[First(t)] + F[t \ {First(t)}]
  BY <1>1 DEF Adds
<1>8. t # {}
  BY <1>6, <1>7
<1> DEFINE u == t \ {First(t)}
<1>9. First(t) \in S /\ u \in SUBSET S /\ n \in Nat \ {0} /\ Cardinality(u) = n - 1
  BY <1>6, <1>8, FirstIn
<1>10. F[u] = 0
  BY <1>5, <1>9
<1> QED
  BY <1>6, <1>7, <1>8, <1>9, <1>10

\* What one review holds of the counter, and a top-up that is not recorded yet.
Held ==
  [r \in Reviews |-> Holds(r) + (IF run[r] = "floorStamp" THEN FloorAmount ELSE 0)]

CoversHeld == faults = 0 => reserved >= spent + Total(Held, Reviews)

\* A reservation is recorded after it is made.
MadeFirst ==
  /\ \A r \in reservation : made[r] = 1
  /\ \A h \in Handlers : At(h, "record") => made[api[h].rev] = 1

\* The operator of the property adds up the same terms.
LEMMA HoldsTotal ==
  ASSUME IsFiniteSet(Reviews)
  PROVE  MapThenSumSet(Holds, Reviews) = Total([r \in Reviews |-> Holds(r)], Reviews)
<1> DEFINE f == [r \in Reviews |-> Holds(r)]
           Eq(it) == it = [s \in SUBSET Reviews |->
                             IF s = {} THEN 0
                             ELSE Holds(CHOOSE x \in s : TRUE) + it[s \ {CHOOSE x \in s : TRUE}]]
<1>1. \A s \in SUBSET Reviews : s # {} => Holds(CHOOSE x \in s : TRUE) = f[First(s)]
  BY DEF First
<1>2. ASSUME NEW it PROVE Adds(it, f, SUBSET Reviews) <=> Eq(it)
  BY <1>1 DEF Adds, First
<1>3. MapThenSumSet(Holds, Reviews) = (CHOOSE it : Eq(it))[Reviews]
  BY DEF MapThenSumSet, MapThenFoldSet
<1>4. (CHOOSE it : Eq(it)) = (CHOOSE it : Adds(it, f, SUBSET Reviews))
  <2> HIDE DEF f, Eq
  <2> QED
    BY <1>2
<1> QED
  BY <1>3, <1>4 DEF Total

\* The terms are integers.
LEMMA HeldTyped ==
  ASSUME DtsInv
  PROVE  /\ Held \in [Reviews -> Int] /\ [r \in Reviews |-> Holds(r)] \in [Reviews -> Int]
         /\ reserved \in Int /\ spent \in Int
  BY SpendAssumption, CostAssumption
  DEF Held, Holds, DtsInv, SubmissionInv, SubmissionTypeOK, TypeOK

\* What moves the counter by more than it moves the terms keeps it covered.
LEMMA MoneyMoves ==
  ASSUME IsFiniteSet(Reviews), DtsInv, DtsInv', CoversHeld, faults' = 0 => faults = 0,
         NEW r, NEW d \in Int, r \in Reviews \/ d = 0,
         faults' = 0 =>
           /\ reserved' - spent' >= reserved - spent + d
           /\ \A x \in Reviews : Held'[x] <= Held[x] + (IF x = r THEN d ELSE 0)
  PROVE  CoversHeld'
<1> SUFFICES ASSUME faults' = 0 PROVE reserved' >= spent' + Total(Held', Reviews)
  BY DEF CoversHeld
<1> DEFINE f == Held
           g == Held'
<1>1. f \in [Reviews -> Int] /\ reserved \in Int /\ spent \in Int
  BY HeldTyped
<1>2. g \in [Reviews -> Int] /\ reserved' \in Int /\ spent' \in Int
  <2>1. DtsInv' => (Held \in [Reviews -> Int] /\ reserved \in Int /\ spent \in Int)'
    BY HeldTyped, PTL
  <2> QED
    BY <2>1
<1>3. \A x \in Reviews : g[x] <= f[x] + (IF x = r THEN d ELSE 0)
  OBVIOUS
<1>4. /\ reserved >= spent + Total(f, Reviews)
      /\ reserved' - spent' >= reserved - spent + d
  BY DEF CoversHeld
<1> HIDE DEF f, g
<1>5. /\ Total(f, Reviews) \in Int /\ Total(g, Reviews) \in Int
      /\ Total(g, Reviews) <= Total(f, Reviews) + d
  BY <1>1, <1>2, <1>3, SumMoves
<1>6. reserved' >= spent' + Total(g, Reviews)
  <2> DEFINE m == Total(f, Reviews)
             n == Total(g, Reviews)
             a == reserved'
             b == spent'
  <2>1. m \in Int /\ n \in Int /\ n <= m + d /\ a \in Int /\ b \in Int
        /\ reserved >= spent + m /\ a - b >= reserved - spent + d
    BY <1>2, <1>4, <1>5
  <2> HIDE DEF m, n, a, b
  <2>2. a >= b + n
    BY <1>1, <2>1
  <2> QED
    BY <2>2 DEF n, a, b
<1> QED
  BY <1>6 DEF g

\* A step that neither moves money nor begins to record a top-up.
Quiet ==
  /\ UNCHANGED <<reserved, spent, made, credits, floor>>
  /\ faults' = 0 => faults = 0
  /\ \A x \in Reviews : run'[x] = "floorStamp" => run[x] = "floorStamp"

\* Such a step leaves the counter covering what it covered.
LEMMA QuietCovers ==
  ASSUME IsFiniteSet(Reviews), DtsInv, DtsInv', CoversHeld, Quiet
  PROVE  CoversHeld'
<1>1. /\ reserved' - spent' >= reserved - spent + 0
      /\ \A x \in Reviews : Held'[x] <= Held[x] + (IF x = NoReview THEN 0 ELSE 0)
  <2>1. reserved' - spent' >= reserved - spent + 0
    BY HeldTyped DEF Quiet
  <2>2. ASSUME NEW x \in Reviews PROVE Held'[x] <= Held[x] + 0
    <3>1. Held[x] = Holds(x) + (IF run[x] = "floorStamp" THEN FloorAmount ELSE 0)
          /\ Held'[x] = Holds(x)' + (IF run'[x] = "floorStamp" THEN FloorAmount ELSE 0)
      BY DEF Held
    <3>2. Holds(x)' = Holds(x) /\ Holds(x) \in Int
      BY SpendAssumption, CostAssumption DEF Holds, Quiet, DtsInv, SubmissionInv, SubmissionTypeOK
    <3> QED
      BY <3>1, <3>2, CostAssumption DEF Quiet
  <2> QED
    BY <2>1, <2>2
<1> QED
  BY <1>1, MoneyMoves DEF Quiet

\* What a handler does: only a reservation moves the counter.
LEMMA ServeCovers ==
  ASSUME IsFiniteSet(Reviews), DtsInv, DtsInv', CoversHeld, MadeFirst,
         NEW h \in Handlers, Serve(h)
  PROVE  CoversHeld'
<1> DEFINE r == api[h].rev
<1>0. UNCHANGED <<floor, spent, faults>>
  BY DEF Serve, PostStart, pool
<1>1. \A x \in Reviews : run'[x] = "floorStamp" => run[x] = "floorStamp"
  BY ServeShape DEF DtsInv, TypeOK
<1>2. CASE Reserve(h) /\ UnderCap
  <2>1. At(h, "reserve") /\ r \in Reviews /\ Creating(h, r)
    BY <1>2 DEF Reserve, At, Creating, CreatorPc, DtsInv, SubmissionInv, SubmissionTypeOK,
                ApiState, Idle
  <2>2. /\ made[r] = 0 /\ credits[r] = 0 /\ r \notin floor /\ run[r] = "none"
    BY <2>1 DEF DtsInv, TypeOK, SubmissionInv, NothingYet, Fresh, MadeFirst
  <2>3. /\ reserved' = reserved + Amount /\ made' = [made EXCEPT ![r] = @ + 1]
        /\ UNCHANGED credits
    BY <1>2 DEF Reserve
  <2>4. reserved' - spent' >= reserved - spent + Amount
    BY <1>0, <2>3, HeldTyped, SpendAssumption
  <2>5. ASSUME NEW x \in Reviews
        PROVE  Held'[x] <= Held[x] + (IF x = r THEN Amount ELSE 0)
    <3>1. Held[x] = Holds(x) + (IF run[x] = "floorStamp" THEN FloorAmount ELSE 0)
          /\ Held'[x] = Holds(x)' + (IF run'[x] = "floorStamp" THEN FloorAmount ELSE 0)
      BY DEF Held
    <3>2. Holds(x) \in Int /\ Holds(x)' = (IF x = r THEN Amount ELSE Holds(x))
          /\ (x = r => Holds(x) = 0)
      BY <1>0, <2>1, <2>2, <2>3, SpendAssumption, CostAssumption
      DEF Holds, DtsInv, SubmissionInv, SubmissionTypeOK
    <3> QED
      BY <1>1, <3>1, <3>2, CostAssumption, SpendAssumption
  <2> QED
    BY <1>0, <2>1, <2>4, <2>5, MoneyMoves, SpendAssumption
<1>3. CASE ~(Reserve(h) /\ UnderCap)
  <2>1. UNCHANGED <<reserved, made, credits>>
    BY <1>3
    DEF Serve, PostStart, PostStep, CallStart, PostBegin, Probe, Create, Reserve,
        RecordReservation, CreateReviewRow, WriteSubmissionArn, WriteRowArn, HandlerFails,
        CancelBegin, CancelIntent, tables
  <2> QED
    BY <1>0, <1>1, <2>1, QuietCovers DEF Quiet
<1> QED
  BY <1>2, <1>3

\* A settlement takes from the counter what its review still held.
LEMMA SettleCovers ==
  ASSUME IsFiniteSet(Reviews), DtsInv, DtsInv', CoversHeld, MadeFirst,
         faults' = 0 => faults = 0, NEW r \in Reviews, r \in reservation,
         SettleActual(r), UNCHANGED <<made, floor>>, faults = 0 => credits[r] = 0,
         \A x \in Reviews : run'[x] = "floorStamp" => run[x] = "floorStamp" /\ x # r
  PROVE  CoversHeld'
<1> DEFINE top == IF r \in floor THEN FloorAmount ELSE 0
           d == 0 - Amount - top
<1>1. d \in Int /\ top \in Int
  BY SpendAssumption, CostAssumption
<1>2. PICK actual \in Cost(r) :
        /\ reserved' = reserved - Amount - top + actual
        /\ spent' = spent + actual
        /\ credits' = [credits EXCEPT ![r] = @ + 1]
  BY DEF SettleActual
<1>3. actual \in Int
  BY CostAssumption DEF Cost
<1>4. reserved' - spent' >= reserved - spent + d
  <2> HIDE DEF top
  <2> QED
    BY <1>1, <1>2, <1>3, HeldTyped, SpendAssumption
<1>5. ASSUME faults' = 0, NEW x \in Reviews
      PROVE  Held'[x] <= Held[x] + (IF x = r THEN d ELSE 0)
  <2>1. /\ Held[x] = Holds(x) + (IF run[x] = "floorStamp" THEN FloorAmount ELSE 0)
        /\ Held'[x] = Holds(x)' + (IF run'[x] = "floorStamp" THEN FloorAmount ELSE 0)
    BY DEF Held
  <2>2. CASE x = r
    <3>1. made[r] = 1 /\ credits[r] = 0 /\ credits'[r] = 1
      BY <1>2, <1>5 DEF MadeFirst, DtsInv, SubmissionInv, SubmissionTypeOK
    <3>2. Holds(r) = Amount + top /\ Holds(r)' = 0
      BY <3>1 DEF Holds
    <3> HIDE DEF top
    <3> QED
      BY <2>1, <2>2, <3>2, <1>1, SpendAssumption, CostAssumption
  <2>3. CASE x # r
    <3>1. Holds(x)' = Holds(x) /\ Holds(x) \in Int
      BY <1>2, <2>3, SpendAssumption, CostAssumption
      DEF Holds, DtsInv, SubmissionInv, SubmissionTypeOK
    <3> QED
      BY <2>1, <2>3, <3>1, CostAssumption
  <2> QED
    BY <2>2, <2>3
<1> HIDE DEF d
<1> QED
  BY <1>1, <1>4, <1>5, MoneyMoves

\* What a worker does: a top-up raises the counter before it is recorded.
LEMMA RunCovers ==
  ASSUME IsFiniteSet(Reviews), DtsInv, DtsInv', CoversHeld, MadeFirst,
         faults' = 0 => faults = 0, NEW r \in Reviews, RunStep(r)
  PROVE  CoversHeld'
<1> DEFINE Steady == \A x \in Reviews : x # r => run'[x] = run[x]
<1>1. CASE RunFloorAdd(r)
  <2>1. /\ reserved' = reserved + FloorAmount /\ run' = [run EXCEPT ![r] = "floorStamp"]
        /\ run[r] = "floorAdd" /\ UNCHANGED <<spent, made, credits, floor>>
    BY <1>1 DEF RunFloorAdd, RunGoto, tables
  <2>2. reserved' - spent' >= reserved - spent + FloorAmount
    BY <2>1, HeldTyped, CostAssumption
  <2>3. ASSUME NEW x \in Reviews
        PROVE  Held'[x] <= Held[x] + (IF x = r THEN FloorAmount ELSE 0)
    <3>1. Held[x] = Holds(x) + (IF run[x] = "floorStamp" THEN FloorAmount ELSE 0)
          /\ Held'[x] = Holds(x)' + (IF run'[x] = "floorStamp" THEN FloorAmount ELSE 0)
      BY DEF Held
    <3>2. Holds(x) \in Int /\ Holds(x)' = Holds(x)
      BY <2>1, SpendAssumption, CostAssumption
      DEF Holds, DtsInv, SubmissionInv, SubmissionTypeOK
    <3>3. run'[x] = IF x = r THEN "floorStamp" ELSE run[x]
      BY <2>1 DEF DtsInv, TypeOK
    <3> QED
      BY <2>1, <3>1, <3>2, <3>3, CostAssumption
  <2> QED
    BY <2>2, <2>3, MoneyMoves, CostAssumption
<1>2. CASE RunFloorStamp(r)
  <2>1. /\ floor' = floor \cup {r} /\ run' = [run EXCEPT ![r] = "pass"]
        /\ run[r] = "floorStamp" /\ UNCHANGED <<reserved, spent, made, credits>>
    BY <1>2 DEF RunFloorStamp, RunGoto, tables
  <2>2. reserved' - spent' >= reserved - spent + 0
    BY <2>1, HeldTyped
  <2>3. ASSUME NEW x \in Reviews
        PROVE  Held'[x] <= Held[x] + (IF x = r THEN 0 ELSE 0)
    <3>1. Held[x] = Holds(x) + (IF run[x] = "floorStamp" THEN FloorAmount ELSE 0)
          /\ Held'[x] = Holds(x)' + (IF run'[x] = "floorStamp" THEN FloorAmount ELSE 0)
      BY DEF Held
    <3>2. Holds(x) \in Int /\ Holds(x)' \in Int
          /\ Holds(x)' <= Holds(x) + (IF x = r THEN FloorAmount ELSE 0)
      BY <2>1, SpendAssumption, CostAssumption
      DEF Holds, DtsInv, SubmissionInv, SubmissionTypeOK
    <3>3. run'[x] = IF x = r THEN "pass" ELSE run[x]
      BY <2>1 DEF DtsInv, TypeOK
    <3> QED
      BY <2>1, <3>1, <3>2, <3>3, CostAssumption
  <2> QED
    BY <2>2, <2>3, MoneyMoves
<1>3. CASE RunSettle(r)
  <2>1. /\ SettleActual(r) /\ UNCHANGED <<made, floor>> /\ run' = [run EXCEPT ![r] = "flag"]
        /\ run[r] = "settle"
    BY <1>3 DEF RunSettle, RunGoto
  <2>2. r \in reservation /\ (faults = 0 => credits[r] = 0)
    BY <2>1 DEF DtsInv, RunsItself, CreditsCounted, OnTheWay, Working, TypeOK,
                SubmissionInv, SubmissionTypeOK
  <2>3. \A x \in Reviews : run'[x] = "floorStamp" => run[x] = "floorStamp" /\ x # r
    BY <2>1 DEF DtsInv, TypeOK
  <2> QED
    BY <2>1, <2>2, <2>3, SettleCovers
<1>4. CASE ~(RunFloorAdd(r) \/ RunFloorStamp(r) \/ RunSettle(r))
  <2>1. UNCHANGED <<reserved, spent, made, credits, floor>>
    BY <1>4
    DEF RunStep, RunBegin, RunCheck, RunVerify, RunFloor, RunModelCall, RunPassesDone,
        RunWriteTerminal, RunCancelled, RunFails, RunRecordFailure, RunLookup, RunFlag,
        RunLost, tables
  <2>2. \E pc \in RunPc \ {"floorStamp"} : run' = run \/ RunGoto(r, pc)
    BY <1>4
    DEF RunStep, RunBegin, RunCheck, RunVerify, RunFloor, RunModelCall, RunPassesDone,
        RunWriteTerminal, RunCancelled, RunFails, RunRecordFailure, RunLookup, RunFlag,
        RunLost, RunPc, Working
  <2>3. \A x \in Reviews : run'[x] = "floorStamp" => run[x] = "floorStamp"
    BY <2>2 DEF RunGoto, DtsInv, TypeOK
  <2> QED
    BY <2>1, <2>3, QuietCovers DEF Quiet
<1> QED
  BY <1>1, <1>2, <1>3, <1>4

\* What the process does: a death forgets the top-ups that are not recorded.
LEMMA ProcessCovers ==
  ASSUME IsFiniteSet(Reviews), DtsInv, DtsInv', CoversHeld, MadeFirst,
         faults' = 0 => faults = 0, Process
  PROVE  CoversHeld'
<1>1. CASE BootSettle
  <2>1. /\ SettleActual(boot.rev) /\ UNCHANGED <<made, floor, run>> /\ boot.pc = "settle"
    BY <1>1 DEF BootSettle
  <2>2. boot.rev \in Reviews /\ boot # NoBoot
    BY <2>1 DEF DtsInv, TypeOK, NoBoot
  <2>3. boot.rev \in reservation /\ (faults = 0 => credits[boot.rev] = 0)
    BY <2>1, <2>2 DEF DtsInv, RunsItself, CreditsCounted, OnTheWay, TypeOK,
                SubmissionInv, SubmissionTypeOK
  <2>4. \A x \in Reviews : run[x] = "none"
    BY <2>2 DEF DtsInv, LiveOnly
  <2> QED
    BY <2>1, <2>2, <2>3, <2>4, SettleCovers
<1>2. CASE ~BootSettle
  <2>1. UNCHANGED <<reserved, spent, made, credits, floor>>
    BY <1>2
    DEF Process, Recover, BeginStop, Die, Boot, BootLookup, BootFlag, BootSkip, BootDone,
        StampIntent, Relabel, tables
  <2>2. \A x \in Reviews : run'[x] = "floorStamp" => run[x] = "floorStamp"
    BY <1>2
    DEF Process, Recover, BeginStop, Die, Boot, BootLookup, BootFlag, BootSkip, BootDone,
        StampIntent, Relabel
  <2> QED
    BY <2>1, <2>2, QuietCovers DEF Quiet
<1> QED
  BY <1>1, <1>2

\* A reservation is recorded only by the handler that made it.
LEMMA MadeFirstStep ==
  ASSUME DtsInv, MadeFirst, [Next]_vars
  PROVE  MadeFirst'
<1> USE DEF DtsInv, SubmissionInv, SubmissionTypeOK
<1>1. CASE \E h \in Handlers : Serve(h)
  <2>1. PICK h \in Handlers : Serve(h)
    BY <1>1
  <2>2. CASE Reserve(h)
    <3>1. At(h, "reserve") /\ api[h].rev \in Reviews /\ made[api[h].rev] = 0
      BY <2>2 DEF Reserve, NothingYet, At, ApiState, Idle
    <3>2. UNCHANGED reservation
          /\ (made' = made \/ made' = [made EXCEPT ![api[h].rev] = 1])
          /\ ((Goto(h, "record") /\ made' = [made EXCEPT ![api[h].rev] = 1]) \/ Return(h))
      <4>1. made[api[h].rev] + 1 = 1
        BY <3>1
      <4> QED
        BY <2>2, <4>1 DEF Reserve
    <3>3. \A r \in Reviews : made[r] = 1 => made'[r] = 1
      BY <3>1, <3>2
    <3>4. \A g \in Handlers : At(g, "record") => api[g].rev \in Reviews
      BY DEF At, ApiState, Idle
    <3>5. At(h, "record")' => api'[h].rev = api[h].rev /\ made'[api[h].rev] = 1
      <4>1. CASE Return(h)
        BY <4>1 DEF At, Return, Idle
      <4>2. CASE Goto(h, "record") /\ made' = [made EXCEPT ![api[h].rev] = 1]
        <5>1. api[h] \in ApiState /\ api[h] # Idle
          BY <3>1 DEF At, Idle
        <5>2. api'[h].rev = api[h].rev
          BY <4>2, <5>1 DEF Goto, ApiState
        <5> QED
          BY <3>1, <4>2, <5>2
      <4> QED
        BY <3>2, <4>1, <4>2
    <3>6. \A g \in Handlers : g # h => api'[g] = api[g]
      BY <2>1, ServeShape
    <3> QED
      BY <3>2, <3>3, <3>4, <3>5, <3>6 DEF MadeFirst, At
  <2>3. CASE ~Reserve(h)
    <3>1. UNCHANGED made
      BY <2>1, <2>3
      DEF Serve, PostStart, PostStep, CallStart, PostBegin, Probe, Create,
          RecordReservation, CreateReviewRow, WriteSubmissionArn, WriteRowArn, HandlerFails,
          CancelBegin, CancelIntent
    <3>2. \/ UNCHANGED reservation
          \/ At(h, "record") /\ reservation' = reservation \cup {api[h].rev}
      BY <2>1, <2>3
      DEF Serve, PostStart, PostStep, CallStart, PostBegin, Probe, Create,
          RecordReservation, CreateReviewRow, WriteSubmissionArn, WriteRowArn, HandlerFails,
          CancelBegin, CancelIntent, tables
    <3>3. api'[h].pc # "record"
      <4>1. CASE \E pc \in {"create", "start", "putRow", "reserve", "writeSubArn", "writeRowArn"} :
                   Goto(h, pc)
        BY <4>1 DEF Goto
      <4>2. CASE Return(h)
        BY <4>2 DEF Return, Idle
      <4>3. CASE \E r \in Reviews : PostBegin(h, r) \/ CancelBegin(h, r)
        BY <4>3 DEF PostBegin, CancelBegin
      <4> QED
        BY <2>1, <2>3, <4>1, <4>2, <4>3
        DEF Serve, PostStart, PostStep, CallStart, Probe, Create, RecordReservation,
            CreateReviewRow, WriteSubmissionArn, WriteRowArn, HandlerFails, CancelIntent
    <3>4. \A g \in Handlers : g # h => api'[g] = api[g]
      BY <2>1, ServeShape
    <3> QED
      BY <3>1, <3>2, <3>3, <3>4 DEF MadeFirst, At
  <2> QED
    BY <2>2, <2>3
<1>2. CASE \E r \in Reviews : RunStep(r)
  <2>1. UNCHANGED <<reservation, made, api>>
    BY <1>2
    DEF RunStep, RunBegin, RunCheck, RunVerify, RunFloor, RunFloorAdd, RunFloorStamp,
        RunModelCall, RunPassesDone, RunWriteTerminal, RunCancelled, RunFails,
        RunRecordFailure, RunLookup, RunSettle, RunFlag, RunLost, tables
  <2> QED
    BY <2>1 DEF MadeFirst, At
<1>3. CASE Process
  <2>1. UNCHANGED <<reservation, made>> /\ (api' = api \/ api' = [h \in Handlers |-> Idle])
    BY <1>3
    DEF Process, Recover, BeginStop, Die, Boot, BootLookup, BootSettle, BootFlag,
        BootSkip, BootDone, StampIntent, Relabel, tables
  <2> QED
    BY <2>1 DEF MadeFirst, At, Idle
<1>4. CASE UNCHANGED vars
  BY <1>4 DEF vars, tables, MadeFirst, At
<1> QED
  BY <1>1, <1>2, <1>3, <1>4 DEF Next

\* Whoever settles finds the counter covered, and leaves it so.
LEMMA CoversStep ==
  ASSUME IsFiniteSet(Reviews), ~OverlappingRetries, DtsInv, MadeFirst, CoversHeld, [Next]_vars
  PROVE  DtsInv' /\ MadeFirst' /\ CoversHeld'
<1>1. DtsInv' /\ MadeFirst'
  BY DtsStep, MadeFirstStep
<1>2. faults' = 0 => faults = 0
  BY FaultsGrow
<1>3. CASE \E h \in Handlers : Serve(h)
  BY <1>1, <1>3, ServeCovers
<1>4. CASE \E r \in Reviews : RunStep(r)
  BY <1>1, <1>2, <1>4, RunCovers
<1>5. CASE Process
  BY <1>1, <1>2, <1>5, ProcessCovers
<1>6. CASE UNCHANGED vars
  BY <1>1, <1>2, <1>6, QuietCovers DEF Quiet, vars, tables, pool, process
<1> QED
  BY <1>1, <1>3, <1>4, <1>5, <1>6 DEF Next

\* What is held and what is not recorded yet cover the terms of the property.
LEMMA HeldCovers ==
  ASSUME IsFiniteSet(Reviews), DtsInv, CoversHeld
  PROVE  CounterCoversCommitments
<1> SUFFICES ASSUME faults = 0
             PROVE  reserved >= spent + MapThenSumSet(Holds, Reviews)
  BY DEF CounterCoversCommitments
<1> DEFINE f == [r \in Reviews |-> Holds(r)]
           d == 0
<1>1. \A x \in Reviews : f[x] <= Held[x] + (IF x = NoReview THEN d ELSE 0)
  BY HeldTyped, CostAssumption DEF Held
<1>2. Held \in [Reviews -> Int] /\ f \in [Reviews -> Int] /\ reserved \in Int /\ spent \in Int
  BY HeldTyped
<1>3. MapThenSumSet(Holds, Reviews) = Total(f, Reviews)
  BY HoldsTotal
<1>4. d \in Int
  OBVIOUS
<1> HIDE DEF f, d
<1>5. /\ Total(f, Reviews) \in Int /\ Total(Held, Reviews) \in Int
      /\ Total(f, Reviews) <= Total(Held, Reviews) + (IF NoReview \in Reviews THEN d ELSE 0)
  BY <1>1, <1>2, <1>4, SumMoves
<1> QED
  BY <1>2, <1>3, <1>5 DEF CoversHeld, d

\* Of finitely many reviews, until a table call fails, the day's counter
\* covers what was spent and what unsettled reviews hold, through any restarts.
THEOREM CounterCovers ==
  ASSUME IsFiniteSet(Reviews), ~OverlappingRetries
  PROVE  Spec => []CounterCoversCommitments
<1>1. Init => DtsInv /\ MadeFirst /\ CoversHeld
  <2>1. ASSUME Init PROVE DtsInv /\ MadeFirst
    BY <2>1, DtsInitInv DEF Init, SubmissionInit, MadeFirst, At, Idle
  <2>2. ASSUME Init PROVE CoversHeld
    <3>1. \A r \in Reviews : Held[r] = 0
      BY <2>2 DEF Init, SubmissionInit, Held, Holds
    <3>2. Total(Held, Reviews) = 0
      BY <3>1, SumOfNothing
    <3> QED
      BY <2>2, <3>2 DEF Init, SubmissionInit, CoversHeld
  <2> QED
    BY <2>1, <2>2
<1>2. DtsInv /\ MadeFirst /\ CoversHeld /\ [Next]_vars => (DtsInv /\ MadeFirst /\ CoversHeld)'
  BY CoversStep
<1>3. DtsInv /\ CoversHeld => CounterCoversCommitments
  BY HeldCovers
<1> QED
  BY <1>1, <1>2, <1>3, PTL DEF Spec

-----------------------------------------------------------------------------
(* The review a run executes.                                              *)

\* The attempts of a pass: how many have begun, how many may, and how far the
\* last one is.
Calls ==
  [n : Nat, allowed : Nat, spare : Nat, room : Nat, http : Nat,
   at : {"idle", "poll", "send", "stream", "close"},
   got : {"nothing", "reply", "truncated", "empty", "failed", "too_long",
          "cancelled", "cancelled_billed"}]

Passes == {"primary", "critic", "judge"}
InFlight == call.at \in {"poll", "send", "stream", "close"}

\* What the attempts of a pass may come to: a truncated reply is granted one
\* attempt more for each it spares, and the judge none.
CallBounded ==
  /\ call \in Calls
  /\ call.n <= call.allowed /\ call.allowed >= 1 + MaxRetries
  /\ call.room <= Widenings /\ call.http < MaxHttp
  /\ stage = "judge" => call.allowed = 1 + MaxRetries /\ call.spare = 0
  /\ call.allowed + call.spare <= 1 + MaxRetries + MaxTruncationRetries
  /\ InFlight => call.n >= 1 /\ stage \in Passes

\* An attempt ends with at most the usage of its last response unledgered.
Owing ==
  owed = IF call.at = "close" /\ call.got \in {"reply", "truncated", "empty", "cancelled_billed"}
         THEN 1 ELSE 0

\* The judge asks about invariants it has not settled, and nothing is judged
\* or answered before its pass.
Judging ==
  /\ violated \cup satisfied \cup unjudged \subseteq Judged
  /\ violated \cap satisfied = {} /\ violated \cap unjudged = {} /\ satisfied \cap unjudged = {}
  /\ stage \in {"start", "primary", "critic"} =>
       violated = {} /\ satisfied = {} /\ unjudged = {} /\ answer = NoAnswer
  /\ DOMAIN answer.disposed \subseteq DOMAIN raised
  /\ stage = "judge" => Skipped \subseteq unjudged
  /\ stage = "judge" /\ (InFlight \/ call.n > 0) => Pending # {}

\* Invariants the judge was asked about and has left behind.
Settled == (Judged \ Skipped) \ Pending

\* Attempts that may have been billed: those of the invariants left behind,
\* and those of this call whose response has come.
Attempts ==
  (IF stage = "judge" THEN (1 + MaxRetries) * Cardinality(Settled) ELSE 0) +
  (IF call.at \in {"poll", "send", "stream"} THEN call.n - 1 ELSE call.n)

Billing ==
  /\ billed \in Nat
  /\ stage = "start" => billed = 0
  /\ stage \in Passes => billed <= Attempts

\* The request that has passed its poll counts as sent.
CancelCounted ==
  /\ late \in Nat /\ blind \in Nat
  /\ ~cancelled => late = 0 /\ blind = 0
  /\ late + (IF call.at = "send" THEN 1 ELSE 0) <= 1 + blind

PipelineInv ==
  /\ basis \in [floor : SUBSET Invariants, ledger : SUBSET Rules, sided : BOOLEAN]
  /\ stage \in {"start", "reconcile", "redline", "done"} \cup Passes
  /\ CallBounded /\ Owing /\ Judging /\ Billing /\ CancelCounted

-----------------------------------------------------------------------------
\* Multiples of one more.
LEMMA OneMore ==
  ASSUME NEW k \in Nat, NEW a \in Nat, NEW b \in Nat, a + 1 <= b
  PROVE  k * a \in Nat /\ k * b \in Nat /\ k * a + k <= k * b
<1>1. k * (a + 1) = k * a + k
  OBVIOUS
<1>2. k * (a + 1) <= k * b
  OBVIOUS
<1> QED
  BY <1>1, <1>2

\* A pass begins with no attempt made.
LEMMA FreshCalls ==
  /\ PassCall \in Calls /\ JudgeCall \in Calls
  /\ PassCall.at = "idle" /\ JudgeCall.at = "idle" /\ PassCall.n = 0 /\ JudgeCall.n = 0
  /\ PassCall.allowed = 1 + MaxRetries /\ JudgeCall.allowed = 1 + MaxRetries
  /\ PassCall.spare = MaxTruncationRetries /\ JudgeCall.spare = 0
  /\ PassCall.room = Widenings /\ JudgeCall.room = Widenings
  /\ PassCall.http = 0 /\ JudgeCall.http = 0
  BY LoopAssumption DEF PassCall, JudgeCall, FreshCall, Calls

\* A new review satisfies the invariant.
LEMMA PipelineInitInv == PipelineInit => PipelineInv
<1> SUFFICES ASSUME PipelineInit PROVE PipelineInv
  OBVIOUS
<1>1. CallBounded /\ Owing
  BY FreshCalls, LoopAssumption DEF PipelineInit, CallBounded, Owing, InFlight, Passes
<1>2. Judging
  BY FreshCalls DEF PipelineInit, Judging, InFlight, NoAnswer
<1>3. Billing /\ CancelCounted
  BY FreshCalls DEF PipelineInit, Billing, Passes, CancelCounted
<1> QED
  BY <1>1, <1>2, <1>3 DEF PipelineInit, PipelineInv

\* The invariants the judge has left behind are some of those it asks about,
\* and fewer than them while one is pending.
LEMMA SettledCounted ==
  ASSUME PipelineInv
  PROVE  /\ IsFiniteSet(Settled) /\ Cardinality(Settled) \in Nat
         /\ Cardinality(Judged \ Skipped) \in Nat
         /\ Cardinality(Settled) <= Cardinality(Judged \ Skipped)
         /\ stage = "judge" /\ Pending # {} =>
              Cardinality(Settled) + 1 <= Cardinality(Judged \ Skipped)
<1>1. IsFiniteSet(Judged \ Skipped)
  <2>1. (Judged \ Skipped) \subseteq Invariants
    BY DEF PipelineInv, Judged
  <2> QED
    BY <2>1, FiniteInvariants, FS_Subset
<1>2. Settled \subseteq Judged \ Skipped
  BY DEF Settled
<1>3. /\ IsFiniteSet(Settled) /\ Cardinality(Settled) \in Nat
      /\ Cardinality(Judged \ Skipped) \in Nat
      /\ Cardinality(Settled) <= Cardinality(Judged \ Skipped)
  BY <1>1, <1>2, FS_Subset, FS_CardinalityType
<1>4. ASSUME stage = "judge", Pending # {}
      PROVE  Cardinality(Settled) + 1 <= Cardinality(Judged \ Skipped)
  <2>1. PICK i : i \in Pending
    BY <1>4
  <2>2. i \in Judged \ Skipped /\ i \notin Settled
    BY <1>4, <2>1 DEF PipelineInv, Judging, Pending, Settled
  <2>3. Settled # Judged \ Skipped
    BY <2>2
  <2>4. Cardinality(Settled) < Cardinality(Judged \ Skipped)
    BY <1>1, <1>2, <1>3, <2>3, FS_Subset
  <2> QED
    BY <1>3, <2>4
<1> QED
  BY <1>3, <1>4

-----------------------------------------------------------------------------
JudgeVars == <<raised, answer, violated, satisfied, unjudged>>

\* The same attempt of the same pass.
SameAttempt ==
  /\ call' \in Calls /\ call'.n = call.n /\ call'.allowed = call.allowed
  /\ call'.spare = call.spare /\ call'.room = call.room /\ call'.http < MaxHttp

\* A request on its way: only its response adds to the bill, and closes it.
LEMMA RequestKeeps ==
  ASSUME PipelineInv, UNCHANGED <<basis, stage, JudgeVars>>, SameAttempt,
         InFlight, InFlight', call.at # "close",
         billed' = billed \/ (call'.at = "close" /\ billed' = billed + 1),
         Owing', CancelCounted'
  PROVE  PipelineInv'
<1>1. CallBounded'
  BY DEF PipelineInv, CallBounded, SameAttempt
<1>2. Judged' = Judged /\ Skipped' = Skipped /\ Pending' = Pending /\ Settled' = Settled
  BY DEF JudgeVars, Judged, Skipped, Pending, Settled
<1>3. Judging'
  BY <1>2 DEF PipelineInv, Judging, JudgeVars
<1>4. Billing'
  <2> DEFINE before == IF stage = "judge" THEN (1 + MaxRetries) * Cardinality(Settled) ELSE 0
  <2>1. call.at \in {"poll", "send", "stream"} /\ call.n \in Nat /\ call.n >= 1 /\ stage \in Passes
    BY DEF PipelineInv, CallBounded, InFlight, Calls
  <2>2. before \in Nat
    BY SettledCounted, LoopAssumption
  <2>3. Attempts = before + (call.n - 1)
    BY <2>1 DEF Attempts
  <2>4. Attempts' = before + (IF call'.at = "close" THEN call.n ELSE call.n - 1)
    BY <1>2 DEF Attempts, SameAttempt, InFlight
  <2>5. billed' \in {billed, billed + 1} /\ stage # "start" /\ stage' = stage
    BY <2>1 DEF Passes
  <2> HIDE DEF before
  <2> QED
    BY <2>1, <2>2, <2>3, <2>4, <2>5 DEF PipelineInv, Billing
<1> QED
  BY <1>1, <1>3, <1>4 DEF PipelineInv

\* A pass that ends the review.
LEMMA EndKeeps ==
  ASSUME PipelineInv, NEW written, Finish(written), owed' = 0, CancelCounted'
  PROVE  PipelineInv'
<1>1. /\ call' = PassCall /\ billed' = 0 /\ stage' = "done" /\ UNCHANGED <<basis, JudgeVars>>
  BY DEF Finish, passVars, JudgeVars
<1>2. CallBounded' /\ Owing'
  BY <1>1, FreshCalls, LoopAssumption DEF CallBounded, Owing, InFlight
<1>3. Judged' = Judged
  BY <1>1 DEF Judged
<1>4. Judging'
  BY <1>1, <1>3 DEF PipelineInv, Judging, JudgeVars
<1>5. Billing'
  BY <1>1 DEF Billing, Passes
<1> QED
  BY <1>1, <1>2, <1>4, <1>5 DEF PipelineInv

\* An attempt that is followed by another, or a review that goes on without
\* one: nothing more is billed.
LEMMA AgainKeeps ==
  ASSUME PipelineInv, UNCHANGED <<basis, stage, billed, JudgeVars>>, call' \in Calls,
         call.at = "close", call'.at = "idle", call'.n = call.n, call'.allowed >= call.allowed,
         call'.allowed + call'.spare = call.allowed + call.spare,
         call'.room <= Widenings, call'.http < MaxHttp,
         stage = "judge" => call'.allowed = call.allowed,
         owed' = 0, CancelCounted'
  PROVE  PipelineInv'
<1>1. CallBounded' /\ Owing'
  BY LoopAssumption DEF PipelineInv, CallBounded, InFlight, Owing, Calls
<1>2. Judged' = Judged /\ Skipped' = Skipped /\ Pending' = Pending /\ Settled' = Settled
  BY DEF JudgeVars, Judged, Skipped, Pending, Settled
<1>3. Judging'
  BY <1>2 DEF PipelineInv, Judging, JudgeVars, InFlight
<1>4. Attempts' = Attempts
  BY <1>2 DEF Attempts
<1>5. Billing'
  BY <1>4 DEF PipelineInv, Billing
<1> QED
  BY <1>1, <1>3, <1>5 DEF PipelineInv

\* A look at the flag that does not stop the run.
LEMMA ClearCounted ==
  ASSUME PipelineInv, Clear, call'.at # "send"
  PROVE  CancelCounted'
  BY DEF PipelineInv, CancelCounted, Clear

\* A step that does not look.
LEMMA NotCounted ==
  ASSUME PipelineInv, UNCHANGED cancelVars, call'.at # "send"
  PROVE  CancelCounted'
  BY DEF PipelineInv, CancelCounted, cancelVars

\* The polls, the request and its response.
LEMMA RequestSteps ==
  ASSUME PipelineInv,
         \/ PollFlag \/ Send
         \/ \E got \in {"reply", "truncated", "empty"} : Streamed(got)
         \/ StoppedMidStream \/ NoResponse
  PROVE  PipelineInv'
<1> USE DEF SameAttempt, InFlight, Owing, Calls
<1>0. /\ call \in Calls /\ call.http < MaxHttp /\ MaxHttp \in Nat
      /\ UNCHANGED <<basis, stage, passVars>>
      /\ Owing
  BY LoopAssumption DEF PipelineInv, CallBounded, PollFlag, Send, Streamed, StoppedMidStream,
     NoResponse
<1>1. UNCHANGED <<basis, stage, JudgeVars>>
  BY <1>0 DEF passVars, JudgeVars
<1>2. CASE PollFlag
  <2>1. CASE Clear /\ call' = [call EXCEPT !.at = "send"]
    <3>1. CancelCounted'
      BY <1>0, <1>2, <2>1 DEF PollFlag, PipelineInv, CancelCounted, Clear
    <3>2. SameAttempt /\ InFlight /\ InFlight' /\ Owing' /\ billed' = billed /\ call.at # "close"
      BY <1>0, <1>2, <2>1 DEF PollFlag
    <3> QED
      BY <1>1, <3>1, <3>2, RequestKeeps
  <2>2. CASE call' = [call EXCEPT !.at = "close", !.got = "cancelled"] /\ UNCHANGED cancelVars
    <3>1. CancelCounted'
      BY <1>0, <2>2, NotCounted
    <3>2. SameAttempt /\ InFlight /\ InFlight' /\ Owing' /\ billed' = billed /\ call.at # "close"
      BY <1>0, <1>2, <2>2 DEF PollFlag
    <3> QED
      BY <1>1, <3>1, <3>2, RequestKeeps
  <2> QED
    BY <1>2, <2>1, <2>2 DEF PollFlag
<1>3. CASE Send
  <2>1. CancelCounted'
    BY <1>0, <1>3 DEF Send, PipelineInv, CancelCounted
  <2>2. SameAttempt /\ InFlight /\ InFlight' /\ Owing' /\ billed' = billed /\ call.at # "close"
    BY <1>0, <1>3 DEF Send
  <2> QED
    BY <1>1, <2>1, <2>2, RequestKeeps
<1>4. ASSUME NEW got \in {"reply", "truncated", "empty"}, Streamed(got) PROVE PipelineInv'
  <2>0. /\ call.at = "stream" /\ call' = [call EXCEPT !.at = "close", !.got = got]
        /\ billed' = billed + 1 /\ owed' = owed + 1
    BY <1>4 DEF Streamed
  <2>1. SameAttempt /\ InFlight /\ InFlight' /\ Owing' /\ call'.at = "close"
        /\ billed' = billed + 1 /\ call.at # "close"
    <3>1. SameAttempt /\ call'.at = "close" /\ call'.got = got
      BY <1>0, <2>0
    <3> QED
      BY <1>0, <2>0, <3>1
  <2>2. CancelCounted'
    BY <1>4, <2>1, ClearCounted DEF Streamed
  <2> QED
    BY <1>1, <2>1, <2>2, RequestKeeps
<1>5. CASE StoppedMidStream
  <2>0. PICK got \in {"cancelled", "cancelled_billed"} :
          /\ call' = [call EXCEPT !.at = "close", !.got = got]
          /\ owed' = IF got = "cancelled" THEN owed ELSE owed + 1
    BY <1>5 DEF StoppedMidStream
  <2>1. SameAttempt /\ InFlight /\ InFlight' /\ Owing' /\ call'.at = "close"
        /\ billed' = billed + 1 /\ call.at # "close"
    <3>1. call.at = "stream" /\ billed' = billed + 1
      BY <1>5 DEF StoppedMidStream
    <3>2. SameAttempt /\ call'.at = "close" /\ call'.got = got
      BY <1>0, <2>0
    <3> QED
      BY <1>0, <2>0, <3>1, <3>2
  <2>2. CancelCounted'
    BY <1>5, <2>1, NotCounted DEF StoppedMidStream
  <2> QED
    BY <1>1, <2>1, <2>2, RequestKeeps
<1>6. CASE NoResponse
  <2>1. CASE call.http + 1 < MaxHttp /\ call' = [call EXCEPT !.at = "poll", !.http = @ + 1]
    <3>1. call' = [call EXCEPT !.at = "poll", !.http = call.http + 1]
      BY <2>1, Zenon
    <3>2. call.at = "stream" /\ billed' = billed /\ owed' = owed
      BY <1>6 DEF NoResponse
    <3>3. SameAttempt /\ call'.at = "poll"
      <4>1. call.http + 1 \in Nat /\ call.http + 1 < MaxHttp
        BY <1>0, <2>1
      <4> QED
        BY <1>0, <3>1, <4>1
    <3>4. InFlight /\ InFlight' /\ Owing' /\ call.at # "close"
      BY <1>0, <3>2, <3>3
    <3>5. CancelCounted'
      BY <1>6, <3>3, NotCounted DEF NoResponse
    <3> QED
      BY <1>1, <3>2, <3>3, <3>4, <3>5, RequestKeeps
  <2>2. CASE \E got \in {"failed", "too_long"} : call' = [call EXCEPT !.at = "close", !.got = got]
    <3>1. SameAttempt /\ InFlight /\ InFlight' /\ Owing' /\ call'.at = "close"
          /\ billed' = billed /\ call.at # "close"
      BY <1>0, <1>6, <2>2 DEF NoResponse
    <3>2. CancelCounted'
      BY <1>6, <3>1, NotCounted DEF NoResponse
    <3> QED
      BY <1>1, <3>1, <3>2, RequestKeeps
  <2> QED
    BY <1>6, <2>1, <2>2 DEF NoResponse
<1> QED
  BY <1>2, <1>3, <1>4, <1>5, <1>6

\* A row is written for whatever usage an attempt has counted.
LEMMA ClosesOwes ==
  ASSUME PipelineInv, NEW got, Closes(got)
  PROVE  /\ owed' = 0 /\ call.at = "close" /\ call.got = got /\ call.n \in Nat /\ stage \in Passes
         /\ UNCHANGED <<basis, cancelVars>>
<1>1. /\ call.at = "close" /\ call.got = got /\ UNCHANGED <<basis, cancelVars>> /\ Owing
      /\ owed' = owed - IF call.got \in {"reply", "truncated", "empty", "cancelled_billed"} THEN 1 ELSE 0
  BY DEF Closes, Row, PipelineInv
<1>2. owed' = 0
  BY <1>1 DEF Owing
<1> QED
  BY <1>1, <1>2 DEF PipelineInv, CallBounded, InFlight, Calls

\* The attempt begins.
LEMMA BeginKeepsPass ==
  ASSUME PipelineInv, BeginAttempt
  PROVE  PipelineInv'
<1>1. /\ stage \in Passes /\ call.at = "idle" /\ call.n < call.allowed
      /\ stage = "judge" => Pending # {}
      /\ UNCHANGED <<basis, stage, billed, owed, JudgeVars>>
  BY DEF BeginAttempt, Passes, passVars, JudgeVars
<1>2. call' = [call EXCEPT !.at = "poll", !.n = call.n + 1, !.http = 0]
  BY Zenon DEF BeginAttempt
<1>3. call \in Calls /\ CallBounded /\ MaxHttp \in Nat \ {0}
  BY LoopAssumption DEF PipelineInv, CallBounded
<1>4. /\ call' \in Calls /\ call'.at = "poll" /\ call'.n = call.n + 1 /\ call'.http = 0
      /\ call'.allowed = call.allowed /\ call'.spare = call.spare /\ call'.room = call.room
  <2>1. call.n + 1 \in Nat
    BY <1>3 DEF Calls
  <2> QED
    BY <1>2, <1>3, <2>1 DEF Calls
<1>5. CallBounded'
  BY <1>1, <1>3, <1>4 DEF CallBounded, Calls
<1>6. Judged' = Judged /\ Skipped' = Skipped /\ Pending' = Pending /\ Settled' = Settled
  BY <1>1 DEF JudgeVars, Judged, Skipped, Pending, Settled
<1>7. Judging'
  BY <1>1, <1>6 DEF PipelineInv, Judging, JudgeVars
<1>8. Attempts' = Attempts
  <2>1. call.n \in Nat /\ call'.n - 1 = call.n
    BY <1>3, <1>4 DEF Calls
  <2> QED
    BY <1>1, <1>4, <1>6, <2>1 DEF Attempts
<1>9. CancelCounted'
  <2>1. CASE UNCHANGED cancelVars
    BY <1>4, <2>1, NotCounted
  <2>2. CASE Clear
    BY <1>4, <2>2, ClearCounted
  <2> QED
    BY <2>1, <2>2 DEF BeginAttempt
<1>10. Owing' /\ Billing'
  BY <1>1, <1>4, <1>8 DEF PipelineInv, Owing, Billing
<1> QED
  BY <1>1, <1>5, <1>7, <1>9, <1>10 DEF PipelineInv

\* A pass is over; the next one begins with an attempt yet to be made.
LEMMA AcceptsKeep ==
  ASSUME PipelineInv,
         \/ \E issues \in SeqsUpTo(Issues, MaxIssues) : PrimaryAccepts(issues)
         \/ stage = "critic" /\ \E reply \in Replies : CriticAccepts(reply)
  PROVE  PipelineInv'
<1>1. ASSUME NEW issues, PrimaryAccepts(issues) PROVE PipelineInv'
  <2>1. /\ stage = "primary" /\ stage' = "critic" /\ call' = PassCall /\ billed' = 0
        /\ UNCHANGED <<answer, violated, satisfied, unjudged>> /\ Closes("reply")
    BY <1>1 DEF PrimaryAccepts
  <2>2. owed' = 0 /\ UNCHANGED <<basis, cancelVars>>
    BY <2>1, ClosesOwes
  <2>3. CallBounded' /\ Owing'
    BY <2>1, <2>2, FreshCalls, LoopAssumption DEF CallBounded, Owing, InFlight
  <2>4. Judged' = Judged
    BY <2>2 DEF Judged
  <2>5. Judging'
    BY <2>1, <2>4 DEF PipelineInv, Judging, NoAnswer
  <2>6. Billing'
    BY <2>1, FreshCalls DEF Billing, Attempts
  <2>7. CancelCounted'
    BY <2>1, <2>2, FreshCalls, NotCounted
  <2> QED
    BY <2>1, <2>2, <2>3, <2>5, <2>6, <2>7 DEF PipelineInv, Passes
<1>2. ASSUME stage = "critic", NEW reply \in Replies, CriticAccepts(reply) PROVE PipelineInv'
  <2>1. /\ stage = "critic" /\ stage' = "judge" /\ call' = JudgeCall /\ billed' = 0
        /\ answer' = reply /\ unjudged' = Skipped
        /\ UNCHANGED <<raised, violated, satisfied>> /\ Closes("reply")
    BY <1>2 DEF CriticAccepts
  <2>2. owed' = 0 /\ UNCHANGED <<basis, cancelVars>>
    BY <2>1, ClosesOwes
  <2>3. CallBounded' /\ Owing'
    BY <2>1, <2>2, FreshCalls, LoopAssumption DEF CallBounded, Owing, InFlight
  <2>4. Judged' = Judged /\ Skipped' = Skipped
    BY <2>2 DEF Judged, Skipped
  <2>5. DOMAIN reply.disposed = DOMAIN raised /\ Skipped \subseteq Judged
    BY <1>2 DEF Replies, Skipped
  <2>6. Judging'
    BY <2>1, <2>4, <2>5, FreshCalls DEF PipelineInv, Judging, InFlight
  <2>7. Cardinality(Settled') \in Nat
    <3>1. Settled' \subseteq Invariants
      BY <2>2 DEF Settled, PipelineInv, Judged
    <3>2. IsFiniteSet(Settled')
      BY <3>1, FiniteInvariants, FS_Subset
    <3> QED
      BY <3>2, FS_CardinalityType
  <2>8. Billing'
    <3>1. (1 + MaxRetries) * Cardinality(Settled') \in Nat
      BY <2>7, LoopAssumption
    <3>2. Attempts' = (1 + MaxRetries) * Cardinality(Settled')
      BY <2>1, <3>1, FreshCalls DEF Attempts
    <3> QED
      BY <2>1, <3>1, <3>2 DEF Billing
  <2>9. CancelCounted'
    BY <2>1, <2>2, FreshCalls, NotCounted
  <2> QED
    BY <2>1, <2>2, <2>3, <2>6, <2>8, <2>9 DEF PipelineInv, Passes
<1> QED
  BY <1>1, <1>2

\* Attempts that are tried again.
LEMMA AgainSteps ==
  ASSUME PipelineInv, NEW got, Closes(got), UNCHANGED <<stage, billed, passVars>>,
         \/ call' = Again
         \/ /\ stage # "judge" /\ call.room > 0
            /\ \/ call' = [Again EXCEPT !.room = @ - 1]
               \/ /\ call.spare > 0
                  /\ call' = [Again EXCEPT !.room = @ - 1, !.spare = @ - 1, !.allowed = @ + 1]
  PROVE  PipelineInv'
<1>1. /\ call \in Calls /\ call.room <= Widenings /\ call.http < MaxHttp
      /\ {MaxRetries, MaxTruncationRetries, Widenings} \subseteq Nat /\ MaxHttp \in Nat
  BY LoopAssumption DEF PipelineInv, CallBounded
<1>2. /\ call.at = "close" /\ owed' = 0 /\ UNCHANGED <<basis, cancelVars>>
  BY ClosesOwes
<1>3. UNCHANGED <<basis, stage, billed, JudgeVars>>
  BY <1>2 DEF passVars, JudgeVars
<1>4. /\ Again \in Calls /\ Again.at = "idle" /\ Again.n = call.n /\ Again.allowed = call.allowed
      /\ Again.spare = call.spare /\ Again.room = call.room /\ Again.http = call.http
  BY <1>1 DEF Again, Calls
<1>5. call.n \in Nat /\ call.room \in Nat /\ call.spare \in Nat /\ call.allowed \in Nat
  BY <1>1 DEF Calls
<1>6. CASE call' = Again
  <2>1. CancelCounted'
    BY <1>2, <1>4, <1>6, NotCounted
  <2> QED
    BY <1>1, <1>2, <1>3, <1>4, <1>5, <1>6, <2>1, AgainKeeps
<1>7. CASE stage # "judge" /\ call.room > 0 /\ call' = [Again EXCEPT !.room = @ - 1]
  <2>1. call' = [Again EXCEPT !.room = Again.room - 1]
    BY <1>7, Zenon
  <2>2. call.room - 1 \in Nat
    BY <1>5, <1>7
  <2>3. /\ call' \in Calls /\ call'.at = "idle" /\ call'.n = call.n /\ call'.allowed = call.allowed
        /\ call'.spare = call.spare /\ call'.room = call.room - 1 /\ call'.http = call.http
    BY <1>4, <2>1, <2>2 DEF Calls
  <2>4. CancelCounted'
    BY <1>2, <2>3, NotCounted
  <2> QED
    BY <1>1, <1>2, <1>3, <1>5, <1>7, <2>3, <2>4, AgainKeeps
<1>8. CASE /\ stage # "judge" /\ call.room > 0 /\ call.spare > 0
           /\ call' = [Again EXCEPT !.room = @ - 1, !.spare = @ - 1, !.allowed = @ + 1]
  <2>1. call' = [Again EXCEPT !.room = Again.room - 1, !.spare = Again.spare - 1,
                              !.allowed = Again.allowed + 1]
    BY <1>8, Zenon
  <2>2. call.room - 1 \in Nat /\ call.spare - 1 \in Nat /\ call.allowed + 1 \in Nat
    BY <1>5, <1>8
  <2>3. /\ call' \in Calls /\ call'.at = "idle" /\ call'.n = call.n
        /\ call'.allowed = call.allowed + 1 /\ call'.spare = call.spare - 1
        /\ call'.room = call.room - 1 /\ call'.http = call.http
    BY <1>4, <2>1, <2>2 DEF Calls
  <2>4. CancelCounted'
    BY <1>2, <2>3, NotCounted
  <2>5. /\ call'.allowed >= call.allowed /\ call'.room <= Widenings
        /\ call'.allowed + call'.spare = call.allowed + call.spare
    BY <1>1, <1>5, <2>3
  <2> QED
    BY <1>1, <1>2, <1>3, <1>8, <2>3, <2>4, <2>5, AgainKeeps
<1> QED
  BY <1>6, <1>7, <1>8

\* The judge leaves an invariant behind, one way or another.
LEMMA VerdictKeeps ==
  ASSUME PipelineInv, NEW got, Closes(got), stage = "judge", call' = JudgeCall,
         UNCHANGED <<stage, billed, raised, answer>>,
         NEW i \in Pending,
         \/ satisfied' = satisfied \cup {i} /\ UNCHANGED <<violated, unjudged>>
         \/ violated' = violated \cup {i} /\ UNCHANGED <<satisfied, unjudged>>
         \/ unjudged' = unjudged \cup {i} /\ UNCHANGED <<violated, satisfied>>
  PROVE  PipelineInv'
<1>1. /\ call.at = "close" /\ owed' = 0 /\ UNCHANGED <<basis, cancelVars>>
  BY ClosesOwes
<1>2. CallBounded' /\ Owing'
  BY <1>1, FreshCalls, LoopAssumption DEF CallBounded, Owing, InFlight
<1>3. Judged' = Judged /\ Skipped' = Skipped
  BY <1>1 DEF Judged, Skipped
<1>4. i \in Judged /\ i \notin violated /\ i \notin satisfied /\ i \notin unjudged
  BY DEF Pending
<1>5. Judging'
  BY <1>3, <1>4, FreshCalls DEF PipelineInv, Judging, InFlight
<1>6. Settled' = Settled \cup {i} /\ i \notin Settled
  <2>1. i \notin Skipped
    BY <1>4 DEF PipelineInv, Judging
  <2>2. Pending' = Pending \ {i}
    BY <1>3 DEF Pending
  <2> QED
    BY <1>3, <1>4, <2>1, <2>2 DEF Settled
<1>7. Cardinality(Settled') = Cardinality(Settled) + 1 /\ Cardinality(Settled) \in Nat
  BY <1>6, SettledCounted, FS_AddElement
<1>8. Billing'
  <2> DEFINE k == 1 + MaxRetries
             c == Cardinality(Settled)
  <2>1. k \in Nat /\ c \in Nat /\ c + 1 \in Nat
    BY <1>7, LoopAssumption
  <2>2. call.n \in Nat /\ call.n <= k
    BY LoopAssumption DEF PipelineInv, CallBounded, Calls
  <2>3. billed \in Nat /\ billed <= k * c + call.n
    BY <1>1 DEF PipelineInv, Billing, Attempts, Passes
  <2>4. Attempts' = k * (c + 1) + 0
    BY <1>7, FreshCalls DEF Attempts
  <2> HIDE DEF k, c
  <2>5. k * c \in Nat /\ k * (c + 1) \in Nat /\ k * c + k <= k * (c + 1)
    BY <2>1, OneMore
  <2>6. billed <= k * (c + 1) + 0
    BY <2>1, <2>2, <2>3, <2>5
  <2> QED
    BY <2>3, <2>4, <2>6 DEF Billing
<1>9. CancelCounted'
  BY <1>1, FreshCalls, NotCounted
<1> QED
  BY <1>1, <1>2, <1>5, <1>8, <1>9 DEF PipelineInv

\* The attempt's end: its row, and what comes of it.
LEMMA CloseSteps ==
  ASSUME PipelineInv,
         \/ ReplyRefused \/ Truncated
         \/ \E got \in {"failed", "empty", "too_long", "cancelled", "cancelled_billed"} : Raised(got)
         \/ \E holds \in BOOLEAN : Verdict(holds)
         \/ NoVerdict
  PROVE  PipelineInv'
<1>0. ASSUME NEW got, Closes(got), NEW written, Finish(written) PROVE PipelineInv'
  <2>1. call' = PassCall /\ owed' = 0 /\ UNCHANGED cancelVars
    BY <1>0, ClosesOwes DEF Finish
  <2>2. CancelCounted'
    BY <2>1, FreshCalls, NotCounted
  <2> QED
    BY <1>0, <2>1, <2>2, EndKeeps
<1>1. ASSUME NEW got, Closes(got), NEW how, Fail(how) PROVE PipelineInv'
  BY <1>0, <1>1 DEF Fail
<1>2. CASE ReplyRefused
  <2>1. CASE call' = Again /\ UNCHANGED <<stage, billed, passVars, result>>
    BY <1>2, <2>1, AgainSteps DEF ReplyRefused
  <2>2. CASE Fail("ERROR")
    BY <1>1, <1>2, <2>2 DEF ReplyRefused
  <2> QED
    BY <1>2, <2>1, <2>2 DEF ReplyRefused
<1>3. CASE Truncated
  <2>1. Closes("truncated") /\ stage # "judge"
    BY <1>3 DEF Truncated
  <2>2. CASE Fail("FAILED")
    BY <1>1, <2>1, <2>2
  <2>3. CASE /\ call.room > 0 /\ UNCHANGED <<stage, billed, passVars, result>>
             /\ call' = IF call.spare > 0
                        THEN [Again EXCEPT !.room = @ - 1, !.spare = @ - 1, !.allowed = @ + 1]
                        ELSE [Again EXCEPT !.room = @ - 1]
    <3>1. CASE call.spare > 0
      BY <2>1, <2>3, <3>1, AgainSteps
    <3>2. CASE ~(call.spare > 0)
      BY <2>1, <2>3, <3>2, AgainSteps
    <3> QED
      BY <3>1, <3>2
  <2> QED
    BY <1>3, <2>2, <2>3, Zenon DEF Truncated
<1>4. ASSUME NEW got, Raised(got) PROVE PipelineInv'
  <2>1. Closes(got) /\ \E how : Fail(how)
    BY <1>4 DEF Raised
  <2> QED
    BY <1>1, <2>1
<1>5. ASSUME stage = "judge", NEW got, Closes(got) PROVE (CHOOSE p \in Pending : TRUE) \in Pending
  <2>1. Pending # {}
    BY <1>5, ClosesOwes DEF PipelineInv, Judging, InFlight
  <2> QED
    BY <2>1
<1>6. ASSUME NEW holds, Verdict(holds) PROVE PipelineInv'
  <2> DEFINE i == CHOOSE p \in Pending : TRUE
  <2>1. /\ stage = "judge" /\ Closes("reply") /\ call' = JudgeCall
        /\ UNCHANGED <<stage, billed, raised, answer, unjudged>>
        /\ \/ satisfied' = satisfied \cup {i} /\ UNCHANGED violated
           \/ violated' = violated \cup {i} /\ UNCHANGED satisfied
    BY <1>6 DEF Verdict
  <2>2. i \in Pending
    BY <1>5, <2>1
  <2> HIDE DEF i
  <2> QED
    BY <2>1, <2>2, VerdictKeeps
<1>7. CASE NoVerdict
  <2> DEFINE i == CHOOSE p \in Pending : TRUE
  <2>1. /\ stage = "judge" /\ (Closes("reply") \/ Closes("truncated"))
        /\ UNCHANGED <<stage, billed, raised, answer, violated, satisfied, outcome>>
        /\ \/ call' = Again /\ UNCHANGED unjudged
           \/ call' = JudgeCall /\ unjudged' = unjudged \cup {i}
    BY <1>7 DEF NoVerdict
  <2>2. PICK got : Closes(got)
    BY <2>1
  <2>3. i \in Pending
    BY <1>5, <2>1, <2>2
  <2> HIDE DEF i
  <2>4. CASE call' = Again /\ UNCHANGED unjudged
    BY <2>1, <2>2, <2>4, AgainSteps DEF passVars
  <2>5. CASE call' = JudgeCall /\ unjudged' = unjudged \cup {i}
    BY <2>1, <2>2, <2>3, <2>5, VerdictKeeps
  <2> QED
    BY <2>1, <2>4, <2>5
<1> QED
  BY <1>2, <1>3, <1>4, <1>6, <1>7

\* The review around the passes, and the flag.
LEMMA AroundSteps ==
  ASSUME PipelineInv,
         \/ StopBeforeAttempt \/ DocumentTooLarge \/ JudgmentDone
         \/ Start \/ ReconcileReview \/ Deliver \/ CancelReview
  PROVE  PipelineInv'
<1>1. PassCall.at # "send" /\ PassCall.at # "close"
  BY FreshCalls
<1>2. ASSUME NEW how, Fail(how), UNCHANGED owed, call.at # "close", Clear \/ UNCHANGED cancelVars
      PROVE  PipelineInv'
  <2>1. PICK written : Finish(written)
    BY <1>2 DEF Fail
  <2>2. owed' = 0 /\ call'.at # "send"
    BY <1>1, <1>2, <2>1 DEF PipelineInv, Owing, Finish
  <2>3. CancelCounted'
    BY <1>2, <2>2, ClearCounted, NotCounted
  <2> QED
    BY <2>1, <2>2, <2>3, EndKeeps
<1>3. stage \notin Passes => call.at = "idle"
  BY DEF PipelineInv, CallBounded, InFlight, Calls
<1>4. ASSUME stage' \in {"start", "reconcile", "redline", "done"} \cup Passes,
             stage' # stage, stage' \notin {"start", "critic", "judge"},
             stage' = "primary" => stage = "start",
             call.at = "idle", UNCHANGED <<basis, call, billed, owed, JudgeVars>>,
             Clear \/ UNCHANGED cancelVars
      PROVE  PipelineInv'
  <2>1. CallBounded' /\ Owing'
    BY <1>4 DEF PipelineInv, CallBounded, Owing, InFlight
  <2>2. Judged' = Judged
    BY <1>4 DEF Judged
  <2>3. Judging'
    BY <1>4, <2>2 DEF PipelineInv, Judging, JudgeVars
  <2>4. Billing'
    BY <1>4 DEF PipelineInv, Billing, Attempts, Passes, CallBounded, Calls
  <2>5. CancelCounted'
    BY <1>4, ClearCounted, NotCounted
  <2> QED
    BY <1>4, <2>1, <2>3, <2>4, <2>5 DEF PipelineInv
<1>5. CASE CancelReview
  <2>1. /\ UNCHANGED <<basis, stage, call, billed, owed, JudgeVars, late, blind>> /\ ~cancelled
        /\ cancelled' = TRUE
    BY <1>5 DEF CancelReview, passVars, JudgeVars
  <2>2. CallBounded' /\ Owing' /\ CancelCounted'
    BY <2>1 DEF PipelineInv, CallBounded, InFlight, Owing, CancelCounted
  <2>3. Judged' = Judged /\ Skipped' = Skipped /\ Pending' = Pending /\ Settled' = Settled
    BY <2>1 DEF JudgeVars, Judged, Skipped, Pending, Settled
  <2>4. Judging'
    BY <2>1, <2>3 DEF PipelineInv, Judging, JudgeVars, InFlight
  <2>5. Attempts' = Attempts
    BY <2>1, <2>3 DEF Attempts
  <2>6. Billing'
    BY <2>1, <2>5 DEF PipelineInv, Billing
  <2> QED
    BY <2>1, <2>2, <2>4, <2>6 DEF PipelineInv
<1>6. CASE StopBeforeAttempt \/ DocumentTooLarge
  BY <1>2, <1>6 DEF StopBeforeAttempt, DocumentTooLarge
<1>7. CASE JudgmentDone
  <2>1. stage = "judge" /\ call.at = "idle" /\ UNCHANGED <<owed, cancelVars>>
    BY <1>7 DEF JudgmentDone
  <2>2. \/ stage' = "reconcile" /\ UNCHANGED <<basis, call, billed, passVars, result>>
        \/ Fail("ERROR")
    BY <1>7, Zenon DEF JudgmentDone
  <2>3. CASE Fail("ERROR")
    BY <1>2, <2>1, <2>3
  <2>4. CASE stage' = "reconcile" /\ UNCHANGED <<basis, call, billed, passVars, result>>
    BY <1>4, <2>1, <2>4 DEF passVars, JudgeVars, Passes
  <2> QED
    BY <2>2, <2>3, <2>4
<1>8. CASE ReconcileReview
  <2>1. stage = "reconcile" /\ call.at = "idle" /\ UNCHANGED <<owed, cancelVars>>
    BY <1>3, <1>8 DEF ReconcileReview, Passes
  <2>2. \/ /\ stage' = "redline"
           /\ UNCHANGED <<basis, call, billed, raised, answer, violated, satisfied, unjudged>>
        \/ Fail("ERROR")
    BY <1>8, Zenon DEF ReconcileReview
  <2>3. CASE Fail("ERROR")
    BY <1>2, <2>1, <2>3
  <2>4. CASE stage' = "redline" /\ ~Fail("ERROR")
    BY <1>4, <2>1, <2>2, <2>4 DEF JudgeVars, Passes
  <2> QED
    BY <2>2, <2>3, <2>4
<1>9. CASE Deliver
  <2>1. stage = "redline" /\ call.at = "idle" /\ UNCHANGED <<owed, cancelVars>>
        /\ \E written : Finish(written)
    BY <1>3, <1>9 DEF Deliver, Fail, Passes
  <2>2. owed' = 0 /\ call'.at # "send"
    BY <1>1, <2>1 DEF PipelineInv, Owing, Finish
  <2>3. CancelCounted'
    BY <2>1, <2>2, NotCounted
  <2> QED
    BY <2>1, <2>2, <2>3, EndKeeps
<1>10. CASE Start
  <2>1. stage = "start" /\ call.at = "idle" /\ UNCHANGED owed
    BY <1>3, <1>10 DEF Start, Passes
  <2>2. CASE \E how : Fail(how)
    BY <1>2, <1>10, <2>1, <2>2 DEF Start
  <2>3. CASE Clear /\ stage' = "primary" /\ UNCHANGED <<basis, call, billed, passVars, result>>
    BY <1>4, <2>1, <2>3, Zenon DEF passVars, JudgeVars, Passes
  <2> QED
    BY <1>10, <2>2, <2>3 DEF Start
<1> QED
  BY <1>5, <1>6, <1>7, <1>8, <1>9, <1>10

\* Every step keeps it.
LEMMA PipelineStepInv == PipelineInv /\ [PipelineNext]_pipelineVars => PipelineInv'
<1> SUFFICES ASSUME PipelineInv, [PipelineNext]_pipelineVars PROVE PipelineInv'
  OBVIOUS
<1>1. CASE UNCHANGED pipelineVars
  <2>1. UNCHANGED <<basis, stage, call, billed, owed, JudgeVars, cancelled, late, blind>>
    BY <1>1 DEF pipelineVars, passVars, cancelVars, JudgeVars
  <2>2. CallBounded' /\ Owing' /\ CancelCounted'
    BY <2>1 DEF PipelineInv, CallBounded, InFlight, Owing, CancelCounted
  <2>3. Judged' = Judged /\ Skipped' = Skipped /\ Pending' = Pending /\ Settled' = Settled
    BY <2>1 DEF JudgeVars, Judged, Skipped, Pending, Settled
  <2>4. Judging'
    BY <2>1, <2>3 DEF PipelineInv, Judging, JudgeVars, InFlight
  <2>5. Attempts' = Attempts
    BY <2>1, <2>3 DEF Attempts
  <2>6. Billing'
    BY <2>1, <2>5 DEF PipelineInv, Billing
  <2> QED
    BY <2>1, <2>2, <2>4, <2>6 DEF PipelineInv
<1>2. CASE CancelReview
  BY <1>2, AroundSteps
<1>3. CASE Step
  BY <1>3, AroundSteps, BeginKeepsPass, RequestSteps, AcceptsKeep, CloseSteps DEF Step
<1> QED
  BY <1>1, <1>2, <1>3 DEF PipelineNext

\* The inductive invariant of a review, in every reachable state.
LEMMA PipelineInvariant == PipelineSpec => []PipelineInv
  BY PipelineInitInv, PipelineStepInv, PTL DEF PipelineSpec

\* The passes of a review, the counters of their attempts and the judge's
\* three sets of invariants stay in their types (primary_review_pass.py,
\* critic_pass.py, floor_judge.py).
THEOREM PipelineTypeCorrect == PipelineSpec => []PipelineTypeOK
<1>1. PipelineInv => PipelineTypeOK
  <2> SUFFICES ASSUME PipelineInv PROVE PipelineTypeOK
    OBVIOUS
  <2>1. /\ call.n \in 0 .. call.allowed /\ call.room \in 0 .. Widenings
        /\ call.allowed \in 1 .. 1 + MaxRetries + MaxTruncationRetries
        /\ call.http \in 0 .. MaxHttp - 1
    BY LoopAssumption DEF PipelineInv, CallBounded, Calls
  <2>2. owed \in 0 .. 1 /\ billed \in Nat
    BY DEF PipelineInv, Owing, Billing
  <2>3. call.spare \in 0 .. MaxTruncationRetries
    BY LoopAssumption DEF PipelineInv, CallBounded, Calls
  <2> QED
    BY <2>1, <2>2, <2>3 DEF PipelineInv, PipelineTypeOK, Judging, Passes
<1> QED
  BY <1>1, PipelineInvariant, PTL

\* Between attempts the invocation ledger has a row for all the usage the
\* client counted, and no pass bills more calls than were reserved for it.
THEOREM UsagePaidHolds == PipelineSpec => []UsageLedgeredAndPaid
<1>1. PipelineInv => UsageLedgeredAndPaid
  <2> SUFFICES ASSUME PipelineInv PROVE UsageLedgeredAndPaid
    OBVIOUS
  <2>1. call.at \in {"idle", "poll", "send", "stream"} => owed = 0
    BY DEF PipelineInv, Owing
  <2>2. /\ call.n \in Nat /\ call.allowed \in Nat /\ call.spare \in Nat /\ call.n <= call.allowed
        /\ call.allowed + call.spare <= 1 + MaxRetries + MaxTruncationRetries
        /\ stage = "judge" => call.allowed = 1 + MaxRetries
        /\ MaxRetries \in Nat /\ MaxTruncationRetries \in Nat /\ billed \in Nat
        /\ stage \in Passes => billed <= Attempts
    BY LoopAssumption DEF PipelineInv, CallBounded, Calls, Billing
  <2>3. CASE stage \in {"primary", "critic"}
    <3>1. Attempts <= call.n
      BY <2>2, <2>3 DEF Attempts
    <3>2. Priced(stage) = 1 + MaxRetries + MaxTruncationRetries
      BY <2>3 DEF Priced
    <3>3. Attempts \in Int
      BY <2>2, <2>3 DEF Attempts
    <3> QED
      BY <2>1, <2>2, <2>3, <3>1, <3>2, <3>3 DEF UsageLedgeredAndPaid, Passes
  <2>4. CASE stage = "judge"
    <3> DEFINE k == 1 + MaxRetries
               c == Cardinality(Settled)
               d == Cardinality(Judged \ Skipped)
    <3>1. k \in Nat /\ c \in Nat /\ d \in Nat /\ c <= d /\ (Pending # {} => c + 1 <= d)
      BY <2>2, <2>4, SettledCounted
    <3>2. Priced(stage) = k * d
      BY <2>4 DEF Priced
    <3>3. billed <= k * c + (IF call.at \in {"poll", "send", "stream"} THEN call.n - 1 ELSE call.n)
      BY <2>2, <2>4 DEF Attempts, Passes
    <3>4. call.n <= k
      BY <2>2, <2>4
    <3> HIDE DEF k, c, d
    <3>5. CASE Pending # {}
      <4>1. k * c \in Nat /\ k * d \in Nat /\ k * c + k <= k * d
        BY <3>1, <3>5, OneMore
      <4>2. billed <= k * d
        BY <2>2, <3>1, <3>3, <3>4, <4>1
      <4> QED
        BY <2>1, <2>4, <3>2, <4>2 DEF UsageLedgeredAndPaid
    <3>6. CASE Pending = {}
      <4>1. call.n = 0 /\ call.at = "idle"
        BY <2>2, <2>4, <3>6 DEF PipelineInv, Judging, InFlight, CallBounded, Calls
      <4>2. c = d
        <5>1. Settled = Judged \ Skipped
          BY <3>6 DEF Settled
        <5> QED
          BY <5>1 DEF c, d
      <4>3. k * c \in Nat
        BY <3>1
      <4>4. billed <= k * d
        BY <2>2, <3>3, <4>1, <4>2, <4>3
      <4> QED
        BY <2>1, <2>4, <3>2, <4>4 DEF UsageLedgeredAndPaid
    <3> QED
      BY <3>5, <3>6
  <2>5. CASE stage \notin Passes
    BY <2>1, <2>5 DEF UsageLedgeredAndPaid, Passes
  <2> QED
    BY <2>3, <2>4, <2>5 DEF Passes
<1> QED
  BY <1>1, PipelineInvariant, PTL

\* Once the owner's cancellation is recorded, at most the request that had
\* passed its poll is sent, and one for each spell of failed polls.
THEOREM CancelStopsHolds == PipelineSpec => []CancelStopsRequests
<1>1. PipelineInv => CancelStopsRequests
  BY DEF PipelineInv, CancelCounted, CancelStopsRequests
<1> QED
  BY <1>1, PipelineInvariant, PTL

-----------------------------------------------------------------------------
(* What the answers of the passes come to.                                 *)

\* Pairings of the first reviewer's issues with the critic's that agree in
\* topic, and in section where the critic dropped the issue.
Agrees(firsts, reply, p, c) ==
  /\ c \in DOMAIN reply.issues
  /\ reply.issues[c].topic = firsts[p].topic
  /\ p \in DroppedIssues(reply) => reply.issues[c] = firsts[p]

Pairings(firsts, reply) ==
  {h \in UNION {[D -> DOMAIN reply.issues] : D \in SUBSET DOMAIN firsts} :
     \A p \in DOMAIN h : Agrees(firsts, reply, p, h[p])}

\* One more pair leaves a pairing.
LEMMA PairUpKeeps ==
  ASSUME NEW firsts, NEW reply, DOMAIN reply.issues \subseteq Nat,
         NEW h \in Pairings(firsts, reply), NEW p \in DOMAIN firsts, NEW C,
         \A c \in C : Agrees(firsts, reply, p, c)
  PROVE  PairUp(h, p, C) \in Pairings(firsts, reply)
<1> DEFINE free == C \ Range(h)
           g == [q \in {p} \cup DOMAIN h |-> IF q = p THEN Min(free) ELSE h[q]]
<1>1. PICK D \in SUBSET DOMAIN firsts : h \in [D -> DOMAIN reply.issues]
  BY DEF Pairings
<1>2. \A q \in DOMAIN h : Agrees(firsts, reply, q, h[q])
  BY DEF Pairings
<1>3. CASE p \in DOMAIN h \/ free = {}
  BY <1>3 DEF PairUp
<1>4. CASE ~(p \in DOMAIN h \/ free = {})
  <2>1. PairUp(h, p, C) = g
    BY <1>4 DEF PairUp
  <2>2. Min(free) \in free
    <3>1. free \in SUBSET Nat /\ free # {}
      BY <1>4 DEF Agrees
    <3> HIDE DEF free
    <3>2. \E x \in free : \A y \in free : x <= y
      BY <3>1, LeastNumber
    <3> QED
      BY <3>2 DEF Min
  <2>3. Agrees(firsts, reply, p, Min(free))
    BY <2>2
  <2>4. {p} \cup D \in SUBSET DOMAIN firsts /\ DOMAIN h = D
    BY <1>1
  <2>5. g \in [{p} \cup D -> DOMAIN reply.issues]
    BY <1>1, <2>3, <2>4 DEF Agrees
  <2>6. \A q \in DOMAIN g : Agrees(firsts, reply, q, g[q])
    BY <1>2, <2>3
  <2> QED
    BY <2>1, <2>4, <2>5, <2>6 DEF Pairings
<1> QED
  BY <1>3, <1>4

\* A recursion along the first reviewer's issues.
Stepwise(g, n, base, F) ==
  g = [p \in 0 .. n |-> IF p = 0 THEN base ELSE F[<<p, g[p - 1]>>]]

\* Such a recursion has a solution.
LEMMA StepwiseExists ==
  ASSUME NEW n \in Nat, NEW base, NEW F
  PROVE  \E g : Stepwise(g, n, base, F)
<1> DEFINE Without == {m \in Nat : ~\E g : Stepwise(g, m, base, F)}
<1>1. SUFFICES ASSUME Without # {} PROVE FALSE
  OBVIOUS
<1>2. PICK m \in Without : \A k \in Without : m <= k
  <2>1. Without \in SUBSET Nat
    OBVIOUS
  <2> HIDE DEF Without
  <2> QED
    BY <1>1, <2>1, LeastNumber
<1>3. CASE m = 0
  <2> DEFINE g == [p \in 0 .. 0 |-> base]
  <2>1. g = [p \in 0 .. 0 |-> IF p = 0 THEN base ELSE F[<<p, g[p - 1]>>]]
    OBVIOUS
  <2>2. Stepwise(g, 0, base, F)
    BY <2>1 DEF Stepwise
  <2> QED
    BY <1>3, <2>2
<1>4. CASE m # 0
  <2>1. m - 1 \in Nat /\ m - 1 \notin Without
    BY <1>2, <1>4
  <2>2. PICK h : Stepwise(h, m - 1, base, F)
    BY <2>1
  <2> DEFINE g == [p \in 0 .. m |-> IF p = m THEN F[<<m, h[m - 1]>>] ELSE h[p]]
  <2>3. ASSUME NEW p \in 0 .. m
        PROVE  g[p] = IF p = 0 THEN base ELSE F[<<p, g[p - 1]>>]
    <3>1. CASE p = m
      BY <2>1, <3>1, <1>4
    <3>2. CASE p # m
      <4>1. p \in 0 .. m - 1 /\ (p # 0 => p - 1 \in 0 .. m /\ p - 1 # m)
        BY <3>2, <2>1
      <4>2. h[p] = IF p = 0 THEN base ELSE F[<<p, h[p - 1]>>]
        BY <4>1, <2>2 DEF Stepwise
      <4> QED
        BY <3>2, <4>1, <4>2
    <3> QED
      BY <3>1, <3>2
  <2>4. g = [p \in 0 .. m |-> IF p = 0 THEN base ELSE F[<<p, g[p - 1]>>]]
    <3>1. g = [p \in 0 .. m |-> g[p]]
      OBVIOUS
    <3> HIDE DEF g
    <3> QED
      BY <2>3, <3>1
  <2>5. Stepwise(g, m, base, F)
    <3> HIDE DEF g
    <3> QED
      BY <2>4 DEF Stepwise
  <2> QED
    BY <1>2, <2>5
<1> QED
  BY <1>3, <1>4

\* It stays in every set its steps stay in.
LEMMA StepwiseStays ==
  ASSUME NEW n \in Nat, NEW V, NEW g, g[0] \in V,
         \A p \in 1 .. n : g[p - 1] \in V => g[p] \in V
  PROVE  \A p \in 0 .. n : g[p] \in V
<1> DEFINE Bad == {p \in 0 .. n : g[p] \notin V}
<1>1. SUFFICES ASSUME Bad # {} PROVE FALSE
  OBVIOUS
<1>2. PICK p \in Bad : \A q \in Bad : p <= q
  <2>1. Bad \in SUBSET Nat
    OBVIOUS
  <2> HIDE DEF Bad
  <2> QED
    BY <1>1, <2>1, LeastNumber
<1>3. p # 0 /\ p - 1 \in 0 .. n /\ p - 1 \notin Bad
  BY <1>2
<1> QED
  BY <1>2, <1>3

\* One issue looked at, among its equals and among those of its topic.
ExactStep(firsts, reply, p, v) ==
  PairUp(v, p, {c \in DOMAIN reply.issues : reply.issues[c] = firsts[p]})
TopicStep(firsts, reply, p, v) ==
  IF p \in DroppedIssues(reply) THEN v ELSE PairUp(v, p, SameTopic(firsts[p], reply))

\* Whatever order the pairs are found in, they agree.
LEMMA PairsAgree ==
  ASSUME NEW S, NEW firsts \in Seq(S), NEW reply, reply.issues \in Seq(S)
  PROVE  PairIssues(firsts, reply) \in Pairings(firsts, reply)
<1> DEFINE n == Len(firsts)
           V == Pairings(firsts, reply)
           IsExact(g) == g = [p \in 0 .. n |-> IF p = 0 THEN <<>> ELSE ExactStep(firsts, reply, p, g[p - 1])]
           e == CHOOSE g : IsExact(g)
           IsAll(g) == g = [p \in 0 .. n |-> IF p = 0 THEN e[n]
                                             ELSE TopicStep(firsts, reply, p, g[p - 1])]
           a == CHOOSE g : IsAll(g)
<1>1. PairIssues(firsts, reply) = a[n]
  BY DEF PairIssues, ExactStep, TopicStep
<1>2. n \in Nat /\ DOMAIN firsts = 1 .. n /\ DOMAIN reply.issues \subseteq Nat
  OBVIOUS
<1> HIDE DEF n
<1>3. ASSUME NEW p \in 1 .. n, NEW v \in V
      PROVE  ExactStep(firsts, reply, p, v) \in V /\ TopicStep(firsts, reply, p, v) \in V
  <2>1. \A c \in {c \in DOMAIN reply.issues : reply.issues[c] = firsts[p]} : Agrees(firsts, reply, p, c)
    BY DEF Agrees
  <2>2. p \notin DroppedIssues(reply) => \A c \in SameTopic(firsts[p], reply) : Agrees(firsts, reply, p, c)
    BY DEF Agrees, SameTopic
  <2> QED
    BY <1>2, <2>1, <2>2, PairUpKeeps DEF ExactStep, TopicStep
<1>4. <<>> \in V
  <2>1. DOMAIN <<>> = {} /\ <<>> = [x \in {} |-> {}]
    OBVIOUS
  <2>2. <<>> \in [{} -> DOMAIN reply.issues]
    BY <2>1
  <2> QED
    BY <2>1, <2>2 DEF Pairings
<1> HIDE DEF V
<1>5. IsExact(e)
  <2> DEFINE F == [x \in (1 .. n) \X V |-> ExactStep(firsts, reply, x[1], x[2])]
  <2>1. PICK g : Stepwise(g, n, <<>>, F)
    BY <1>2, StepwiseExists
  <2>2. g[0] = <<>> /\ \A p \in 1 .. n : g[p] = F[<<p, g[p - 1]>>]
    <3> HIDE DEF F
    <3> QED
      BY <1>2, <2>1 DEF Stepwise
  <2>3. \A p \in 1 .. n : g[p - 1] \in V => g[p] = ExactStep(firsts, reply, p, g[p - 1])
    BY <2>2
  <2>4. \A p \in 0 .. n : g[p] \in V
    <3>1. g[0] \in V /\ \A p \in 1 .. n : g[p - 1] \in V => g[p] \in V
      BY <1>3, <1>4, <2>2, <2>3
    <3> QED
      BY <1>2, <3>1, StepwiseStays
  <2>5. \A p \in 0 .. n : p # 0 => g[p] = ExactStep(firsts, reply, p, g[p - 1])
    BY <1>2, <2>3, <2>4
  <2>6. g = [p \in 0 .. n |-> g[p]]
    <3> HIDE DEF F
    <3> QED
      BY <2>1 DEF Stepwise
  <2>7. g = [p \in 0 .. n |-> IF p = 0 THEN <<>> ELSE ExactStep(firsts, reply, p, g[p - 1])]
    BY <2>2, <2>5, <2>6
  <2> QED
    BY <2>7
<1> HIDE DEF e
<1>6. e[n] \in V
  <2>1. e[0] = <<>> /\ \A p \in 1 .. n : e[p] = ExactStep(firsts, reply, p, e[p - 1])
    BY <1>2, <1>5
  <2>2. \A p \in 0 .. n : e[p] \in V
    <3>1. e[0] \in V /\ \A p \in 1 .. n : e[p - 1] \in V => e[p] \in V
      BY <1>3, <1>4, <2>1
    <3> QED
      BY <1>2, <3>1, StepwiseStays
  <2> QED
    BY <1>2, <2>2
<1>7. IsAll(a)
  <2> DEFINE F == [x \in (1 .. n) \X V |-> TopicStep(firsts, reply, x[1], x[2])]
  <2>1. PICK g : Stepwise(g, n, e[n], F)
    BY <1>2, StepwiseExists
  <2>2. g[0] = e[n] /\ \A p \in 1 .. n : g[p] = F[<<p, g[p - 1]>>]
    <3> HIDE DEF F
    <3> QED
      BY <1>2, <2>1 DEF Stepwise
  <2>3. \A p \in 1 .. n : g[p - 1] \in V => g[p] = TopicStep(firsts, reply, p, g[p - 1])
    BY <2>2
  <2>4. \A p \in 0 .. n : g[p] \in V
    <3>1. g[0] \in V /\ \A p \in 1 .. n : g[p - 1] \in V => g[p] \in V
      BY <1>3, <1>6, <2>2, <2>3
    <3> QED
      BY <1>2, <3>1, StepwiseStays
  <2>5. \A p \in 0 .. n : p # 0 => g[p] = TopicStep(firsts, reply, p, g[p - 1])
    BY <1>2, <2>3, <2>4
  <2>6. g = [p \in 0 .. n |-> g[p]]
    <3> HIDE DEF F
    <3> QED
      BY <2>1 DEF Stepwise
  <2>7. g = [p \in 0 .. n |-> IF p = 0 THEN e[n] ELSE TopicStep(firsts, reply, p, g[p - 1])]
    BY <2>2, <2>5, <2>6
  <2> QED
    BY <2>7
<1> HIDE DEF a
<1>8. a[n] \in V
  <2>1. a = [p \in 0 .. n |-> IF p = 0 THEN e[n] ELSE TopicStep(firsts, reply, p, a[p - 1])]
    BY <1>7
  <2>2. a[0] = e[n]
    <3>1. 0 \in 0 .. n
      BY <1>2
    <3> QED
      BY <2>1, <3>1
  <2>3. ASSUME NEW p \in 1 .. n PROVE a[p] = TopicStep(firsts, reply, p, a[p - 1])
    <3>1. p \in 0 .. n /\ p # 0
      BY <1>2
    <3> QED
      BY <2>1, <3>1
  <2>4. \A p \in 0 .. n : a[p] \in V
    <3>1. a[0] \in V /\ \A p \in 1 .. n : a[p - 1] \in V => a[p] \in V
      BY <1>3, <1>6, <2>2, <2>3
    <3> QED
      BY <1>2, <3>1, StepwiseStays
  <2> QED
    BY <1>2, <2>4
<1> QED
  BY <1>1, <1>8 DEF V

\* The critic's answer was taken: it settles every issue the first reviewer
\* raised and every ledger rule.
Taken ==
  /\ raised \in Seq(Issues) /\ answer.issues \in Seq(Issues)
  /\ answer.decision \in {"ACCEPT", "REQUEST_CHANGE"}
  /\ DOMAIN answer.disposed = DOMAIN raised /\ DOMAIN answer.rules = basis.ledger
  /\ ~DispositionsRejected(raised, answer)

\* The outcome is what the passes' answers come to.
Weighed ==
  outcome = Enforce(Reconcile(raised, answer, violated, Hard), Asserted(answer))

\* What a review delivers is weighed from an answer taken and from verdicts
\* on every invariant the judge decides, and each stage adds its part.
Justifying ==
  /\ stage # "done" => result = NoResult
  /\ stage = "critic" => raised \in Seq(Issues)
  /\ stage \in {"judge", "reconcile", "redline"} \/ result.status = "OK" => Taken
  /\ stage \in {"reconcile", "redline"} \/ result.status = "OK" =>
       Judged \subseteq violated \cup satisfied
  /\ stage = "redline" \/ result.status = "OK" => Weighed
  /\ result.status = "OK" =>
       /\ result.decision = outcome.decision /\ result.issues = outcome.issues
       /\ result.decision = "REQUEST_CHANGE" => result.docx

\* A stage that leaves the passes alone keeps it, whatever becomes of the
\* requests; so does the end of a review that delivers nothing.
LEMMA JustifyingStays ==
  ASSUME Justifying, UNCHANGED <<basis, stage, passVars, result>>
  PROVE  Justifying'
<1>1. UNCHANGED <<basis, stage, raised, answer, violated, satisfied, outcome, result>>
  BY DEF passVars
<1>2. Judged' = Judged /\ Hard' = Hard
  BY <1>1 DEF Judged, Hard
<1>3. Taken' = Taken
  BY <1>1 DEF Taken
<1>4. Weighed' = Weighed
  BY <1>1, <1>2 DEF Weighed
<1> QED
  BY <1>1, <1>2, <1>3, <1>4 DEF Justifying

\* A terminal write that is not OK keeps it (Fail, and an analysis without the redline).
LEMMA JustifyingEnds ==
  ASSUME Justifying, NEW written, written.status # "OK", Finish(written)
  PROVE  Justifying'
  BY DEF Finish, Justifying

\* So does every failure of a pass.
LEMMA JustifyingFails ==
  ASSUME Justifying, NEW how \in {"ERROR", "FAILED", "CANCELLED"}, Fail(how)
  PROVE  Justifying'
<1>1. [NoResult EXCEPT !.status = how].status # "OK"
  BY DEF NoResult
<1> QED
  BY <1>1, JustifyingEnds DEF Fail

\* The judge writes what the answers do not depend on.
LEMMA JustifyingJudges ==
  ASSUME Justifying, stage = "judge",
         UNCHANGED <<basis, stage, raised, answer, outcome, result>>
  PROVE  Justifying'
<1>1. Taken'
  BY DEF Justifying, Taken
<1> QED
  BY <1>1 DEF Justifying, NoResult

\* A reply taken by the critic's checks is an answer taken.
LEMMA AcceptsJustify ==
  ASSUME Justifying,
         \/ \E issues \in SeqsUpTo(Issues, MaxIssues) : PrimaryAccepts(issues)
         \/ stage = "critic" /\ \E reply \in Replies : CriticAccepts(reply)
  PROVE  Justifying'
<1>1. SeqsUpTo(Issues, MaxIssues) \subseteq Seq(Issues)
  <2>1. ASSUME NEW k \in 0 .. MaxIssues, NEW s \in [1 .. k -> Issues] PROVE s \in Seq(Issues)
    BY LoopAssumption
  <2> QED
    BY <2>1 DEF SeqsUpTo
<1>2. ASSUME NEW issues \in SeqsUpTo(Issues, MaxIssues), PrimaryAccepts(issues)
      PROVE  Justifying'
  BY <1>1, <1>2 DEF PrimaryAccepts, Closes, Justifying, NoResult
<1>3. ASSUME stage = "critic", NEW reply \in Replies, CriticAccepts(reply)
      PROVE  Justifying'
  <2>1. raised \in Seq(Issues) /\ result = NoResult
    BY <1>3 DEF Justifying
  <2>2. /\ reply.decision \in {"ACCEPT", "REQUEST_CHANGE"} /\ reply.issues \in Seq(Issues)
        /\ DOMAIN reply.disposed = DOMAIN raised /\ DOMAIN reply.rules = basis.ledger
    BY <1>1, <1>3 DEF Replies
  <2>3. /\ answer' = reply /\ ~DispositionsRejected(raised, reply)
        /\ UNCHANGED <<basis, raised, result>> /\ stage' = "judge"
    BY <1>3 DEF CriticAccepts, Closes
  <2>4. Taken'
    BY <2>1, <2>2, <2>3 DEF Taken
  <2> QED
    BY <2>1, <2>3, <2>4 DEF Justifying, NoResult
<1> QED
  BY <1>2, <1>3

\* The end of the judgment, the reconciliation and the delivery add their part.
LEMMA AroundJustify ==
  ASSUME PipelineInv, Justifying, JudgmentDone \/ ReconcileReview \/ Deliver
  PROVE  Justifying'
<1>1. ASSUME stage = "judge", stage' = "reconcile", Pending = {}, unjudged = {},
             UNCHANGED <<basis, passVars, result>>
      PROVE  Justifying'
  <2>1. UNCHANGED <<basis, raised, answer, violated, satisfied, result>> /\ Taken
    BY <1>1 DEF passVars, Justifying
  <2>2. Taken'
    BY <2>1 DEF Taken
  <2>3. (Judged \subseteq violated \cup satisfied)'
    BY <1>1, <2>1 DEF Pending, Judged
  <2> QED
    BY <1>1, <2>1, <2>2, <2>3 DEF Justifying, NoResult
<1>2. CASE JudgmentDone
  BY <1>1, <1>2, JustifyingFails DEF JudgmentDone
<1>3. ASSUME stage = "reconcile", stage' = "redline",
             outcome' = Enforce(Reconcile(raised, answer, violated, Hard), Asserted(answer)),
             UNCHANGED <<basis, raised, answer, violated, satisfied, result>>
      PROVE  Justifying'
  <2>1. Hard' = Hard /\ Judged' = Judged
    BY <1>3 DEF Hard, Judged
  <2>2. Taken' /\ Weighed'
    BY <1>3, <2>1 DEF Taken, Weighed, Justifying
  <2> QED
    BY <1>3, <2>1, <2>2 DEF Justifying, NoResult
<1>4. CASE ReconcileReview
  BY <1>3, <1>4, JustifyingFails DEF ReconcileReview
<1>5. ASSUME stage = "redline", NEW docx \in BOOLEAN, Finish(Delivered(docx)),
             outcome.decision = "REQUEST_CHANGE" => docx
      PROVE  Justifying'
  <2>1. /\ result' = Delivered(docx) /\ stage' = "done"
        /\ UNCHANGED <<basis, raised, answer, violated, satisfied, outcome>>
    BY <1>5 DEF Finish, passVars
  <2>2. Taken' /\ Weighed' /\ (Judged \subseteq violated \cup satisfied)'
    <3>1. Hard' = Hard /\ Judged' = Judged
      BY <2>1 DEF Hard, Judged
    <3> QED
      BY <1>5, <2>1, <3>1 DEF Taken, Weighed, Justifying
  <2> QED
    BY <1>5, <2>1, <2>2 DEF Justifying, Delivered
<1>6. ASSUME Finish([NoResult EXCEPT !.status = "ERROR", !.issues = outcome.issues])
      PROVE  Justifying'
  <2>1. [NoResult EXCEPT !.status = "ERROR", !.issues = outcome.issues].status # "OK"
    BY DEF NoResult
  <2> QED
    BY <1>6, <2>1, JustifyingEnds
<1>7. CASE Deliver
  BY <1>5, <1>6, <1>7, JustifyingFails DEF Deliver
<1> QED
  BY <1>2, <1>4, <1>7

\* Every step of a review keeps it.
LEMMA JustifyingStep == PipelineInv /\ Justifying /\ [PipelineNext]_pipelineVars => Justifying'
<1> SUFFICES ASSUME PipelineInv, Justifying, [PipelineNext]_pipelineVars PROVE Justifying'
  OBVIOUS
<1>1. CASE UNCHANGED pipelineVars \/ CancelReview
  BY <1>1, JustifyingStays DEF pipelineVars, CancelReview
<1>2. CASE Start
  <2>1. ASSUME stage = "start", stage' = "primary", UNCHANGED <<basis, passVars, result>>
        PROVE  Justifying'
    BY <2>1 DEF Justifying, NoResult
  <2> QED
    BY <1>2, <2>1, JustifyingFails DEF Start
<1>3. CASE BeginAttempt \/ PollFlag \/ Send \/ StoppedMidStream \/ NoResponse
           \/ \E got \in {"reply", "truncated", "empty"} : Streamed(got)
  BY <1>3, JustifyingStays DEF BeginAttempt, PollFlag, Send, StoppedMidStream, NoResponse, Streamed
<1>4. CASE StopBeforeAttempt \/ DocumentTooLarge
  BY <1>4, JustifyingFails DEF StopBeforeAttempt, DocumentTooLarge
<1>5. CASE ReplyRefused \/ Truncated
  BY <1>5, JustifyingFails, JustifyingStays DEF ReplyRefused, Truncated, Closes
<1>6. CASE \E got \in {"failed", "empty", "too_long", "cancelled", "cancelled_billed"} : Raised(got)
  BY <1>6, JustifyingFails DEF Raised
<1>7. CASE NoVerdict \/ \E holds \in BOOLEAN : Verdict(holds)
  BY <1>7, JustifyingJudges DEF Verdict, NoVerdict, Closes
<1> QED
  BY <1>1, <1>2, <1>3, <1>4, <1>5, <1>6, <1>7, AcceptsJustify, AroundJustify
     DEF PipelineNext, Step

\* The critic's answer and the outcome weighed from it carry what they must.
LEMMA JustifyingImplies == PipelineInv /\ Justifying => ResultJustified
<1> SUFFICES ASSUME PipelineInv, Justifying, result.status = "OK" PROVE ResultJustified
  BY DEF ResultJustified
<1> DEFINE pairs == PairIssues(raised, answer)
           kept == Range(answer.issues)
             \cup {raised[p] : p \in {u \in Unpaired(raised, answer) : raised[u].topic \in Hard}}
           issues == kept \cup {Issue(i, i) : i \in violated \ Topics(kept)}
           reconciled == Reconcile(raised, answer, violated, Hard)
<1>1. Taken /\ Weighed /\ Judged \subseteq violated \cup satisfied
  BY DEF Justifying
<1>2. result.decision = outcome.decision /\ result.issues = outcome.issues
      /\ (result.decision = "REQUEST_CHANGE" => result.docx)
  BY DEF Justifying
<1>3. \A i \in basis.floor : i \in violated \cup satisfied \/ i \in DOMAIN answer.rules
  BY <1>1 DEF Taken, Judged
<1>4. /\ reconciled.issues = issues
      /\ reconciled.decision = IF answer.decision = "REQUEST_CHANGE" \/ issues # {}
                               THEN "REQUEST_CHANGE" ELSE "ACCEPT"
  BY DEF Reconcile
<1>5. /\ outcome.issues = issues \cup {Issue(rule, rule) : rule \in Asserted(answer)}
      /\ outcome.decision = "ACCEPT" => Asserted(answer) = {} /\ reconciled.decision = "ACCEPT"
  <2>1. outcome = Enforce(reconciled, Asserted(answer))
    BY <1>1 DEF Weighed
  <2> QED
    BY <1>4, <2>1 DEF Enforce
<1>6. result.decision = "ACCEPT" => result.issues = {} /\ answer.decision = "ACCEPT"
  <2>1. answer.decision \in {"ACCEPT", "REQUEST_CHANGE"}
    BY <1>1 DEF Taken
  <2> HIDE DEF issues, reconciled
  <2> QED
    BY <1>2, <1>4, <1>5, <2>1
<1>7. Range(answer.issues) \subseteq result.issues
  BY <1>2, <1>5
<1>8. violated \cup Asserted(answer) \subseteq Topics(result.issues)
  <2>1. ASSUME NEW i \in violated PROVE i \in Topics(issues)
    <3>1. CASE i \in Topics(kept)
      <4>1. Topics(kept) \subseteq Topics(issues)
        <5> HIDE DEF kept
        <5> QED
          BY DEF Topics
      <4> QED
        BY <3>1, <4>1
    <3>2. CASE i \notin Topics(kept)
      <4>1. Issue(i, i) \in issues /\ Issue(i, i).topic = i
        <5> HIDE DEF kept
        <5> QED
          BY <3>2 DEF Issue
      <4> HIDE DEF issues
      <4> QED
        BY <4>1 DEF Topics
    <3> QED
      BY <3>1, <3>2
  <2> DEFINE open == {Issue(rule, rule) : rule \in Asserted(answer)}
  <2>2. ASSUME NEW i \in Asserted(answer) PROVE i \in Topics(open)
    <3>1. Issue(i, i) \in open /\ Issue(i, i).topic = i
      <4>1. Issue(i, i) \in open
        OBVIOUS
      <4> QED
        BY <4>1 DEF Issue
    <3> HIDE DEF open
    <3> QED
      BY <3>1 DEF Topics
  <2>3. result.issues = issues \cup open
    BY <1>2, <1>5
  <2> HIDE DEF issues, open
  <2>4. Topics(issues) \subseteq Topics(result.issues) /\ Topics(open) \subseteq Topics(result.issues)
    BY <2>3 DEF Topics
  <2> QED
    BY <2>1, <2>2, <2>4
<1>9. pairs \in Pairings(raised, answer)
  BY <1>1, PairsAgree DEF Taken
<1>10. \A p \in DOMAIN pairs : Agrees(raised, answer, p, pairs[p])
  BY <1>9 DEF Pairings
<1>11. ASSUME NEW p \in DOMAIN raised
       PROVE  /\ answer.disposed[p] = "drop" /\ raised[p].topic \in Hard => raised[p] \in result.issues
              /\ answer.disposed[p] = "keep" => raised[p].topic \in Topics(Range(answer.issues))
  <2>1. CASE p \in DOMAIN pairs
    <3>1. Agrees(raised, answer, p, pairs[p])
      BY <1>10, <2>1
    <3> HIDE DEF pairs
    <3>2. answer.issues[pairs[p]] \in Range(answer.issues)
      BY <3>1 DEF Agrees, Range
    <3>3. raised[p].topic \in Topics(Range(answer.issues))
      BY <3>1, <3>2 DEF Agrees, Topics
    <3>4. answer.disposed[p] = "drop" => raised[p] \in Range(answer.issues)
      BY <1>1, <3>1, <3>2 DEF Agrees, DroppedIssues, Taken
    <3> QED
      BY <1>7, <3>3, <3>4
  <2>2. CASE p \notin DOMAIN pairs
    <3>1. p \in Unpaired(raised, answer)
      BY <2>2 DEF Unpaired
    <3>2. answer.disposed[p] # "keep"
      BY <1>1, <3>1 DEF Taken, DispositionsRejected, KeptWithoutCounterpart
    <3>3. raised[p].topic \in Hard => raised[p] \in issues
      BY <3>1
    <3> QED
      BY <1>2, <1>5, <3>2, <3>3
  <2> QED
    BY <2>1, <2>2
<1> QED
  BY <1>2, <1>3, <1>6, <1>7, <1>8, <1>11 DEF ResultJustified

\* What is delivered rests on both passes and every Floor invariant, and carries
\* every issue it must (primary_review_pass.py, critic_delta_rejection and
\* reconcile; hard_rejection_ledger.py), for every playbook, topic and answer.
THEOREM ResultJustifiedHolds == PipelineSpec => []ResultJustified
<1>1. PipelineInit => Justifying
  BY DEF PipelineInit, Justifying, NoResult
<1>2. PipelineSpec => []Justifying
  BY <1>1, JustifyingStep, PipelineInvariant, PTL DEF PipelineSpec
<1> QED
  BY <1>2, JustifyingImplies, PipelineInvariant, PTL

=============================================================================
