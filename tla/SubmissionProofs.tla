-------------------------- MODULE SubmissionProofs --------------------------
(***************************************************************************)
(* Theorems about Submission, for any number of reviews and handlers, any  *)
(* cap and any reservation.  SubmissionInv is inductive for every action   *)
(* of the API; the deployments' proofs use its step lemma as well.         *)
(***************************************************************************)
EXTENDS Submission, TLAPS

\* The pcs of a POST that found or made the submission row.
BehindRow == CreatorPc \cup {"start", "writeSubArn", "writeRowArn"}

\* A POST past the probe serves a review whose row exists.
RowBehindPost ==
  \A h \in Handlers : api[h].pc \in BehindRow => api[h].rev \in submissions

\* The conditional create has one winner, and only it runs the calls up to
\* the reviews row.
OneCreator ==
  \A r \in Reviews : \A g, h \in Handlers :
    Creating(g, r) /\ Creating(h, r) => g = h

\* Nothing is reserved before the row exists, nor before its winner asks.
NothingYet ==
  /\ \A r \in Reviews : r \notin submissions => made[r] = 0
  /\ \A h \in Handlers : At(h, "reserve") => made[api[h].rev] = 0

\* A cancel that settles has read a reservation.
CancelHasReservation ==
  \A h \in Handlers : api[h].pc \in {"settle", "flag"} => api[h].rev \in reservation

SubmissionInv ==
  /\ SubmissionTypeOK
  /\ RowBehindPost
  /\ OneCreator
  /\ NothingYet
  /\ CancelHasReservation
  /\ ReservedOnce

ApiStep(h) == PostStep(h) \/ CallStart(h)

\* The empty tables satisfy the invariant.
LEMMA InitInv == SubmissionInit => SubmissionInv
  BY SpendAssumption, NoReviewAssumption
  DEF SubmissionInit, SubmissionInv, SubmissionTypeOK, RowBehindPost, OneCreator,
      NothingYet, CancelHasReservation, ReservedOnce, Idle, ApiState, At,
      Creating, BehindRow, CreatorPc, Status

\* The API's own state stays well-typed under every action of a POST.
LEMMA TypeStep ==
  ASSUME NEW h \in Handlers, SubmissionInv, ApiStep(h)
  PROVE  SubmissionTypeOK'
<1> USE SpendAssumption DEF SubmissionInv, SubmissionTypeOK, tables
<1>0. /\ api[h] \in ApiState
      /\ Idle \in ApiState
      /\ api[h] # Idle => /\ api[h] \in [pc : PostPc \cup CancelPc, rev : Reviews]
                          /\ api[h].rev \in Reviews
      /\ \A pc \in PostPc : api[h] # Idle =>
           [api EXCEPT ![h].pc = pc] \in [Handlers -> ApiState]
      /\ [api EXCEPT ![h] = Idle] \in [Handlers -> ApiState]
  BY DEF ApiState, Idle
<1>1. CASE \E r \in Reviews : PostBegin(h, r)
  BY <1>1 DEF PostBegin, ApiState, PostPc
<1>2. CASE Probe(h)
  BY <1>0, <1>2 DEF Probe, At, Goto, Return, Idle, PostPc
<1>3. CASE Create(h)
  BY <1>0, <1>3 DEF Create, At, Goto, Return, Idle, PostPc, CreatorPc
<1>4. CASE Reserve(h)
  BY <1>0, <1>4 DEF Reserve, At, Goto, Return, Idle, PostPc, CreatorPc
<1>5. CASE RecordReservation(h)
  BY <1>0, <1>5
  DEF RecordReservation, At, Goto, Idle, PostPc, CreatorPc, RowBehindPost, BehindRow
<1>6. CASE CreateReviewRow(h)
  BY <1>0, <1>6 DEF CreateReviewRow, At, Goto, Idle, PostPc, Status, NonTerminal
<1>7. CASE WriteSubmissionArn(h)
  <2>1. api[h].rev \in submissions
    BY <1>7 DEF WriteSubmissionArn, At, RowBehindPost, BehindRow
  <2> QED
    BY <1>0, <1>7, <2>1 DEF WriteSubmissionArn, At, Goto, Idle, PostPc
<1>8. CASE WriteRowArn(h)
  BY <1>0, <1>8 DEF WriteRowArn, At, Return, Idle
<1>9. CASE HandlerFails(h)
  BY <1>0, <1>9 DEF HandlerFails, Return
<1>10. CASE CallStart(h)
  BY <1>0, <1>10 DEF CallStart, At, Goto, Idle, PostPc
<1> QED
  BY <1>1, <1>2, <1>3, <1>4, <1>5, <1>6, <1>7, <1>8, <1>9, <1>10
  DEF ApiStep, PostStep

\* The control state of a POST: which row, which creator, which reservation.
LEMMA ControlStep ==
  ASSUME NEW h \in Handlers, SubmissionInv, ApiStep(h)
  PROVE  (RowBehindPost /\ OneCreator /\ NothingYet /\ CancelHasReservation
            /\ ReservedOnce)'
<1> USE DEF SubmissionInv, SubmissionTypeOK, tables
<1>0. /\ api \in [Handlers -> ApiState]
      /\ api[h] # Idle => /\ api[h] \in [pc : PostPc \cup CancelPc, rev : Reviews]
                          /\ api[h].rev \in Reviews
  BY DEF ApiState, Idle
<1>1. CASE \E r \in Reviews : PostBegin(h, r)
  BY <1>0, <1>1
  DEF PostBegin, RowBehindPost, OneCreator, NothingYet, CancelHasReservation,
      ReservedOnce, Creating, At, BehindRow, CreatorPc
<1>2. CASE Probe(h)
  BY <1>0, <1>2
  DEF Probe, Goto, Return, Idle, RowBehindPost, OneCreator, NothingYet,
      CancelHasReservation, ReservedOnce, Creating, At, BehindRow, CreatorPc
<1>3. CASE Create(h)
  BY <1>0, <1>3
  DEF Create, Goto, Return, Idle, RowBehindPost, OneCreator, NothingYet,
      CancelHasReservation, ReservedOnce, Creating, At, BehindRow, CreatorPc
<1>4. CASE Reserve(h)
  BY <1>0, <1>4
  DEF Reserve, Goto, Return, Idle, RowBehindPost, OneCreator, NothingYet,
      CancelHasReservation, ReservedOnce, Creating, At, BehindRow, CreatorPc
<1>5. CASE RecordReservation(h)
  BY <1>0, <1>5
  DEF RecordReservation, Goto, Idle, RowBehindPost, OneCreator, NothingYet,
      CancelHasReservation, ReservedOnce, Creating, At, BehindRow, CreatorPc
<1>6. CASE CreateReviewRow(h)
  BY <1>0, <1>6
  DEF CreateReviewRow, Goto, Idle, RowBehindPost, OneCreator, NothingYet,
      CancelHasReservation, ReservedOnce, Creating, At, BehindRow, CreatorPc
<1>7. CASE WriteSubmissionArn(h)
  BY <1>0, <1>7
  DEF WriteSubmissionArn, Goto, Idle, RowBehindPost, OneCreator, NothingYet,
      CancelHasReservation, ReservedOnce, Creating, At, BehindRow, CreatorPc
<1>8. CASE WriteRowArn(h) \/ HandlerFails(h)
  BY <1>0, <1>8
  DEF WriteRowArn, HandlerFails, Return, Idle, RowBehindPost, OneCreator,
      NothingYet, CancelHasReservation, ReservedOnce, Creating, At, BehindRow,
      CreatorPc
<1>9. CASE CallStart(h)
  BY <1>0, <1>9
  DEF CallStart, Goto, Idle, RowBehindPost, OneCreator, NothingYet,
      CancelHasReservation, ReservedOnce, Creating, At, BehindRow, CreatorPc
<1> QED
  BY <1>1, <1>2, <1>3, <1>4, <1>5, <1>6, <1>7, <1>8, <1>9
  DEF ApiStep, PostStep

\* Every call of a POST preserves the invariant.
LEMMA ApiStepInv ==
  ASSUME NEW h \in Handlers, SubmissionInv, ApiStep(h)
  PROVE  SubmissionInv'
  BY TypeStep, ControlStep DEF SubmissionInv

\* A client's requests for one review do not overlap.
OnePost ==
  \A r \in Reviews : \A g, h \in Handlers : Posting(g, r) /\ Posting(h, r) => g = h

\* Whose review a handler serves it keeps, a POST begins alone if retries do
\* not overlap, and only the winner of the conditional create creates.
LEMMA PostsKeep ==
  ASSUME ~OverlappingRetries, SubmissionInv, NEW h \in Handlers, ApiStep(h)
  PROVE  \A r \in Reviews :
           /\ Posting(h, r)' => Posting(h, r) \/ \A g \in Handlers : ~Posting(g, r)
           /\ Creating(h, r)' => Creating(h, r) \/ (r \notin submissions /\ Posting(h, r))
<1> TAKE r \in Reviews
<1> USE DEF At, Idle, Goto, Return, Posting, Creating, PostPc, CreatorPc
<1>0. /\ api \in [Handlers -> ApiState]
      /\ api[h] # Idle => /\ api[h] \in [pc : PostPc \cup CancelPc, rev : Reviews]
                          /\ api[h].rev \in Reviews
  BY DEF SubmissionInv, SubmissionTypeOK, ApiState
<1>1. CASE \E q \in Reviews : PostBegin(h, q)
  <2>1. PICK q \in Reviews : PostBegin(h, q)
    BY <1>1
  <2>2. \A g \in Handlers : ~Posting(g, q)
    BY <2>1, Zenon DEF PostBegin
  <2>3. api'[h] = [pc |-> "probe", rev |-> q]
    BY <1>0, <2>1 DEF PostBegin
  <2> QED
    BY <2>2, <2>3
<1>2. CASE Probe(h)
  BY <1>0, <1>2 DEF Probe
<1>3. CASE Create(h)
  BY <1>0, <1>3 DEF Create
<1>4. CASE Reserve(h)
  BY <1>0, <1>4 DEF Reserve
<1>5. CASE RecordReservation(h) \/ CreateReviewRow(h) \/ WriteSubmissionArn(h) \/ CallStart(h)
  BY <1>0, <1>5 DEF RecordReservation, CreateReviewRow, WriteSubmissionArn, CallStart
<1>6. CASE WriteRowArn(h) \/ HandlerFails(h)
  BY <1>0, <1>6 DEF WriteRowArn, HandlerFails
<1> QED
  BY <1>1, <1>2, <1>3, <1>4, <1>5, <1>6 DEF ApiStep, PostStep

\* The strengthened invariant holds of any number of concurrent POSTs.
THEOREM SubmissionInvariant == SubmissionSpec => []SubmissionInv
<1>1. SubmissionInv /\ UNCHANGED <<tables, api, made, credits>> => SubmissionInv'
  BY DEF SubmissionInv, SubmissionTypeOK, RowBehindPost, OneCreator, NothingYet,
         CancelHasReservation, ReservedOnce, Creating, At, tables
<1>2. SubmissionInv /\ [SubmissionNext]_<<tables, api, made, credits>>
        => SubmissionInv'
  BY <1>1, ApiStepInv DEF SubmissionNext, ApiStep
<1> QED
  BY InitInv, <1>2, PTL DEF SubmissionSpec

\* Every variable keeps its type, the rows their order of creation: an ARN
\* or a reservation only on an existing submission, a released flag only on
\* a recorded reservation.
THEOREM SubmissionTypeCorrect == SubmissionSpec => []SubmissionTypeOK
<1>1. SubmissionInv => SubmissionTypeOK
  BY DEF SubmissionInv
<1> QED
  BY SubmissionInvariant, <1>1, PTL

\* reserve_spend succeeds at most once per review, however many requests
\* race, retry or die: the conditional create has one winner, and only the
\* winner reserves.
THEOREM ReservesOnce == SubmissionSpec => []ReservedOnce
<1>1. SubmissionInv => ReservedOnce
  BY DEF SubmissionInv
<1> QED
  BY SubmissionInvariant, <1>1, PTL

\* The conditional update of reserve_spend keeps the day within its cap.
THEOREM CapHolds == SubmissionSpec => []ReservedWithinCap
<1>1. SubmissionInit => ReservedWithinCap
  BY SpendAssumption DEF SubmissionInit, ReservedWithinCap
<1>2. SubmissionInv /\ ReservedWithinCap
        /\ [SubmissionNext]_<<tables, api, made, credits>> => ReservedWithinCap'
  <2> SUFFICES ASSUME SubmissionInv, ReservedWithinCap, SubmissionNext
               PROVE  ReservedWithinCap'
    BY DEF ReservedWithinCap, tables
  <2>1. PICK h \in Handlers : PostStep(h) \/ CallStart(h)
    BY DEF SubmissionNext
  <2>2. CASE Reserve(h)
    BY <2>2, SpendAssumption
    DEF Reserve, UnderCap, ReservedWithinCap, SubmissionInv, SubmissionTypeOK
  <2>3. ~Reserve(h) => reserved' = reserved
    BY <2>1
    DEF PostStep, PostBegin, Probe, Create, RecordReservation, CreateReviewRow,
        WriteSubmissionArn, WriteRowArn, HandlerFails, CallStart, tables
  <2> QED
    BY <2>2, <2>3 DEF ReservedWithinCap
<1> QED
  BY SubmissionInvariant, <1>1, <1>2, PTL DEF SubmissionSpec

=============================================================================
