---------------------------- MODULE UpkeepProofs -----------------------------
(***************************************************************************)
(* Theorems about what runs beside the reviews: the semaphore, for any set *)
(* of executions, any limit and any bound on waits and retries; the        *)
(* retention settings, for any admins, windows and number of reductions;   *)
(* and legal holds against the purge, for any reviews, admins, users and   *)
(* number of calls that raise.                                             *)
(***************************************************************************)
EXTENDS Semaphore, RetentionSettings, Retention, FiniteSetTheorems, TLAPS

-----------------------------------------------------------------------------
(* The semaphore.                                                          *)

SlotInv == TypeOK /\ CountInRange

\* The semaphore starts unused.
LEMMA SlotInvInit == Init => SlotInv
  BY SlotAssumption DEF Init, SlotInv, TypeOK, CountInRange, Task

\* Each call of acquire and release keeps the counter in range: acquire adds
\* below the limit only, release subtracts above zero only.
LEMMA SlotInvStep == SlotInv /\ [Next]_vars => SlotInv'
<1> SUFFICES ASSUME SlotInv, [Next]_vars PROVE SlotInv'
  OBVIOUS
<1> USE SlotAssumption DEF SlotInv, TypeOK, CountInRange
<1>1. CASE UNCHANGED vars
  BY <1>1 DEF vars
<1>2. ASSUME NEW e \in Executions,
             Start(e) \/ Acquire(e) \/ StagesDone(e) \/ Release(e)
               \/ StageFails(e) \/ Kill(e) \/ LambdaDies(e) \/ LeaseExpires(e)
               \/ Reap(e)
      PROVE  SlotInv'
  <2>1. CASE Start(e) \/ StageFails(e) \/ Kill(e) \/ LambdaDies(e)
    BY <2>1 DEF Start, StageFails, Kill, LambdaDies, End, Task, InLambda
  <2>2. CASE AcquireCount(e) \/ AcquireAgain(e) \/ ReleaseAgain(e)
    BY <2>2 DEF AcquireCount, AcquireAgain, ReleaseAgain, Again, Task, InLambda
  <2>3. CASE AcquirePut(e) \/ AcquireWait(e) \/ WaitOver(e) \/ StagesDone(e)
    BY <2>3 DEF AcquirePut, AcquireWait, WaitOver, StagesDone, Enter, Task, InLambda
  <2>4. CASE AcquireGiveUp(e)
    BY <2>4 DEF AcquireGiveUp, End, Task, InLambda
  <2>5. CASE ReleaseCount(e) \/ ReleaseDelete(e)
    BY <2>5 DEF ReleaseCount, ReleaseDelete, End, Task, InLambda
  <2>6. CASE LeaseExpires(e) \/ Reap(e)
    BY <2>6 DEF LeaseExpires, Reap
  <2> QED
    BY <1>2, <2>1, <2>2, <2>3, <2>4, <2>5, <2>6 DEF Acquire, Release
<1> QED
  BY <1>1, <1>2 DEF Next

\* Types and the counter's range hold in every execution of the pipeline.
THEOREM SemaphoreInvariant == Spec => []SlotInv
  BY SlotInvInit, SlotInvStep, PTL DEF Spec

\* Every variable keeps its type.
THEOREM SemaphoreTypeCorrect == Spec => []TypeOK
<1>1. SlotInv => TypeOK
  BY DEF SlotInv
<1> QED
  BY SemaphoreInvariant, <1>1, PTL

\* The counter never drifts below zero or past the limit, whichever Lambda
\* dies between its two calls and however often it is retried.
THEOREM CounterInRange == Spec => []CountInRange
<1>1. SlotInv => CountInRange
  BY DEF SlotInv
<1> QED
  BY SemaphoreInvariant, <1>1, PTL

-----------------------------------------------------------------------------
\* The executions the counter still counts, or gave back twice for.
Counted == {e \in Executions : task[e] \in {"put", "holding", "drop"}}

Covered == Cardinality(Counted) <= count + redrops

\* What a step that moves one execution does to the counted ones.
LEMMA MoveCounted ==
  ASSUME TypeOK, NEW e \in Executions, NEW t, task' = [task EXCEPT ![e] = t]
  PROVE  /\ t \in {"put", "holding", "drop"} => Counted' = Counted \cup {e}
         /\ t \notin {"put", "holding", "drop"} => Counted' = Counted \ {e}
  BY DEF TypeOK, Counted

\* Each counted execution is one of the counter's units or of the units
\* repeated releases gave back in excess: the counter is taken before an
\* execution is counted and given back in the step that stops counting it.
LEMMA CoveredStep ==
  ASSUME SlotInv, Covered, [Next]_vars
  PROVE  Covered'
<1> USE DEF SlotInv
<1>0. /\ IsFiniteSet(Counted) /\ Cardinality(Counted) \in Nat
      /\ \A e \in Executions :
           /\ Cardinality(Counted \cup {e}) \in Nat
           /\ Cardinality(Counted \cup {e}) <= Cardinality(Counted) + 1
           /\ e \in Counted => Counted \cup {e} = Counted
           /\ Cardinality(Counted \ {e}) \in Nat
           /\ Cardinality(Counted \ {e}) <= Cardinality(Counted)
           /\ e \in Counted => Cardinality(Counted \ {e}) = Cardinality(Counted) - 1
  <2>1. IsFiniteSet(Counted)
    BY FiniteExecutions, FS_Subset DEF Counted
  <2>2. Cardinality(Counted) \in Nat
    BY <2>1, FS_CardinalityType
  <2>3. ASSUME NEW e \in Executions
        PROVE  /\ Cardinality(Counted \cup {e}) = IF e \in Counted
                    THEN Cardinality(Counted) ELSE Cardinality(Counted) + 1
               /\ Cardinality(Counted \ {e}) = IF e \in Counted
                    THEN Cardinality(Counted) - 1 ELSE Cardinality(Counted)
               /\ Cardinality(Counted \ {e}) \in Nat
    BY <2>1, FS_AddElement, FS_RemoveElement, FS_CardinalityType
  <2> QED
    BY <2>1, <2>2, <2>3
<1>1. CASE UNCHANGED vars
  BY <1>1 DEF vars, Covered, Counted
<1>2. ASSUME NEW e \in Executions,
             Start(e) \/ Acquire(e) \/ StagesDone(e) \/ Release(e)
               \/ StageFails(e) \/ Kill(e) \/ LambdaDies(e) \/ LeaseExpires(e)
               \/ Reap(e)
      PROVE  Covered'
  <2>0. count \in Int /\ redrops \in Nat
    BY DEF TypeOK
  <2>1. CASE AcquireCount(e)
    <3>1. Counted' = Counted \cup {e} /\ count' = count + 1 /\ redrops' = redrops
      BY <2>1, MoveCounted DEF AcquireCount
    <3> QED
      BY <1>0, <2>0, <3>1 DEF Covered
  <2>2. CASE ReleaseCount(e)
    <3>1. /\ e \in Counted /\ Counted' = Counted \ {e}
          /\ count' = count - 1 /\ redrops' = redrops
      <4>1. /\ task' = [task EXCEPT ![e] = "delete"]
            /\ count' = count - 1 /\ redrops' = redrops
        BY <2>2 DEF ReleaseCount
      <4>2. Counted' = Counted \ {e}
        BY <4>1 DEF TypeOK, Counted
      <4>3. e \in Counted
        BY <2>2 DEF ReleaseCount, Counted
      <4> QED
        BY <4>1, <4>2, <4>3
    <3> QED
      BY <1>0, <2>0, <3>1 DEF Covered
  <2>3. ASSUME count' = count, redrops' = redrops, NEW t, task' = [task EXCEPT ![e] = t],
               t \in {"put", "holding", "drop"} => e \in Counted
        PROVE  Covered'
    <3>1. Counted' = Counted \/ Counted' = Counted \ {e}
      BY <1>0, <2>3, MoveCounted
    <3> QED
      BY <1>0, <2>0, <2>3, <3>1 DEF Covered
  <2>4. CASE Start(e) \/ StageFails(e) \/ LambdaDies(e) \/ AcquireGiveUp(e)
             \/ ReleaseDelete(e)
    BY <2>3, <2>4
    DEF Start, StageFails, LambdaDies, AcquireGiveUp, ReleaseDelete, End
  <2>5. CASE AcquirePut(e) \/ AcquireWait(e) \/ WaitOver(e) \/ StagesDone(e)
    BY <2>3, <2>5
    DEF AcquirePut, AcquireWait, WaitOver, StagesDone, Enter, Counted
  <2>6. CASE Kill(e)
    BY <2>3, <2>6 DEF Kill, Counted, InLambda
  <2>7. CASE AcquireAgain(e)
    BY <2>3, <2>7 DEF AcquireAgain, Again
  <2>8. CASE ReleaseAgain(e)
    <3>1. task' = [task EXCEPT ![e] = "drop"]
      BY <2>8 DEF ReleaseAgain, Again
    <3>2. Counted' = Counted \cup {e}
      BY <3>1, MoveCounted
    <3>3. count' = count /\ redrops' = redrops + 1
      BY <2>8 DEF ReleaseAgain, Again
    <3> QED
      BY <1>0, <2>0, <3>2, <3>3 DEF Covered
  <2>9. CASE LeaseExpires(e) \/ Reap(e)
    BY <2>9 DEF LeaseExpires, Reap, Covered, Counted
  <2> QED
    BY <1>2, <2>1, <2>2, <2>4, <2>5, <2>6, <2>7, <2>8, <2>9 DEF Acquire, Release
<1> QED
  BY <1>1, <1>2 DEF Next

\* No more executions are past the gate than there are slots and releases
\* repeated after their decrement, for any number of executions, kills,
\* failed stages and retries.
THEOREM ConcurrencyBounded == Spec => []HoldersBounded
<1>1. Init => Covered
  <2>1. ASSUME Init PROVE Counted = {}
    BY <2>1 DEF Init, Counted
  <2> QED
    BY <2>1, FS_EmptySet DEF Covered, Init
<1>2. SlotInv /\ Covered => HoldersBounded
  <2> SUFFICES ASSUME SlotInv, Covered PROVE HoldersBounded
    OBVIOUS
  <2>1. Holders \subseteq Counted /\ IsFiniteSet(Counted)
    BY FiniteExecutions, FS_Subset DEF Holders, Counted
  <2>2. /\ Cardinality(Holders) <= Cardinality(Counted)
        /\ Cardinality(Holders) \in Nat /\ Cardinality(Counted) \in Nat
    BY <2>1, FS_Subset, FS_CardinalityType
  <2> QED
    BY <2>2, SlotAssumption DEF SlotInv, TypeOK, CountInRange, Covered, HoldersBounded
<1>3. SlotInv /\ Covered /\ [Next]_vars => Covered'
  BY CoveredStep
<1> QED
  BY SemaphoreInvariant, <1>1, <1>2, <1>3, PTL DEF Spec

-----------------------------------------------------------------------------
(* The retention settings.                                                 *)

Opened == {"confirm", "cancel"}

\* An id is taken once: the parked reduction, the ended ones and those about
\* to be parked are different ones, and nobody has read what is not parked.
IdsTaken ==
  /\ pending.id <= madeIds
  /\ \A i \in applied \cup withdrawn : i <= madeIds
  /\ sweeper.pc = "apply" => sweeper.of.id <= madeIds
  /\ \A a \in Owners : ask[a].pc \in Opened \cup {"park"} => ask[a].of.id <= madeIds

IdsApart ==
  \A a \in Owners : ask[a].pc = "park" =>
    /\ ask[a].of.id \notin applied \cup withdrawn
    /\ ask[a].of.id # pending.id
    /\ sweeper.pc = "apply" => sweeper.of.id # ask[a].of.id
    /\ \A b \in Owners \ {a} :
         ask[b].pc \in Opened \cup {"park"} => ask[b].of.id # ask[a].of.id

\* What a request or the sweep read is the parked reduction as it still is,
\* unless another id is parked by now.
ReadsAgree ==
  /\ \A a \in Owners : ask[a].pc \in Opened /\ ask[a].of.id = pending.id =>
       ask[a].of.to = pending.to /\ ask[a].of.by = pending.by
  /\ \A a \in Owners : ask[a].pc = "confirm" => ask[a].of.by # a
  /\ sweeper.pc = "apply" /\ sweeper.of.id = pending.id =>
       sweeper.of.to = pending.to /\ pending.ripe
  /\ \A a \in Owners : ask[a].pc = "raise" => ask[a].to >= ask[a].saw

RowKept ==
  /\ pending # NoReduction => hasRow
  /\ ~hasRow => window = DefaultWindow

SInv ==
  /\ SettingsTypeOK /\ WithdrawnNeverApplied
  /\ IdsTaken /\ IdsApart /\ ReadsAgree /\ RowKept

-----------------------------------------------------------------------------

\* What the states of a request and of the sweep carry.
LEMMA StateFields ==
  ASSUME SettingsTypeOK, NEW a \in Owners
  PROVE  /\ ask[a].pc = "raise" => ask[a].to \in Windows /\ ask[a].saw \in Windows
         /\ ask[a].pc \in {"park", "confirm", "cancel"} => ask[a].of \in Reduction
         /\ sweeper.pc = "apply" => sweeper.of \in Reduction
  BY DEF SettingsTypeOK, IdleAsk

\* A reduction's fields, and that it is not the missing one.
LEMMA ReductionFields ==
  ASSUME NEW r \in Reduction
  PROVE  /\ r.id \in Nat /\ r.id >= 1 /\ r.id \in Ids /\ r.to \in Windows
         /\ r.by \in Owners /\ r.ripe \in BOOLEAN
         /\ r # NoReduction
  BY ReductionBoundAssumption DEF Reduction, Ids, NoReduction

\* Nothing was asked yet.
LEMMA SInvInit == SettingsInit => SInv
<1> SUFFICES ASSUME SettingsInit PROVE SInv
  OBVIOUS
<1> USE DEF SettingsInit
<1>1. ASSUME NEW a \in Owners PROVE ask[a].pc = "idle"
  BY DEF IdleAsk
<1>2. SettingsTypeOK
  <2>1. ask \in [Owners -> {IdleAsk}]
    OBVIOUS
  <2>2. pending.id = 0 /\ madeIds \in 0 .. MaxReductions
    BY ReductionBoundAssumption DEF NoReduction
  <2> QED
    BY <2>1, <2>2, WindowAssumption DEF SettingsTypeOK
<1>3. WithdrawnNeverApplied /\ IdsApart /\ ReadsAgree /\ RowKept
  BY <1>1 DEF WithdrawnNeverApplied, IdsApart, ReadsAgree, RowKept, IdleAsk, Opened
<1>4. IdsTaken
  BY <1>1 DEF IdsTaken, IdleAsk, Opened, NoReduction
<1> QED
  BY <1>2, <1>3, <1>4 DEF SInv

-----------------------------------------------------------------------------
(* Each step keeps it.                                                     *)

\* An admin's read moves that admin's request alone.
LEMMA RequestKeeps ==
  ASSUME SInv, NEW a \in Owners, NEW to \in Windows, RequestChange(a, to)
  PROVE  SInv'
<1> USE WindowAssumption, ReductionBoundAssumption
    DEF SInv, RequestChange, Become
<1>1. CASE ask'[a].pc = "raise"
  <2>1. /\ ask' = [ask EXCEPT ![a] = [pc |-> "raise", to |-> to, saw |-> window]]
        /\ to >= window /\ madeIds' = madeIds
    BY <1>1 DEF SettingsTypeOK
  <2>2. SettingsTypeOK'
    BY <2>1 DEF SettingsTypeOK
  <2>3. (IdsTaken /\ IdsApart)'
    BY <2>1 DEF SettingsTypeOK, IdsTaken, IdsApart, Opened
  <2>4. (WithdrawnNeverApplied /\ ReadsAgree /\ RowKept)'
    BY <2>1 DEF SettingsTypeOK, WithdrawnNeverApplied, ReadsAgree, RowKept, Opened
  <2> QED
    BY <2>2, <2>3, <2>4
<1>2. CASE ask'[a].pc # "raise"
  <2> DEFINE new == [id |-> madeIds', to |-> to, by |-> a, ripe |-> FALSE]
  <2>1. /\ ask' = [ask EXCEPT ![a] = [pc |-> "park", of |-> new]]
        /\ madeIds' = madeIds + 1 /\ madeIds < MaxReductions
    BY <1>2 DEF SettingsTypeOK
  <2>2. madeIds \in Nat /\ new \in Reduction
    BY <2>1 DEF SettingsTypeOK, Reduction, Ids
  <2>3. SettingsTypeOK'
    BY <2>1, <2>2 DEF SettingsTypeOK
  <2>4. /\ \A b \in Owners \ {a} : ask'[b] = ask[b]
        /\ ask'[a].pc = "park" /\ ask'[a].of.id = madeIds + 1
    BY <2>1 DEF SettingsTypeOK
  <2>5. \A b \in Owners : ask[b].pc \in Opened \cup {"park"} => ask[b].of.id \in Nat
    BY StateFields, ReductionFields DEF Opened
  <2>6. sweeper.pc = "apply" => sweeper.of.id \in Nat
    BY StateFields, ReductionFields
  <2>7. pending.id \in Nat /\ \A i \in applied \cup withdrawn : i \in Nat
    BY ReductionFields DEF SettingsTypeOK, NoReduction, Ids
  <2>8. IdsTaken'
    BY <2>1, <2>2, <2>4, <2>5, <2>6, <2>7 DEF IdsTaken, Opened
  <2>9. IdsApart'
    BY <2>1, <2>2, <2>4, <2>5, <2>6, <2>7 DEF IdsTaken, IdsApart, Opened
  <2>10. (WithdrawnNeverApplied /\ ReadsAgree /\ RowKept)'
    BY <2>1, <2>4 DEF WithdrawnNeverApplied, ReadsAgree, RowKept, Opened
  <2> QED
    BY <2>3, <2>8, <2>9, <2>10
<1> QED
  BY <1>1, <1>2

\* A forward change puts the window and drops what is parked.
LEMMA ForwardKeeps ==
  ASSUME SInv, NEW a \in Owners, ApplyForward(a)
  PROVE  SInv'
<1> USE WindowAssumption, ReductionBoundAssumption DEF SInv, ApplyForward, Become
<1>1. ask' = [ask EXCEPT ![a] = IdleAsk] /\ pending' = NoReduction /\ pending'.id = 0
  BY DEF NoReduction
<1>2. \A b \in Owners : ask'[b] = IdleAsk \/ (b # a /\ ask'[b] = ask[b])
  BY <1>1 DEF SettingsTypeOK
<1>3. SettingsTypeOK'
  BY <1>1, StateFields DEF SettingsTypeOK, Ids
<1>4. (WithdrawnNeverApplied /\ RowKept)'
  BY <1>1 DEF WithdrawnNeverApplied, RowKept
<1>5. IdsTaken'
  BY <1>1, <1>2 DEF IdsTaken, Opened, IdleAsk, SettingsTypeOK
<1>6. \A b \in Owners : ask[b].pc \in Opened \cup {"park"} => ask[b].of.id # 0
  BY StateFields, ReductionFields DEF Opened
<1>7. sweeper.pc = "apply" => sweeper.of.id # 0
  BY StateFields, ReductionFields
<1>8. (IdsApart /\ ReadsAgree)'
  BY <1>1, <1>2, <1>6, <1>7 DEF IdsApart, ReadsAgree, Opened, IdleAsk
<1> QED
  BY <1>3, <1>4, <1>5, <1>8

\* Parking an id moves it from the request to the row.
LEMMA ParkKeeps ==
  ASSUME SInv, NEW a \in Owners, ParkReduction(a)
  PROVE  SInv'
<1> USE WindowAssumption, ReductionBoundAssumption DEF SInv, ParkReduction, Become
<1>1. ask' = [ask EXCEPT ![a] = IdleAsk] /\ ask[a].pc = "park" /\ ask[a].of \in Reduction
  BY StateFields
<1>2. \A b \in Owners : ask'[b] = IdleAsk \/ (b # a /\ ask'[b] = ask[b])
  BY <1>1 DEF SettingsTypeOK
<1>3. \/ pending' = pending /\ hasRow' = hasRow
      \/ pending' = ask[a].of /\ hasRow' = TRUE
  OBVIOUS
<1>4. SettingsTypeOK'
  BY <1>1, <1>3 DEF SettingsTypeOK, IdsApart
<1>5. (WithdrawnNeverApplied /\ RowKept)'
  BY <1>1, <1>3 DEF WithdrawnNeverApplied, RowKept
<1>6. IdsTaken'
  BY <1>1, <1>2, <1>3 DEF IdsTaken, Opened, IdleAsk
<1>7. IdsApart'
  BY <1>1, <1>2, <1>3 DEF IdsApart, Opened, IdleAsk
<1>8. ReadsAgree'
  BY <1>1, <1>2, <1>3 DEF ReadsAgree, IdsApart, Opened, IdleAsk
<1> QED
  BY <1>4, <1>5, <1>6, <1>7, <1>8

\* A confirmation or a cancellation reads the parked reduction.
LEMMA OpenKeeps ==
  ASSUME SInv, NEW a \in Owners, NEW pc \in Opened, OpenPending(a, pc)
  PROVE  SInv'
<1> USE WindowAssumption, ReductionBoundAssumption DEF SInv, OpenPending, Become
<1>1. ask' = [ask EXCEPT ![a] = [pc |-> pc, of |-> pending]] /\ pending \in Reduction
  BY DEF SettingsTypeOK
<1>2. /\ \A b \in Owners \ {a} : ask'[b] = ask[b]
      /\ ask'[a].pc = pc /\ ask'[a].of = pending
  BY <1>1 DEF SettingsTypeOK
<1>3. SettingsTypeOK'
  BY <1>1 DEF SettingsTypeOK, Opened
<1>4. (WithdrawnNeverApplied /\ RowKept /\ IdsTaken)'
  BY <1>2 DEF WithdrawnNeverApplied, RowKept, IdsTaken, Opened
<1>5. IdsApart'
  BY <1>2 DEF IdsApart, Opened
<1>6. ReadsAgree'
  BY <1>2 DEF ReadsAgree, Opened
<1> QED
  BY <1>3, <1>4, <1>5, <1>6

\* The end of a reduction that was read: applied or withdrawn if it is still
\* the parked one, and nothing happens otherwise.
LEMMA EndKeeps ==
  ASSUME SInv, NEW r \in Reduction,
         r.id = pending.id => r.to = pending.to,
         UNCHANGED <<hasRow, madeIds>>,
         \/ UNCHANGED <<window, pending, applied, withdrawn>>
         \/ /\ r.id = pending.id /\ pending' = NoReduction
            /\ \/ window' = r.to /\ applied' = applied \cup {r.id} /\ withdrawn' = withdrawn
               \/ window' = window /\ applied' = applied /\ withdrawn' = withdrawn \cup {r.id},
         ask' \in [Owners -> {ask[a] : a \in Owners} \cup {IdleAsk}],
         \A a \in Owners : ask'[a] = ask[a] \/ ask'[a] = IdleAsk,
         sweeper' \in {sweeper, IdleAsk}
  PROVE  SInv'
<1> USE WindowAssumption, ReductionBoundAssumption DEF SInv
<1>1. r.id # 0 /\ r.id \in Ids /\ r.to \in Windows
  BY ReductionFields DEF Ids
<1>2. pending.id # 0 => pending # NoReduction
  BY DEF NoReduction
<1>3. NoReduction.id = 0 /\ 0 \notin Ids /\ IdleAsk.pc = "idle"
  BY DEF NoReduction, Ids, IdleAsk
<1>4. SettingsTypeOK'
  BY <1>1, <1>3 DEF SettingsTypeOK
<1>5. WithdrawnNeverApplied'
  BY <1>1 DEF WithdrawnNeverApplied, SettingsTypeOK
<1>6. RowKept'
  BY <1>1, <1>2 DEF RowKept
<1>7. \A a \in Owners : ask[a].pc \in Opened \cup {"park"} => ask[a].of.id # 0
  BY StateFields, ReductionFields DEF Opened
<1>8. sweeper.pc = "apply" => sweeper.of.id # 0
  BY StateFields, ReductionFields
<1>9. IdsTaken'
  BY <1>1, <1>3 DEF IdsTaken, Opened, SettingsTypeOK
<1>10. IdsApart'
  BY <1>1, <1>3, <1>7, <1>8 DEF IdsApart, Opened
<1>11. ReadsAgree'
  BY <1>1, <1>3, <1>7, <1>8 DEF ReadsAgree, Opened
<1> QED
  BY <1>4, <1>5, <1>6, <1>9, <1>10, <1>11

\* The delay of the parked reduction passes.
LEMMA DelayKeeps == SInv /\ DelayPasses => SInv'
<1> SUFFICES ASSUME SInv, DelayPasses PROVE SInv'
  OBVIOUS
<1> USE ReductionBoundAssumption DEF SInv, DelayPasses
<1>1. pending \in Reduction
  BY DEF SettingsTypeOK
<1>2. /\ pending' \in Reduction /\ pending'.id = pending.id
      /\ pending'.to = pending.to /\ pending'.by = pending.by /\ pending'.ripe
  BY <1>1 DEF Reduction
<1>3. SettingsTypeOK'
  BY <1>2 DEF SettingsTypeOK
<1>4. (WithdrawnNeverApplied /\ RowKept /\ IdsTaken /\ IdsApart)'
  BY <1>2 DEF WithdrawnNeverApplied, RowKept, IdsTaken, IdsApart
<1>5. ReadsAgree'
  BY <1>2 DEF ReadsAgree
<1> QED
  BY <1>3, <1>4, <1>5

\* The sweep reads.
LEMMA SweepReadKeeps == SInv /\ SweepReads => SInv'
<1> SUFFICES ASSUME SInv, SweepReads PROVE SInv'
  OBVIOUS
<1> USE ReductionBoundAssumption DEF SInv, SweepReads
<1>1. SettingsTypeOK'
  BY DEF SettingsTypeOK
<1>2. sweeper'.pc = "apply" => sweeper'.of = pending /\ pending.ripe
  OBVIOUS
<1>3. (WithdrawnNeverApplied /\ RowKept /\ IdsTaken /\ IdsApart)'
  BY <1>2 DEF WithdrawnNeverApplied, RowKept, IdsTaken, IdsApart
<1>4. ReadsAgree'
  BY <1>2 DEF ReadsAgree
<1> QED
  BY <1>1, <1>3, <1>4

\* The sweep puts the defaults.
LEMMA SweepPutKeeps == SInv /\ SweepPutsDefault => SInv'
<1> SUFFICES ASSUME SInv, SweepPutsDefault PROVE SInv'
  OBVIOUS
<1> USE WindowAssumption, ReductionBoundAssumption DEF SInv, SweepPutsDefault
<1>1. pending'.id = 0 /\ 0 \notin Ids /\ sweeper'.pc = "idle"
  BY DEF NoReduction, Ids, IdleAsk
<1>2. SettingsTypeOK'
  BY <1>1 DEF SettingsTypeOK
<1>3. \A a \in Owners : ask[a].pc \in Opened \cup {"park"} => ask[a].of.id # 0
  BY StateFields, ReductionFields DEF Opened
<1>4. (WithdrawnNeverApplied /\ RowKept /\ IdsTaken)'
  BY <1>1 DEF WithdrawnNeverApplied, RowKept, IdsTaken, SettingsTypeOK
<1>5. (IdsApart /\ ReadsAgree)'
  BY <1>1, <1>3 DEF IdsApart, ReadsAgree
<1> QED
  BY <1>2, <1>4, <1>5

-----------------------------------------------------------------------------

\* Every step keeps the invariant.
LEMMA SInvStep == SInv /\ [SettingsNext]_settingsVars => SInv'
<1> SUFFICES ASSUME SInv, [SettingsNext]_settingsVars PROVE SInv'
  OBVIOUS
<1>1. CASE UNCHANGED settingsVars
  BY <1>1 DEF settingsVars, SInv, SettingsTypeOK, WithdrawnNeverApplied, IdsTaken,
              IdsApart, ReadsAgree, RowKept
<1>2. ASSUME NEW a \in Owners, Confirm(a) \/ Cancel(a) PROVE SInv'
  <2>1. ask[a].of \in Reduction
    BY <1>2, StateFields DEF Confirm, Cancel, SInv
  <2>2. ask[a].of.id = pending.id => ask[a].of.to = pending.to
    BY <1>2 DEF Confirm, Cancel, SInv, ReadsAgree, Opened
  <2>3. ask' = [ask EXCEPT ![a] = IdleAsk] /\ ask \in [Owners -> {ask[b] : b \in Owners}]
    BY <1>2 DEF Confirm, Cancel, Become, SInv, SettingsTypeOK
  <2>4. /\ ask' \in [Owners -> {ask[b] : b \in Owners} \cup {IdleAsk}]
        /\ \A b \in Owners : ask'[b] = ask[b] \/ ask'[b] = IdleAsk
    BY <2>3
  <2> QED
    BY <1>2, <2>1, <2>2, <2>4, EndKeeps DEF Confirm, Cancel, ApplyPending, Current
<1>3. ASSUME SweepApplies PROVE SInv'
  <2>1. sweeper.of \in Reduction
    BY <1>3, StateFields, ReductionFields DEF SweepApplies, SInv, SettingsTypeOK, IdleAsk
  <2>2. sweeper.of.id = pending.id => sweeper.of.to = pending.to
    BY <1>3 DEF SweepApplies, SInv, ReadsAgree
  <2>3. ask' \in [Owners -> {ask[b] : b \in Owners} \cup {IdleAsk}]
    BY <1>3 DEF SweepApplies, SInv, SettingsTypeOK
  <2> QED
    BY <1>3, <2>1, <2>2, <2>3, EndKeeps DEF SweepApplies, ApplyPending, Current
<1> QED
  BY <1>1, <1>2, <1>3, RequestKeeps, ForwardKeeps, ParkKeeps, OpenKeeps, DelayKeeps,
     SweepReadKeeps, SweepPutKeeps DEF SettingsNext, Opened

\* The inductive invariant of the settings, in every reachable state.
THEOREM SettingsInvariant == SettingsSpec => []SInv
  BY SInvInit, SInvStep, PTL DEF SettingsSpec

\* Every variable keeps its type, and a parked reduction is none that ended.
THEOREM SettingsTypeCorrect == SettingsSpec => []SettingsTypeOK
<1>1. SInv => SettingsTypeOK
  BY DEF SInv
<1> QED
  BY SettingsInvariant, <1>1, PTL

\* A cancelled reduction is never applied, by whichever request or sweep had
\* read it before the cancellation.
THEOREM WithdrawnHolds == SettingsSpec => []WithdrawnNeverApplied
<1>1. SInv => WithdrawnNeverApplied
  BY DEF SInv
<1> QED
  BY SettingsInvariant, <1>1, PTL

\* The window becomes shorter only by the parked reduction, ripe or at the
\* hand of an admin other than the one who asked for it; or by a write whose
\* read is out of date.
THEOREM ReductionIsControlled == SettingsSpec => ReductionControlled
<1>1. SInv /\ [SettingsNext]_settingsVars => [window' < window => LoweredRightly]_settingsVars
  <2> SUFFICES ASSUME SInv, SettingsNext, window' < window PROVE LoweredRightly
    BY DEF settingsVars
  <2>1. window \in Nat /\ Windows \subseteq Nat
    BY WindowAssumption DEF SInv, SettingsTypeOK
  <2>2. ASSUME NEW a \in Owners, ApplyForward(a) PROVE LoweredRightly
    <3>1. ask'[a] = IdleAsk /\ ask[a].pc = "raise" /\ window' = ask[a].to
      BY <2>2 DEF ApplyForward, Become, SInv, SettingsTypeOK
    <3>2. ask[a].to \in Nat /\ ask[a].saw \in Nat /\ ask[a].to >= ask[a].saw
      BY <2>1, <3>1, StateFields DEF SInv, ReadsAgree
    <3> QED
      BY <2>1, <3>1, <3>2 DEF LoweredRightly
  <2>3. ASSUME NEW a \in Owners, Confirm(a) PROVE LoweredRightly
    <3>1. ask[a].of \in Reduction /\ ask[a].pc = "confirm" /\ ask'[a] = IdleAsk
      BY <2>3, StateFields DEF Confirm, Become, SInv, SettingsTypeOK
    <3>2. /\ ask[a].of.id = pending.id /\ window' = ask[a].of.to
          /\ pending' = NoReduction
      BY <2>1, <2>3 DEF Confirm, ApplyPending, Current
    <3>3. pending # NoReduction /\ pending.to = window' /\ a # pending.by
      BY <3>1, <3>2, ReductionFields DEF SInv, ReadsAgree, Opened, NoReduction
    <3> QED
      BY <3>1, <3>2, <3>3 DEF LoweredRightly
  <2>4. ASSUME SweepApplies PROVE LoweredRightly
    <3>1. sweeper.of \in Reduction /\ sweeper.pc = "apply"
      BY <2>4 DEF SweepApplies, SInv, SettingsTypeOK, IdleAsk
    <3>2. /\ sweeper.of.id = pending.id /\ window' = sweeper.of.to
          /\ pending' = NoReduction
      BY <2>1, <2>4 DEF SweepApplies, ApplyPending, Current
    <3>3. pending # NoReduction /\ pending.to = window' /\ pending.ripe
      BY <3>1, <3>2, ReductionFields DEF SInv, ReadsAgree, NoReduction
    <3> QED
      BY <3>2, <3>3 DEF LoweredRightly
  <2>5. CASE SweepPutsDefault
    BY <2>1, <2>5 DEF SweepPutsDefault, SInv, RowKept, LoweredRightly
  <2>6. \/ \E a \in Owners : ApplyForward(a) \/ Confirm(a)
        \/ SweepApplies \/ SweepPutsDefault
    <3>1. window' # window
      BY <2>1
    <3> QED
      BY <3>1 DEF SettingsNext, RequestChange, ParkReduction, OpenPending, Cancel,
                  DelayPasses, SweepReads
  <2> QED
    BY <2>2, <2>3, <2>4, <2>5, <2>6
<1> QED
  BY SettingsInvariant, <1>1, PTL DEF SettingsSpec, ReductionControlled

-----------------------------------------------------------------------------
(* Legal holds and the purge.                                              *)

IsHold(q) == q.kind \in {"set", "release"}

\* What a hold has covered is tagged; whoever still works on the review then
\* is past the row, and does not take tags away.
CoveredTagged ==
  \A r \in Reviews :
    /\ covered[r] \subseteq tagged[r]
    /\ covered[r] # {} =>
         \A g \in OnHold(r) : req[g].kind = "set" /\ req[g].pc \in {"relist", "catch", "audit"}

\* How far a hold has come with the tags: what it listed is tagged by the time
\* it writes the row.
TagsSoFar(q, tags) ==
  /\ q.pc = "list" => q.done = {}
  /\ q.pc = "tag" => q.targets \subseteq q.done \cup q.todo /\ q.done \subseteq tags
  /\ q.pc = "row" => q.targets \subseteq tags

\* A change no other one overlaps is a hold, the only one on its review.
AloneTags(g) ==
  /\ req[g].kind = "set" /\ OnHold(req[g].rev) = {g}
  /\ TagsSoFar(req[g], tagged[req[g].rev])

HoldInv ==
  /\ RetentionTypeOK
  /\ CoveredTagged
  /\ \A g \in Handlers : IsHold(req[g]) /\ req[g].alone => AloneTags(g)

\* What a handler may be doing, by its kind.
LEMMA HandlerShape ==
  ASSUME NEW q \in {IdleReq} \cup HoldReq \cup FieldReq
  PROVE  /\ IsHold(q) <=> q \in HoldReq
         /\ q.pc \in HoldPc => q \in HoldReq
         /\ q.kind \in {"cover", "disposition"} => q \in FieldReq
  BY DEF IsHold, IdleReq, HoldReq, FieldReq, HoldPc

\* The first of some objects is one of them.
LEMMA FirstIsOne ==
  ASSUME NEW S \in SUBSET Objects, S # {}
  PROVE  First(S) \in S
<1>1. \E o \in S : \A p \in S : o <= p
  <2>0. \A p \in S : p = 1 \/ p = 2
    BY DEF Objects
  <2>1. CASE 1 \in S
    BY <2>0, <2>1
  <2>2. CASE 1 \notin S
    <3>1. S = {2}
      BY <2>0, <2>2
    <3> QED
      BY <3>1
  <2> QED
    BY <2>1, <2>2
<1> QED
  BY <1>1 DEF First

\* A new review is neither held nor covered.
LEMMA HoldInitInv == RetentionInit => HoldInv
<1> SUFFICES ASSUME RetentionInit PROVE HoldInv
  OBVIOUS
<1>1. RetentionTypeOK
  BY RetentionFaultAssumption DEF RetentionInit, RetentionTypeOK, Terminal, Objects, SweepState
<1>2. \A g \in Handlers : ~IsHold(req[g])
  BY DEF RetentionInit, IsHold, IdleReq
<1> QED
  BY <1>1, <1>2 DEF RetentionInit, HoldInv, CoveredTagged

\* A step that leaves the changes of holds alone, and takes no tag away.
LEMMA TagsStay ==
  ASSUME HoldInv, RetentionTypeOK',
         covered' = covered,
         \A r \in Reviews : tagged[r] \subseteq tagged'[r],
         \A g \in Handlers : req'[g] = req[g] \/ (~IsHold(req[g]) /\ ~IsHold(req'[g]))
  PROVE  HoldInv'
<1>1. \A r : OnHold(r)' = OnHold(r)
  BY DEF OnHold, IsHold
<1>2. \A g \in Handlers : IsHold(req[g]) => req[g].rev \in Reviews
  BY HandlerShape DEF HoldInv, RetentionTypeOK, HoldReq
<1>3. \A r \in Reviews : \A g \in OnHold(r) : req'[g] = req[g]
  BY DEF OnHold, IsHold
<1>4. CoveredTagged'
  BY <1>1, <1>3 DEF HoldInv, CoveredTagged
<1>5. ASSUME NEW g \in Handlers, IsHold(req'[g]), req'[g].alone PROVE AloneTags(g)'
  <2>1. req'[g] = req[g] /\ req[g].rev \in Reviews /\ AloneTags(g)
    BY <1>2, <1>5 DEF HoldInv
  <2> QED
    BY <1>1, <2>1 DEF AloneTags, TagsSoFar
<1> QED
  BY <1>4, <1>5 DEF HoldInv

\* The pipeline, the clock, the owner and the sweep: the sweep deletes only
\* what carries no tag.
LEMMA QuietKeeps ==
  ASSUME HoldInv,
         \/ \E r \in Reviews : Pipeline(r) \/ CancelReview(r) \/ Expire(r)
         \/ Sweep
  PROVE  HoldInv'
<1> USE RetentionFaultAssumption DEF HoldInv, RetentionTypeOK, Return, Raise, row, bucket
<1>1. CASE \E r \in Reviews : Pipeline(r)
  <2>1. PICK r \in Reviews : Pipeline(r)
    BY <1>1
  <2>2. CASE WriterLooks(r)
    <3>1. RetentionTypeOK'
      BY <2>2 DEF WriterLooks
    <3> QED
      BY <2>2, <3>1, TagsStay DEF WriterLooks
  <2>3. CASE WriterStores(r)
    <3>1. RetentionTypeOK'
      BY <2>3 DEF WriterStores, Output, Objects
    <3>2. \A s \in Reviews : tagged[s] \subseteq tagged'[s]
      BY <2>3 DEF WriterStores
    <3> QED
      BY <2>3, <3>1, <3>2, TagsStay DEF WriterStores
  <2>4. CASE Finish(r)
    <3>1. RetentionTypeOK'
      BY <2>4 DEF Finish, Terminal, Fields
    <3> QED
      BY <2>4, <3>1, TagsStay DEF Finish
  <2> QED
    BY <2>1, <2>2, <2>3, <2>4 DEF Pipeline
<1>2. CASE \E r \in Reviews : CancelReview(r) \/ Expire(r)
  <2>1. RetentionTypeOK'
    BY <1>2 DEF CancelReview, Expire, Terminal
  <2> QED
    BY <1>2, <2>1, TagsStay DEF CancelReview, Expire
<1>3. CASE Sweep
  <2>1. /\ UNCHANGED <<covered, req, tagged, status, held, expired, writer>>
        /\ faults' \in 0 .. MaxFaults
    BY <1>3 DEF Sweep, SweepStart, SweepNext, SweepList, SweepDelete, SweepClear, Unswept
  <2>2. sweep.pc \in {"list", "delete"} =>
          sweep \in [pc : {"list", "delete"}, candidates : SUBSET Reviews,
                     rev : Reviews, left : SUBSET Objects]
    BY DEF SweepState, IdleSweep
  <2>3. CASE SweepStart
    <3>1. RetentionTypeOK'
      BY <2>1, <2>3 DEF SweepStart, SweepState, Candidates
    <3> QED
      BY <2>1, <3>1, TagsStay
  <2>4. CASE SweepNext
    <3>1. sweep.candidates \subseteq Reviews
      BY <2>4 DEF SweepNext, SweepState, IdleSweep
    <3>2. sweep' \in SweepState /\ UNCHANGED <<purged, substance, bucket>>
      BY <2>4, <3>1 DEF SweepNext, SweepState
    <3>3. RetentionTypeOK'
      BY <2>1, <3>2
    <3> QED
      BY <2>1, <3>3, TagsStay
  <2>5. CASE SweepList
    <3>1. sweep' \in SweepState /\ UNCHANGED <<purged, substance, bucket>>
      BY <2>2, <2>5 DEF SweepList, SweepState
    <3>2. RetentionTypeOK'
      BY <2>1, <3>1
    <3> QED
      BY <2>1, <3>2, TagsStay
  <2>6. CASE SweepDelete
    <3> DEFINE o == First(sweep.left)
    <3>1. sweep.left \in SUBSET Objects /\ sweep.rev \in Reviews /\ o \in Objects
      BY <2>2, <2>6, FirstIsOne DEF SweepDelete
    <3>2. /\ UNCHANGED <<purged, substance>>
          /\ \/ /\ o \notin tagged[sweep.rev]
                /\ stored' = [stored EXCEPT ![sweep.rev] = stored[sweep.rev] \ {o}]
                /\ sweep' = [sweep EXCEPT !.left = sweep.left \ {o}]
             \/ sweep' = IdleSweep /\ UNCHANGED stored
      BY <2>6, Zenon DEF SweepDelete, Denied
    <3> HIDE DEF o
    <3>3. sweep' \in SweepState
      BY <2>2, <2>6, <3>1, <3>2 DEF SweepDelete, SweepState
    <3>4. stored' \in [Reviews -> SUBSET Objects] /\ \A r \in Reviews : tagged[r] \subseteq stored'[r]
      BY <3>1, <3>2
    <3>5. RetentionTypeOK'
      BY <2>1, <3>2, <3>3, <3>4
    <3> QED
      BY <2>1, <3>5, TagsStay
  <2>7. CASE SweepClear
    <3>1. sweep' \in SweepState
      BY <2>2, <2>7 DEF SweepClear, SweepState
    <3>2. /\ stored' = stored
          /\ \/ purged' = purged \cup {sweep.rev} /\ substance' = [substance EXCEPT ![sweep.rev] = {}]
             \/ UNCHANGED <<purged, substance>>
      BY <2>7 DEF SweepClear
    <3>3. sweep.rev \in Reviews
      BY <2>2, <2>7 DEF SweepClear
    <3>4. RetentionTypeOK'
      BY <2>1, <3>1, <3>2, <3>3
    <3> QED
      BY <2>1, <3>4, TagsStay
  <2> QED
    BY <1>3, <2>3, <2>4, <2>5, <2>6, <2>7 DEF Sweep
<1> QED
  BY <1>1, <1>2, <1>3

\* A cover note or a disposition is no change of a hold.
LEMMA FieldsKeep ==
  ASSUME HoldInv, NEW h \in Users,
         \/ \E r \in Reviews : CoverBegin(h, r) \/ DispositionBegin(h, r)
         \/ CoverWrite(h) \/ DispositionWrite(h)
  PROVE  HoldInv'
<1> USE RetentionFaultAssumption DEF HoldInv, RetentionTypeOK, Return, Raise, row, bucket
<1>0. h \in Handlers
  BY DEF Handlers
<1>1. CASE \E r \in Reviews : CoverBegin(h, r) \/ DispositionBegin(h, r)
  <2>1. PICK q \in FieldReq : req' = [req EXCEPT ![h] = q] /\ req[h] = IdleReq
    <3>1. PICK r \in Reviews : CoverBegin(h, r) \/ DispositionBegin(h, r)
      BY <1>1
    <3>2. CASE CoverBegin(h, r)
      <4>1. [kind |-> "cover", pc |-> "write", rev |-> r] \in FieldReq
        BY DEF FieldReq
      <4> QED
        BY <3>2, <4>1 DEF CoverBegin, Set
    <3>3. CASE DispositionBegin(h, r)
      <4> DEFINE kept == "note" \in substance[r]
      <4>0. kept \in BOOLEAN
        OBVIOUS
      <4>1. \E note \in {kept, TRUE, FALSE} :
              req' = [req EXCEPT ![h] =
                        [kind |-> "disposition", pc |-> "write", rev |-> r, note |-> note]]
        BY <3>3 DEF DispositionBegin, Set
      <4> HIDE DEF kept
      <4>2. PICK note \in BOOLEAN :
              req' = [req EXCEPT ![h] =
                        [kind |-> "disposition", pc |-> "write", rev |-> r, note |-> note]]
        BY <4>0, <4>1
      <4>3. [kind |-> "disposition", pc |-> "write", rev |-> r, note |-> note] \in FieldReq
        BY DEF FieldReq
      <4> QED
        BY <3>3, <4>2, <4>3 DEF DispositionBegin
    <3> QED
      BY <3>1, <3>2, <3>3
  <2>2. UNCHANGED <<row, bucket, writer, sweep, covered, faults>>
    BY <1>1 DEF CoverBegin, DispositionBegin
  <2>3. RetentionTypeOK'
    BY <1>0, <2>1, <2>2
  <2>4. ~IsHold(q) /\ ~IsHold(IdleReq)
    BY DEF FieldReq, IsHold, IdleReq
  <2> QED
    BY <1>0, <2>1, <2>2, <2>3, <2>4, TagsStay
<1>2. CASE CoverWrite(h) \/ DispositionWrite(h)
  <2>1. req' = [req EXCEPT ![h] = IdleReq] /\ req[h].kind \in {"cover", "disposition"}
        /\ UNCHANGED <<status, held, purged, expired, bucket, writer, sweep, covered, faults>>
    BY <1>2 DEF CoverWrite, DispositionWrite, Ends, Set
  <2>2. req[h] \in FieldReq /\ req[h].rev \in Reviews
    BY <1>0, <2>1, HandlerShape DEF FieldReq
  <2>3. substance' \in [Reviews -> SUBSET Fields]
    BY <1>2, <2>2 DEF CoverWrite, DispositionWrite, Fields
  <2>4. RetentionTypeOK'
    BY <1>0, <2>1, <2>3
  <2>5. ~IsHold(req[h]) /\ ~IsHold(IdleReq)
    BY <2>1 DEF IsHold, IdleReq
  <2> QED
    BY <1>0, <2>1, <2>4, <2>5, TagsStay
<1> QED
  BY <1>1, <1>2

\* A change of a hold that goes on: what there is to check of its step.
LEMMA HoldMoves ==
  ASSUME HoldInv, RetentionTypeOK', NEW h \in Handlers, req[h] \in HoldReq,
         NEW r \in Reviews, r = req[h].rev,
         NEW new \in {IdleReq} \cup HoldReq, req' = [req EXCEPT ![h] = new],
         IsHold(new) => new.kind = req[h].kind /\ new.rev = r /\ (new.alone => req[h].alone),
         \A s \in Reviews : s # r => tagged'[s] = tagged[s] /\ covered'[s] = covered[s],
         covered'[r] \subseteq tagged'[r],
         covered'[r] # {} =>
           /\ covered[r] # {} \/ req[h].alone
           /\ IsHold(new) => new.kind = "set" /\ new.pc \in {"relist", "catch", "audit"},
         IsHold(new) /\ new.alone => TagsSoFar(new, tagged'[r])
  PROVE  HoldInv'
<1>1. /\ req'[h] = new /\ \A g \in Handlers : g # h => req'[g] = req[g]
      /\ IsHold(req[h]) /\ h \in OnHold(r) /\ (req[h].alone => OnHold(r) = {h} /\ req[h].kind = "set")
      /\ \A g \in Handlers : IsHold(req[g]) => req[g].rev \in Reviews
  BY HandlerShape DEF HoldInv, RetentionTypeOK, OnHold, IsHold, AloneTags, HoldReq
<1>2. \A s \in Reviews : s # r => OnHold(s)' = OnHold(s)
  BY <1>1 DEF OnHold, IsHold
<1>3. \A g \in OnHold(r)' : g = h \/ (g \in OnHold(r) /\ req'[g] = req[g])
  BY <1>1 DEF OnHold
<1>4. CoveredTagged'
  <2>1. ASSUME NEW s \in Reviews, s # r
        PROVE  /\ covered'[s] \subseteq tagged'[s]
               /\ covered'[s] # {} =>
                    \A g \in OnHold(s)' : req'[g].kind = "set" /\ req'[g].pc \in {"relist", "catch", "audit"}
    <3>1. \A g \in OnHold(s)' : g \in OnHold(s) /\ req'[g] = req[g]
      BY <1>1, <1>2, <2>1 DEF OnHold
    <3> QED
      BY <2>1, <3>1 DEF HoldInv, CoveredTagged
  <2>2. ASSUME covered'[r] # {}, NEW g \in OnHold(r)'
        PROVE  req'[g].kind = "set" /\ req'[g].pc \in {"relist", "catch", "audit"}
    <3>1. CASE g = h
      BY <1>1, <2>2, <3>1 DEF OnHold, IsHold
    <3>2. CASE g # h
      <4>1. g \in OnHold(r) /\ req'[g] = req[g] /\ covered[r] # {}
        BY <1>1, <1>3, <2>2, <3>2
      <4> QED
        BY <4>1 DEF HoldInv, CoveredTagged
    <3> QED
      BY <3>1, <3>2
  <2> QED
    BY <2>1, <2>2 DEF CoveredTagged
<1>5. ASSUME NEW g \in Handlers, IsHold(req'[g]), req'[g].alone PROVE AloneTags(g)'
  <2>1. CASE g = h
    <3>1. OnHold(r)' = {h}
      BY <1>1, <1>3, <1>5, <2>1 DEF OnHold, IsHold
    <3> QED
      BY <1>1, <1>5, <2>1, <3>1 DEF AloneTags
  <2>2. CASE g # h
    <3>1. req'[g] = req[g] /\ AloneTags(g) /\ req[g].rev \in Reviews
      BY <1>1, <1>5, <2>2 DEF HoldInv
    <3>2. req[g].rev # r
      BY <1>1, <2>2, <3>1 DEF AloneTags
    <3>3. OnHold(req[g].rev)' = OnHold(req[g].rev) /\ tagged'[req[g].rev] = tagged[req[g].rev]
      BY <1>2, <3>1, <3>2
    <3> QED
      BY <3>1, <3>3 DEF AloneTags, TagsSoFar
  <2> QED
    BY <2>1, <2>2
<1> QED
  BY <1>4, <1>5 DEF HoldInv

\* A new change is alone only where no other one is, and whatever was covered
\* is no longer promised.
LEMMA BeginKeeps ==
  ASSUME HoldInv, NEW h \in Admins, NEW r \in Reviews, NEW kind \in {"set", "release"},
         HoldBegin(h, r, kind)
  PROVE  HoldInv'
<1> DEFINE new == [kind |-> kind, rev |-> r, pc |-> "list", was |-> r \in held,
                   targets |-> {}, todo |-> {}, done |-> {},
                   alone |-> kind = "set" /\ OnHold(r) = {}]
<1>0. h \in Handlers /\ req \in [Handlers -> {IdleReq} \cup HoldReq \cup FieldReq]
  BY DEF Handlers, HoldInv, RetentionTypeOK
<1>1. /\ new \in HoldReq /\ new.rev = r /\ new.pc = "list" /\ new.kind = kind
      /\ new.alone => kind = "set" /\ OnHold(r) = {}
  <2> DEFINE was == r \in held
             alone == kind = "set" /\ OnHold(r) = {}
  <2>1. was \in BOOLEAN /\ alone \in BOOLEAN
    OBVIOUS
  <2>2. alone => kind = "set" /\ OnHold(r) = {}
    OBVIOUS
  <2> HIDE DEF was, alone
  <2>3. [kind |-> kind, rev |-> r, pc |-> "list", was |-> was,
         targets |-> {}, todo |-> {}, done |-> {}, alone |-> alone] \in HoldReq
    BY <2>1 DEF HoldReq, HoldPc
  <2> QED
    BY <2>2, <2>3 DEF was, alone
<1>2. /\ req[h] = IdleReq
      /\ req' = [g \in Handlers |->
           IF g = h THEN new
           ELSE IF g \in OnHold(r) THEN [req[g] EXCEPT !.alone = FALSE]
           ELSE req[g]]
      /\ covered' = [covered EXCEPT ![r] = {}]
      /\ UNCHANGED <<row, bucket, writer, sweep, faults>>
  BY DEF HoldBegin, Return
<1> HIDE DEF new
<1>3. ASSUME NEW g \in Handlers, g # h
      PROVE  \/ req'[g] = req[g] /\ g \notin OnHold(r)
             \/ /\ g \in OnHold(r) /\ req'[g] \in HoldReq /\ ~req'[g].alone
                /\ req'[g].rev = req[g].rev /\ req'[g].kind = req[g].kind
  <2>1. CASE g \in OnHold(r)
    <3>1. req[g] \in HoldReq
      BY <1>0, <2>1, HandlerShape DEF OnHold, IsHold
    <3>2. req'[g] = [req[g] EXCEPT !.alone = FALSE]
      BY <1>2, <1>3, <2>1
    <3> QED
      BY <2>1, <3>1, <3>2 DEF HoldReq
  <2>2. CASE g \notin OnHold(r)
    BY <1>2, <1>3, <2>2
  <2> QED
    BY <2>1, <2>2
<1>4. req'[h] = new
  BY <1>0, <1>2
<1>5. RetentionTypeOK'
  <2>1. req' \in [Handlers -> {IdleReq} \cup HoldReq \cup FieldReq]
    BY <1>0, <1>1, <1>2, <1>3, <1>4
  <2> QED
    BY <1>2, <2>1 DEF HoldInv, RetentionTypeOK, row, bucket
<1>6. h \notin OnHold(r) /\ ~IsHold(IdleReq)
  BY <1>2 DEF OnHold, IdleReq, IsHold
<1>7. \A s \in Reviews : s # r => OnHold(s)' = OnHold(s)
  BY <1>0, <1>1, <1>2, <1>3, <1>4, <1>6 DEF OnHold, IdleReq
<1>8. OnHold(r)' = OnHold(r) \cup {h}
  BY <1>0, <1>1, <1>3, <1>4 DEF OnHold
<1>9. CoveredTagged'
  <2>1. covered'[r] = {} /\ \A s \in Reviews : s # r => covered'[s] = covered[s]
    BY <1>2 DEF HoldInv, RetentionTypeOK
  <2>2. tagged' = tagged
    BY <1>2 DEF bucket
  <2>3. ASSUME NEW s \in Reviews, s # r, NEW g \in OnHold(s) PROVE req'[g] = req[g]
    BY <1>2, <1>3, <1>6, <2>3 DEF OnHold, IdleReq
  <2> QED
    BY <1>7, <2>1, <2>2, <2>3 DEF HoldInv, CoveredTagged
<1>10. ASSUME NEW g \in Handlers, IsHold(req'[g]), req'[g].alone PROVE AloneTags(g)'
  <2>1. CASE g = h
    <3>1. req'[h].done = {}
      BY <1>1, <1>4 DEF new
    <3> QED
      BY <1>1, <1>4, <1>8, <1>10, <2>1, <3>1 DEF AloneTags, TagsSoFar
  <2>2. CASE g # h
    <3>1. req'[g] = req[g] /\ g \notin OnHold(r) /\ AloneTags(g)
      BY <1>3, <1>10, <2>2 DEF HoldInv
    <3>2. req[g].rev \in Reviews /\ req[g].rev # r
      BY <1>0, <1>10, <3>1, HandlerShape DEF OnHold, IsHold, HoldReq
    <3>3. tagged' = tagged
      BY <1>2 DEF bucket
    <3> QED
      BY <1>7, <3>1, <3>2, <3>3 DEF AloneTags, TagsSoFar
  <2> QED
    BY <2>1, <2>2
<1> QED
  BY <1>5, <1>9, <1>10 DEF HoldInv

\* What undoes a change, and what audits it, are changes still, not alone.
LEMMA UndoShape ==
  ASSUME NEW q \in HoldReq
  PROVE  /\ Undoing(q) \in HoldReq /\ ~Undoing(q).alone /\ Undoing(q).pc = "undo"
         /\ Undoing(q).rev = q.rev /\ Undoing(q).kind = q.kind
         /\ Auditing(q) \in HoldReq /\ ~Auditing(q).alone /\ Auditing(q).pc = "audit"
         /\ Auditing(q).rev = q.rev /\ Auditing(q).kind = q.kind
  BY DEF Undoing, Auditing, HoldReq, HoldPc

\* A step that changes nothing but the request, on its way to `new`.
LEMMA HoldGoesOn ==
  ASSUME HoldInv, NEW h \in Admins, req[h] \in HoldReq,
         NEW new \in {IdleReq} \cup HoldReq, req' = [req EXCEPT ![h] = new],
         UNCHANGED <<status, purged, expired, substance, bucket, writer, sweep, covered>>,
         held' \subseteq Reviews, faults' \in 0 .. MaxFaults,
         IsHold(new) =>
           new.kind = req[h].kind /\ new.rev = req[h].rev /\ (new.alone => req[h].alone),
         covered[req[h].rev] # {} =>
           (IsHold(new) => new.pc \in {"relist", "catch", "audit"}),
         IsHold(new) /\ new.alone => TagsSoFar(new, tagged[req[h].rev])
  PROVE  HoldInv'
<1>1. h \in Handlers /\ req[h].rev \in Reviews
  BY DEF Handlers, HoldReq
<1>2. RetentionTypeOK'
  BY <1>1 DEF HoldInv, RetentionTypeOK, bucket
<1>3. h \in OnHold(req[h].rev)
  BY <1>1, HandlerShape DEF OnHold, IsHold
<1>4. /\ covered[req[h].rev] \subseteq tagged[req[h].rev]
      /\ covered[req[h].rev] # {} => req[h].kind = "set"
  BY <1>1, <1>3 DEF HoldInv, CoveredTagged
<1>5. tagged' = tagged /\ covered' = covered
  BY DEF bucket
<1> QED
  BY <1>1, <1>2, <1>4, <1>5, HoldMoves

\* What holds of a change whose step is taken.
LEMMA HoldStands ==
  ASSUME HoldInv, NEW h \in Admins, HoldStep(h)
  PROVE  /\ h \in Handlers /\ req[h] \in HoldReq /\ req[h].rev \in Reviews
         /\ req \in [Handlers -> {IdleReq} \cup HoldReq \cup FieldReq]
         /\ faults' \in 0 .. MaxFaults
         /\ covered[req[h].rev] \subseteq tagged[req[h].rev]
         /\ covered[req[h].rev] # {} =>
              req[h].kind = "set" /\ req[h].pc \in {"relist", "catch", "audit"}
         /\ req[h].alone => AloneTags(h)
<1>0. /\ h \in Handlers /\ req \in [Handlers -> {IdleReq} \cup HoldReq \cup FieldReq]
      /\ faults \in 0 .. MaxFaults /\ MaxFaults \in Nat
  BY RetentionFaultAssumption DEF Handlers, HoldInv, RetentionTypeOK
<1>1. req[h].pc \in HoldPc \/ req[h].kind \in {"set", "release"}
  BY DEF HoldStep, HoldList, HoldTag, SetRow, ReleaseRow, CatchUp, HoldAudit, HoldRevert,
         HoldUndo, HoldPc
<1>2. req[h] \in HoldReq
  BY <1>0, <1>1, HandlerShape DEF IsHold
<1>3. faults' \in 0 .. MaxFaults
  <2>1. Return \/ Raise
    BY Zenon DEF HoldStep, HoldList, HoldTag, SetRow, ReleaseRow, CatchUp, HoldAudit,
                 HoldRevert, HoldUndo
  <2> QED
    BY <1>0, <2>1 DEF Return, Raise
<1>4. IsHold(req[h]) /\ req[h].rev \in Reviews
  BY <1>2 DEF HoldReq, IsHold
<1>5. h \in OnHold(req[h].rev)
  BY <1>0, <1>4 DEF OnHold, IsHold
<1>6. /\ covered[req[h].rev] \subseteq tagged[req[h].rev]
      /\ covered[req[h].rev] # {} =>
           req[h].kind = "set" /\ req[h].pc \in {"relist", "catch", "audit"}
  BY <1>4, <1>5 DEF HoldInv, CoveredTagged
<1>7. req[h].alone => AloneTags(h)
  BY <1>0, <1>4 DEF HoldInv
<1> QED
  BY <1>0, <1>2, <1>3, <1>4, <1>6, <1>7

\* A change that ends, with whatever it had.
LEMMA HoldEnds ==
  ASSUME HoldInv, NEW h \in Admins, HoldStep(h), req' = [req EXCEPT ![h] = IdleReq],
         UNCHANGED <<row, bucket, writer, sweep, covered>>
  PROVE  HoldInv'
<1>1. IdleReq \in {IdleReq} \cup HoldReq /\ ~IsHold(IdleReq)
  BY DEF IdleReq, IsHold
<1>2. held' \subseteq Reviews /\ UNCHANGED <<status, purged, expired, substance>>
  BY DEF HoldInv, RetentionTypeOK, row
<1> QED
  BY <1>1, <1>2, HoldStands, HoldGoesOn

\* A hold's own steps keep what is covered tagged, and so undeleted: the list.
LEMMA ListKeeps ==
  ASSUME HoldInv, NEW h \in Admins, HoldList(h)
  PROVE  HoldInv'
<1> DEFINE q == req[h]
           r == q.rev
           new == [q EXCEPT !.pc = "tag", !.targets = stored[r], !.todo = stored[r]]
<1>1. HoldStep(h)
  BY DEF HoldStep
<1>2. /\ q.pc = "list" /\ UNCHANGED <<row, bucket, writer, sweep, covered>>
      /\ \/ req' = [req EXCEPT ![h] = new]
         \/ req' = [req EXCEPT ![h] = IdleReq]
  BY Zenon DEF HoldList, Set, Ends
<1>3. stored[r] \in SUBSET Objects
  BY <1>1, HoldStands DEF HoldInv, RetentionTypeOK
<1>4. q \in HoldReq /\ faults' \in 0 .. MaxFaults /\ (q.alone => AloneTags(h))
      /\ (covered[r] # {} => q.pc \in {"relist", "catch", "audit"})
  BY <1>1, HoldStands
<1>5. /\ new \in HoldReq /\ new.pc = "tag" /\ new.kind = q.kind /\ new.rev = r
      /\ new.alone = q.alone /\ new.targets = stored[r] /\ new.todo = stored[r]
      /\ new.done = q.done
  BY <1>3, <1>4 DEF HoldReq, HoldPc
<1>6. new.alone => TagsSoFar(new, tagged[r])
  BY <1>2, <1>4, <1>5 DEF AloneTags, TagsSoFar
<1>7. held' \subseteq Reviews /\ UNCHANGED <<status, purged, expired, substance>>
  BY <1>2 DEF HoldInv, RetentionTypeOK, row
<1>8. ASSUME req' = [req EXCEPT ![h] = new] PROVE HoldInv'
  <2>1. new \in {IdleReq} \cup HoldReq
    BY <1>5
  <2>2. covered[r] = {}
    BY <1>2, <1>4
  <2>3. UNCHANGED <<status, purged, expired, substance, bucket, writer, sweep, covered>>
    BY <1>2, <1>7
  <2> HIDE DEF new
  <2> QED
    BY <1>4, <1>5, <1>6, <1>7, <1>8, <2>1, <2>2, <2>3, HoldGoesOn
<1> QED
  BY <1>1, <1>2, <1>8, HoldEnds

\* The tags: each step changes one object of the list, or undoes the change.
LEMMA TagKeeps ==
  ASSUME HoldInv, NEW h \in Admins, HoldTag(h)
  PROVE  HoldInv'
<1> DEFINE q == req[h]
           r == q.rev
           o == First(q.todo)
           new == [q EXCEPT !.todo = @ \ {o}, !.done = @ \cup {o}]
           next == [q EXCEPT !.pc = "row"]
<1>1. HoldStep(h)
  BY DEF HoldStep
<1>2. /\ q \in HoldReq /\ r \in Reviews /\ h \in Handlers /\ (q.alone => AloneTags(h))
      /\ faults' \in 0 .. MaxFaults
      /\ covered[r] # {} => q.pc \in {"relist", "catch", "audit"}
  BY <1>1, HoldStands
<1>3. q.pc = "tag" /\ UNCHANGED <<row, stored, writer, sweep, covered>>
  BY DEF HoldTag
<1>4. covered[r] = {}
  BY <1>2, <1>3
<1>5. held' \subseteq Reviews /\ UNCHANGED <<status, purged, expired, substance>>
  BY <1>3 DEF HoldInv, RetentionTypeOK, row
<1>6. \/ q.todo = {} /\ req' = [req EXCEPT ![h] = next] /\ tagged' = tagged
      \/ /\ q.todo # {} /\ o \in stored[r] /\ req' = [req EXCEPT ![h] = new]
         /\ tagged' = [tagged EXCEPT ![r] = IF q.kind = "set" THEN @ \cup {o} ELSE @ \ {o}]
      \/ req' = [req EXCEPT ![h] = Undoing(q)] /\ tagged' = tagged
  BY Zenon DEF HoldTag, Set, Tag
<1>7. CASE q.todo = {} /\ req' = [req EXCEPT ![h] = next] /\ tagged' = tagged
  <2>1. /\ next \in HoldReq /\ next.pc = "row" /\ next.kind = q.kind /\ next.rev = r
        /\ next.alone = q.alone /\ next.targets = q.targets
    BY <1>2 DEF HoldReq, HoldPc
  <2>2. next.alone => TagsSoFar(next, tagged[r])
    BY <1>2, <1>3, <1>7, <2>1 DEF AloneTags, TagsSoFar
  <2>3. UNCHANGED <<status, purged, expired, substance, bucket, writer, sweep, covered>>
    BY <1>3, <1>5, <1>7 DEF bucket
  <2>4. next \in {IdleReq} \cup HoldReq
    BY <2>1
  <2> HIDE DEF next
  <2> QED
    BY <1>2, <1>4, <1>5, <1>7, <2>1, <2>2, <2>3, <2>4, HoldGoesOn
<1>8. CASE req' = [req EXCEPT ![h] = Undoing(q)] /\ tagged' = tagged
  <2>1. UNCHANGED <<status, purged, expired, substance, bucket, writer, sweep, covered>>
    BY <1>3, <1>5, <1>8 DEF bucket
  <2>2. /\ Undoing(q) \in {IdleReq} \cup HoldReq /\ ~Undoing(q).alone
        /\ Undoing(q).rev = q.rev /\ Undoing(q).kind = q.kind
    BY <1>2, UndoShape
  <2> QED
    BY <1>2, <1>4, <1>5, <1>8, <2>1, <2>2, HoldGoesOn
<1>9. CASE /\ q.todo # {} /\ o \in stored[r] /\ req' = [req EXCEPT ![h] = new]
           /\ tagged' = [tagged EXCEPT ![r] = IF q.kind = "set" THEN @ \cup {o} ELSE @ \ {o}]
  <2>0. q.todo \in SUBSET Objects /\ q.done \in SUBSET Objects /\ o \in q.todo
    BY <1>2, <1>9, FirstIsOne DEF HoldReq
  <2> HIDE DEF o
  <2>1. /\ new \in HoldReq /\ new.pc = "tag" /\ new.kind = q.kind /\ new.rev = r
        /\ new.alone = q.alone /\ new.targets = q.targets
        /\ new.todo = q.todo \ {o} /\ new.done = q.done \cup {o}
    <3>1. new = [q EXCEPT !.todo = q.todo \ {o}, !.done = q.done \cup {o}]
      BY Zenon
    <3> QED
      BY <1>2, <1>3, <2>0, <3>1 DEF HoldReq, HoldPc
  <2>2. /\ tagged \in [Reviews -> SUBSET Objects] /\ stored \in [Reviews -> SUBSET Objects]
        /\ \A s \in Reviews : tagged[s] \subseteq stored[s]
    BY DEF HoldInv, RetentionTypeOK
  <2>3. /\ tagged' \in [Reviews -> SUBSET Objects]
        /\ \A s \in Reviews : s # r => tagged'[s] = tagged[s]
        /\ tagged'[r] = IF q.kind = "set" THEN tagged[r] \cup {o} ELSE tagged[r] \ {o}
        /\ \A s \in Reviews : tagged'[s] \subseteq stored[s]
    BY <1>2, <1>9, <2>0, <2>2
  <2>4. new \in {IdleReq} \cup HoldReq
    BY <2>1
  <2>5. new.alone => TagsSoFar(new, tagged'[r])
    BY <1>2, <1>3, <1>9, <2>0, <2>1, <2>3 DEF AloneTags, TagsSoFar
  <2> HIDE DEF new
  <2>6. RetentionTypeOK'
    BY <1>2, <1>3, <1>5, <1>9, <2>3, <2>4 DEF HoldInv, RetentionTypeOK, row
  <2>7. covered'[r] = {} /\ \A s \in Reviews : s # r => covered'[s] = covered[s]
    BY <1>3, <1>4
  <2>8. \A s \in Reviews : s # r => tagged'[s] = tagged[s] /\ covered'[s] = covered[s]
    BY <2>3, <2>7
  <2>9. covered'[r] \subseteq tagged'[r] /\ ~(covered'[r] # {})
    BY <2>7
  <2>10. IsHold(new) => new.kind = q.kind /\ new.rev = r /\ (new.alone => q.alone)
    BY <2>1
  <2> QED
    BY <1>2, <1>9, <2>4, <2>5, <2>6, <2>8, <2>9, <2>10, HoldMoves
<1> HIDE DEF q, r, o, new, next
<1> QED
  BY <1>6, <1>7, <1>8, <1>9, Zenon

\* The row of a hold: what was listed is covered, if no other change overlapped.
LEMMA SetRowKeeps ==
  ASSUME HoldInv, NEW h \in Admins, SetRow(h)
  PROVE  HoldInv'
<1> DEFINE q == req[h]
           r == q.rev
           new == [q EXCEPT !.pc = "relist"]
<1>1. HoldStep(h)
  BY DEF HoldStep
<1>2. /\ q \in HoldReq /\ r \in Reviews /\ h \in Handlers /\ (q.alone => AloneTags(h))
      /\ faults' \in 0 .. MaxFaults
      /\ covered[r] # {} => q.pc \in {"relist", "catch", "audit"}
  BY <1>1, HoldStands
<1>3. /\ q.kind = "set" /\ q.pc = "row"
      /\ UNCHANGED <<status, purged, expired, substance, bucket, writer, sweep>>
  BY DEF SetRow
<1>4. covered[r] = {}
  BY <1>2, <1>3
<1>5. held \subseteq Reviews
  BY DEF HoldInv, RetentionTypeOK
<1>6. \/ /\ held' = held \cup {r} /\ req' = [req EXCEPT ![h] = new]
         /\ covered' = [covered EXCEPT ![r] = IF q.alone THEN q.targets ELSE {}]
      \/ /\ req' = [req EXCEPT ![h] = IdleReq] \/ req' = [req EXCEPT ![h] = Undoing(q)]
         /\ held' = held /\ covered' = covered
  <2>1. \/ /\ held' = held \cup {r} /\ Set(h, new)
           /\ covered' = [covered EXCEPT ![r] = IF q.alone THEN q.targets ELSE {}]
        \/ /\ IF q.was THEN Ends(h) ELSE Set(h, Undoing(q))
           /\ UNCHANGED <<held, covered>>
    BY Zenon DEF SetRow
  <2>2. CASE (IF q.was THEN Ends(h) ELSE Set(h, Undoing(q))) /\ UNCHANGED <<held, covered>>
    <3>1. CASE q.was
      BY <2>2, <3>1, Zenon DEF Ends, Set
    <3>2. CASE ~q.was
      BY <2>2, <3>2, Zenon DEF Set
    <3> QED
      BY <3>1, <3>2
  <2> QED
    BY <2>1, <2>2, Zenon DEF Set
<1>7. CASE /\ req' = [req EXCEPT ![h] = IdleReq] \/ req' = [req EXCEPT ![h] = Undoing(q)]
           /\ held' = held /\ covered' = covered
  <2>1. CASE req' = [req EXCEPT ![h] = IdleReq]
    BY <1>1, <1>3, <1>7, <2>1, HoldEnds DEF row
  <2>2. CASE req' = [req EXCEPT ![h] = Undoing(q)]
    <3>1. /\ Undoing(q) \in {IdleReq} \cup HoldReq /\ ~Undoing(q).alone
          /\ Undoing(q).rev = q.rev /\ Undoing(q).kind = q.kind
      BY <1>2, UndoShape
    <3>2. UNCHANGED <<status, purged, expired, substance, bucket, writer, sweep, covered>>
          /\ held' \subseteq Reviews
      BY <1>3, <1>5, <1>7
    <3> QED
      BY <1>2, <1>4, <2>2, <3>1, <3>2, HoldGoesOn
  <2> QED
    BY <1>7, <2>1, <2>2
<1>8. CASE /\ held' = held \cup {r} /\ req' = [req EXCEPT ![h] = new]
           /\ covered' = [covered EXCEPT ![r] = IF q.alone THEN q.targets ELSE {}]
  <2>1. /\ new \in HoldReq /\ new.pc = "relist" /\ new.kind = q.kind /\ new.rev = r
        /\ new.alone = q.alone
    BY <1>2 DEF HoldReq, HoldPc
  <2>2. covered \in [Reviews -> SUBSET Objects] /\ q.targets \in SUBSET Objects
    BY <1>2 DEF HoldInv, RetentionTypeOK, HoldReq
  <2>3. /\ covered' \in [Reviews -> SUBSET Objects]
        /\ \A s \in Reviews : s # r => covered'[s] = covered[s]
        /\ covered'[r] = IF q.alone THEN q.targets ELSE {}
    BY <1>2, <1>8, <2>2
  <2>4. q.alone => q.targets \subseteq tagged[r]
    BY <1>2, <1>3 DEF AloneTags, TagsSoFar
  <2>5. tagged' = tagged
    BY <1>3 DEF bucket
  <2>6. new \in {IdleReq} \cup HoldReq /\ held' \subseteq Reviews
    BY <1>2, <1>5, <1>8, <2>1
  <2>7. new.alone => TagsSoFar(new, tagged'[r])
    BY <2>1 DEF TagsSoFar
  <2> HIDE DEF new
  <2>8. RetentionTypeOK'
    BY <1>2, <1>3, <1>8, <2>3, <2>6 DEF HoldInv, RetentionTypeOK, bucket
  <2>9. covered'[r] \subseteq tagged'[r] /\ (covered'[r] # {} => q.alone)
    BY <2>3, <2>4, <2>5
  <2> QED
    BY <1>2, <1>3, <1>8, <2>1, <2>3, <2>5, <2>6, <2>7, <2>8, <2>9, HoldMoves
<1> QED
  BY <1>6, <1>7, <1>8, Zenon

\* The row of a release, which nothing covers any more.
LEMMA ReleaseRowKeeps ==
  ASSUME HoldInv, NEW h \in Admins, ReleaseRow(h)
  PROVE  HoldInv'
<1> DEFINE q == req[h]
           r == q.rev
<1>1. HoldStep(h)
  BY DEF HoldStep
<1>2. /\ q \in HoldReq /\ r \in Reviews /\ h \in Handlers
      /\ faults' \in 0 .. MaxFaults
      /\ covered[r] # {} => q.kind = "set"
  BY <1>1, HoldStands
<1>3. /\ q.kind = "release"
      /\ UNCHANGED <<status, purged, expired, substance, bucket, writer, sweep, covered>>
  BY DEF ReleaseRow
<1>4. \/ req' = [req EXCEPT ![h] = Auditing(q)] /\ held' = held \ {r}
      \/ req' = [req EXCEPT ![h] = Undoing(q)] /\ held' = held
  BY Zenon DEF ReleaseRow, Set
<1>5. held' \subseteq Reviews
  BY <1>4 DEF HoldInv, RetentionTypeOK
<1>6. PICK new \in {Auditing(q), Undoing(q)} : req' = [req EXCEPT ![h] = new]
  BY <1>4
<1>7. /\ new \in {IdleReq} \cup HoldReq /\ ~new.alone
      /\ new.rev = q.rev /\ new.kind = q.kind
  BY <1>2, UndoShape
<1> QED
  BY <1>2, <1>3, <1>5, <1>6, <1>7, HoldGoesOn

\* The catch-up pass: what it tags is covered too, if no other change overlapped.
LEMMA CatchUpKeeps ==
  ASSUME HoldInv, NEW h \in Admins, CatchUp(h)
  PROVE  HoldInv'
<1> DEFINE q == req[h]
           r == q.rev
           o == First(q.todo)
           found == [q EXCEPT !.pc = "catch", !.todo = stored[q.rev] \ q.targets]
           new == [q EXCEPT !.todo = @ \ {o}]
<1>1. HoldStep(h)
  BY DEF HoldStep
<1>2. /\ q \in HoldReq /\ r \in Reviews /\ h \in Handlers /\ (q.alone => AloneTags(h))
      /\ faults' \in 0 .. MaxFaults
      /\ covered[r] \subseteq tagged[r]
      /\ covered[r] # {} => q.kind = "set"
  BY <1>1, HoldStands
<1>3. q.pc \in {"relist", "catch"} /\ UNCHANGED <<row, stored, writer, sweep>>
  BY Zenon DEF CatchUp
<1>4. /\ UNCHANGED <<status, purged, expired, substance>> /\ held' \subseteq Reviews
  BY <1>3 DEF row, HoldInv, RetentionTypeOK
<1>5. \/ /\ req' = [req EXCEPT ![h] = found] \/ req' = [req EXCEPT ![h] = Auditing(q)]
         /\ UNCHANGED <<tagged, covered>>
      \/ /\ q.pc = "catch" /\ q.todo # {} /\ o \in stored[r] /\ req' = [req EXCEPT ![h] = new]
         /\ Tag(q, o, TRUE)
         /\ covered' = [covered EXCEPT ![r] = IF q.alone THEN @ \cup {o} ELSE @]
  BY Zenon DEF CatchUp, Set
<1>6. stored \in [Reviews -> SUBSET Objects]
  BY DEF HoldInv, RetentionTypeOK
<1>7. CASE /\ req' = [req EXCEPT ![h] = found] \/ req' = [req EXCEPT ![h] = Auditing(q)]
           /\ UNCHANGED <<tagged, covered>>
  <2>1. /\ found \in HoldReq /\ found.pc = "catch" /\ found.kind = q.kind /\ found.rev = r
        /\ found.alone = q.alone
    <3>1. (stored[r] \ q.targets) \in SUBSET Objects
      BY <1>2, <1>6
    <3> QED
      BY <1>2, <3>1 DEF HoldReq, HoldPc
  <2>2. /\ Auditing(q) \in HoldReq /\ Auditing(q).pc = "audit" /\ Auditing(q).kind = q.kind
        /\ Auditing(q).rev = r /\ ~Auditing(q).alone
    BY <1>2, UndoShape
  <2> HIDE DEF found
  <2>3. PICK next \in {found, Auditing(q)} : req' = [req EXCEPT ![h] = next]
    BY <1>7
  <2>4. /\ next \in {IdleReq} \cup HoldReq /\ next.pc \in {"catch", "audit"}
        /\ next.kind = q.kind /\ next.rev = r /\ (next.alone => q.alone)
    BY <2>1, <2>2, <2>3
  <2>5. TagsSoFar(next, tagged[r])
    BY <2>4 DEF TagsSoFar
  <2>6. UNCHANGED <<status, purged, expired, substance, bucket, writer, sweep, covered>>
    BY <1>3, <1>4, <1>7 DEF bucket
  <2> QED
    BY <1>2, <1>4, <2>3, <2>4, <2>5, <2>6, HoldGoesOn
<1>8. CASE /\ q.pc = "catch" /\ q.todo # {} /\ o \in stored[r] /\ req' = [req EXCEPT ![h] = new]
           /\ Tag(q, o, TRUE)
           /\ covered' = [covered EXCEPT ![r] = IF q.alone THEN @ \cup {o} ELSE @]
  <2>0. q.todo \in SUBSET Objects /\ o \in Objects
    BY <1>2, <1>6, <1>8 DEF HoldReq
  <2> HIDE DEF o
  <2>1. /\ new \in HoldReq /\ new.pc = "catch" /\ new.kind = q.kind /\ new.rev = r
        /\ new.alone = q.alone
    <3>1. new = [q EXCEPT !.todo = q.todo \ {o}]
      BY Zenon
    <3> QED
      BY <1>2, <1>8, <2>0, <3>1 DEF HoldReq, HoldPc
  <2>2. /\ tagged \in [Reviews -> SUBSET Objects] /\ covered \in [Reviews -> SUBSET Objects]
        /\ \A s \in Reviews : tagged[s] \subseteq stored[s]
    BY DEF HoldInv, RetentionTypeOK
  <2>3. tagged' = [tagged EXCEPT ![r] = @ \cup {o}]
    BY <1>8 DEF Tag
  <2>4. /\ tagged' \in [Reviews -> SUBSET Objects]
        /\ \A s \in Reviews : s # r => tagged'[s] = tagged[s]
        /\ tagged'[r] = tagged[r] \cup {o}
        /\ \A s \in Reviews : tagged'[s] \subseteq stored[s]
    BY <1>2, <1>8, <2>0, <2>2, <2>3
  <2>5. /\ covered' \in [Reviews -> SUBSET Objects]
        /\ \A s \in Reviews : s # r => covered'[s] = covered[s]
        /\ covered'[r] = IF q.alone THEN covered[r] \cup {o} ELSE covered[r]
    BY <1>2, <1>8, <2>0, <2>2
  <2>6. new \in {IdleReq} \cup HoldReq
    BY <2>1
  <2>7. new.alone => TagsSoFar(new, tagged'[r])
    BY <2>1 DEF TagsSoFar
  <2>8. q.alone => q.kind = "set"
    BY <1>2 DEF AloneTags
  <2> HIDE DEF new
  <2>9. RetentionTypeOK'
    BY <1>2, <1>3, <1>4, <1>8, <2>4, <2>5, <2>6 DEF HoldInv, RetentionTypeOK
  <2>10. /\ covered'[r] \subseteq tagged'[r]
         /\ covered'[r] # {} => covered[r] # {} \/ q.alone
    BY <1>2, <2>4, <2>5
  <2>11. \A s \in Reviews : s # r => tagged'[s] = tagged[s] /\ covered'[s] = covered[s]
    BY <2>4, <2>5
  <2>12. /\ IsHold(new) => new.kind = q.kind /\ new.rev = r /\ (new.alone => q.alone)
         /\ covered'[r] # {} =>
              /\ covered[r] # {} \/ q.alone
              /\ IsHold(new) => new.kind = "set" /\ new.pc \in {"relist", "catch", "audit"}
    BY <1>2, <2>1, <2>8, <2>10
  <2> QED
    BY <1>2, <1>8, <2>6, <2>7, <2>9, <2>10, <2>11, <2>12, HoldMoves
<1> HIDE DEF q, r, o, found, new
<1> QED
  BY <1>5, <1>7, <1>8, Zenon

\* The audit, and the row put back.
LEMMA AuditKeeps ==
  ASSUME HoldInv, NEW h \in Admins, HoldAudit(h) \/ HoldRevert(h)
  PROVE  HoldInv'
<1> DEFINE q == req[h]
           r == q.rev
           new == [q EXCEPT !.pc = "revert"]
<1>1. HoldStep(h)
  BY DEF HoldStep
<1>2. /\ q \in HoldReq /\ r \in Reviews /\ h \in Handlers
      /\ faults' \in 0 .. MaxFaults
      /\ covered[r] # {} => q.pc \in {"relist", "catch", "audit"}
  BY <1>1, HoldStands
<1>3. CASE HoldRevert(h)
  <2>1. /\ q.pc = "revert" /\ req' = [req EXCEPT ![h] = Undoing(q)]
        /\ UNCHANGED <<status, purged, expired, substance, bucket, writer, sweep, covered>>
        /\ held' \in {held \cup {r}, held \ {r}, held}
    BY <1>3 DEF HoldRevert, Set
  <2>2. held' \subseteq Reviews
    BY <1>2, <2>1 DEF HoldInv, RetentionTypeOK
  <2>3. /\ Undoing(q) \in {IdleReq} \cup HoldReq /\ ~Undoing(q).alone
        /\ Undoing(q).rev = q.rev /\ Undoing(q).kind = q.kind
    BY <1>2, UndoShape
  <2> QED
    BY <1>2, <2>1, <2>2, <2>3, HoldGoesOn
<1>4. CASE HoldAudit(h) /\ ~(req' = [req EXCEPT ![h] = IdleReq])
  <2>1. /\ q.pc = "audit" /\ UNCHANGED <<row, bucket, writer, sweep>>
        /\ req' = [req EXCEPT ![h] = new] /\ covered' = [covered EXCEPT ![r] = {}]
    <3>1. /\ q.pc = "audit" /\ UNCHANGED <<row, bucket, writer, sweep>>
          /\ \/ Ends(h)
             \/ IF q.kind = "set" /\ q.was
                THEN Ends(h) /\ UNCHANGED covered
                ELSE Set(h, new) /\ covered' = [covered EXCEPT ![r] = {}]
      BY <1>4, Zenon DEF HoldAudit
    <3>2. ~Ends(h)
      BY <1>4, Zenon DEF Ends, Set
    <3> QED
      BY <3>1, <3>2, Zenon DEF Set
  <2>2. /\ new \in HoldReq /\ new.pc = "revert" /\ new.kind = q.kind /\ new.rev = r
        /\ new.alone = q.alone
    BY <1>2 DEF HoldReq, HoldPc
  <2>3. /\ covered' \in [Reviews -> SUBSET Objects] /\ covered'[r] = {}
        /\ \A s \in Reviews : s # r => covered'[s] = covered[s]
    BY <1>2, <2>1 DEF HoldInv, RetentionTypeOK
  <2>4. tagged' = tagged
    BY <2>1 DEF bucket
  <2>5. new \in {IdleReq} \cup HoldReq /\ TagsSoFar(new, tagged'[r])
    BY <2>2 DEF TagsSoFar
  <2> HIDE DEF new
  <2>6. RetentionTypeOK'
    BY <1>2, <2>1, <2>3, <2>5 DEF HoldInv, RetentionTypeOK, row, bucket
  <2>7. /\ \A s \in Reviews : s # r => tagged'[s] = tagged[s] /\ covered'[s] = covered[s]
        /\ covered'[r] \subseteq tagged'[r] /\ ~(covered'[r] # {})
        /\ IsHold(new) => new.kind = q.kind /\ new.rev = r /\ (new.alone => q.alone)
    BY <2>2, <2>3, <2>4
  <2> QED
    BY <1>2, <2>1, <2>5, <2>6, <2>7, HoldMoves
<1>5. CASE HoldAudit(h) /\ req' = [req EXCEPT ![h] = IdleReq]
  <2>1. /\ q.pc = "audit" /\ UNCHANGED <<row, bucket, writer, sweep>>
        /\ UNCHANGED covered \/ req' = [req EXCEPT ![h] = new]
    BY <1>5, Zenon DEF HoldAudit, Set
  <2>2. covered' = covered
    <3>1. new # IdleReq
      BY <1>2 DEF HoldReq, IdleReq, HoldPc
    <3>2. h \in DOMAIN req
      BY <1>2 DEF HoldInv, RetentionTypeOK
    <3> HIDE DEF new
    <3> QED
      BY <1>5, <2>1, <3>1, <3>2
  <2> QED
    BY <1>1, <1>5, <2>1, <2>2, HoldEnds
<1> QED
  BY <1>3, <1>4, <1>5

\* What is put back is not covered.
LEMMA UndoKeeps ==
  ASSUME HoldInv, NEW h \in Admins, HoldUndo(h)
  PROVE  HoldInv'
<1> DEFINE q == req[h]
           r == q.rev
           o == First(q.todo)
           new == [q EXCEPT !.todo = @ \ {o}]
<1>1. HoldStep(h)
  BY DEF HoldStep
<1>2. /\ q \in HoldReq /\ r \in Reviews /\ h \in Handlers
      /\ faults' \in 0 .. MaxFaults
      /\ covered[r] # {} => q.pc \in {"relist", "catch", "audit"}
  BY <1>1, HoldStands
<1>3. q.pc = "undo" /\ UNCHANGED <<row, stored, writer, sweep, covered>>
  BY DEF HoldUndo
<1>4. covered[r] = {}
  BY <1>2, <1>3
<1>5. \/ req' = [req EXCEPT ![h] = IdleReq] /\ tagged' = tagged
      \/ /\ q.todo # {} /\ req' = [req EXCEPT ![h] = new]
         /\ tagged' = tagged \/ (o \in stored[r] /\ Tag(q, o, q.kind = "release"))
  BY Zenon DEF HoldUndo, Set, Ends
<1>6. CASE req' = [req EXCEPT ![h] = IdleReq] /\ tagged' = tagged
  BY <1>1, <1>3, <1>6, HoldEnds DEF bucket
<1>7. CASE /\ q.todo # {} /\ req' = [req EXCEPT ![h] = new]
           /\ tagged' = tagged \/ (o \in stored[r] /\ Tag(q, o, q.kind = "release"))
  <2>0. q.todo \in SUBSET Objects /\ o \in Objects
    BY <1>2, <1>7, FirstIsOne DEF HoldReq
  <2> HIDE DEF o
  <2>1. new \in HoldReq /\ new.pc = "undo" /\ new.kind = q.kind /\ new.rev = r
        /\ new.alone = q.alone
    <3>1. new = [q EXCEPT !.todo = q.todo \ {o}]
      BY Zenon
    <3> QED
      BY <1>2, <1>3, <2>0, <3>1 DEF HoldReq, HoldPc
  <2>2. /\ tagged \in [Reviews -> SUBSET Objects]
        /\ \A s \in Reviews : tagged[s] \subseteq stored[s]
    BY DEF HoldInv, RetentionTypeOK
  <2>3. /\ tagged' \in [Reviews -> SUBSET Objects]
        /\ \A s \in Reviews : s # r => tagged'[s] = tagged[s]
        /\ \A s \in Reviews : tagged'[s] \subseteq stored[s]
    <3>1. CASE tagged' = tagged
      BY <2>2, <3>1
    <3>2. CASE o \in stored[r] /\ Tag(q, o, q.kind = "release")
      <4>1. \/ tagged' = [tagged EXCEPT ![r] = tagged[r] \cup {o}]
            \/ tagged' = [tagged EXCEPT ![r] = tagged[r] \ {o}]
        BY <3>2 DEF Tag
      <4> QED
        BY <1>2, <2>0, <2>2, <3>2, <4>1
    <3> QED
      BY <1>7, <3>1, <3>2
  <2>4. new \in {IdleReq} \cup HoldReq /\ TagsSoFar(new, tagged'[r])
    BY <2>1 DEF TagsSoFar
  <2>5. IsHold(new) => new.kind = q.kind /\ new.rev = r /\ (new.alone => q.alone)
    BY <2>1
  <2> HIDE DEF new
  <2>6. RetentionTypeOK'
    BY <1>2, <1>3, <1>7, <2>3, <2>4 DEF HoldInv, RetentionTypeOK, row
  <2>7. /\ \A s \in Reviews : s # r => tagged'[s] = tagged[s] /\ covered'[s] = covered[s]
        /\ covered'[r] \subseteq tagged'[r] /\ ~(covered'[r] # {})
    BY <1>3, <1>4, <2>3
  <2> QED
    BY <1>2, <1>7, <2>4, <2>5, <2>6, <2>7, HoldMoves
<1> HIDE DEF q, r, o, new
<1> QED
  BY <1>5, <1>6, <1>7, Zenon

\* Every step keeps it.
LEMMA HoldStepInv == HoldInv /\ [RetentionNext]_retentionVars => HoldInv'
<1> SUFFICES ASSUME HoldInv, [RetentionNext]_retentionVars PROVE HoldInv'
  OBVIOUS
<1>1. CASE UNCHANGED retentionVars
  <2>1. RetentionTypeOK' /\ covered' = covered /\ tagged' = tagged /\ req' = req
    BY <1>1 DEF retentionVars, row, bucket, HoldInv, RetentionTypeOK
  <2> QED
    BY <2>1, TagsStay
<1>2. CASE \E h \in Admins : HoldStep(h)
  BY <1>2, ListKeeps, TagKeeps, SetRowKeeps, ReleaseRowKeeps, CatchUpKeeps, AuditKeeps, UndoKeeps
     DEF HoldStep
<1>3. CASE \E h \in Admins, r \in Reviews, kind \in {"set", "release"} : HoldBegin(h, r, kind)
  BY <1>3, BeginKeeps
<1>4. CASE \/ \E h \in Users, r \in Reviews : CoverBegin(h, r) \/ DispositionBegin(h, r)
           \/ \E h \in Users : CoverWrite(h) \/ DispositionWrite(h)
  BY <1>4, FieldsKeep
<1>5. CASE \/ \E r \in Reviews : Pipeline(r) \/ CancelReview(r) \/ Expire(r)
           \/ Sweep
  BY <1>5, QuietKeeps
<1> QED
  BY <1>1, <1>2, <1>3, <1>4, <1>5 DEF RetentionNext

\* The inductive invariant of legal holds, in every reachable state.
THEOREM RetentionInvariant == RetentionSpec => []HoldInv
  BY HoldInitInv, HoldStepInv, PTL DEF RetentionSpec

\* The state of reviews, buckets, requests and sweep stays in its types; in
\* particular no tag outlives its object (retention.py, legal_hold.py).
THEOREM RetentionTypeCorrect == RetentionSpec => []RetentionTypeOK
<1>1. HoldInv => RetentionTypeOK
  BY DEF HoldInv
<1> QED
  BY <1>1, RetentionInvariant, PTL

\* Whatever an undisturbed hold listed, or its catch-up pass found, is never
\* deleted, whenever the sweep read the row (retention.py, legal_hold.py).
THEOREM HoldWinsHolds == RetentionSpec => []HoldWins
<1>1. HoldInv => HoldWins
  BY DEF HoldInv, CoveredTagged, RetentionTypeOK, HoldWins
<1> QED
  BY <1>1, RetentionInvariant, PTL

=============================================================================
