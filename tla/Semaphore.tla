------------------------------ MODULE Semaphore ------------------------------
(***************************************************************************)
(* The concurrency semaphore of the AWS pipeline: a counter row and one    *)
(* lock row per slot in a DynamoDB table, an acquire and a release Lambda  *)
(* that each make two calls, the Choice and Wait states around acquire,    *)
(* the per-stage Retry and Catch, the rows' TTL and the reconciler's       *)
(* slot reaper.                                                            *)
(***************************************************************************)
EXTENDS Integers, FiniteSets

CONSTANTS
  Executions,       \* executions of the state machine
  MaxConcurrency,   \* slots
  MaxWaitAttempts,  \* saturated acquisitions before giving up
  MaxRetries        \* addRetry maxAttempts of a stage

ASSUME SlotAssumption ==
  /\ MaxConcurrency \in Nat \ {0}
  /\ MaxWaitAttempts \in Nat \ {0}
  /\ MaxRetries \in Nat
ASSUME FiniteExecutions == IsFiniteSet(Executions)

VARIABLES
  count,     \* current_count of the counter row
  lockRows,  \* executions with a review-slot# row
  alive,     \* executions Step Functions is running
  task,      \* where each execution is
  waits,     \* semaphore_wait_attempts of its payload
  retries,   \* retries used in the current stage
  redrops    \* history: releases invoked again after their decrement

vars == <<count, lockRows, alive, task, waits, retries, redrops>>

\* "count" and "put" are the calls of acquire, "drop" and "delete" those of
\* release; "holding" is every stage from extract to audit.
InLambda == {"count", "put", "drop", "delete"}
Task == {"none", "waiting", "holding", "over"} \cup InLambda

TypeOK ==
  /\ count \in Int
  /\ lockRows \subseteq Executions
  /\ alive \subseteq Executions
  /\ task \in [Executions -> Task]
  /\ waits \in [Executions -> 0 .. MaxWaitAttempts]
  /\ retries \in [Executions -> 0 .. MaxRetries]
  /\ redrops \in Nat

Init ==
  /\ count = 0
  /\ lockRows = {}
  /\ alive = {}
  /\ task = [e \in Executions |-> "none"]
  /\ waits = [e \in Executions |-> 0]
  /\ retries = [e \in Executions |-> 0]
  /\ redrops = 0

-----------------------------------------------------------------------------

\* The Lambda returned: the execution moves on unless it was killed.
Enter(e, t) ==
  /\ task' = [task EXCEPT ![e] = IF e \in alive THEN t ELSE "over"]
  /\ retries' = [retries EXCEPT ![e] = 0]

\* Step Functions has no further state to run for e.
End(e) ==
  /\ task' = [task EXCEPT ![e] = "over"]
  /\ alive' = alive \ {e}

Start(e) ==
  /\ task[e] = "none"
  /\ task' = [task EXCEPT ![e] = "count"]
  /\ alive' = alive \cup {e}
  /\ UNCHANGED <<count, lockRows, waits, retries, redrops>>

\* Mutant: the comparison is off by one.
AcquireCountUpTo(e) ==
  /\ task[e] = "count"
  /\ count <= MaxConcurrency
  /\ count' = count + 1
  /\ task' = [task EXCEPT ![e] = "put"]
  /\ UNCHANGED <<lockRows, alive, waits, retries, redrops>>

AcquireCount(e) ==
  /\ task[e] = "count"
  /\ count < MaxConcurrency
  /\ count' = count + 1
  /\ task' = [task EXCEPT ![e] = "put"]
  /\ UNCHANGED <<lockRows, alive, waits, retries, redrops>>

AcquirePut(e) ==
  /\ task[e] = "put"
  /\ lockRows' = lockRows \cup {e}
  /\ Enter(e, "holding")
  /\ UNCHANGED <<count, alive, waits, redrops>>

\* Mutant: the attempt is not counted in the payload.
AcquireWaitUncounted(e) ==
  /\ task[e] = "count"
  /\ count >= MaxConcurrency
  /\ waits[e] + 1 < MaxWaitAttempts
  /\ Enter(e, "waiting")
  /\ UNCHANGED <<count, lockRows, alive, waits, redrops>>

\* Saturated: wait and ask again.
AcquireWait(e) ==
  /\ task[e] = "count"
  /\ count >= MaxConcurrency
  /\ waits[e] + 1 < MaxWaitAttempts
  /\ waits' = [waits EXCEPT ![e] = @ + 1]
  /\ Enter(e, "waiting")
  /\ UNCHANGED <<count, lockRows, alive, redrops>>

\* Saturated for the last time: semaphore_give_up.
AcquireGiveUp(e) ==
  /\ task[e] = "count"
  /\ count >= MaxConcurrency
  /\ waits[e] + 1 >= MaxWaitAttempts
  /\ waits' = [waits EXCEPT ![e] = MaxWaitAttempts]
  /\ End(e)
  /\ UNCHANGED <<count, lockRows, retries, redrops>>

WaitOver(e) ==
  /\ task[e] = "waiting"
  /\ Enter(e, "count")
  /\ UNCHANGED <<count, lockRows, alive, waits, redrops>>

StagesDone(e) ==
  /\ task[e] = "holding"
  /\ Enter(e, "drop")
  /\ UNCHANGED <<count, lockRows, alive, waits, redrops>>

ReleaseCount(e) ==
  /\ task[e] = "drop"
  /\ count > 0
  /\ count' = count - 1
  /\ task' = [task EXCEPT ![e] = "delete"]
  /\ UNCHANGED <<lockRows, alive, waits, retries, redrops>>

ReleaseDelete(e) ==
  /\ task[e] = "delete"
  /\ lockRows' = lockRows \ {e}
  /\ End(e)
  /\ UNCHANGED <<count, waits, retries, redrops>>

\* A Lambda failed after its first call; Step Functions invokes it again.
Again(e, second, first) ==
  /\ task[e] = second /\ e \in alive
  /\ retries[e] < MaxRetries
  /\ retries' = [retries EXCEPT ![e] = @ + 1]
  /\ task' = [task EXCEPT ![e] = first]
  /\ UNCHANGED <<count, lockRows, alive, waits>>

AcquireAgain(e) == Again(e, "put", "count") /\ UNCHANGED redrops

ReleaseAgain(e) == Again(e, "delete", "drop") /\ redrops' = redrops + 1

\* A stage out of retries: its Catch records ERROR and the execution fails.
\* Neither of those states releases the slot.
StageFails(e) ==
  /\ e \in alive
  /\ End(e)
  /\ UNCHANGED <<count, lockRows, waits, retries, redrops>>

\* Stopped by its owner or timed out; a Lambda in flight runs on.
Kill(e) ==
  /\ e \in alive
  /\ alive' = alive \ {e}
  /\ task' = [task EXCEPT ![e] = IF @ \in InLambda THEN @ ELSE "over"]
  /\ UNCHANGED <<count, lockRows, waits, retries, redrops>>

\* A Lambda in flight when its execution was killed dies before its next call.
LambdaDies(e) ==
  /\ task[e] \in InLambda /\ e \notin alive
  /\ task' = [task EXCEPT ![e] = "over"]
  /\ UNCHANGED <<count, lockRows, alive, waits, retries, redrops>>

\* The lease outlives the execution-level timeout, so only the row of an
\* execution that is over expires.
LeaseExpires(e) ==
  /\ e \in lockRows \ alive
  /\ lockRows' = lockRows \ {e}
  /\ UNCHANGED <<count, alive, task, waits, retries, redrops>>

\* _release_semaphore_slot, for the review of a dead execution.
Reap(e) ==
  /\ task[e] # "none" /\ e \notin alive
  /\ lockRows' = lockRows \ {e}
  /\ UNCHANGED <<count, alive, task, waits, retries, redrops>>

Acquire(e) ==
  \/ AcquireCount(e) \/ AcquirePut(e) \/ AcquireWait(e) \/ AcquireGiveUp(e)
  \/ WaitOver(e) \/ AcquireAgain(e)

Release(e) == ReleaseCount(e) \/ ReleaseDelete(e) \/ ReleaseAgain(e)

Next ==
  \E e \in Executions :
    \/ Start(e) \/ Acquire(e) \/ StagesDone(e) \/ Release(e)
    \/ StageFails(e) \/ Kill(e) \/ LambdaDies(e) \/ LeaseExpires(e) \/ Reap(e)

Spec == Init /\ [][Next]_vars

\* Step Functions drives a running execution, and a Lambda in flight returns
\* or reaches its own timeout.
FairSpec ==
  /\ Spec
  /\ \A e \in Executions :
       WF_vars(Acquire(e) \/ StagesDone(e) \/ Release(e) \/ LambdaDies(e))

-----------------------------------------------------------------------------
\* The executions that passed the gate and have not yet released.
Holders == {e \in Executions : task[e] \in {"holding", "drop"}}

\* The counter stays between zero and the limit whatever fails, is retried
\* or is killed: the release guard keeps it from drifting negative.
CountInRange == 0 <= count /\ count <= MaxConcurrency

\* No more than MaxConcurrency executions are past the gate at once, save
\* one for each release invoked again after its decrement: that one gives
\* back a unit another execution holds.
HoldersBounded == Cardinality(Holders) <= MaxConcurrency + redrops

\* The wait for a slot is bounded: it ends in the slot or in giving up.
WaitEnds ==
  \A e \in Executions : task[e] = "waiting" ~> task[e] \in {"holding", "over"}

=============================================================================
