--------------------------- MODULE DtsReviewProps ---------------------------
(***************************************************************************)
(* What DtsReview promises.                                                *)
(***************************************************************************)
EXTENDS DtsReview, FiniteSetsExt

VARIABLES
  spared, \* history: reviews cancelled before their run began
  calm    \* history: the statuses until a table call failed

watched == <<vars, spared, calm>>

WatchedInit == Init /\ spared = {} /\ calm = status

WatchedNext ==
  /\ Next
  /\ spared' = spared \cup {r \in cancelAsked' \ called' : run'[r] = "queued"}
  /\ calm' = IF faults' = 0 THEN status' ELSE calm

WatchedSpec == WatchedInit /\ [][WatchedNext]_watched

\* A reservation is given back only when the review is over, and no
\* reservation is credited twice, although the run, its failure handler and
\* the next boot can each settle it: settling comes after the terminal write,
\* and recovery takes no terminal row.  Each table call that raises can cost
\* one more: after a settler died before its flag, a retry's run that fails
\* at its first call settles again.
CreditedOnce ==
  \A r \in Reviews :
    /\ credits[r] <= 1 + faults
    /\ credits[r] > 0 => status[r] \in Terminal

\* What one review holds of the counter: its reservation and its recorded
\* Floor top-up, until it is settled.
Holds(r) ==
  IF made[r] = 1 /\ credits[r] = 0
  THEN Amount + (IF r \in floor THEN FloorAmount ELSE 0)
  ELSE 0

\* Until a table call fails, the day's counter never falls below what was
\* spent plus what unsettled reviews hold: a crash between raising it and
\* recording that can only leave it too high.
CounterCoversCommitments ==
  faults = 0 => reserved >= spent + MapThenSumSet(Holds, Reviews)

Lifecycle == INSTANCE ReviewLifecycle WITH Reviews <- Reviews, status <- calm

\* Until a table call fails: retries, cancels, failures and restarts move a
\* status only along the lifecycle, so a finished review stays as it finished.
ImplementsLifecycle == Lifecycle!LifecycleSpec

\* A review cancelled while it waits for a worker does not reach a model: two
\* polls would have to fail, the run's first and that of the call.
CancelledInQueueCostsNothing == \A r \in spared \cap called : faults >= 2

\* Unless a table call fails, a review that runs, or waits with its execution
\* recorded in its row, ends, whatever restarts strike: its own run ends it,
\* or the next boot.
StartedResolves ==
  \A r \in Reviews :
    status[r] = "RUNNING" \/ (status[r] = "PENDING" /\ r \in rowArn)
      ~> status[r] \in Terminal \/ faults > 0

=============================================================================
