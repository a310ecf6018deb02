--------------------------- MODULE AwsReviewProps ---------------------------
(***************************************************************************)
(* What AwsReview promises.                                                *)
(***************************************************************************)
EXTENDS AwsReview

\* A reservation flagged released has been credited to the day's counter;
\* the reconciler once set the flag alone, and held the cap for good.
ReleasedMeansCredited == \A r \in released : credits[r] >= 1

\* A review's reservation is credited only once its row is terminal, by
\* whichever of persist, the cancel route and the reconciler settles it: a
\* review that may still run keeps its slice of the cap.
CreditedOnlyWhenOver ==
  \A r \in Reviews : credits[r] > 0 => status[r] \in Terminal

\* Once the first POST has put the reviews row, a terminal status never
\* changes: not by a stage still in flight, a Catch, a cancel or the
\* reconciler.
TerminalFinal ==
  [][\A r \in Reviews :
       status[r] \in Terminal /\ (\A h \in Handlers : ~Creating(h, r))
         => status'[r] = status[r]]_vars

\* A PENDING or RUNNING review whose row knows its execution reaches a
\* terminal status, even if the execution is stopped, times out or fails to
\* record its own failure.
StuckReviewResolves ==
  \A r \in Reviews :
    status[r] \in NonTerminal /\ r \in rowArn ~> status[r] \in Terminal

Lifecycle == INSTANCE ReviewLifecycle WITH Reviews <- Reviews, status <- status

\* While clients do not overlap their retries, every write any component
\* makes to a status is a step of the lifecycle or leaves it alone.
ImplementsLifecycle == Lifecycle!LifecycleSpec

\* A submission that never started its execution is started by the
\* reconciler.
StaleSubmissionStarts ==
  \A r \in Reviews : r \in submissions ~> exec[r] # "none"

=============================================================================
