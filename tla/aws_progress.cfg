\* Retries that do not overlap, over a table that treats a NULL attribute as
\* missing: stuck reviews, stale submissions, and the lifecycle.
SPECIFICATION FairSpec
CONSTANTS
  r1 = r1
  r2 = r2
  h1 = h1
  h2 = h2
  NoReview = NoReview
  Reviews = {r1}
  Handlers = {h1, h2}
  Amount = 1
  Cap = 1
  OverlappingRetries = FALSE
  MaxPersistRetries = 1
  NullIsMissing = TRUE
INVARIANTS
  CreditedOnlyWhenOver
PROPERTIES
  StuckReviewResolves
  StaleSubmissionStarts
  ImplementsLifecycle
CHECK_DEADLOCK FALSE
