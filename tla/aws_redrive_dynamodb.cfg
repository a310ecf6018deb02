\* The re-drive, over DynamoDB.
SPECIFICATION FairSpec
CONSTANTS
  r1 = r1
  r2 = r2
  h1 = h1
  h2 = h2
  NoReview = NoReview
  Reviews = {r1}
  Handlers = {h1}
  Amount = 1
  Cap = 1
  OverlappingRetries = FALSE
  MaxPersistRetries = 1
  NullIsMissing = FALSE
PROPERTIES
  StaleSubmissionStarts
CHECK_DEADLOCK FALSE
