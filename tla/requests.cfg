\* Three POSTs for three reviews compete for a cap of two reservations; three
\* POSTs of one document fall over three buckets; a tab of a user with two
\* reviews is loaded twice.
SPECIFICATION RequestsSpec
CONSTANTS
  r1 = r1
  r2 = r2
  r3 = r3
  h1 = h1
  h2 = h2
  q1 = q1
  q2 = q2
  q3 = q3
  k1 = k1
  o1 = o1
  o2 = o2
  NoReview = NoReview
  Reviews = {r1, r2, r3}
  Handlers = {h1, h2}
  Amount = 2
  Cap = 5
  OverlappingRetries = TRUE
  Requests = {q1, q2, q3}
  ClientKeys = {k1}
  Width = 2
  MaxTime = 4
  OwnReviews = {o1, o2}
  Null = Null
  MaxReloads = 1
  MaxOut = 2
SYMMETRY Alike
INVARIANTS
  ReservedOnce
  DuplicatesExplained
  SharedReviewExplained
  ScreenIsOneReview
  AnswersStayWithTheirReview
  KeyBringsItBack
PROPERTIES
  RunningNeverDetached
CHECK_DEADLOCK FALSE
