\* Overlapping retries and cancels of one review, with every failure; three
\* reviews and the notes of a client over two days.
SPECIFICATION ReservationsSpec
CONSTANTS
  r1 = r1
  h1 = h1
  h2 = h2
  s1 = s1
  s2 = s2
  s3 = s3
  c1 = c1
  NoReview = NoReview
  Reviews = {r1}
  Handlers = {h1, h2}
  Amount = 1
  Cap = 1
  OverlappingRetries = TRUE
  MaxPersistRetries = 2
  NullIsMissing = TRUE
  Spenders = {s1, s2, s3}
  Clients = {c1}
  LastDay = 2
  Prices = {3}
  FloorPrice = 1
  MaxActual = 1
  NotePrice = 1
  MaxNotes = 1
  Caps = {5}
  EnvCap = 6
SYMMETRY Alike
INVARIANTS
  ReleasedMeansCredited
PROPERTIES
  TerminalFinal
  AdmittedWithinCap
CHECK_DEADLOCK FALSE
