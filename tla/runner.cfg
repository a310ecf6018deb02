\* One contract of up to three paragraphs; one review, whose playbook may have
\* one Floor invariant and one ledger rule; one review that runs, waits, is
\* retried or is cancelled, through restarts and a failing table call.
SPECIFICATION RunnerSpec
CONSTANTS
  Issues <- TwoSections
  MaxIssues = 2
  HardTopics = {}
  Invariants = {"liability"}
  Rules = {"liability"}
  Deterministic = {"liability"}
  PartyRelative = {"liability"}
  MaxRetries = 1
  MaxTruncationRetries = 1
  MaxHttp = 2
  Widenings = 2
  MaxBlindSpells = 1
  r1 = r1
  h1 = h1
  NoReview = NoReview
  Reviews = {r1}
  Handlers = {h1}
  Amount = 2
  Cap = 2
  OverlappingRetries = FALSE
  Workers = 1
  FloorAmount = 1
  MaxCost = 3
  MaxFaults = 1
  Paragraphs <- Catalogue
  MaxParagraphs = 3
INVARIANTS
  UsageLedgeredAndPaid
  CancelStopsRequests
  ResultJustified
  CounterCoversCommitments
  CancelledInQueueCostsNothing
  CreditedOnce
  ReadingsAgree
  NothingUnsaid
PROPERTIES
  ReviewEnds
  ImplementsLifecycle
  StartedResolves
CHECK_DEADLOCK FALSE
