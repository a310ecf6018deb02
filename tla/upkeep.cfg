\* Three executions compete for two slots; holds, notes and drafts race a sweep
\* while two calls raise.
SPECIFICATION UpkeepSpec
CONSTANTS
  e1 = e1
  e2 = e2
  e3 = e3
  Executions = {e1, e2, e3}
  MaxConcurrency = 2
  MaxWaitAttempts = 2
  MaxRetries = 1
  r1 = r1
  h1 = h1
  h2 = h2
  Reviews = {r1}
  Admins = {h1}
  Users = {h2}
  MaxFaults = 2
INVARIANTS
  HoldersBounded
  HoldWins
PROPERTIES
  WaitEnds
  CleanAgain
CHECK_DEADLOCK FALSE
