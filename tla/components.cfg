\* Two admins change the window; one process governs the versions of a playbook;
\* three issues are compiled into a redline; two account requests and a bootstrap
\* change the users; a transcript of at most three segments edits a block, and one
\* of at most three operations strikes and adds clauses.
SPECIFICATION ComponentsSpec
CONSTANTS
  a1 = a1
  a2 = a2
  i1 = i1
  b1 = b1
  b2 = b2
  shipped = shipped
  none = none
  r1 = r1
  Owners = {a1, a2}
  Windows = {1, 2, 3}
  DefaultWindow = 2
  MaxReductions = 2
  Processes = {i1}
  Versions = {1, 2}
  SeedVersion = 1
  Bundles = {b1, b2}
  Shipped = shipped
  Runs = {r1}
  NoBundle = none
  MaxStops = 1
  Keys = {1, 2, 3}
  q1 = q1
  q2 = q2
  u1 = u1
  u2 = u2
  default = default
  s1 = s1
  s2 = s2
  Requests = {q1, q2}
  Users = {u1, u2}
  SeedAdmin = u1
  Default = default
  Chosen = {s1, s2}
  MaxVersions = 4
  MaxWrites = 3
  Blocks <- FiveBlocks
  Issues = {1, 2}
  SourceTexts <- Transcribed
  InsertTexts <- Proposed
  MaxSegments = 3
  Agreements <- SixAgreements
  NewTexts = {"n1", "n2", "control"}
  MaxBlockOps = 3
SYMMETRY Alike
INVARIANTS
  WithdrawnNeverApplied
  RunsItsBundle
  ServedWasApproved
  WholeChangeSets
  ProtectionNamed
  SessionsCurrent
  AuthoredDelivered
  ClausesStruckCleanly
PROPERTIES
  ReductionControlled
  LastAdminNeverAlone
  RemovedStaysRemoved
CHECK_DEADLOCK FALSE
