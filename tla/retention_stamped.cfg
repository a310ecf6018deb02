\* A hold placed while a sweep runs.
SPECIFICATION RetentionSpec
CONSTANTS
  r1 = r1
  h1 = h1
  h2 = h2
  Reviews = {r1}
  Admins = {h1}
  Users = {}
  MaxFaults = 0
PROPERTIES
  HeldNeverStamped
