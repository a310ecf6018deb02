\* Three reviews over two days, a cap with room for one of them.
SPECIFICATION SpendSpec
CONSTANTS
  s1 = s1
  s2 = s2
  s3 = s3
  Spenders = {s1, s2, s3}
  Clients = {}
  LastDay = 2
  Prices = {3}
  FloorPrice = 0
  MaxActual = 0
  NotePrice = 1
  MaxNotes = 0
  Caps = {}
  EnvCap = 5
PROPERTIES
  DayWithinCap
CHECK_DEADLOCK FALSE
