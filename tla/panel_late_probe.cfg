\* A user submits on a page whose mount probe is still out.
SPECIFICATION PanelSpec
CONSTANTS
  o1 = o1
  o2 = o2
  OwnReviews = {o1, o2}
  Null = Null
  MaxReloads = 1
  MaxOut = 2
INVARIANTS
  OneReviewOnScreen
CHECK_DEADLOCK FALSE
