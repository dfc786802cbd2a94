SPECIFICATION Spec
CONSTANTS
  t1 = t1
  t2 = t2
  t3 = t3
  old = old
  onLetter = onLetter
  onFn = onFn
  onSpace = onSpace
  offKeys = offKeys
  Tids = {t1, t2}
  kOldTID = old
  Points <- MCPoints
  Layout <- MCLayout
  Reports <- WeightReports
  kEventDelay = 2
  TicksPerMs = 1
  MaxLag = 0
  MaxFrame = 2
PROPERTY GuaranteedAreChecked
