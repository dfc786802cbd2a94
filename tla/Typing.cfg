SPECIFICATION SharingSpec
CONSTANTS
  t1 = t1
  t2 = t2
  t3 = t3
  old = old
  onLetter = onLetter
  onFn = onFn
  onSpace = onSpace
  offKeys = offKeys
  Tids = {t1, t2}
  kOldTID = old
  Points <- MCPoints
  Layout <- MCLayout
  Reports <- FnReports
  kEventDelay = 2
  TicksPerMs = 1
  MaxLag = 1
  MaxFrame = 2
SYMMETRY Symmetric
INVARIANTS
  TypeOK
  NoStuckKey
  QuickTapReleased
  OneDecisionPerFinger
  EventsMatchFingers
  QueueInOrder
  FnLayerCoversKey
  EverythingFlushed
  KeyStaysUnderFinger
