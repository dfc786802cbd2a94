SPECIFICATION FairSpec
CONSTANTS
  t1 = t1
  t2 = t2
  t3 = t3
  old = old
  onLetter = onLetter
  onFn = onFn
  onSpace = onSpace
  offKeys = offKeys
  Tids = {t1, t2}
  kOldTID = old
  Points <- MCPoints
  Layout <- LetterLayout
  Reports <- MixedReports
  kEventDelay = 3
  TicksPerMs = 2
  MaxLag = 0
  MaxFrame = 3
INVARIANTS
  NoBlindWait
  TimeoutNotEarly
PROPERTIES
  PressIsJustified
  TypesKeystrokes
  KeysComeUp
  TapsAreDecided
