SPECIFICATION Spec
CONSTANTS
  Unit = 2
  Parts = 2
  MaxInt = 299
  Garbage = {7}
  Rotations = {0, 90, 270}
  HwFiles <- MCHwFiles
  KeyFiles <- MCKeyFiles
  PadFiles <- MCPadFiles
  Places <- MCPlaces
INVARIANTS
  KeyUnderFinger
  AllKeysOrNone
  PadUnderFinger
  PadShowsFinger
  MotorUnderFinger
  OneOwner
