SPECIFICATION LateSpec
CONSTANTS
  tidA = tidA
  tidB = tidB
  kNumSlots = 2
  Tids = {tidA, tidB}
  AxisValues <- MCAxisValues
  MaxBacklog = 0
  BufferSize = 16
  Unit = 1
  hw <- MCHardware
  region <- MCRegion
INVARIANT KnownFingersAreReal
