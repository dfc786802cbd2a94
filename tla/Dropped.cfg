SPECIFICATION Spec
CONSTANTS
  tidA = tidA
  tidB = tidB
  kNumSlots = 2
  Tids = {tidA, tidB}
  AxisValues <- MCAxisValues
  MaxBacklog = 15
  BufferSize = 16
  Unit = 1
  hw <- MCHardware
  region <- MCRegion
INVARIANT SnapshotIsSensor
