SPECIFICATION FairSpec
CONSTANTS
  tidA = tidA
  tidB = tidB
  kNumSlots = 2
  Tids = {tidA, tidB}
  AxisValues <- MCAxisValues
  MaxBacklog = 1
  BufferSize = 16
  Unit = 1
  hw <- MCHardware
  region <- MCRegion
INVARIANTS
  TypeOK
  SnapshotIsSensor
  PadShowsContacts
  ButtonsCountContacts
PROPERTIES
  LiftedContactsLeave
  MirrorsRegion
