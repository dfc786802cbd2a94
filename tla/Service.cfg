SPECIFICATION FairSpec
CONSTANT MaxArrivals = 2
INVARIANTS
  TypeOK
  FailuresStayLocal
  EffectsAreUploaded
PROPERTIES
  ChildIsWaitedFor
  SensorGoneStopsService
CHECK_DEADLOCK FALSE
