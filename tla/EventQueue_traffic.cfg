CONSTANTS
  Producers = {p1, p2}
  k1 = k1
  k2 = k2
  k3 = k3
  d1 = d1
  Events = {k1, k3, d1}
  KindOf <- MCKindOfAll
  MaxEventRetries = 2
  None = None
SPECIFICATION FairSpec
INVARIANTS
  TypeOK
  EventOwnedOnce
  DisconnectNeverStranded
PROPERTIES
  StreamSafety
  DisconnectStopsWorker
  HandledUnderTraffic
CHECK_DEADLOCK FALSE
