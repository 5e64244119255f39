CONSTANTS
  Calls = {c1, c2, c3}
  NoCall = NoCall
  MaxPolls = 1
  MaxStops = 2
SPECIFICATION FairSpec
INVARIANTS
  TypeOK
  AtMostOnce
  NodeOutlivesCalls
PROPERTIES
  NoCallbackAfterStop
  ImplementsServiceCalls
  CallsSettle
  StopReturns
CHECK_DEADLOCK FALSE
