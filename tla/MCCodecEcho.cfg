CONSTANTS
  MaxShown = 2
  MaxCount = 4
  Types <- MCTypes
  Values <- MCValues
  SixDigits <- MCSixDigits
  Messages <- MCMessages
  Forms <- MCForms
  Responses <- MCResponses
  Written <- MCWritten
  Default <- MCDefault
  Nearest <- MCNearest
SPECIFICATION Spec
CHECK_DEADLOCK FALSE
INVARIANTS
  EchoTrue
