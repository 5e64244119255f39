CONSTANTS
  pose = pose
  scan = scan
  Topics <- MCTopics
  FeedbackTopics = {scan}
  Listings <- MCListings
  Demo <- MCDemo
  Cap = 2
  MaxMsgs = 3
SPECIFICATION Spec
INVARIANTS
  TypeOK
  LabelsAgree
  MarksMatchWindows
  EchoIsLatest
PROPERTIES
  ToggleHitsDrawn
  EchoEndsByToggleOrGoal
