CONSTANTS
  pose = pose
  scan = scan
  Topics <- MCTopics
  FeedbackTopics = {}
  Listings <- MCListings
  Demo <- MCDemo
  Cap = 2
  MaxMsgs = 1
SPECIFICATION Spec
INVARIANTS
  RenderNeverWaits
