CONSTANTS
  Frames = {map, odom, base, laser}
  NoFrame = NoFrame
  MaxDepth = 1
SPECIFICATION SpecSteps
INVARIANTS
  StepsTyped
  Acyclic
  LinksAgree
  SnapshotComplete
PROPERTIES
  ImplementsForest
  ImplementsTFTree
  OperationsEnd
