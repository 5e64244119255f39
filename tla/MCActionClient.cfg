CONSTANTS
  MaxGoals = 2
  Cancels = {k1}
  Actions = {a1}
  NoGoal = NoGoal
  NoAction = NoAction
  AllGoals = AllGoals
  Ends = {"succeeded"}
  NoCall = NoCall
  MaxPolls = 1
  MaxStops = 1
SPECIFICATION FairSpec
CHECK_DEADLOCK FALSE
INVARIANTS
  TypeOK
  NothingLeftBehind
  FeedbackReachesGoal
PROPERTIES
  ImplementsActionGoals
  CancelAimsWithoutOverlap
  GoalsReported
