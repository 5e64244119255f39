CONSTANTS
  MaxGoals = 2
  Cancels = {k1}
  Actions = {a1}
  NoGoal = NoGoal
  NoAction = NoAction
  AllGoals = AllGoals
  Ends = {"succeeded"}
  NoCall = NoCall
  MaxPolls = 1
  MaxStops = 1
SPECIFICATION Spec
CHECK_DEADLOCK FALSE
PROPERTIES
  CancelAimsAtPending
