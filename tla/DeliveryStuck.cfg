SPECIFICATION DeliveryFairSpec
CONSTANTS
  Runs = {d1}
  N = 3
  Undoable <- LastIsFinal
  NoRun = noRun
  MaxTries = 2
  MaxFailures = 4
  MaxLost = 0
  MaxCrashes = 0
PROPERTY Recovers
CHECK_DEADLOCK FALSE
