SPECIFICATION JobsSpec
CONSTANTS
  Runs = {d1, d2}
  N = 3
  Undoable <- LastIsFinal
  NoRun = noRun
  MaxTries = 2
  MaxFailures = 4
  MaxLost = 1
  MaxCrashes = 1
  Royalties = {l1, l2}
  Refunds = {f1}
  Sweepers = {w1, w2}
  MaxSweepFaults = 1
INVARIANTS JobsTypeOK RecordIsTrue SucceededIsDelivered StandsOnce SentOnce LegPaidOnce SettledIsAnswered
PROPERTIES RunSettles LegsSettle
CHECK_DEADLOCK FALSE
