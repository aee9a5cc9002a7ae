SPECIFICATION Spec
CONSTANTS
  Runs = {api, worker}
  Api = {api}
  NoRun = noRun
  MaxPeriod = 1
  Covered = 2
  Attempts = 2
  MayRevoke = TRUE
  MaxPulls = 2
  MaxCancels = 0
  MaxFaults = 0
INVARIANT PaidIsEntitled
CHECK_DEADLOCK FALSE
