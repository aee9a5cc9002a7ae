SPECIFICATION Spec
CONSTANTS
  Runs = {api, worker}
  Api = {api}
  NoRun = noRun
  MaxPeriod = 1
  Covered = 4
  Attempts = 1
  MayRevoke = FALSE
  MaxPulls = 4
  MaxCancels = 0
  MaxFaults = 1
INVARIANTS TypeOK PulledOnce PaidIsPulled
CHECK_DEADLOCK FALSE
