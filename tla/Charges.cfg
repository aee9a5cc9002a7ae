SPECIFICATION FairSpec
CONSTANTS
  Runs = {api, worker}
  Api = {api}
  NoRun = noRun
  MaxPeriod = 0
  Covered = 2
  Attempts = 2
  MayRevoke = TRUE
  MaxPulls = 2
  MaxCancels = 1
  MaxFaults = 0
PROPERTIES DueIsSettled CanceledStays KeepsPromise
CHECK_DEADLOCK FALSE
