SPECIFICATION FairSpec
CONSTANTS
  Keys = {k1}
  Endpoints = {e1}
  Manual = {m1}
  Apps = {a1}
  Reqs = {r1}
  EditOps <- SwitchOps
  TestEvent = test
  NoJob = noJob
  TickTries = 2
  MaxAttempts = 2
  DisableAfter = 3
  MaxFaults = 1
  MaxEdits = 1
INVARIANTS TypeOK DeliveredIsAcked AckedOnce GivesUp DisabledForFailures EventIsQueued
PROPERTY JobResolves
CHECK_DEADLOCK FALSE
