\* A cancelled run is retried by a worker that did not hear of it while the sweeper prunes the thread.
SPECIFICATION Spec
CONSTANTS
  Tid = {1}
  Client = {c1}
  MaxSlot = 2
  MaxRun = 1
  MaxTime = 2
  MaxVer = 0
  MaxRestart = 0
  MaxAttempt = 2
  Concurrency = 1
  SweepLimit = 2
  GlobalTTL <- MCNoTTL
  TTLInput <- KeepTTLInput
  IfNotExists = {"reject"}
  Prevent = {FALSE}
  AfterSeconds = {0}
  CancelAction = {"interrupt"}
  Outcome = {"pending"}
  BaseStatus = {"idle"}
  Workload = {"Threads.put", "Runs.put", "Runs.cancel", "sweep"}
  CustomCheckpointer = TRUE
  AuthSuspends = FALSE
INVARIANT MaintenanceExclusive
CHECK_DEADLOCK FALSE
