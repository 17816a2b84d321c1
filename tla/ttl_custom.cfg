\* The TTL sweeper awaiting a custom checkpointer, with foreground requests on existing threads.
SPECIFICATION Spec
CONSTANTS
  Tid = {1, 2}
  Client = {c1}
  MaxSlot = 2
  MaxRun = 1
  MaxTime = 2
  MaxVer = 1
  MaxRestart = 0
  MaxAttempt = 2
  Concurrency = 1
  SweepLimit = 2
  GlobalTTL <- MCNoTTL
  TTLInput <- EitherTTLInput
  IfNotExists = {"reject"}
  Prevent = {FALSE}
  AfterSeconds = {0}
  CancelAction = {"interrupt"}
  Outcome = {"pending", "interrupted"}
  BaseStatus = {"idle"}
  Workload = {"Threads.put", "Threads.patch", "Threads.copy", "Runs.put", "Runs.cancel", "sweep"}
  CustomCheckpointer = TRUE
  AuthSuspends = FALSE
INVARIANTS MaintenanceExcludesRuns UpdatesRearm
PROPERTIES SweepDeleteRemoves NoRepeatPrune
CHECK_DEADLOCK FALSE
