\* Runs.put with if_not_exists=create while the sweeper deletes the thread.
SPECIFICATION Spec
CONSTANTS
  Tid = {1}
  Client = {c1}
  MaxSlot = 2
  MaxRun = 1
  MaxTime = 2
  MaxVer = 0
  MaxRestart = 0
  MaxAttempt = 2
  Concurrency = 1
  SweepLimit = 2
  GlobalTTL <- MCNoTTL
  TTLInput <- DeleteTTLInput
  IfNotExists = {"create", "reject"}
  Prevent = {FALSE}
  AfterSeconds = {0}
  CancelAction = {"interrupt"}
  Outcome = {"success"}
  BaseStatus = {"idle"}
  Workload = {"Threads.put", "Runs.put", "sweep"}
  CustomCheckpointer = TRUE
  AuthSuspends = FALSE
INVARIANT MaintenanceExclusive
CHECK_DEADLOCK FALSE
