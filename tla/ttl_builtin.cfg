\* The store with the built-in checkpointer and the default multitask strategy: TTL entries and the status of threads.
SPECIFICATION Spec
CONSTANTS
  Tid = {1}
  Client = {c1}
  MaxSlot = 2
  MaxRun = 2
  MaxTime = 2
  MaxVer = 1
  MaxRestart = 0
  MaxAttempt = 2
  Concurrency = 1
  SweepLimit = 2
  GlobalTTL <- MCNoTTL
  TTLInput <- MixedTTLInput
  IfNotExists = {"reject"}
  Prevent = {TRUE}
  AfterSeconds = {0}
  CancelAction = {"interrupt", "rollback"}
  Outcome = {"pending", "interrupted", "rollback"}
  BaseStatus = {"idle", "interrupted"}
  Workload = {"Threads.put", "Threads.patch", "Threads.delete", "Threads.state", "Runs.put", "Runs.delete", "Runs.cancel", "sweep"}
  CustomCheckpointer = FALSE
  AuthSuspends = FALSE
INVARIANTS TypeOK TTLHasThread ActiveIsBusy
CHECK_DEADLOCK FALSE
