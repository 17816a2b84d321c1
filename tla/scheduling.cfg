\* The scheduler over two threads and two runners: created, deferred and retried runs.
SPECIFICATION FairSpec
CONSTANTS
  Tid = {1, 2}
  Client = {c1}
  MaxSlot = 2
  MaxRun = 3
  MaxTime = 2
  MaxVer = 0
  MaxRestart = 0
  MaxAttempt = 2
  Concurrency = 2
  SweepLimit = 2
  GlobalTTL <- MCNoTTL
  TTLInput <- NoTTLInput
  IfNotExists = {"create", "reject"}
  Prevent = {FALSE}
  AfterSeconds = {0, 1}
  CancelAction = {"interrupt"}
  Outcome = {"success", "pending"}
  BaseStatus = {"idle"}
  Workload = {"Runs.put"}
  CustomCheckpointer = FALSE
  AuthSuspends = FALSE
INVARIANTS OneRunningPerThread
PROPERTIES StartInOrder PendingServed
CHECK_DEADLOCK FALSE
