\* Deletions, patches and rollbacks suspended in a custom checkpointer and in auth handlers, one thread id.
SPECIFICATION Spec
CONSTANTS
  Tid = {1}
  Client = {c1, c2}
  MaxSlot = 2
  MaxRun = 2
  MaxTime = 1
  MaxVer = 1
  MaxRestart = 1
  MaxAttempt = 2
  Concurrency = 1
  SweepLimit = 2
  GlobalTTL <- MCNoTTL
  TTLInput <- NoTTLInput
  IfNotExists = {"create", "reject"}
  Prevent = {FALSE}
  AfterSeconds = {0}
  CancelAction = {"rollback"}
  Outcome = {"error", "rollback"}
  BaseStatus = {"idle"}
  Workload = {"Threads.put", "Threads.patch", "Threads.delete", "Runs.put", "Runs.delete", "Runs.cancel", "restart"}
  CustomCheckpointer = TRUE
  AuthSuspends = TRUE
SYMMETRY ClientSymmetry
INVARIANTS RunsHaveThread RunnersSuffice
PROPERTIES FinishedStays
CHECK_DEADLOCK FALSE
