\* A subscriber that comes between the cancel of a run and its worker.
SPECIFICATION FairSpec
CONSTANTS
  Run = {"r1"}
  Sub = {s1}
  MaxFrame = 1
  MaxAttempt = 1
  Resumable = TRUE
  CancelAction = {"interrupt"}
  ListenTimeouts = FALSE
  MayStop = FALSE
PROPERTY WorkerPicksUp
CHECK_DEADLOCK FALSE
