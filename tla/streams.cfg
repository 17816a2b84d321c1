\* Streams of a run that is cancelled, retried, deleted, resumed and shut down, under fair tasks.
SPECIFICATION FairSpec
CONSTANTS
  Run = {"r1"}
  Sub = {s1}
  MaxFrame = 1
  MaxAttempt = 2
  Resumable = TRUE
  CancelAction = {"rollback"}
  ListenTimeouts = TRUE
  MayStop = TRUE
INVARIANTS TypeOK DeletedStaysClean ResumeComplete
PROPERTIES JoinsEnd CancelHeard
CHECK_DEADLOCK FALSE
