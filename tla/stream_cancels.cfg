\* The same properties with both kinds of cancel, without the shutdown.
SPECIFICATION FairSpec
CONSTANTS
  Run = {"r1"}
  Sub = {s1}
  MaxFrame = 1
  MaxAttempt = 2
  Resumable = TRUE
  CancelAction = {"interrupt", "rollback"}
  ListenTimeouts = TRUE
  MayStop = FALSE
INVARIANTS TypeOK DeletedStaysClean ResumeComplete
PROPERTIES JoinsEnd CancelHeard
CHECK_DEADLOCK FALSE
