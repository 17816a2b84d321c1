\* A reader that breaks, and the process that it leaves running.
SPECIFICATION FairSpec
CONSTANTS
  Client = {c1}
  Viewer = {}
  MaxOp = 1
  MaxLine = 1
  Cap = 2
PROPERTY TimeoutTerminates
CHECK_DEADLOCK FALSE
