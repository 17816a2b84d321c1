\* A deploy that hangs, fails or is cut off, and a viewer that reconnects while the buffer rotates.
SPECIFICATION FairSpec
CONSTANTS
  Client = {c1, c2}
  Viewer = {v1}
  MaxOp = 1
  MaxLine = 2
  Cap = 2
INVARIANTS InOrder TerminalComplete
PROPERTIES DeployEnds StreamEnds
CHECK_DEADLOCK FALSE
