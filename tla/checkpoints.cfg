\* Two runs on a thread and its copy, while history is removed.
SPECIFICATION Spec
CONSTANTS
  Thread = {t1, t2}
  Ns = {"root"}
  RunId = {r1, r2}
  Channel = {"d", "v"}
  Delta = {"d"}
  PutInput <- MCPutInput
  MaxId = 3
  MaxWrites = 1
VIEW HistoryView
SYMMETRY IdSymmetry
INVARIANTS SizesExact SaversAgree
PROPERTIES HistoryKept RemovesWhole
CHECK_DEADLOCK FALSE
