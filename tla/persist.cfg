\* Instances of the ops file and of a data file over stops, starts and a crash.
SPECIFICATION FairSpec
CONSTANTS
  Inst = {i1, i2, i3}
  NoInst = none
  Persisted = 1
  MaxWrite = 2
  MaxCrash = 1
INVARIANTS OneOwner
PROPERTIES OnlyOwnerWrites NoStaleOverwrite WritesReachDisk
CHECK_DEADLOCK FALSE
