\* Requests awaiting embeddings, the synchronous batch, the sweeper and a crash.
SPECIFICATION FairSpec
CONSTANTS
  Key = {"k1", "k2"}
  Client = {c1}
  Batch <- MCBatch
  MaxTime = 1
  MaxCrash = 1
INVARIANTS SizesMatch
PROPERTIES ItemsExpire ExpiredGo
CHECK_DEADLOCK FALSE
