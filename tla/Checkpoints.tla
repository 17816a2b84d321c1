----------------------------- MODULE Checkpoints -----------------------------
(***************************************************************************)
(* The built-in checkpointer (checkpoint.py): checkpoints, channel blobs   *)
(* and pending writes of every thread, the removal of history for a run or *)
(* for a thread, the copy of a thread, and the size accounting.  Beside it *)
(* the removal rules of the Postgres checkpointer (postgres.py), which has *)
(* to remove the same history.                                             *)
(*                                                                         *)
(* Ids grow with time, as LangGraph's do, so a parent is older than its    *)
(* child; a channel's version is the id of the checkpoint that wrote it.   *)
(***************************************************************************)
EXTENDS Integers, FiniteSets, Functions, TLC

CONSTANTS
  Thread, Ns, RunId,
  Channel,
  Delta,          \* the channels kept as deltas: subset of Channel
  PutInput,       \* the steps of a graph: channels written, and those of them
                  \* with a value (a delta channel without one has a delta)
  MaxId,          \* bound on the checkpoints made
  MaxWrites       \* bound on the pending writes of a checkpoint

ASSUME DeltaAssumption == Delta \subseteq Channel
ASSUME InputAssumption ==
  \A in \in PutInput : in.full \subseteq in.written /\ in.written \subseteq Channel /\ IsFiniteSet(in.written)
ASSUME BoundsAssumption == MaxId \in Nat /\ MaxWrites \in Nat /\ IsFiniteSet(Thread)

VARIABLES
  storage,   \* key -> [parent, versions, counters, run]
  blobs,     \* <<thread, ns, channel, version>> -> "value" or "empty"
  writes,    \* key -> number of pending writes
  sizes,     \* _CheckpointSizeState: thread -> [bytes, count]
  total,     \* its totals over the threads
  nid,       \* the last id issued
  loop,      \* the graph loops of the runs: the thread, and the checkpoints and
             \* channel versions held in memory
  over,      \* the runs that are over
  gaveUp     \* what the caller of the last removal gave up: a history variable

vars == <<storage, blobs, writes, sizes, total, nid, loop, over, gaveUp>>

Id == 1..MaxId
Key == Thread \X Ns \X Id
BlobKey == Thread \X Ns \X Channel \X Id
\* channel_versions: the channels written so far
Versions == UNION {[cs -> Id] : cs \in SUBSET Channel}
Entry == [parent : 0..MaxId, versions : Versions, counters : SUBSET Channel, run : RunId]
Loop == [thread : Thread, at : [Ns -> 0..MaxId], versions : [Ns -> Versions]]
Size == [bytes : Int, count : Int]
NoSize == [bytes |-> 0, count |-> 0]

-----------------------------------------------------------------------------
(***************************************************************************)
(* Sizes.  The bytes of a component are abstracted to small numbers that   *)
(* tell the components apart.                                              *)
(***************************************************************************)
EntrySize == 1
BlobSize(kind) == IF kind = "value" THEN 5 ELSE 3
WriteGroupSize(n) == IF n = 0 THEN 0 ELSE 6 + 7 * n

NonNeg(n) == IF n < 0 THEN 0 ELSE n

\* _CheckpointSizeState.adjust, as the new pair <<sizes, total>>
Adjust(t, bytes, count) ==
  LET old == sizes[t]
      new == [bytes |-> NonNeg(old.bytes + bytes), count |-> NonNeg(old.count + count)]
  IN /\ sizes' = [sizes EXCEPT ![t] = new]
     /\ total' = [bytes |-> total.bytes + new.bytes - old.bytes,
                  count |-> total.count + new.count - old.count]

\* The keys of a dictionary that belong to a thread.
Mine(f, t) == {k \in DOMAIN f : k[1] = t}

\* What _rebuild_size_tracking finds for one thread in the three dictionaries.
BlobSizes(bl) == [k \in DOMAIN bl |-> BlobSize(bl[k])]
WriteSizes(wr) == [k \in DOMAIN wr |-> WriteGroupSize(wr[k])]
Measured(st, bl, wr, t) ==
  [bytes |-> EntrySize * Cardinality(Mine(st, t))
             + SumFunctionOnSet(BlobSizes(bl), Mine(bl, t))
             + SumFunctionOnSet(WriteSizes(wr), Mine(wr, t)),
   count |-> Cardinality(Mine(st, t))]

Summed(sz) == [bytes |-> SumFunctionOnSet([t \in Thread |-> sz[t].bytes], Thread),
               count |-> SumFunctionOnSet([t \in Thread |-> sz[t].count], Thread)]

-----------------------------------------------------------------------------
(***************************************************************************)
(* Graph loops: reads and writes of a run.                                 *)
(***************************************************************************)
Stored(t, ns) == {k \in DOMAIN storage : k[1] = t /\ k[2] = ns}

NoVersions == [ch \in {} |-> 0]

\* dict.update, and the assignment of one item
Updated(f, g) == [x \in DOMAIN f \cup DOMAIN g |-> IF x \in DOMAIN g THEN g[x] ELSE f[x]]
With(f, k, v) == [x \in DOMAIN f \cup {k} |-> IF x = k THEN v ELSE f[x]]

\* get_tuple: the run starts on a checkpoint of every namespace, the latest
\* or an older one it was told to resume from.  The previous run of the
\* thread is over then.
Load(r, t) ==
  LET before == {q \in DOMAIN loop : loop[q].thread = t}
  IN /\ r \notin DOMAIN loop \cup over
     /\ \E at \in [Ns -> 0..MaxId] :
          /\ \A ns \in Ns : IF Stored(t, ns) = {} THEN at[ns] = 0 ELSE <<t, ns, at[ns]>> \in Stored(t, ns)
          /\ loop' = With(Restrict(loop, DOMAIN loop \ before), r,
               [thread |-> t, at |-> at,
                versions |-> [ns \in Ns |-> IF at[ns] = 0 THEN NoVersions ELSE storage[<<t, ns, at[ns]>>].versions]])
     /\ over' = over \cup before
     /\ gaveUp' = {}
     /\ UNCHANGED <<storage, blobs, writes, sizes, total, nid>>

\* The parent of the next checkpoint: checkpoint_id of the config.
ParentOf(r, ns) == loop[r].at[ns]

\* put: a child of the checkpoint the loop is at, with a new version and blob
\* for every channel written; a written channel without a value has an "empty" blob.
Put(r, ns, in) ==
  LET written == in.written
      t == loop[r].thread
      c == nid + 1
      versions == Updated(loop[r].versions[ns], [ch \in written |-> c])
      newBlobs == [k \in {<<t, ns, ch, c>> : ch \in written} |-> IF k[3] \in in.full THEN "value" ELSE "empty"]
  IN /\ r \in DOMAIN loop /\ nid < MaxId
     /\ nid' = c
     /\ storage' = With(storage, <<t, ns, c>>,
          [parent |-> ParentOf(r, ns), versions |-> versions,
           counters |-> Delta \cap DOMAIN versions, run |-> r])
     /\ blobs' = Updated(blobs, newBlobs)
     /\ Adjust(t, EntrySize + SumFunctionOnSet(BlobSizes(newBlobs), DOMAIN newBlobs), 1)
     /\ loop' = [loop EXCEPT ![r].at[ns] = c, ![r].versions[ns] = versions]
     /\ gaveUp' = {}
     /\ UNCHANGED <<writes, over>>

\* put_writes on the checkpoint the loop is at, stored or not
PutWrites(r, ns) ==
  LET k == <<loop[r].thread, ns, loop[r].at[ns]>>
      n == IF k \in DOMAIN writes THEN writes[k] ELSE 0
  IN /\ r \in DOMAIN loop /\ loop[r].at[ns] # 0
     /\ n < MaxWrites
     /\ writes' = With(writes, k, n + 1)
     /\ Adjust(k[1], WriteGroupSize(n + 1) - WriteGroupSize(n), 0)
     /\ gaveUp' = {}
     /\ UNCHANGED <<storage, blobs, nid, loop, over>>

-----------------------------------------------------------------------------
(***************************************************************************)
(* Removal of history.                                                     *)
(***************************************************************************)
BlobKeysOf(ks) ==
  UNION {{<<k[1], k[2], ch, storage[k].versions[ch]>> : ch \in DOMAIN storage[k].versions} : k \in ks}

Materialized(b) == b \in DOMAIN blobs /\ blobs[b] # "empty"

\* The channels a stored checkpoint materializes.
Snapshots(k) ==
  {ch \in DOMAIN storage[k].versions : Materialized(<<k[1], k[2], ch, storage[k].versions[ch]>>)}

\* The delta channels whose value at k has to be rebuilt from the ancestors.
NeededChannels(k) == (DOMAIN storage[k].versions \cap storage[k].counters) \ Snapshots(k)

\* The parents visited from k until every needed channel has met a snapshot,
\* the root is reached, or a parent is not stored.
Walk(t, ns) ==
  LET walk[p \in 0..MaxId] ==
        [need \in SUBSET Channel |->
           LET j == <<t, ns, p>>
           IN IF p = 0 \/ need = {} \/ j \notin DOMAIN storage
              THEN {}
              ELSE {j} \cup walk[storage[j].parent][need \ Snapshots(j)]]
  IN walk
Chain(k) == Walk(k[1], k[2])[storage[k].parent][NeededChannels(k)]

Candidates(rs) == {k \in DOMAIN storage : storage[k].run \in rs}

MutProtected(candidates) ==
  candidates \cap {<<k[1], k[2], storage[k].parent>> : k \in {j \in DOMAIN storage \ candidates : NeededChannels(j) # {}}}
Protected(candidates) == candidates \cap UNION {Chain(k) : k \in DOMAIN storage \ candidates}

Removed(rs) == Candidates(rs) \ Protected(Candidates(rs))

\* The dictionaries without the given keys.
Without(ks, ws, bs) ==
  [storage |-> Restrict(storage, DOMAIN storage \ ks),
   writes |-> Restrict(writes, DOMAIN writes \ ws),
   blobs |-> Restrict(blobs, DOMAIN blobs \ bs)]

MutAfterDelete(rs) ==
  LET removed == Removed(rs)
  IN Without(removed, {k \in DOMAIN writes : \E j \in removed : j[3] = k[3]},
             BlobKeysOf(removed) \ BlobKeysOf(DOMAIN storage \ removed))

\* delete_for_runs: blobs go when no retained checkpoint refers to them.
AfterDelete(rs) ==
  LET removed == Removed(rs)
  IN Without(removed, removed, BlobKeysOf(removed) \ BlobKeysOf(DOMAIN storage \ removed))

\* prune with strategy keep_latest: what is left is the newest checkpoint of
\* every namespace, its chain, and what they refer to.
Latest(t) == {k \in DOMAIN storage : k[1] = t /\ \A j \in Stored(t, k[2]) : j[3] <= k[3]}
AfterPrune(t) ==
  LET kept == Latest(t) \cup UNION {Chain(k) : k \in Latest(t)}
  IN Without(Mine(storage, t) \ kept, Mine(writes, t) \ kept, Mine(blobs, t) \ BlobKeysOf(kept))

Keep(after) == storage' = after.storage /\ writes' = after.writes /\ blobs' = after.blobs

DeleteForRuns(rs) ==
  /\ Removed(rs) # {}
  /\ Keep(AfterDelete(rs))
  /\ sizes' = [t \in Thread |-> Measured(storage', blobs', writes', t)]
  /\ total' = Summed(sizes')
  /\ gaveUp' = Candidates(rs)
  /\ UNCHANGED <<nid, loop, over>>

MutFreedByPrune(after) ==
  EntrySize * Cardinality(DOMAIN storage \ DOMAIN after.storage)
  + SumFunctionOnSet(BlobSizes(blobs), DOMAIN blobs \ DOMAIN after.blobs)
FreedByPrune(after) ==
  EntrySize * Cardinality(DOMAIN storage \ DOMAIN after.storage)
  + SumFunctionOnSet(WriteSizes(writes), DOMAIN writes \ DOMAIN after.writes)
  + SumFunctionOnSet(BlobSizes(blobs), DOMAIN blobs \ DOMAIN after.blobs)

Prune(t) ==
  LET after == AfterPrune(t)
  IN /\ Mine(storage, t) # {}
     /\ Keep(after)
     /\ gaveUp' = Mine(storage, t) \ Latest(t)
     /\ Adjust(t, - FreedByPrune(after), - Cardinality(DOMAIN storage \ DOMAIN after.storage))
     /\ UNCHANGED <<nid, loop, over>>

\* delete_thread, and prune with strategy delete
DeleteThread(t) ==
  /\ Keep(Without(Mine(storage, t), Mine(writes, t), Mine(blobs, t)))
  /\ sizes' = [sizes EXCEPT ![t] = NoSize]
  /\ total' = [bytes |-> total.bytes - sizes[t].bytes, count |-> total.count - sizes[t].count]
  /\ gaveUp' = Mine(storage, t)
  /\ UNCHANGED <<nid, loop, over>>

Clear ==
  /\ Keep(Without(DOMAIN storage, DOMAIN writes, DOMAIN blobs))
  /\ sizes' = [t \in Thread |-> NoSize]
  /\ total' = NoSize
  /\ gaveUp' = DOMAIN storage
  /\ UNCHANGED <<nid, loop, over>>

\* Threads.copy: the three dictionaries under a thread id nobody used yet,
\* then copy_thread_size
Copied(f, t, u) ==
  Updated(f, [j \in {[k EXCEPT ![1] = u] : k \in Mine(f, t)} |-> f[[j EXCEPT ![1] = t]]])

CopyThread(t, u) ==
  /\ Mine(storage, t) # {}
  /\ Mine(storage, u) = {} /\ Mine(writes, u) = {} /\ Mine(blobs, u) = {}
  /\ \A r \in DOMAIN loop : loop[r].thread # u
  /\ storage' = Copied(storage, t, u)
  /\ writes' = Copied(writes, t, u)
  /\ blobs' = Copied(blobs, t, u)
  /\ sizes' = [sizes EXCEPT ![u] = sizes[t]]
  /\ total' = [bytes |-> total.bytes + sizes[t].bytes - sizes[u].bytes,
               count |-> total.count + sizes[t].count - sizes[u].count]
  /\ gaveUp' = {}
  /\ UNCHANGED <<nid, loop, over>>

-----------------------------------------------------------------------------
(***************************************************************************)
(* RuntimePostgresSaver._remove_history: one thread at a time, in one      *)
(* transaction, on rows instead of dictionaries.                           *)
(***************************************************************************)
PgMaterialized(t) == {<<b[2], b[3], b[4]>> : b \in {x \in Mine(blobs, t) : blobs[x] # "empty"}}

\* str(None) where the row has no version of the channel: here 0, which no
\* version is
PgVersion(k, ch) == IF ch \in DOMAIN storage[k].versions THEN storage[k].versions[ch] ELSE 0

MutPgLacking(k, chs) ==
  {ch \in chs \cap DOMAIN storage[k].versions : <<k[2], ch, PgVersion(k, ch)>> \notin PgMaterialized(k[1])}
PgLacking(k, chs) == {ch \in chs : <<k[2], ch, PgVersion(k, ch)>> \notin PgMaterialized(k[1])}

PgWalk(rows, t, ns) ==
  LET walk[p \in 0..MaxId] ==
        [need \in SUBSET Channel |->
           LET j == <<t, ns, p>>
           IN IF p = 0 \/ need = {} \/ j \notin rows
              THEN {}
              ELSE {j} \cup walk[storage[j].parent][PgLacking(j, need)]]
  IN walk

PgProtected(rows, candidates) ==
  LET needed(k) == PgLacking(k, storage[k].counters \cap DOMAIN storage[k].versions)
  IN UNION {PgWalk(rows, k[1], k[2])[storage[k].parent][needed(k)] : k \in rows \ candidates}

\* Rows, writes and blobs of the thread that are left; blobs are looked at
\* only when some row was removed.
PgAfter(t, candidates) ==
  LET rows == Mine(storage, t)
      removed == candidates \ PgProtected(rows, candidates)
  IN Without(removed, removed,
       IF removed = {} THEN {} ELSE Mine(blobs, t) \ BlobKeysOf(rows \ removed))

PgAfterDelete(rs, t) == PgAfter(t, Candidates(rs) \cap Mine(storage, t))
PgAfterPrune(t) == PgAfter(t, Mine(storage, t) \ Latest(t))

-----------------------------------------------------------------------------
Init ==
  /\ storage = [k \in {} |-> 0] /\ blobs = [k \in {} |-> 0] /\ writes = [k \in {} |-> 0]
  /\ sizes = [t \in Thread |-> NoSize] /\ total = NoSize
  /\ nid = 0
  /\ loop = [r \in {} |-> 0] /\ over = {} /\ gaveUp = {}

Next ==
  \/ \E r \in RunId, t \in Thread : Load(r, t)
  \/ \E r \in RunId, ns \in Ns, in \in PutInput : Put(r, ns, in)
  \/ \E r \in RunId, ns \in Ns : PutWrites(r, ns)
  \/ \E rs \in SUBSET RunId : DeleteForRuns(rs)
  \/ \E t \in Thread : Prune(t) \/ DeleteThread(t)
  \/ \E t, u \in Thread : CopyThread(t, u)
  \/ Clear

Spec == Init /\ [][Next]_vars

\* Threads and runs are interchangeable.
IdSymmetry == Permutations(Thread) \cup Permutations(RunId)

-----------------------------------------------------------------------------
(***************************************************************************)
(* Properties.                                                             *)
(***************************************************************************)
\* Keys, entries, blobs and writes have the types of storage, blobs and writes;
\* the parent of a checkpoint is an earlier one; a run that ended executes no more.
TypeOK ==
  /\ DOMAIN storage \subseteq Key /\ \A k \in DOMAIN storage : storage[k] \in Entry /\ storage[k].parent < k[3]
  /\ DOMAIN blobs \subseteq BlobKey /\ \A b \in DOMAIN blobs : blobs[b] \in {"value", "empty"}
  /\ DOMAIN writes \subseteq Key /\ \A k \in DOMAIN writes : writes[k] \in 1..MaxWrites
  /\ sizes \in [Thread -> Size] /\ total \in Size
  /\ nid \in 0..MaxId
  /\ DOMAIN loop \subseteq RunId \ over /\ \A r \in DOMAIN loop : loop[r] \in Loop
  /\ over \subseteq RunId /\ gaveUp \subseteq Key

\* The channels whose value cannot be rebuilt below p: going back, a parent
\* is missing before a snapshot, a checkpoint from before the channel was
\* first written, or the root.
Lost(t, ns) ==
  LET lost[p \in 0..MaxId] ==
        LET j == <<t, ns, p>>
        IN IF p = 0 THEN {}
           ELSE IF j \notin DOMAIN storage THEN Channel
           ELSE (lost[storage[j].parent] \cap DOMAIN storage[j].versions) \ Snapshots(j)
  IN lost

Restorable(k) ==
  /\ NeededChannels(k) \cap Lost(k[1], k[2])[storage[k].parent] = {}
  /\ \A ch \in DOMAIN storage[k].versions \ NeededChannels(k) :
        <<k[1], k[2], ch, storage[k].versions[ch]>> \in DOMAIN blobs

Abstract == INSTANCE CheckpointHistory WITH
  entries <- [k \in DOMAIN storage |-> [parent |-> storage[k].parent, run |-> storage[k].run]],
  live <- {k \in DOMAIN storage : Restorable(k)}

\* "Delta-backed checkpoints ... need the ancestor write chain through the
\* nearest materialized snapshot" (checkpoint.py): no removal for other runs,
\* no pruning, no copy and no later write makes a checkpoint the caller still
\* holds impossible to restore, nor drops a blob it shares.
HistoryKept == Abstract!Spec

\* The write groups and blobs that belong to no stored checkpoint.
Orphans == (DOMAIN writes \ DOMAIN storage) \cup (DOMAIN blobs \ BlobKeysOf(DOMAIN storage))

\* A removal takes the writes and blobs of the checkpoints it removes along,
\* and no write of a checkpoint that it keeps, also where another thread or
\* namespace has a checkpoint of the same id.
RemovesWhole ==
  [][DOMAIN storage \ DOMAIN storage' # {} =>
       /\ Orphans' \subseteq Orphans
       /\ \A k \in DOMAIN storage' \cap DOMAIN writes : k \in DOMAIN writes' /\ writes'[k] = writes[k]]_vars

\* The sizes adjusted by every operation are those a full rebuild would find,
\* per thread and in total, beside the types: no clamp at zero hides a miscount.
SizesExact ==
  /\ TypeOK
  /\ \A t \in Thread : sizes[t] = Measured(storage, blobs, writes, t)
  /\ total = Summed(sizes)

\* The part of the dictionaries that is about a thread.
PartOf(a, t) ==
  [storage |-> Restrict(a.storage, Mine(a.storage, t)),
   writes |-> Restrict(a.writes, Mine(a.writes, t)),
   blobs |-> Restrict(a.blobs, Mine(a.blobs, t))]

\* The Postgres checkpointer keeps the same checkpoints, and the same writes
\* and blobs unless a late write left orphans, as the built-in one.
SaversAgree ==
  LET same(a, b) == a.storage = b.storage /\ (Orphans = {} => a = b)
  IN \A t \in Thread :
       /\ \A rs \in SUBSET RunId : same(PartOf(AfterDelete(rs), t), PartOf(PgAfterDelete(rs, t), t))
       /\ same(AfterPrune(t), PgAfterPrune(t))
=============================================================================
