------------------------------ MODULE StoreTTL ------------------------------
(***************************************************************************)
(* DiskBackedInMemStore (store.py): items, vectors and TTL records kept in *)
(* three files, requests that hold the operation lock while they await     *)
(* embeddings, the synchronous batch that takes no lock, the background    *)
(* sweeper, and the size tracker (size_tracking.py).                       *)
(***************************************************************************)
EXTENDS Integers, FiniteSets, Functions, SequencesExt

CONSTANTS
  Key,
  Client,         \* tasks that call abatch
  Batch,          \* the requests: [gets, search, puts, bad]
  MaxTime,        \* bound on the clock, in minutes
  MaxCrash        \* bound on the crashes

\* A put of a batch deletes the key, or stores an item with the TTL of
\* minutes in `ttl` (a singleton, or {} for none), with or without a vector.
\* A bad batch has a TTL that is no number of minutes.
IsPutOp(p) ==
  p.del \in BOOLEAN /\ p.ttl \subseteq Nat /\ (\A m, n \in p.ttl : m = n) /\ p.index \in BOOLEAN

ASSUME BatchAssumption ==
  \A b \in Batch : /\ b.gets \subseteq Key /\ b.search \in BOOLEAN /\ b.bad \in BOOLEAN
                   /\ DOMAIN b.puts \subseteq Key /\ IsFiniteSet(DOMAIN b.puts)
                   /\ \A k \in DOMAIN b.puts : IsPutOp(b.puts[k])
ASSUME BoundsAssumption == MaxTime \in Nat /\ MaxCrash \in Nat /\ "sweeper" \notin Client

VARIABLES
  now,
  mem,       \* [data, vectors, ttl, sizes, total], and as history the keys `loose`
             \* whose vector is of a put that raised
  disk,      \* the three files: [data, vectors, ttl]
  lock,      \* _operation_lock: the holder, then the waiting tasks in order
  job,       \* the request of each client
  sweeper,   \* the sweep loop: "off", "sleep", "lock"
  stopping,  \* _ttl_stop_event
  crashes

vars == <<now, mem, disk, lock, job, sweeper, stopping, crashes>>

NoBatch == [gets |-> {}, search |-> FALSE, puts |-> [k \in {} |-> 0], bad |-> FALSE]
Idle == [pc |-> "idle", batch |-> NoBatch, found |-> {}]
Empty == [k \in {} |-> 0]

-----------------------------------------------------------------------------
(***************************************************************************)
(* The dictionaries.                                                       *)
(***************************************************************************)
\* _estimate_item_size, abstracted: an item with a vector is larger.
ItemSize(m, k) == IF k \in m.vectors THEN 3 ELSE 2

\* SizeTracker.set_size and remove through _track_item_size, for keys ks
Tracked(m, ks) ==
  LET old == SumFunctionOnSet(m.sizes, ks \cap DOMAIN m.sizes)
      sizes == [k \in (DOMAIN m.sizes \ ks) \cup (ks \cap m.data) |->
                  IF k \in ks THEN ItemSize(m, k) ELSE m.sizes[k]]
      new == SumFunctionOnSet(sizes, ks \cap m.data)
  IN [m EXCEPT !.sizes = sizes, !.total = @ + new - old, !.loose = @ \ ks]

\* _refresh_ttl of the keys that have a record
MutRefreshed(m, ks) ==
  [m EXCEPT !.ttl = [k \in DOMAIN @ \cup ks |->
     IF k \in ks THEN [expires |-> now + 1, minutes |-> 1] ELSE m.ttl[k]]]
Refreshed(m, ks) ==
  [m EXCEPT !.ttl = [k \in DOMAIN m.ttl |->
     IF k \in ks THEN [expires |-> now + m.ttl[k].minutes, minutes |-> m.ttl[k].minutes] ELSE m.ttl[k]]]

\* _apply_put_ops: items and vectors, TTL records, then sizes
AppliedPuts(m, puts) ==
  LET ks == DOMAIN puts
      deleted == {k \in ks : puts[k].del}
      timed == {k \in ks \ deleted : puts[k].ttl # {}}
      minutes(k) == CHOOSE n \in puts[k].ttl : TRUE
  IN Tracked([m EXCEPT
       !.data = (@ \cup ks) \ deleted,
       !.vectors = (@ \cup {k \in ks : puts[k].index}) \ deleted,
       !.ttl = [k \in (DOMAIN @ \ ks) \cup timed |->
                  IF k \in timed THEN [expires |-> now + minutes(k), minutes |-> minutes(k)] ELSE m.ttl[k]]],
     ks)

\* The vectors are in the store before _apply_put_ops looks at the TTLs; a bad
\* one raises there.
Embedded(m, puts) ==
  LET ks == {k \in DOMAIN puts : puts[k].index}
  IN [m EXCEPT !.vectors = @ \cup ks, !.loose = @ \cup ks]

Stored(m, b) == IF b.bad THEN Embedded(m, b.puts) ELSE AppliedPuts(m, b.puts)

\* sweep_ttl under the lock
MutSwept(m) ==
  LET gone == {k \in DOMAIN m.ttl : m.ttl[k].expires <= now}
  IN [m EXCEPT !.data = @ \ gone, !.vectors = @ \ gone, !.ttl = Restrict(m.ttl, DOMAIN m.ttl \ gone)]
Expired(m) == {k \in DOMAIN m.ttl : m.ttl[k].expires <= now}
Swept(m) ==
  LET gone == Expired(m)
  IN [data |-> m.data \ gone, vectors |-> m.vectors \ gone,
      ttl |-> Restrict(m.ttl, DOMAIN m.ttl \ gone),
      sizes |-> Restrict(m.sizes, DOMAIN m.sizes \ gone),
      total |-> m.total - SumFunctionOnSet(m.sizes, gone \cap DOMAIN m.sizes),
      loose |-> m.loose \ gone]

\* A new instance: the files, without the TTL records of missing items
\* (_drop_orphaned_ttl_records), and the sizes of what was loaded
Loaded(files) ==
  Tracked([data |-> files.data, vectors |-> files.vectors,
           ttl |-> Restrict(files.ttl, DOMAIN files.ttl \cap files.data),
           sizes |-> Empty, total |-> 0, loose |-> {}], files.data)

-----------------------------------------------------------------------------
(***************************************************************************)
(* Requests.                                                               *)
(***************************************************************************)
Holds(a) == lock # <<>> /\ Head(lock) = a

\* abatch waits for the lock; asyncio wakes the waiting tasks in order.  The
\* server takes no request any more when it stops the sweeper.
Abatch(c, b) ==
  /\ ~ stopping
  /\ job[c].pc = "idle"
  /\ job' = [job EXCEPT ![c] = [pc |-> "lock", batch |-> b, found |-> {}]]
  /\ lock' = Append(lock, c)
  /\ UNCHANGED <<now, mem, disk, sweeper, stopping, crashes>>

NeedsEmbedding(puts) == \E k \in DOMAIN puts : puts[k].index

\* The rest of the request from where it does not suspend again: the puts
\* wait for their embeddings, or are applied, or raise, and the lock released.
Proceed(c, m) ==
  IF NeedsEmbedding(job[c].batch.puts)
  THEN /\ mem' = m
       /\ job' = [job EXCEPT ![c].pc = "embed", ![c].found = {}]
       /\ UNCHANGED lock
  ELSE /\ mem' = Stored(m, job[c].batch)
       /\ job' = [job EXCEPT ![c] = Idle]
       /\ lock' = Tail(lock)

\* With the lock: reads, with the refresh they ask for, and the candidates
\* of a search, whose query is embedded next
Prepare(c) ==
  LET b == job[c].batch
      m == Refreshed(mem, b.gets \cap mem.data)
  IN /\ job[c].pc = "lock" /\ Holds(c)
     /\ IF b.search
        THEN /\ mem' = m
             /\ job' = [job EXCEPT ![c].pc = "search", ![c].found = mem.data]
             /\ UNCHANGED lock
        ELSE Proceed(c, m)
     /\ UNCHANGED <<now, disk, sweeper, stopping, crashes>>

\* _batch_search refreshes the items found before the await.
SearchDone(c) ==
  /\ job[c].pc = "search"
  /\ Proceed(c, Refreshed(mem, job[c].found))
  /\ UNCHANGED <<now, disk, sweeper, stopping, crashes>>

EmbedDone(c) ==
  /\ job[c].pc = "embed"
  /\ mem' = Stored(mem, job[c].batch)
  /\ job' = [job EXCEPT ![c] = Idle]
  /\ lock' = Tail(lock)
  /\ UNCHANGED <<now, disk, sweeper, stopping, crashes>>

\* The embedding raises; "async with" releases the lock.
MutEmbedFail(c) ==
  /\ job[c].pc \in {"search", "embed"}
  /\ job' = [job EXCEPT ![c] = Idle]
  /\ UNCHANGED <<now, mem, disk, lock, sweeper, stopping, crashes>>
EmbedFail(c) ==
  /\ job[c].pc \in {"search", "embed"}
  /\ job' = [job EXCEPT ![c] = Idle]
  /\ lock' = Tail(lock)
  /\ UNCHANGED <<now, mem, disk, sweeper, stopping, crashes>>

\* The synchronous batch, called on the event loop, takes no lock.
SyncBatch(b) ==
  LET m == Refreshed(mem, b.gets \cap mem.data)
  IN /\ ~ stopping
     /\ mem' = Stored(IF b.search THEN Refreshed(m, m.data) ELSE m, b)
     /\ UNCHANGED <<now, disk, lock, job, sweeper, stopping, crashes>>

-----------------------------------------------------------------------------
(***************************************************************************)
(* The sweeper, the files and the process.                                 *)
(***************************************************************************)
\* start_ttl_sweeper by the lifespan of the server
StartSweeper ==
  /\ sweeper = "off" /\ ~ stopping
  /\ sweeper' = "sleep"
  /\ UNCHANGED <<now, mem, disk, lock, job, stopping, crashes>>

\* The interval is over.
SweeperWakes ==
  /\ sweeper = "sleep" /\ ~ stopping
  /\ sweeper' = "lock"
  /\ lock' = Append(lock, "sweeper")
  /\ UNCHANGED <<now, mem, disk, job, stopping, crashes>>

SweepTTL ==
  /\ sweeper = "lock" /\ Holds("sweeper")
  /\ mem' = Swept(mem)
  /\ sweeper' = IF stopping THEN "off" ELSE "sleep"
  /\ lock' = Tail(lock)
  /\ UNCHANGED <<now, disk, job, stopping, crashes>>

\* stop_ttl_sweeper by stop_pool, before the store is closed
StopSweeper ==
  /\ sweeper # "off" /\ ~ stopping
  /\ stopping' = TRUE
  /\ UNCHANGED <<now, mem, disk, lock, job, sweeper, crashes>>

\* The loop sees the event, or close() cancels it where it waits.
SweeperStops ==
  /\ stopping /\ sweeper # "off"
  /\ sweeper' = "off"
  /\ lock' = RemoveFirst(lock, "sweeper")
  /\ UNCHANGED <<now, mem, disk, job, stopping, crashes>>

\* The flush thread writes the files one after another.
Flush(f) ==
  /\ disk[f] # mem[f]
  /\ disk' = [disk EXCEPT ![f] = mem[f]]
  /\ UNCHANGED <<now, mem, lock, job, sweeper, stopping, crashes>>

\* The process ends and a new one loads the files.
Restart ==
  /\ crashes < MaxCrash
  /\ crashes' = crashes + 1
  /\ mem' = Loaded(disk)
  /\ lock' = <<>>
  /\ job' = [c \in Client |-> Idle]
  /\ sweeper' = "off" /\ stopping' = FALSE
  /\ UNCHANGED <<now, disk>>

Tick ==
  /\ now < MaxTime /\ ~ stopping
  /\ now' = now + 1
  /\ UNCHANGED <<mem, disk, lock, job, sweeper, stopping, crashes>>

Init ==
  /\ now = 0
  /\ disk = [data |-> {}, vectors |-> {}, ttl |-> Empty]
  /\ mem = Loaded(disk)
  /\ lock = <<>>
  /\ job = [c \in Client |-> Idle]
  /\ sweeper = "off" /\ stopping = FALSE
  /\ crashes = 0

Request(c) == Prepare(c) \/ SearchDone(c) \/ EmbedDone(c) \/ EmbedFail(c)

Next ==
  \/ \E c \in Client, b \in Batch : Abatch(c, b)
  \/ \E c \in Client : Request(c)
  \/ \E b \in Batch : SyncBatch(b)
  \/ StartSweeper \/ SweeperWakes \/ SweepTTL \/ StopSweeper \/ SweeperStops
  \/ \E f \in {"data", "vectors", "ttl"} : Flush(f)
  \/ Restart
  \/ Tick

Spec == Init /\ [][Next]_vars

\* The lifespan starts the sweeper, the loop's timer fires, and an embedding
\* request ends, with a result or an error.
FairSpec ==
  /\ Spec
  /\ WF_vars(StartSweeper) /\ WF_vars(SweeperWakes) /\ WF_vars(SweepTTL)
  /\ \A c \in Client : WF_vars(Request(c))

-----------------------------------------------------------------------------
(***************************************************************************)
(* Properties.                                                             *)
(***************************************************************************)
Record == [expires : Nat, minutes : Nat]

\* Types of the items and of the TTL records, and asyncio.Lock as a queue in
\* which nobody waits twice.
TypeOK ==
  /\ now \in 0..MaxTime
  /\ mem.data \subseteq Key /\ mem.vectors \subseteq Key /\ mem.loose \subseteq Key
  /\ DOMAIN mem.ttl \subseteq Key /\ \A k \in DOMAIN mem.ttl : mem.ttl[k] \in Record
  /\ sweeper \in {"off", "sleep", "lock"}
  /\ \A c \in Client : job[c].pc \in {"idle", "lock", "search", "embed"}
  /\ \A i, j \in DOMAIN lock : lock[i] = lock[j] => i = j

Abstract == INSTANCE ExpiringMap WITH
  deadline <- [k \in mem.data |-> IF k \in DOMAIN mem.ttl THEN {mem.ttl[k].expires} ELSE {}],
  sweeping <- sweeper = "lock",
  epoch <- crashes,
  saved <- disk.data = mem.data /\ disk.ttl = mem.ttl

\* Whatever requests are suspended over an embedding and whatever the
\* synchronous batch does meanwhile, an item leaves the store only on request
\* or after its deadline, a refresh of an item found before the await never
\* gives a deadline to the item that is there after it, and a restart with
\* complete files changes nothing.
ItemsExpire == Abstract!Spec

\* Beside the types: item, vector, TTL record and size go together, over
\* sweeps, overwrites and restarts from files written at different times: no
\* record without its item, the sizes are those of the items, but for an item
\* that got the vector of a put that raised, and their sum is the total
\* reported.
SizesMatch ==
  /\ TypeOK
  /\ DOMAIN mem.ttl \subseteq mem.data
  /\ DOMAIN mem.sizes = mem.data
  /\ \A k \in mem.data \ mem.loose : mem.sizes[k] = ItemSize(mem, k)
  /\ mem.total = SumFunctionOnSet(mem.sizes, mem.data)

\* While the sweeper is not stopped, an expired item is swept, renewed or
\* replaced in the end: no request can keep the lock from the sweeper for
\* ever, not by failing and not by coming again and again.
ExpiredGo ==
  \A k \in Key : k \in Expired(mem) ~> (k \notin Expired(mem) \/ stopping)
=============================================================================
