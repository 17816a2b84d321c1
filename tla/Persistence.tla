---------------------------- MODULE Persistence ----------------------------
(***************************************************************************)
(* One file of _persistence.py: the PersistentDict instances that are made *)
(* for it, the registry entry, the flush thread, and the life of the       *)
(* instances in database.py (start_pool, stop_pool), store.py and          *)
(* checkpoint.py.  The flush thread is a real thread; what is done under   *)
(* _registry_lock is one step.                                             *)
(*                                                                         *)
(* The contents of an instance or of the file are the number of the last   *)
(* write they hold, 0 when empty.                                          *)
(***************************************************************************)
EXTENDS Naturals

CONSTANTS
  Inst,       (* instances made for the file                                *)
  NoInst,     (* no registry entry                                          *)
  Persisted,  (* contents of the file at the start                          *)
  MaxWrite,   (* bound: writes                                              *)
  MaxCrash    (* bound: crashes of the process                              *)

ASSUME PersistenceAssumption ==
  /\ NoInst \notin Inst
  /\ Persisted \in Nat /\ MaxWrite \in Nat /\ MaxCrash \in Nat

VARIABLES
  file,      (* "ops": GLOBAL_STORE, the only instance of its file, which   *)
             (* start_pool opens again; "data": a file of store.py or       *)
             (* checkpoint.py, which may be given more instances            *)
  disk,      (* the file                                                    *)
  mem,       (* the instances                                               *)
  life,      (* where each instance is in its life                          *)
  own,       (* _PERSISTENCE_OWNER_ATTR                                     *)
  reg,       (* _stores[filename]: a weak reference                         *)
  flusher,   (* _flush_thread is alive                                      *)
  stopping,  (* stop_pool: the flush loop is stopped, closes follow         *)
  nwrite, ncrash

vars == <<file, disk, mem, life, own, reg, flusher, stopping, nwrite, ncrash>>
counters == <<nwrite, ncrash>>

----------------------------------------------------------------------------
\* PersistentDict(..., filename=...): empty.
Make(i) ==
  /\ life[i] = "none" /\ ~stopping
  /\ file = "ops" => \A j \in Inst : life[j] = "none"
  /\ life' = [life EXCEPT ![i] = "made"]
  /\ UNCHANGED <<disk, mem, own, reg, flusher, stopping, counters, file>>

\* start_pool loads, then registers; store.py and checkpoint.py register, then
\* load.
LoadFirst == file = "ops"

\* The next stage of an instance that was loaded or registered.
Opened(i) == [life EXCEPT ![i] = IF @ = "made" THEN "half" ELSE "live"]

\* PersistentDict.load.
Load(i) ==
  /\ life[i] = IF LoadFirst THEN "made" ELSE "half"
  /\ mem' = [mem EXCEPT ![i] = disk]
  /\ life' = Opened(i)
  /\ UNCHANGED <<disk, own, reg, flusher, stopping, counters, file>>

\* A live instance other than i is registered.
MutOtherOwner(i) == FALSE
OtherOwner(i) == reg \notin {NoInst, i}

\* register_persistent_dict.
MutStarts == flusher
Starts == TRUE

Register(i) ==
  /\ life[i] = IF LoadFirst THEN "half" ELSE "made"
  /\ life' = Opened(i)
  /\ \/ /\ OtherOwner(i)
        /\ own' = [own EXCEPT ![i] = "denied"]
        /\ UNCHANGED <<reg, flusher>>
     \/ /\ ~OtherOwner(i)
        /\ own' = [own EXCEPT ![i] = "owner"]
        /\ reg' = i
        /\ flusher' = Starts
  /\ UNCHANGED <<disk, mem, stopping, counters, file>>

\* The server changes the data.  STORE and MEMORY keep their instances when
\* these are closed: a server that is started again in the same process goes on
\* with them, and what it writes is not synced.
Write(i) ==
  /\ \/ life[i] = "live"
     \/ life[i] \in {"closed", "failed"} /\ file = "data"
  /\ nwrite < MaxWrite
  /\ nwrite' = nwrite + 1
  /\ mem' = [mem EXCEPT ![i] = Persisted + nwrite + 1]
  /\ UNCHANGED <<disk, life, own, reg, flusher, stopping, ncrash, file>>

\* _flush_registered_once: the registered instance is synced, empty or not.
\* A sync that fails leaves everything for the next round.
Flush ==
  /\ flusher /\ reg # NoInst
  /\ disk' = mem[reg]
  /\ UNCHANGED <<mem, life, own, reg, flusher, stopping, counters, file>>

\* The entry for the file, once its owner is closed.
MutUnregistered == reg
Unregistered == NoInst

\* The instance was denied ownership, or lost it to a newer one.
MutMayNotSync(i) == OtherOwner(i)
MayNotSync(i) == own[i] = "denied" \/ OtherOwner(i)

\* PersistentDict.close syncs, and clears.
MutSynced(i) == disk
Synced(i) == mem[i]

\* close_persistent_dict, once per instance (_closed, _persistence_closed).
Close(i) ==
  /\ life[i] = "live"
  /\ \/ /\ MayNotSync(i)
        /\ own' = [own EXCEPT ![i] = "denied"]
        /\ UNCHANGED <<disk, reg>>
     \/ /\ ~MayNotSync(i)
        /\ disk' = Synced(i)
        /\ own' = [own EXCEPT ![i] = "none"]
        /\ reg' = Unregistered
  /\ mem' = [mem EXCEPT ![i] = 0]
  /\ life' = [life EXCEPT ![i] = "closed"]
  /\ UNCHANGED <<flusher, stopping, counters, file>>

\* The final sync raises: the instance stays registered, and is not closed
\* again.
CloseFail(i) ==
  /\ life[i] = "live" /\ ~MayNotSync(i)
  /\ life' = [life EXCEPT ![i] = "failed"]
  /\ UNCHANGED <<disk, mem, own, reg, flusher, stopping, counters, file>>

\* The last reference to an instance goes away; its weak reference with it.
\* The flush thread or the next registration removes the entry.
Collect(i) ==
  /\ life[i] \in {"live", "closed", "failed"} /\ file = "data"
  /\ life' = [life EXCEPT ![i] = "gone"]
  /\ mem' = [mem EXCEPT ![i] = 0]
  /\ own' = [own EXCEPT ![i] = "none"]
  /\ reg' = IF reg = i THEN NoInst ELSE reg
  /\ UNCHANGED <<disk, flusher, stopping, counters, file>>

\* stop_pool stops the flush loop, then closes the instances that are open.
StopPool ==
  /\ ~stopping
  /\ \A i \in Inst : life[i] \notin {"made", "half"}
  /\ stopping' = TRUE /\ flusher' = FALSE
  /\ UNCHANGED <<disk, mem, life, own, reg, counters, file>>

\* start_pool in the same process.
StartPool ==
  /\ stopping
  /\ \A i \in Inst : life[i] # "live"
  /\ stopping' = FALSE
  /\ life' = [i \in Inst |-> IF file = "ops" /\ life[i] # "none" THEN "made" ELSE life[i]]
  /\ UNCHANGED <<disk, mem, own, reg, flusher, counters, file>>

\* The registration of another file's instance starts the flush loop.
OtherRegister ==
  /\ ~flusher
  /\ flusher' = TRUE
  /\ UNCHANGED <<disk, mem, life, own, reg, stopping, counters, file>>

\* The process dies and is started again.
Crash ==
  /\ ncrash < MaxCrash
  /\ ncrash' = ncrash + 1
  /\ mem' = [i \in Inst |-> 0]
  /\ life' = [i \in Inst |-> "none"]
  /\ own' = [i \in Inst |-> "none"]
  /\ reg' = NoInst
  /\ flusher' = FALSE /\ stopping' = FALSE
  /\ UNCHANGED <<disk, nwrite, file>>

----------------------------------------------------------------------------
Init ==
  /\ file \in {"ops", "data"}
  /\ disk = Persisted
  /\ mem = [i \in Inst |-> 0]
  /\ life = [i \in Inst |-> "none"]
  /\ own = [i \in Inst |-> "none"]
  /\ reg = NoInst
  /\ flusher = FALSE /\ stopping = FALSE
  /\ nwrite = 0 /\ ncrash = 0

Next ==
  \/ \E i \in Inst : \/ Make(i) \/ Load(i) \/ Register(i) \/ Write(i)
                     \/ Close(i) \/ CloseFail(i) \/ Collect(i)
  \/ Flush \/ StopPool \/ StartPool \/ OtherRegister \/ Crash

Spec == Init /\ [][Next]_vars

\* The flush thread runs every 10 seconds, and stop_pool does not stop halfway.
FairSpec ==
  /\ Spec
  /\ WF_vars(Flush)
  /\ \A i \in Inst : WF_vars(stopping /\ Close(i))

----------------------------------------------------------------------------
\* Types of the file, the instances and the registry.
TypeOK ==
  /\ file \in {"ops", "data"}
  /\ disk \in Nat /\ mem \in [Inst -> Nat]
  /\ life \in [Inst -> {"none", "made", "half", "live", "closed", "failed", "gone"}]
  /\ own \in [Inst -> {"none", "owner", "denied"}]
  /\ reg \in Inst \cup {NoInst}
  /\ flusher \in BOOLEAN /\ stopping \in BOOLEAN
  /\ nwrite \in Nat /\ ncrash \in Nat

\* Only the live owner of the file writes it: an instance that was denied
\* ownership stays denied after the owner is closed, and a closed or late one
\* does not touch the file of its successor.
OnlyOwnerWrites ==
  [][disk' # disk => \E i \in Inst : own[i] = "owner" /\ reg = i /\ disk' = mem[i]]_vars

\* A file has one owner, which is the registered instance.
OneOwner == \A i \in Inst : own[i] = "owner" <=> reg = i

\* No sync replaces a snapshot by an older one, over flushes, shutdowns,
\* restarts in one process and crashes, but for one window: the flush thread
\* may sync an instance of store.py or checkpoint.py between its registration
\* and its load, while it is empty.
NoStaleOverwrite ==
  [][disk' >= disk \/ \E i \in Inst : reg = i /\ life[i] = "half" /\ ~LoadFirst]_vars

\* An instance in use has asked for ownership; with it, OneOwner and TypeOK,
\* OnlyOwnerWrites follows.
InUseRegistered ==
  \A i \in Inst : life[i] = "live" \/ (life[i] = "half" /\ ~LoadFirst) => own[i] # "none"

\* What is written to the owner in use reaches the file, by a flush or by the
\* final sync of its close, unless the process crashes, that sync fails, or the
\* last reference to the owner goes away without a close.
WritesReachDisk ==
  \A i \in Inst, v \in 1..(Persisted + MaxWrite), n \in 0..MaxCrash :
    own[i] = "owner" /\ life[i] = "live" /\ mem[i] = v /\ ncrash = n
    ~> disk >= v \/ ncrash # n \/ life[i] \in {"failed", "gone"}

============================================================================
