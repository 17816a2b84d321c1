---------------------------- MODULE ThreadStore ----------------------------
(***************************************************************************)
(* The in-memory metadata store of langgraph_runtime_inmem (ops.py,        *)
(* database.py): the "threads" list, the "runs" list, the "thread_ttls"    *)
(* sidecar and the module-level set _THREAD_TTL_MAINTENANCE.  The modules  *)
(* Threads and Runs give the operations on it, ThreadRuns composes them.   *)
(*                                                                         *)
(* Everything runs on one asyncio loop, so code between two awaits that    *)
(* really suspend is one atomic step.  An operation that suspends while it *)
(* holds something it read (an object, a list, an id) is a task.           *)
(***************************************************************************)
EXTENDS Integers, FiniteSets

CONSTANTS
  Tid,                (* thread ids; numbers, for the id tie-break of sorts *)
  Client,             (* concurrent API requests that may be suspended      *)
  MaxSlot,            (* bound: threads ever appended to the list           *)
  MaxRun,             (* bound: runs ever created                           *)
  MaxTime,            (* bound: the clock                                   *)
  MaxVer,             (* bound: times one thread is patched                 *)
  MaxRestart,         (* bound: process restarts                            *)
  MaxAttempt,         (* attempts after which a worker no longer retries    *)
  Concurrency,        (* config.N_JOBS_PER_WORKER                           *)
  SweepLimit,         (* THREAD_TTL "sweep_limit"                           *)
  GlobalTTL,          (* THREAD_TTL, or NoTTL                               *)
  TTLInput,           (* ttl arguments a client may send                    *)
  IfNotExists,        (* if_not_exists arguments a client may send          *)
  Prevent,            (* prevent_insert_if_inflight arguments               *)
  AfterSeconds,       (* after_seconds arguments                            *)
  CancelAction,       (* action arguments of Runs.cancel                    *)
  Outcome,            (* run_status a worker may report                     *)
  BaseStatus,         (* thread statuses a checkpoint may call for          *)
  Workload,           (* operations the environment performs                *)
  CustomCheckpointer, (* USE_CUSTOM_CHECKPOINTER: its calls suspend, fail   *)
  AuthSuspends        (* an auth handler is installed and suspends          *)

NoTid == 0

Slot == 1..MaxSlot
Rid == 1..MaxRun
Time == 0..MaxTime

TTLConfig == [strategy : {"delete", "keep_latest"}, minutes : Nat]
NoTTL == [strategy |-> "none", minutes |-> 0]
\* ttl arguments that _normalize_ttl_config maps to None, or rejects with 422.
ClearTTL == [strategy |-> "clear", minutes |-> 0]
BadTTL == [strategy |-> "bad", minutes |-> 0]

\* The constants have the types the code gives them.
ASSUME ConstantsAssumption ==
  /\ Tid \subseteq Nat \ {NoTid}
  /\ MaxSlot \in Nat /\ MaxRun \in Nat /\ MaxTime \in Nat
  /\ MaxVer \in Nat /\ MaxRestart \in Nat /\ MaxAttempt \in Nat
  /\ Concurrency \in Nat \ {0}
  /\ SweepLimit \in Nat
  /\ GlobalTTL \in TTLConfig \cup {NoTTL}
  /\ TTLInput \subseteq TTLConfig \cup {NoTTL, ClearTTL, BadTTL}
  /\ IfNotExists \subseteq {"create", "reject"}
  /\ Prevent \subseteq BOOLEAN
  /\ AfterSeconds \subseteq Nat
  /\ CancelAction \subseteq {"interrupt", "rollback"}
  /\ Outcome \subseteq {"success", "error", "pending", "interrupted", "rollback"}
  /\ BaseStatus \subseteq {"idle", "interrupted"}
  /\ CustomCheckpointer \in BOOLEAN /\ AuthSuspends \in BOOLEAN

VARIABLES
  now,       (* datetime.now(UTC)                                           *)
  thr,       (* store["threads"]: slot s is the s-th thread ever appended   *)
  nslot,     (* slots used so far                                           *)
  runs,      (* store["runs"]: run r is the r-th run ever created           *)
  nrun,      (* runs created so far                                         *)
  ttl,       (* store["thread_ttls"]                                        *)
  maint,     (* _THREAD_TTL_MAINTENANCE                                     *)
  task,      (* suspended API requests                                      *)
  sweep,     (* the TTL sweeper task                                        *)
  queue,     (* the scheduler task, queue.queue                             *)
  worker,    (* workers executing runs                                      *)
  attempt,   (* retry_counter                                               *)
  restarts,  (* process restarts so far                                     *)
  pruned,    (* history: threads pruned in their present state              *)
  sent,      (* control messages of cancels that a worker may still hear    *)
  back       (* history: cancelled runs, with their threads, that a worker  *)
             (* which had not heard of the cancel put back to pending       *)

store == <<thr, nslot, runs, nrun, ttl>>
vars == <<now, store, maint, task, sweep, queue, worker, attempt, restarts, pruned, sent, back>>

----------------------------------------------------------------------------
(* Records.  A thread object is identified by its slot and the number of   *)
(* times Threads.patch replaced it there.  An emptied slot is never reused.*)

ThreadStatus == {"idle", "busy", "interrupted", "error"}
Thread == [tid : Tid \cup {NoTid}, ver : 0..MaxVer, status : ThreadStatus, upd : Time]
NoThread == [tid |-> NoTid, ver |-> 0, status |-> "idle", upd |-> 0]

Ref == [slot : 0..MaxSlot, ver : 0..MaxVer]
NoRef == [slot |-> 0, ver |-> 0]

Active == {"pending", "running"}
RunStatus == Active \cup {"success", "error", "interrupted"}
Run == [tid : Tid \cup {NoTid}, status : RunStatus \cup {"absent"}, at : Nat]
NoRun == [tid |-> NoTid, status |-> "absent", at |-> 0]

\* A sidecar entry; swept = -1 when there is no last_swept_updated_at.
TTLState == [over : TTLConfig \cup {NoTTL}, swept : Time \cup {-1}]
NoEntry == [over |-> NoTTL, swept |-> -1]

Task == [op : {"idle", "create", "patch", "delete", "rundel", "eager"},
         tid : Tid \cup {NoTid}, rid : 0..MaxRun, ref : Ref,
         ttl : TTLConfig \cup {NoTTL, ClearTTL, BadTTL},
         stale : BOOLEAN, prevent : BOOLEAN, after : Nat, at : Time]
Idle == [op |-> "idle", tid |-> NoTid, rid |-> 0, ref |-> NoRef, ttl |-> NoTTL,
         stale |-> FALSE, prevent |-> FALSE, after |-> 0, at |-> 0]

\* The sweeper: the rest of its batch, and what it holds of the thread it claimed.
Sweeper == [pc : {"idle", "loop", "delete", "prune"}, todo : SUBSET [tid : Tid, at : Nat],
            tid : Tid \cup {NoTid}, ref : Ref, state : TTLState, upd : Time]
NoSweep == [pc |-> "idle", todo |-> {}, tid |-> NoTid, ref |-> NoRef,
            state |-> NoEntry, upd |-> 0]

\* The scheduler: the time and the limit Runs.next read before it slept.
Scheduler == [pc : {"idle", "next"}, now : Time, limit : 0..Concurrency]
NoQueue == [pc |-> "idle", now |-> 0, limit |-> 0]

Action == {"interrupt", "rollback"}

\* A worker: the cancellation it received, and what set_joint_status holds
\* while a rollback is suspended.
Worker == [pc : {"off", "exec", "rollback"}, tid : Tid \cup {NoTid},
           sig : Action \cup {"none"}, ref : Ref, at : Time,
           base : {"idle", "interrupted"}]
NoWorker == [pc |-> "off", tid |-> NoTid, sig |-> "none", ref |-> NoRef, at |-> 0,
             base |-> "idle"]

----------------------------------------------------------------------------
(* Lookups.                                                                *)

\* The slots whose thread has this id; more than one only for duplicates.
SlotsOf(t) == {s \in Slot : thr[s].tid = t}

\* next((t for t in store["threads"] if t["thread_id"] == thread_id), None).
Lookup(t) == {s \in SlotsOf(t) : \A u \in SlotsOf(t) : s <= u}

Exists(t) == SlotsOf(t) # {}

RefTo(s) == [slot |-> s, ver |-> thr[s].ver]

\* The object a reference denotes is still the list element.
Attached(ref) == ref.slot \in Slot /\ thr[ref.slot].tid # NoTid /\ thr[ref.slot].ver = ref.ver

HasActive(rs, t) == \E r \in Rid : rs[r].tid = t /\ rs[r].status \in Active

\* The event loop is free for another task: a sweep lets others run only
\* while it awaits a custom checkpointer.
LoopFree == sweep.pc = "idle" \/ (CustomCheckpointer /\ sweep.pc # "loop")

\* The wait of _wait_for_thread_ttl_maintenance is over.
MutMaintenanceOver(t) == TRUE
MaintenanceOver(t) == t \notin maint

----------------------------------------------------------------------------
(* Updates.                                                                *)

AppendThread(t, status, upd) ==
  /\ nslot < MaxSlot
  /\ nslot' = nslot + 1
  /\ thr' = [thr EXCEPT ![nslot + 1] =
               [tid |-> t, ver |-> 0, status |-> status, upd |-> upd]]

\* _set_thread_ttl_override; a rejected ttl raises and leaves the sidecar as
\* it is, after the thread itself was added or replaced.
WithOverride(t, in) ==
  IF in \in TTLConfig THEN [ttl EXCEPT ![t] = [over |-> in, swept |-> -1]]
  ELSE IF in = ClearTTL THEN [ttl EXCEPT ![t] = NoEntry]
  ELSE ttl

\* [r for r in store["runs"] if not P(r)], for the runs rs.
WithoutRuns(rs) == [r \in Rid |-> IF r \in rs THEN NoRun ELSE runs[r]]

MutRunsOf(t) == {r \in Rid : runs[r].tid = t /\ runs[r].status \in Active}
RunsOf(t) == {r \in Rid : runs[r].tid = t}

============================================================================
