----------------------------- MODULE ThreadRuns -----------------------------
(***************************************************************************)
(* Threads, runs, the TTL sweeper, the scheduler and the workers on one    *)
(* event loop, and what they promise each other.                           *)
(***************************************************************************)
EXTENDS Runs

Init ==
  /\ now = 0
  /\ thr = [s \in Slot |-> NoThread] /\ nslot = 0
  /\ runs = [r \in Rid |-> NoRun] /\ nrun = 0
  /\ ttl = [t \in Tid |-> NoEntry]
  /\ maint = {}
  /\ task = [c \in Client |-> Idle]
  /\ sweep = NoSweep
  /\ queue = NoQueue
  /\ worker = [r \in Rid |-> NoWorker]
  /\ attempt = [r \in Rid |-> 0]
  /\ restarts = 0
  /\ pruned = {}
  /\ sent = [r \in Rid |-> {}] /\ back = {}

Tick ==
  /\ now < MaxTime
  /\ now' = now + 1
  /\ UNCHANGED <<store, maint, task, sweep, queue, worker, attempt, restarts, sent, back, pruned>>

\* The process dies and comes back with the metadata it last wrote to disk,
\* here all of it; tasks, workers, the maintenance set and the retry counter
\* (written but never loaded) are gone.
Restart ==
  /\ "restart" \in Workload
  /\ restarts < MaxRestart
  /\ restarts' = restarts + 1
  /\ maint' = {}
  /\ task' = [c \in Client |-> Idle]
  /\ sweep' = NoSweep
  /\ queue' = NoQueue
  /\ worker' = [r \in Rid |-> NoWorker]
  /\ attempt' = [r \in Rid |-> 0]
  /\ pruned' = pruned \ {sweep.tid}
  /\ sent' = [r \in Rid |-> {}]
  /\ UNCHANGED <<now, store, back>>

ThreadsNext ==
  \/ \E t \in Tid, in \in TTLInput : ThreadsPut(t, in)
  \/ \E t, u \in Tid : ThreadsCopy(t, u)
  \/ \E t \in Tid, in \in TTLInput : ThreadsPatch(t, in)
  \/ \E c \in Client, t \in Tid, in \in TTLInput : ThreadsPatchCall(c, t, in)
  \/ \E c \in Client : ThreadsPatchFinish(c)
  \/ \E t \in Tid : ThreadsDelete(t)
  \/ \E c \in Client, t \in Tid : ThreadsDeleteCall(c, t)
  \/ \E c \in Client : ThreadsDeleteFinish(c)
  \/ \E c \in Client : ThreadsDeleteFail(c)
  \/ \E t \in Tid, base \in BaseStatus : ThreadsSetStatus(t, base)

SweepNext ==
  SweepSelect \/ SweepSkip \/ SweepClaim \/ SweepDelete \/ SweepPrune \/ SweepFail \/ SweepEnd

RunsNext ==
  \/ \E t \in Tid, p \in Prevent, a \in AfterSeconds : RunsPut(t, p, a)
  \/ \E c \in Client, t \in Tid, p \in Prevent, a \in AfterSeconds : RunsPutCreate(c, t, p, a)
  \/ \E c \in Client : RunsPutAppend(c)
  \/ \E r \in Rid : RunsDelete(r)
  \/ \E c \in Client, r \in Rid : RunsDeleteCall(c, r)
  \/ \E c \in Client : RunsDeleteFinish(c)
  \/ \E c \in Client : RunsDeleteFail(c)
  \/ \E r \in Rid, a \in CancelAction : RunsCancel(r, a)
  \/ \E c \in Client, r \in Rid : RunsCancelEager(c, r)
  \/ \E c \in Client : RunsCancelDelete(c)
  \/ \E r \in Rid, a \in CancelAction : WorkerHears(r, a)

QueueNext == QueueWake \/ QueueClaim

WorkerNext(r) ==
  \/ \E out \in Outcome : WorkerLost(r, out)
  \/ \E out \in Outcome, base \in BaseStatus : WorkerReport(r, out, base)
  \/ \E base \in BaseStatus : WorkerRollback(r, base)
  \/ \E base \in BaseStatus : WorkerRollbackCall(r, base)
  \/ WorkerRollbackFinish(r)
  \/ WorkerRollbackFail(r)

Next ==
  \/ SweepNext
  \/ ThreadsNext
  \/ RunsNext
  \/ QueueNext
  \/ \E r \in Rid : WorkerNext(r)
  \/ Tick
  \/ Restart

Spec == Init /\ [][Next]_vars

\* The event loop schedules every ready task: the scheduler, the workers
\* (langgraph_api bounds their run time) and suspended requests go on.
Fairness ==
  /\ WF_vars(Tick) /\ WF_vars(SweepNext)
  /\ WF_vars(QueueWake) /\ WF_vars(QueueClaim)
  /\ \A r \in Rid : WF_vars(WorkerNext(r))

FairSpec == Spec /\ Fairness

----------------------------------------------------------------------------
\* Types of the store, of the tasks and of the history variable.
TypeOK ==
  /\ now \in Time
  /\ thr \in [Slot -> Thread] /\ nslot \in 0..MaxSlot
  /\ runs \in [Rid -> Run] /\ nrun \in 0..MaxRun
  /\ ttl \in [Tid -> TTLState]
  /\ maint \subseteq Tid
  /\ task \in [Client -> Task]
  /\ sweep \in Sweeper
  /\ queue \in Scheduler
  /\ worker \in [Rid -> Worker]
  /\ attempt \in [Rid -> 0..MaxAttempt]
  /\ restarts \in 0..MaxRestart
  /\ pruned \subseteq Tid
  /\ sent \in [Rid -> SUBSET Action] /\ back \subseteq Rid \X (Tid \cup {NoTid})

\* Every run belongs to a thread that exists: the branch "Unexpected missing
\* thread in Runs.next" is never taken, whatever Threads.delete races with.
RunsHaveThread == \A r \in Rid : runs[r].status # "absent" => Exists(runs[r].tid)

\* The guard of Runs.next: no thread has two runs in status "running".
OneRunningPerThread ==
  \A q, r \in Rid :
    /\ runs[q].status = "running" /\ runs[r].status = "running"
    /\ runs[q].tid = runs[r].tid
    => q = r

\* The limit that Runs.next read before it slept is never too large for the
\* free runners: runners.get_nowait() in queue.queue does not raise.
RunnersSuffice == Cardinality(Working) <= Concurrency

\* Runs.next starts the runs of a thread in the order of created_at, also
\* after retries, deferred runs (after_seconds) and cut-off batches.
StartInOrder ==
  [][\A q, r \in Rid :
       /\ runs[r].status = "pending" /\ runs'[r].status = "running"
       /\ runs[q].status = "pending" /\ runs[q].tid = runs[r].tid
       => runs[r].at <= runs[q].at]_vars

\* A finished run keeps its outcome: no late cancel, retry or second worker
\* changes "success" or "error".
FinishedStays ==
  [][\A r \in Rid : runs[r].status \in {"success", "error"} =>
       runs'[r].status \in {runs[r].status, "absent"}]_vars

\* A TTL entry belongs to a thread (deleting a thread deletes its TTL entry).
TTLHasThread == \A t \in Tid : ttl[t] # NoEntry => Exists(t)

\* While the sweeper deletes or prunes a thread it claimed, the thread has no
\* pending or running run, but for a cancelled run that its worker, which had
\* not heard of the cancel, put back to pending.
MaintenanceExcludesRuns ==
  sweep.pc \in {"delete", "prune"} =>
    \A r \in Rid : runs[r].tid = sweep.tid /\ runs[r].status \in Active => <<r, sweep.tid>> \in back

\* The claim is made "so a new foreground run cannot appear halfway through TTL
\* deletion/pruning" (Threads.sweep_ttl), which "does not prune a thread while it
\* has a pending or running run" (README): no active run, without exception.
MaintenanceExclusive ==
  sweep.pc \in {"delete", "prune"} => ~HasActive(runs, sweep.tid)

\* When the deletion of an expired thread succeeds, no thread with that id
\* is left, although the object to remove was looked up before the await.
SweepDeleteRemoves ==
  [][sweep.pc = "delete" /\ sweep'.pc = "loop" => \A s \in Slot : thr'[s].tid # sweep.tid]_vars

\* keep_latest does not prune a thread twice in the same state.
NoRepeatPrune ==
  [][sweep.pc # "prune" /\ sweep'.pc = "prune" => sweep'.tid \notin pruned]_vars

\* keep_latest forgets no update: a thread updated since its last prune began
\* has an updated_at after last_swept_updated_at, so it expires again.
UpdatesRearm ==
  \A t \in Tid : \A s \in Lookup(t) : t \notin pruned => ttl[t].swept < thr[s].upd

\* A cancelled run was put back to pending on this thread.
PutBack(t) == \E r \in Rid : <<r, t>> \in back

\* A thread with a pending or running run has status "busy", unless a cancelled
\* run was put back to pending on it: the thread may then have two active runs,
\* and the cancel of either one makes it idle.
ActiveIsBusy ==
  \A t \in Tid : \A s \in Lookup(t) :
    HasActive(runs, t) => thr[s].status = "busy" \/ PutBack(t)

\* A pending run is started, cancelled or deleted.
PendingServed ==
  \A r \in Rid : runs[r].status = "pending" ~> runs[r].status # "pending"

----------------------------------------------------------------------------
(* Inductive strengthenings, used by ThreadRunsProofs.                     *)

\* A task that is going to remove a thread object removes one of its own id.
HoldsRef(t, ref) == ref.slot \in 1..nslot /\ thr[ref.slot].tid \in {t, NoTid}

DeletersHoldRef ==
  /\ \A c \in Client : task[c].op = "delete" => HoldsRef(task[c].tid, task[c].ref)
  /\ sweep.pc = "delete" => HoldsRef(sweep.tid, sweep.ref)

SlotsInOrder == \A s \in Slot : s > nslot => thr[s].tid = NoTid

\* Runs, and suspended calls that are going to create one, name a thread.
RunsNamed ==
  /\ \A r \in Rid : runs[r].status # "absent" => runs[r].tid # NoTid
  /\ \A c \in Client : task[c].op = "create" => task[c].tid # NoTid

\* RunsHaveThread is inductive once slots are appended in order, and what a
\* suspended deletion holds is a thread with the id whose runs it removes.
RunThreadInv == RunsHaveThread /\ RunsNamed /\ SlotsInOrder /\ DeletersHoldRef

ClaimExcludesRuns ==
  MaintenanceExcludesRuns /\ (sweep.pc \in {"delete", "prune"} => sweep.tid \in maint)

RunsInOrder == \A r \in Rid : r > nrun => runs[r].status = "absent" /\ worker[r].pc = "off"

WorkersExecute ==
  \A r \in Rid : worker[r].pc # "off" =>
    /\ runs[r].status \in {"running", "interrupted", "absent"}
    /\ runs[r].status # "absent" => runs[r].tid = worker[r].tid
    /\ worker[r].pc = "rollback" => worker[r].sig # "none"

\* A worker executes a run that is running, was cancelled or was deleted.  So no
\* worker has a finished run to change, nor a pending one that could be started
\* again.
WorkersInv == RunsInOrder /\ WorkersExecute

NoCreation == \A c \in Client : task[c].op # "create"

\* MaintenanceExcludesRuns is inductive with WorkersInv: what a worker puts back
\* to "pending" was "running", which is no new activity on the claimed thread,
\* or it was cancelled.
MaintenanceInv == ClaimExcludesRuns /\ NoCreation

\* The limit that Runs.next read stays within the free runners while it sleeps.
LimitInv == Cardinality(Working) + (IF queue.pc = "next" THEN queue.limit ELSE 0) <= Concurrency

=============================================================================
