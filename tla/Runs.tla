-------------------------------- MODULE Runs --------------------------------
(***************************************************************************)
(* class Runs of ops.py, the scheduler queue.queue and the end of a worker *)
(* (Threads.set_joint_status) on the store of ThreadStore.  The worker     *)
(* itself is langgraph_api's: it executes a run for some time and then     *)
(* reports an outcome.                                                     *)
(***************************************************************************)
EXTENDS Threads

----------------------------------------------------------------------------
(* Runs.put.                                                               *)

\* The insertion: an inflight run is returned instead, or the run is appended.
InsertRun(t, prevent, after) ==
  \/ /\ prevent /\ HasActive(runs, t)
     /\ UNCHANGED <<runs, nrun>>
  \/ /\ ~(prevent /\ HasActive(runs, t))
     /\ nrun < MaxRun /\ now + after < MaxTime
     /\ nrun' = nrun + 1
     /\ runs' = [runs EXCEPT ![nrun + 1] =
                   [tid |-> t, status |-> "pending", at |-> now + after]]

\* On an existing thread nothing is awaited after the maintenance gate.
RunsPut(t, prevent, after) ==
  /\ Requested("Runs.put")
  /\ MaintenanceOver(t)
  /\ \E s \in Lookup(t) :
       \/ thr[s].status = "busy" /\ UNCHANGED <<thr, pruned>>
       \/ /\ thr[s].status # "busy"
          /\ thr' = [thr EXCEPT ![s].status = "busy", ![s].upd = now]
          /\ pruned' = pruned \ {t}
  /\ InsertRun(t, prevent, after)
  /\ UNCHANGED <<now, nslot, ttl, maint, task, sweep, queue, worker, attempt, restarts, sent, back>>

\* With if_not_exists="create", "await logger.ainfo" suspends between the
\* check that the thread is missing and its append.
RunsPutCreate(c, t, prevent, after) ==
  /\ Requested("Runs.put") /\ "create" \in IfNotExists
  /\ MaintenanceOver(t)
  /\ ~Exists(t)
  /\ Suspend(c, [Idle EXCEPT !.op = "create", !.tid = t, !.prevent = prevent,
                             !.after = after, !.at = now])
  /\ UNCHANGED <<now, store, maint, sweep, queue, worker, attempt, restarts, sent, back, pruned>>

RunsPutAppend(c) ==
  /\ Resumable(c, "create")
  /\ AppendThread(task[c].tid, "busy", task[c].at)
  /\ InsertRun(task[c].tid, task[c].prevent, task[c].after)
  /\ Resume(c)
  /\ UNCHANGED <<now, ttl, maint, sweep, queue, worker, attempt, restarts, sent, back, pruned>>

----------------------------------------------------------------------------
(* Runs.delete, which leaves the status of the thread alone.               *)

RunsDelete(r) ==
  /\ Requested("Runs.delete")
  /\ ~CustomCheckpointer
  /\ runs[r].status # "absent"
  /\ runs' = WithoutRuns({r})
  /\ UNCHANGED <<now, thr, nslot, nrun, ttl, maint, task, sweep, queue, worker, attempt, restarts, sent, back, pruned>>

RunsDeleteCall(c, r) ==
  /\ Requested("Runs.delete")
  /\ CustomCheckpointer
  /\ runs[r].status # "absent"
  /\ Suspend(c, [Idle EXCEPT !.op = "rundel", !.rid = r])
  /\ UNCHANGED <<now, store, maint, sweep, queue, worker, attempt, restarts, sent, back, pruned>>

RunsDeleteFinish(c) ==
  /\ Resumable(c, "rundel")
  /\ runs' = WithoutRuns({task[c].rid})
  /\ Resume(c)
  /\ UNCHANGED <<now, thr, nslot, nrun, ttl, maint, sweep, queue, worker, attempt, restarts, sent, back, pruned>>

RunsDeleteFail(c) ==
  /\ CustomCheckpointer
  /\ Resumable(c, "rundel")
  /\ Resume(c)
  /\ UNCHANGED <<now, store, maint, sweep, queue, worker, attempt, restarts, sent, back, pruned>>

----------------------------------------------------------------------------
(* Runs.cancel of one run.  A run without subscriber queues is deleted     *)
(* after a logging await when the action is "rollback"; whether there are  *)
(* queues is left open.                                                    *)

MutCancelable(r) == runs[r].status # "absent"
Cancelable(r) == runs[r].status \in Active

\* stream_manager.put of the control message, which runs later, in gather.
Signal(r, action) == sent' = [sent EXCEPT ![r] = @ \cup {action}]

RunsCancel(r, action) ==
  /\ Requested("Runs.cancel")
  /\ Cancelable(r)
  /\ IF runs[r].status = "pending"
       THEN /\ thr' = [s \in Slot |-> IF s \in Lookup(runs[r].tid)
                         THEN [thr[s] EXCEPT !.status = "idle", !.upd = now] ELSE thr[s]]
            /\ pruned' = pruned \ {runs[r].tid}
       ELSE UNCHANGED <<thr, pruned>>
  /\ runs' = [runs EXCEPT ![r].status = "interrupted"]
  /\ Signal(r, action)
  /\ UNCHANGED <<now, nslot, nrun, ttl, maint, task, sweep, queue, worker, attempt, restarts, back>>

RunsCancelEager(c, r) ==
  /\ Requested("Runs.cancel") /\ "rollback" \in CancelAction
  /\ Cancelable(r)
  /\ Suspend(c, [Idle EXCEPT !.op = "eager", !.rid = r])
  /\ UNCHANGED <<now, store, maint, sweep, queue, worker, attempt, restarts, sent, back, pruned>>

\* gather(put, Runs.delete) after the log; a run that is gone by now is a 404.
RunsCancelDelete(c) ==
  /\ Resumable(c, "eager")
  /\ Signal(task[c].rid, "rollback")
  /\ \/ /\ CustomCheckpointer /\ runs[task[c].rid].status # "absent"
        /\ task' = [task EXCEPT ![c].op = "rundel"]
        /\ UNCHANGED runs
     \/ /\ ~CustomCheckpointer \/ runs[task[c].rid].status = "absent"
        /\ runs' = WithoutRuns({task[c].rid})
        /\ Resume(c)
  /\ UNCHANGED <<now, thr, nslot, nrun, ttl, maint, sweep, queue, worker, attempt, restarts, back, pruned>>

\* listen_for_cancellation: the worker's listener gets a control message, and
\* the first one counts.  A worker may as well never hear it: a subscriber took
\* it out of the control queue, or the listener had given up after 240 s.
WorkerHears(r, action) ==
  /\ worker[r].pc = "exec" /\ worker[r].sig = "none" /\ LoopFree
  /\ action \in sent[r]
  /\ worker' = [worker EXCEPT ![r].sig = action]
  /\ UNCHANGED <<now, store, maint, task, sweep, queue, attempt, restarts, sent, back, pruned>>

----------------------------------------------------------------------------
(* queue.queue and Runs.next.                                              *)

Working == {r \in Rid : worker[r].pc # "off"}

\* runners.qsize()
MutAllRunners == Concurrency
FreeRunners == Concurrency - Cardinality(Working)

\* The scheduler found a free runner; Runs.next reads the time and the limit
\* (runners.qsize()) before it sleeps.
QueueWake ==
  /\ queue.pc = "idle" /\ LoopFree
  /\ FreeRunners > 0
  /\ queue' = [pc |-> "next", now |-> now, limit |-> FreeRunners]
  /\ UNCHANGED <<now, store, maint, task, sweep, worker, attempt, restarts, sent, back, pruned>>

\* The sort of pending_runs; it is stable, so equal times keep list order.
MutRunsBefore(q, r) == q > r
RunsBefore(q, r) == runs[q].at < runs[r].at \/ (runs[q].at = runs[r].at /\ q < r)

PendingRuns == {r \in Rid : runs[r].status = "pending" /\ runs[r].at < queue.now}

\* zip(range(limit), pending_runs): blocked runs count against the limit.
Batch == {r \in PendingRuns : Cardinality({q \in PendingRuns : RunsBefore(q, r)}) < queue.limit}

\* any(run["status"] == "running" for run ... if run["thread_id"] == thread_id)
MutThreadBusy(r) == FALSE
MutThreadInflight(r) == \E q \in Rid \ {r} : runs[q].tid = runs[r].tid /\ runs[q].status \in Active
ThreadBusy(r) == \E q \in Rid : runs[q].tid = runs[r].tid /\ runs[q].status = "running"

\* The runs the loop sets to "running"; a later run of the batch on the same
\* thread finds the earlier one running.
Claimed ==
  {r \in Batch : /\ Exists(runs[r].tid)
                 /\ ~ThreadBusy(r)
                 /\ ~ \E q \in Batch : RunsBefore(q, r) /\ runs[q].tid = runs[r].tid}

\* Runs.sweep: its body is "pass".
RunsSweep(rs) == rs

QueueClaim ==
  /\ queue.pc = "next" /\ LoopFree
  /\ runs' = RunsSweep([r \in Rid |-> IF r \in Claimed
                          THEN [runs[r] EXCEPT !.status = "running"] ELSE runs[r]])
  /\ worker' = [r \in Rid |-> IF r \in Claimed
                  THEN [NoWorker EXCEPT !.pc = "exec", !.tid = runs[r].tid] ELSE worker[r]]
  /\ attempt' = [r \in Rid |-> IF r \in Claimed /\ attempt[r] < MaxAttempt
                                 THEN attempt[r] + 1 ELSE attempt[r]]
  /\ queue' = NoQueue
  /\ UNCHANGED <<now, thr, nslot, nrun, ttl, maint, task, sweep, restarts, sent, back, pruned>>

----------------------------------------------------------------------------
(* The end of a worker: Threads.set_joint_status.                          *)

\* What langgraph_api's worker reports: it does not retry when it heard of a
\* cancel, nor on its last attempt (the counter is cut off there).
MayReport(r, out) ==
  /\ worker[r].pc = "exec" /\ LoopFree
  /\ out \in Outcome
  /\ out = "pending" => worker[r].sig = "none" /\ attempt[r] < MaxAttempt
  /\ out = "interrupted" => worker[r].sig = "interrupt"
  /\ out = "rollback" => worker[r].sig = "rollback"

\* 404: the thread or the run was deleted under the worker.
Gone(r) == ~Exists(worker[r].tid) \/ runs[r].status = "absent"

StopWorker(r) == worker' = [worker EXCEPT ![r] = NoWorker]

WorkerLost(r, out) ==
  /\ MayReport(r, out) /\ Gone(r)
  /\ StopWorker(r)
  /\ UNCHANGED <<now, store, maint, task, sweep, queue, attempt, restarts, sent, back, pruned>>

\* run.update, then the status of the thread from its remaining active runs.
MutRunStatus(rs, t, base) == IF HasActive(rs, t) THEN "busy" ELSE "success"
MutJointStatus(rs, t, base) == base
JointStatus(rs, t, base) == IF HasActive(rs, t) THEN "busy" ELSE base

SetThread(rs, s, base, upd) ==
  thr' = [thr EXCEPT ![s].status = JointStatus(rs, thr[s].tid, base), ![s].upd = upd]

\* The status of the run is not looked at: it may be "interrupted" by a cancel
\* that the worker did not hear of.
WorkerReport(r, out, base) ==
  /\ out # "rollback"
  /\ MayReport(r, out) /\ ~Gone(r)
  /\ back' = IF out = "pending" /\ runs[r].status = "interrupted"
               THEN back \cup {<<r, worker[r].tid>>} ELSE back
  /\ runs' = [runs EXCEPT ![r].status = out]
  /\ \E s \in Lookup(worker[r].tid) : SetThread(runs', s, IF out = "error" THEN out ELSE base, now)
  /\ pruned' = pruned \ {worker[r].tid}
  /\ StopWorker(r)
  /\ UNCHANGED <<now, nslot, nrun, ttl, maint, task, sweep, queue, attempt, restarts, sent>>

WorkerRollback(r, base) ==
  /\ ~CustomCheckpointer
  /\ MayReport(r, "rollback") /\ ~Gone(r)
  /\ runs' = WithoutRuns({r})
  /\ \E s \in Lookup(worker[r].tid) : SetThread(runs', s, base, now)
  /\ pruned' = pruned \ {worker[r].tid}
  /\ StopWorker(r)
  /\ UNCHANGED <<now, nslot, nrun, ttl, maint, task, sweep, queue, attempt, restarts, sent, back>>

\* A custom checkpointer suspends Runs.delete: set_joint_status then updates
\* the thread object and uses the time it read before.
WorkerRollbackCall(r, base) ==
  /\ CustomCheckpointer
  /\ MayReport(r, "rollback") /\ ~Gone(r)
  /\ \E s \in Lookup(worker[r].tid) :
       worker' = [worker EXCEPT ![r] =
                    [@ EXCEPT !.pc = "rollback", !.ref = RefTo(s), !.at = now, !.base = base]]
  /\ UNCHANGED <<now, store, maint, task, sweep, queue, attempt, restarts, sent, back, pruned>>

WorkerRollbackFinish(r) ==
  /\ worker[r].pc = "rollback" /\ LoopFree
  /\ runs' = WithoutRuns({r})
  /\ \/ /\ Attached(worker[r].ref)
        /\ SetThread(runs', worker[r].ref.slot, worker[r].base, worker[r].at)
        /\ pruned' = pruned \ {worker[r].tid}
     \/ /\ ~Attached(worker[r].ref)
        /\ UNCHANGED <<thr, pruned>>
  /\ StopWorker(r)
  /\ UNCHANGED <<now, nslot, nrun, ttl, maint, task, sweep, queue, attempt, restarts, sent, back>>

WorkerRollbackFail(r) ==
  /\ worker[r].pc = "rollback" /\ LoopFree
  /\ StopWorker(r)
  /\ UNCHANGED <<now, store, maint, task, sweep, queue, attempt, restarts, sent, back, pruned>>

=============================================================================
