------------------------------ MODULE Threads ------------------------------
(***************************************************************************)
(* class Threads of ops.py on the store of ThreadStore: put, patch,        *)
(* delete, copy, set_status (State.post, State.bulk) and the TTL sweeper,  *)
(* sweep_ttl.                                                              *)
(* Checkpoint, stream and cron data are outside this store, and so are the *)
(* metadata and config of a thread; the filters of an auth handler match,  *)
(* except where a request may fail.                                        *)
(***************************************************************************)
EXTENDS ThreadStore

\* A client's call gets the loop.
Requested(op) == op \in Workload /\ LoopFree

\* One operation of an idle client becomes a suspended task.
Suspend(c, rec) ==
  /\ task[c] = Idle
  /\ task' = [task EXCEPT ![c] = rec]

\* A suspended task gets the loop back.
Resumable(c, op) == task[c].op = op /\ LoopFree

Resume(c) == task' = [task EXCEPT ![c] = Idle]

----------------------------------------------------------------------------
(* Threads.put.  An existing thread makes it raise or return, unchanged.   *)

ThreadsPut(t, in) ==
  /\ Requested("Threads.put")
  /\ MaintenanceOver(t)
  /\ ~Exists(t)
  /\ AppendThread(t, "idle", now)
  /\ ttl' = WithOverride(t, in)
  /\ pruned' = pruned \ {t}
  /\ UNCHANGED <<now, runs, nrun, maint, task, sweep, queue, worker, attempt, restarts, sent, back>>

\* Threads.copy: a new thread with the metadata and the TTL override of t.
ThreadsCopy(t, u) ==
  /\ Requested("Threads.copy")
  /\ Exists(t)
  /\ ~Exists(u) /\ u \notin maint /\ ttl[u] = NoEntry  \* u stands for a fresh uuid4
  /\ \A c \in Client : task[c].tid # u
  /\ AppendThread(u, "idle", now)
  /\ ttl' = [ttl EXCEPT ![u] = [over |-> ttl[t].over, swept |-> -1]]
  /\ pruned' = pruned \ {u}
  /\ UNCHANGED <<now, runs, nrun, maint, task, sweep, queue, worker, attempt, restarts, sent, back>>

----------------------------------------------------------------------------
(* Threads.patch takes store["threads"] before its awaits and resolves the *)
(* id again in that list after them.  Threads.delete assigns a new list,   *)
(* so a patch that was suspended meanwhile (stale) replaces an element of  *)
(* a list nobody reads any more; only its TTL override reaches the store.  *)

ApplyPatch(t, in) ==
  /\ \E s \in Lookup(t) :
       /\ thr[s].ver < MaxVer
       /\ thr' = [thr EXCEPT ![s].ver = @ + 1, ![s].upd = now]
  /\ ttl' = WithOverride(t, in)
  /\ pruned' = pruned \ {t}

ThreadsPatch(t, in) ==
  /\ Requested("Threads.patch")
  /\ MaintenanceOver(t)
  /\ ApplyPatch(t, in)
  /\ UNCHANGED <<now, nslot, runs, nrun, maint, task, sweep, queue, worker, attempt, restarts, sent, back>>

ThreadsPatchCall(c, t, in) ==
  /\ Requested("Threads.patch")
  /\ AuthSuspends \/ t \in maint
  /\ Exists(t)
  /\ Suspend(c, [Idle EXCEPT !.op = "patch", !.tid = t, !.ttl = in])
  /\ UNCHANGED <<now, store, maint, sweep, queue, worker, attempt, restarts, sent, back, pruned>>

ThreadsPatchFinish(c) ==
  /\ Resumable(c, "patch")
  /\ MaintenanceOver(task[c].tid)
  /\ LET t == task[c].tid IN
       \/ /\ ~task[c].stale
          /\ ApplyPatch(t, task[c].ttl)
       \/ /\ task[c].stale
          /\ ttl' = WithOverride(t, task[c].ttl)
          /\ pruned' = IF ttl' = ttl THEN pruned ELSE pruned \ {t}
          /\ UNCHANGED thr
  /\ Resume(c)
  /\ UNCHANGED <<now, nslot, runs, nrun, maint, sweep, queue, worker, attempt, restarts, sent, back>>

----------------------------------------------------------------------------
(* Threads.delete looks the object up first, then awaits authorisation and *)
(* the checkpointer, then removes the runs of the id and that object.      *)

\* Every suspended patch now holds a list that is no longer the store's.
Unlisted(tk) ==
  [c \in Client |-> [tk[c] EXCEPT !.stale = (@ \/ tk[c].op = "patch")]]

\* _thread_ttl_store(conn).pop(str(thread_id), None)
MutWithoutTTL(t) == ttl
WithoutTTL(t) == [ttl EXCEPT ![t] = NoEntry]

ApplyDelete(t, ref) ==
  /\ runs' = WithoutRuns(RunsOf(t))
  /\ thr' = [s \in Slot |-> IF s = ref.slot /\ Attached(ref) THEN NoThread ELSE thr[s]]
  /\ ttl' = WithoutTTL(t)
  /\ pruned' = pruned \ {t}

ThreadsDelete(t) ==
  /\ Requested("Threads.delete")
  /\ ~CustomCheckpointer
  /\ \E s \in Lookup(t) : ApplyDelete(t, RefTo(s))
  /\ task' = Unlisted(task)
  /\ UNCHANGED <<now, nslot, nrun, maint, sweep, queue, worker, attempt, restarts, sent, back>>

ThreadsDeleteCall(c, t) ==
  /\ Requested("Threads.delete")
  /\ AuthSuspends \/ CustomCheckpointer
  /\ \E s \in Lookup(t) :
       Suspend(c, [Idle EXCEPT !.op = "delete", !.tid = t, !.ref = RefTo(s)])
  /\ UNCHANGED <<now, store, maint, sweep, queue, worker, attempt, restarts, sent, back, pruned>>

ThreadsDeleteFinish(c) ==
  /\ Resumable(c, "delete")
  /\ ApplyDelete(task[c].tid, task[c].ref)
  /\ task' = Unlisted([task EXCEPT ![c] = Idle])
  /\ UNCHANGED <<now, nslot, nrun, maint, sweep, queue, worker, attempt, restarts, sent, back>>

\* The checkpointer raises, or the filter of the auth handler does not match.
ThreadsDeleteFail(c) ==
  /\ Resumable(c, "delete")
  /\ Resume(c)
  /\ UNCHANGED <<now, store, maint, sweep, queue, worker, attempt, restarts, sent, back, pruned>>

----------------------------------------------------------------------------
(* Threads.set_status, the last step of State.post and State.bulk.  It     *)
(* does not wait for TTL maintenance.                                      *)

ThreadsSetStatus(t, base) ==
  /\ Requested("Threads.state")
  /\ \E s \in Lookup(t) :
       thr' = [thr EXCEPT ![s].upd = now,
                          ![s].status = IF HasActive(runs, t) THEN "busy" ELSE base]
  /\ pruned' = pruned \ {t}
  /\ UNCHANGED <<now, nslot, runs, nrun, ttl, maint, task, sweep, queue, worker, attempt, restarts, sent, back>>

----------------------------------------------------------------------------
(* Threads.sweep_ttl.  One sweep selects the expired threads, then claims  *)
(* and revalidates them one by one.                                        *)

\* _effective_thread_ttl
EffectiveTTL(t) == IF ttl[t].over # NoTTL THEN ttl[t].over ELSE GlobalTTL

\* last_swept_updated_at >= updated_at under keep_latest.
MutAlreadyPruned(t, upd) ==
  EffectiveTTL(t).strategy = "keep_latest" /\ ttl[t].swept > upd
AlreadyPruned(t, upd) ==
  EffectiveTTL(t).strategy = "keep_latest" /\ ttl[t].swept >= upd

\* The test that selects a thread, and that is made again when it is claimed.
Expired(t, upd) ==
  /\ ~HasActive(runs, t)
  /\ EffectiveTTL(t) # NoTTL
  /\ ~AlreadyPruned(t, upd)
  /\ upd + EffectiveTTL(t).minutes <= now

\* expired.sort(key=...), then the limit.
SweepsBefore(e, f) == e.at < f.at \/ (e.at = f.at /\ e.tid < f.tid)
Selected(all) == {e \in all : Cardinality({f \in all : SweepsBefore(f, e)}) < SweepLimit}

SweepSelect ==
  /\ Requested("sweep")
  /\ sweep.pc = "idle"
  /\ LET live == {s \in Slot : thr[s].tid # NoTid /\ Expired(thr[s].tid, thr[s].upd)}
         all == {[tid |-> thr[s].tid, at |-> thr[s].upd + EffectiveTTL(thr[s].tid).minutes] :
                   s \in live}
     IN /\ all # {}
        /\ sweep' = [NoSweep EXCEPT !.pc = "loop", !.todo = Selected(all)]
  /\ UNCHANGED <<now, store, maint, task, queue, worker, attempt, restarts, sent, back, pruned>>

\* The head of the remaining batch.
SweepHead(e) == e \in sweep.todo /\ \A f \in sweep.todo \ {e} : SweepsBefore(e, f)

\* The claimed thread is gone, was used, or its TTL was changed meanwhile.
SweepSkip ==
  /\ sweep.pc = "loop"
  /\ \E e \in sweep.todo :
       /\ SweepHead(e)
       /\ \/ e.tid \in maint
          \/ ~ \E s \in Lookup(e.tid) : Expired(e.tid, thr[s].upd)
       /\ sweep' = [sweep EXCEPT !.todo = @ \ {e}]
  /\ UNCHANGED <<now, store, maint, task, queue, worker, attempt, restarts, sent, back, pruned>>

SweepClaim ==
  /\ sweep.pc = "loop"
  /\ \E e \in sweep.todo : \E s \in Lookup(e.tid) :
       /\ SweepHead(e)
       /\ e.tid \notin maint
       /\ Expired(e.tid, thr[s].upd)
       /\ maint' = maint \cup {e.tid}
       /\ LET keep == EffectiveTTL(e.tid).strategy = "keep_latest" IN
            /\ sweep' = [pc |-> IF keep THEN "prune" ELSE "delete", todo |-> sweep.todo \ {e},
                         tid |-> e.tid, ref |-> RefTo(s), state |-> ttl[e.tid],
                         upd |-> thr[s].upd]
            /\ pruned' = IF keep THEN pruned \cup {e.tid} ELSE pruned
  /\ UNCHANGED <<now, store, task, queue, worker, attempt, restarts, sent, back>>

\* finally: _THREAD_TTL_MAINTENANCE.discard(thread_key), and on with the loop.
SweepRelease(next) ==
  /\ maint' = maint \ {sweep.tid}
  /\ sweep' = [NoSweep EXCEPT !.pc = next, !.todo = IF next = "loop" THEN sweep.todo ELSE {}]

SweepDelete ==
  /\ sweep.pc = "delete"
  /\ ApplyDelete(sweep.tid, sweep.ref)
  /\ task' = Unlisted(task)
  /\ SweepRelease("loop")
  /\ UNCHANGED <<now, nslot, nrun, queue, worker, attempt, restarts, sent, back>>

\* last_swept_updated_at is the updated_at read before aprune.
MutSweptMark == now
SweptMark == sweep.upd

SweepPrune ==
  /\ sweep.pc = "prune"
  /\ ttl' = [ttl EXCEPT ![sweep.tid] = [sweep.state EXCEPT !.swept = SweptMark]]
  /\ SweepRelease("loop")
  /\ UNCHANGED <<now, thr, nslot, runs, nrun, task, queue, worker, attempt, restarts, sent, back, pruned>>

\* An exception of the custom checkpointer ends this sweep; the loop of
\* thread_ttl.py starts another one later.
SweepFail ==
  /\ CustomCheckpointer
  /\ sweep.pc \in {"delete", "prune"}
  /\ SweepRelease("idle")
  /\ pruned' = pruned \ {sweep.tid}
  /\ UNCHANGED <<now, store, task, queue, worker, attempt, restarts, sent, back>>

SweepEnd ==
  /\ sweep.pc = "loop" /\ sweep.todo = {}
  /\ sweep' = NoSweep
  /\ UNCHANGED <<now, store, maint, task, queue, worker, attempt, restarts, sent, back, pruned>>

============================================================================
