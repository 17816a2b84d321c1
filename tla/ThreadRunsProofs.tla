-------------------------- MODULE ThreadRunsProofs --------------------------
(***************************************************************************)
(* Proofs about ThreadRuns, for all values of its constants: types, the    *)
(* safety of runs, and the TTL sweeper of Threads.sweep_ttl against runs,  *)
(* requests and deletions.                                                 *)
(***************************************************************************)
EXTENDS ThreadRuns, FiniteSetTheorems, WellFoundedInduction, TLAPS

----------------------------------------------------------------------------
(* Types of the records and of the updates the actions are built from.     *)

\* The empty records have their types.
LEMMA NullTypes ==
  /\ NoRef \in Ref /\ NoThread \in Thread /\ NoRun \in Run /\ NoEntry \in TTLState
  /\ Idle \in Task /\ NoSweep \in Sweeper /\ NoQueue \in Scheduler /\ NoWorker \in Worker
<1>1. NoRef \in Ref
  BY ConstantsAssumption DEF NoRef, Ref
<1>2. NoThread \in Thread
  BY ConstantsAssumption DEF NoThread, Thread, ThreadStatus, Time
<1>3. NoRun \in Run
  BY DEF NoRun, Run
<1>4. NoEntry \in TTLState
  BY DEF NoEntry, TTLState
<1>5. Idle \in Task
  BY <1>1, ConstantsAssumption DEF Idle, Task, Time
<1>6. NoSweep \in Sweeper
  BY <1>1, <1>4, ConstantsAssumption DEF NoSweep, Sweeper, Time
<1>7. NoQueue \in Scheduler
  BY ConstantsAssumption DEF NoQueue, Scheduler, Time
<1>8. NoWorker \in Worker
  BY <1>1, ConstantsAssumption DEF NoWorker, Worker, Time
<1> QED
  BY <1>1, <1>2, <1>3, <1>4, <1>5, <1>6, <1>7, <1>8

\* Appending a thread to store["threads"] keeps its type.
LEMMA AppendType ==
  ASSUME TypeOK, NEW t \in Tid \cup {NoTid}, NEW status \in ThreadStatus, NEW upd \in Time,
         AppendThread(t, status, upd)
  PROVE  thr' \in [Slot -> Thread] /\ nslot' \in 0..MaxSlot
BY ConstantsAssumption DEF TypeOK, AppendThread, Thread, Slot

\* _set_thread_ttl_override keeps the type of the sidecar.
LEMMA OverrideType ==
  ASSUME TypeOK, NEW t, NEW in
  PROVE  WithOverride(t, in) \in [Tid -> TTLState]
BY NullTypes, ConstantsAssumption DEF TypeOK, WithOverride, TTLState

\* A looked-up slot holds a thread with the id.
LEMMA LookupType ==
  ASSUME NEW t, NEW s \in Lookup(t)
  PROVE  s \in Slot /\ thr[s].tid = t
BY DEF Lookup, SlotsOf

\* The reference to a list element has its type.
LEMMA RefType ==
  ASSUME TypeOK, NEW s \in Slot
  PROVE  RefTo(s) \in Ref
BY ConstantsAssumption DEF TypeOK, RefTo, Ref, Thread, Slot

\* Updating status and updated_at of a thread keeps its type.
LEMMA StatusType ==
  ASSUME NEW f \in [Slot -> Thread], NEW s \in Slot, NEW st \in ThreadStatus, NEW u \in Time
  PROVE  [f EXCEPT ![s].status = st, ![s].upd = u] \in [Slot -> Thread]
BY DEF Thread

\* Filtering store["runs"] keeps its type.
LEMMA WithoutRunsType ==
  ASSUME TypeOK, NEW S
  PROVE  WithoutRuns(S) \in [Rid -> Run]
BY NullTypes DEF TypeOK, WithoutRuns

\* The replacement Threads.patch makes keeps all types.
LEMMA PatchType ==
  ASSUME TypeOK, NEW t, NEW in, ApplyPatch(t, in)
  PROVE  thr' \in [Slot -> Thread] /\ ttl' \in [Tid -> TTLState] /\ pruned' \subseteq Tid
<1>1. thr' \in [Slot -> Thread]
  BY LookupType, ConstantsAssumption DEF TypeOK, ApplyPatch, Thread
<1> QED
  BY <1>1, OverrideType DEF TypeOK, ApplyPatch

\* The removals of Threads.delete keep all types.
LEMMA DeleteType ==
  ASSUME TypeOK, NEW t, NEW ref, ApplyDelete(t, ref)
  PROVE  /\ thr' \in [Slot -> Thread] /\ runs' \in [Rid -> Run]
         /\ ttl' \in [Tid -> TTLState] /\ pruned' \subseteq Tid
BY NullTypes, WithoutRunsType DEF TypeOK, ApplyDelete, WithoutTTL

\* Marking suspended patches keeps the type of the tasks.
LEMMA UnlistedType ==
  ASSUME NEW tk \in [Client -> Task]
  PROVE  Unlisted(tk) \in [Client -> Task]
BY DEF Unlisted, Task

\* The number of free runners is computed from a finite set.
LEMMA WorkingFinite ==
  IsFiniteSet(Working) /\ Cardinality(Working) \in Nat
<1>1. IsFiniteSet(Rid)
  BY FS_Interval, ConstantsAssumption DEF Rid
<1>2. Working \subseteq Rid
  BY DEF Working
<1> QED
  BY <1>1, <1>2, FS_Subset, FS_CardinalityType

----------------------------------------------------------------------------

\* The empty store is well typed.
LEMMA TypeInit == Init => TypeOK
BY NullTypes, ConstantsAssumption DEF Init, TypeOK, Time

\* The type of every action of class Threads.
LEMMA TypeThreads == TypeOK /\ ThreadsNext => TypeOK'
<1> SUFFICES ASSUME TypeOK, ThreadsNext PROVE TypeOK'
  OBVIOUS
<1>1. ASSUME NEW t \in Tid, NEW in \in TTLInput, ThreadsPut(t, in) PROVE TypeOK'
  <2>1. thr' \in [Slot -> Thread] /\ nslot' \in 0..MaxSlot
    BY <1>1, AppendType DEF ThreadsPut, TypeOK, ThreadStatus
  <2> QED
    BY <1>1, <2>1, OverrideType DEF ThreadsPut, TypeOK
<1>2. ASSUME NEW t \in Tid, NEW u \in Tid, ThreadsCopy(t, u) PROVE TypeOK'
  <2>1. thr' \in [Slot -> Thread] /\ nslot' \in 0..MaxSlot
    BY <1>2, AppendType DEF ThreadsCopy, TypeOK, ThreadStatus
  <2>2. ttl' \in [Tid -> TTLState]
    BY <1>2 DEF ThreadsCopy, TypeOK, TTLState
  <2> QED
    BY <1>2, <2>1, <2>2 DEF ThreadsCopy, TypeOK
<1>3. ASSUME NEW t \in Tid, NEW in \in TTLInput, ThreadsPatch(t, in) PROVE TypeOK'
  BY <1>3, PatchType DEF ThreadsPatch, TypeOK
<1>4. ASSUME NEW c \in Client, NEW t \in Tid, NEW in \in TTLInput, ThreadsPatchCall(c, t, in)
      PROVE TypeOK'
  <2>1. [Idle EXCEPT !.op = "patch", !.tid = t, !.ttl = in] \in Task
    BY NullTypes, ConstantsAssumption DEF Task
  <2> QED
    BY <1>4, <2>1 DEF ThreadsPatchCall, Suspend, TypeOK, store
<1>5. ASSUME NEW c \in Client, ThreadsPatchFinish(c) PROVE TypeOK'
  <2>1. task' \in [Client -> Task]
    BY <1>5, NullTypes DEF ThreadsPatchFinish, Resume, TypeOK
  <2> QED
    BY <1>5, <2>1, PatchType, OverrideType DEF ThreadsPatchFinish, TypeOK
<1>6. ASSUME NEW t \in Tid, ThreadsDelete(t) PROVE TypeOK'
  BY <1>6, DeleteType, UnlistedType DEF ThreadsDelete, TypeOK
<1>7. ASSUME NEW c \in Client, NEW t \in Tid, ThreadsDeleteCall(c, t) PROVE TypeOK'
  <2>1. PICK s \in Lookup(t) :
          Suspend(c, [Idle EXCEPT !.op = "delete", !.tid = t, !.ref = RefTo(s)])
    BY <1>7 DEF ThreadsDeleteCall
  <2>2. [Idle EXCEPT !.op = "delete", !.tid = t, !.ref = RefTo(s)] \in Task
    BY NullTypes, RefType, LookupType DEF Task
  <2>3. task' \in [Client -> Task]
    BY <2>1, <2>2 DEF Suspend, TypeOK
  <2> QED
    BY <1>7, <2>3 DEF ThreadsDeleteCall, TypeOK, store
<1>8. ASSUME NEW c \in Client, ThreadsDeleteFinish(c) PROVE TypeOK'
  <2>1. task' \in [Client -> Task]
    BY <1>8, NullTypes, UnlistedType DEF ThreadsDeleteFinish, TypeOK
  <2> QED
    BY <1>8, <2>1, DeleteType DEF ThreadsDeleteFinish, TypeOK
<1>9. ASSUME NEW c \in Client, ThreadsDeleteFail(c) PROVE TypeOK'
  BY <1>9, NullTypes DEF ThreadsDeleteFail, Resume, TypeOK, store
<1>10. ASSUME NEW t \in Tid, NEW base \in BaseStatus, ThreadsSetStatus(t, base) PROVE TypeOK'
  <2>1. thr' \in [Slot -> Thread]
    BY <1>10, LookupType, ConstantsAssumption
    DEF ThreadsSetStatus, TypeOK, Thread, ThreadStatus
  <2> QED
    BY <1>10, <2>1 DEF ThreadsSetStatus, TypeOK
<1> QED
  BY <1>1, <1>2, <1>3, <1>4, <1>5, <1>6, <1>7, <1>8, <1>9, <1>10 DEF ThreadsNext

\* The type of every step of the sweeper.
LEMMA TypeSweep == TypeOK /\ SweepNext => TypeOK'
<1> SUFFICES ASSUME TypeOK, SweepNext PROVE TypeOK'
  OBVIOUS
<1>1. ASSUME NEW next \in {"idle", "loop"}, SweepRelease(next)
      PROVE  sweep' \in Sweeper /\ maint' \subseteq Tid
  BY <1>1, NullTypes DEF SweepRelease, Sweeper, TypeOK
<1>2. CASE SweepSelect
  <2>1. \A t \in Tid : EffectiveTTL(t).minutes \in Nat
    BY ConstantsAssumption DEF EffectiveTTL, TypeOK, TTLState, TTLConfig, NoTTL
  <2>2. \A s \in Slot : thr[s].tid # NoTid =>
          [tid |-> thr[s].tid, at |-> thr[s].upd + EffectiveTTL(thr[s].tid).minutes]
            \in [tid : Tid, at : Nat]
    <3> SUFFICES ASSUME NEW s \in Slot, thr[s].tid # NoTid
                 PROVE  [tid |-> thr[s].tid, at |-> thr[s].upd + EffectiveTTL(thr[s].tid).minutes]
                          \in [tid : Tid, at : Nat]
      OBVIOUS
    <3>1. thr[s] \in Thread
      BY DEF TypeOK
    <3>2. thr[s].tid \in Tid /\ thr[s].upd \in Nat
      BY <3>1, ConstantsAssumption DEF Thread, Time
    <3> QED
      BY <2>1, <3>2
  <2>3. \A all \in SUBSET [tid : Tid, at : Nat] :
          [NoSweep EXCEPT !.pc = "loop", !.todo = Selected(all)] \in Sweeper
    BY NullTypes DEF Sweeper, Selected
  <2>4. sweep' \in Sweeper
    BY <1>2, <2>2, <2>3 DEF SweepSelect
  <2> QED
    BY <1>2, <2>4 DEF SweepSelect, TypeOK, store
<1>3. CASE SweepSkip
  <2>1. sweep' \in Sweeper
    BY <1>3 DEF SweepSkip, TypeOK, Sweeper
  <2> QED
    BY <1>3, <2>1 DEF SweepSkip, TypeOK, store
<1>4. CASE SweepClaim
  <2>1. PICK e \in sweep.todo : \E s \in Lookup(e.tid) :
          /\ maint' = maint \cup {e.tid}
          /\ LET keep == EffectiveTTL(e.tid).strategy = "keep_latest" IN
               /\ sweep' = [pc |-> IF keep THEN "prune" ELSE "delete",
                            todo |-> sweep.todo \ {e}, tid |-> e.tid, ref |-> RefTo(s),
                            state |-> ttl[e.tid], upd |-> thr[s].upd]
               /\ pruned' = IF keep THEN pruned \cup {e.tid} ELSE pruned
    BY <1>4 DEF SweepClaim
  <2>2. e.tid \in Tid /\ sweep.todo \in SUBSET [tid : Tid, at : Nat]
    BY DEF TypeOK, Sweeper
  <2>3. \A s \in Lookup(e.tid) :
          RefTo(s) \in Ref /\ thr[s].upd \in Time /\ ttl[e.tid] \in TTLState
    BY <2>2, LookupType, RefType DEF TypeOK, Thread
  <2>4. sweep' \in Sweeper
    BY <2>1, <2>2, <2>3 DEF Sweeper
  <2> QED
    BY <1>4, <2>1, <2>2, <2>4 DEF SweepClaim, TypeOK, store
<1>5. CASE SweepDelete
  BY <1>5, <1>1, DeleteType, UnlistedType DEF SweepDelete, TypeOK
<1>6. CASE SweepPrune
  <2>1. ttl' \in [Tid -> TTLState]
    BY <1>6 DEF SweepPrune, SweptMark, TypeOK, TTLState, Sweeper
  <2> QED
    BY <1>6, <1>1, <2>1 DEF SweepPrune, TypeOK
<1>7. CASE SweepFail
  BY <1>7, <1>1 DEF SweepFail, TypeOK, store
<1>8. CASE SweepEnd
  BY <1>8, NullTypes DEF SweepEnd, TypeOK, store
<1> QED
  BY <1>2, <1>3, <1>4, <1>5, <1>6, <1>7, <1>8 DEF SweepNext

\* The type of every action of class Runs.
LEMMA TypeRuns == TypeOK /\ RunsNext => TypeOK'
<1> SUFFICES ASSUME TypeOK, RunsNext PROVE TypeOK'
  OBVIOUS
<1>0. ASSUME NEW t \in Tid \cup {NoTid}, NEW p, NEW a \in Nat, InsertRun(t, p, a)
      PROVE  runs' \in [Rid -> Run] /\ nrun' \in 0..MaxRun
  <2>1. CASE UNCHANGED <<runs, nrun>>
    BY <2>1 DEF TypeOK
  <2>2. CASE /\ nrun < MaxRun /\ nrun' = nrun + 1
             /\ runs' = [runs EXCEPT ![nrun + 1] =
                           [tid |-> t, status |-> "pending", at |-> now + a]]
    <3>1. now + a \in Nat
      BY ConstantsAssumption DEF TypeOK, Time
    <3>2. [tid |-> t, status |-> "pending", at |-> now + a] \in Run
      BY <3>1 DEF Run, RunStatus, Active
    <3>3. nrun' \in 0..MaxRun
      BY <2>2, ConstantsAssumption DEF TypeOK
    <3> QED
      BY <2>2, <3>2, <3>3 DEF TypeOK
  <2> QED
    BY <1>0, <2>1, <2>2 DEF InsertRun
<1>1. ASSUME NEW t \in Tid, NEW p \in Prevent, NEW a \in AfterSeconds, RunsPut(t, p, a)
      PROVE TypeOK'
  <2>1. thr' \in [Slot -> Thread] /\ pruned' \subseteq Tid
    <3>1. thr \in [Slot -> Thread] /\ now \in Time /\ pruned \subseteq Tid /\ "busy" \in ThreadStatus
      BY DEF TypeOK, ThreadStatus
    <3>2. PICK s \in Lookup(t) :
            \/ UNCHANGED <<thr, pruned>>
            \/ /\ thr' = [thr EXCEPT ![s].status = "busy", ![s].upd = now]
               /\ pruned' = pruned \ {t}
      BY <1>1 DEF RunsPut
    <3> QED
      BY <3>1, <3>2, LookupType, StatusType
  <2>2. runs' \in [Rid -> Run] /\ nrun' \in 0..MaxRun
    BY <1>0, <1>1, ConstantsAssumption DEF RunsPut
  <2> QED
    BY <1>1, <2>1, <2>2 DEF RunsPut, TypeOK
<1>2. ASSUME NEW c \in Client, NEW t \in Tid, NEW p \in Prevent, NEW a \in AfterSeconds,
             RunsPutCreate(c, t, p, a)
      PROVE TypeOK'
  <2>1. [Idle EXCEPT !.op = "create", !.tid = t, !.prevent = p, !.after = a, !.at = now] \in Task
    BY NullTypes, ConstantsAssumption DEF Task, TypeOK
  <2> QED
    BY <1>2, <2>1 DEF RunsPutCreate, Suspend, TypeOK, store
<1>3. ASSUME NEW c \in Client, RunsPutAppend(c) PROVE TypeOK'
  <2>1. /\ task[c].tid \in Tid \cup {NoTid} /\ task[c].after \in Nat /\ task[c].at \in Time
        /\ "busy" \in ThreadStatus
    BY DEF TypeOK, Task, ThreadStatus
  <2>2. thr' \in [Slot -> Thread] /\ nslot' \in 0..MaxSlot
    BY <1>3, <2>1, AppendType DEF RunsPutAppend
  <2>3. runs' \in [Rid -> Run] /\ nrun' \in 0..MaxRun
    BY <1>3, <2>1, <1>0 DEF RunsPutAppend
  <2> QED
    BY <1>3, <2>2, <2>3, NullTypes DEF RunsPutAppend, Resume, TypeOK
<1>4. ASSUME NEW r \in Rid, RunsDelete(r) PROVE TypeOK'
  BY <1>4, WithoutRunsType DEF RunsDelete, TypeOK
<1>5. ASSUME NEW r \in Rid
      PROVE  /\ [Idle EXCEPT !.op = "rundel", !.rid = r] \in Task
             /\ [Idle EXCEPT !.op = "eager", !.rid = r] \in Task
  <2>1. r \in 0..MaxRun
    BY ConstantsAssumption DEF Rid
  <2> QED
    BY <2>1, NullTypes DEF Task
<1>6. ASSUME NEW c \in Client, NEW r \in Rid, RunsDeleteCall(c, r) PROVE TypeOK'
  BY <1>6, <1>5 DEF RunsDeleteCall, Suspend, TypeOK, store
<1>7. ASSUME NEW c \in Client, RunsDeleteFinish(c) PROVE TypeOK'
  BY <1>7, WithoutRunsType, NullTypes DEF RunsDeleteFinish, Resume, TypeOK
<1>8. ASSUME NEW c \in Client, RunsDeleteFail(c) PROVE TypeOK'
  BY <1>8, NullTypes DEF RunsDeleteFail, Resume, TypeOK, store
<1>11. ASSUME NEW r, NEW a \in Action, Signal(r, a) PROVE sent' \in [Rid -> SUBSET Action]
  BY <1>11 DEF Signal, TypeOK
<1>9. ASSUME NEW r \in Rid, NEW a \in CancelAction, RunsCancel(r, a) PROVE TypeOK'
  <2>1. thr' \in [Slot -> Thread] /\ pruned' \subseteq Tid
    <3>1. thr \in [Slot -> Thread] /\ now \in Time /\ pruned \subseteq Tid
      BY DEF TypeOK
    <3>2. \A s \in Slot : [thr[s] EXCEPT !.status = "idle", !.upd = now] \in Thread
      BY <3>1 DEF Thread, ThreadStatus
    <3> QED
      BY <1>9, <3>1, <3>2 DEF RunsCancel
  <2>2. runs' \in [Rid -> Run]
    BY <1>9 DEF RunsCancel, TypeOK, Run, RunStatus
  <2>3. sent' \in [Rid -> SUBSET Action]
    BY <1>9, <1>11, ConstantsAssumption DEF RunsCancel, Action
  <2> QED
    BY <1>9, <2>1, <2>2, <2>3 DEF RunsCancel, TypeOK
<1>10. ASSUME NEW c \in Client, NEW r \in Rid, RunsCancelEager(c, r) PROVE TypeOK'
  BY <1>10, <1>5 DEF RunsCancelEager, Suspend, TypeOK, store
<1>12. ASSUME NEW c \in Client, RunsCancelDelete(c) PROVE TypeOK'
  <2>1. task' \in [Client -> Task]
    <3>1. \A k \in Task : [k EXCEPT !.op = "rundel"] \in Task
      BY DEF Task
    <3> QED
      BY <1>12, <3>1, NullTypes DEF RunsCancelDelete, Resume, TypeOK
  <2>2. runs' \in [Rid -> Run]
    BY <1>12, WithoutRunsType DEF RunsCancelDelete, TypeOK
  <2>3. sent' \in [Rid -> SUBSET Action]
    BY <1>11, <1>12 DEF RunsCancelDelete, Action
  <2> QED
    BY <1>12, <2>1, <2>2, <2>3 DEF RunsCancelDelete, TypeOK
<1>13. ASSUME NEW r \in Rid, NEW a \in CancelAction, WorkerHears(r, a) PROVE TypeOK'
  <2>1. worker' \in [Rid -> Worker]
    BY <1>13, ConstantsAssumption DEF WorkerHears, TypeOK, Worker, Action
  <2> QED
    BY <1>13, <2>1 DEF WorkerHears, TypeOK, store
<1> QED
  BY <1>1, <1>2, <1>3, <1>4, <1>6, <1>7, <1>8, <1>9, <1>10, <1>12, <1>13 DEF RunsNext

\* The type of the steps of the scheduler.
LEMMA TypeQueue == TypeOK /\ QueueNext => TypeOK'
<1> SUFFICES ASSUME TypeOK, QueueNext PROVE TypeOK'
  OBVIOUS
<1>1. CASE QueueWake
  <2>1. FreeRunners \in 0..Concurrency
    BY <1>1, WorkingFinite, ConstantsAssumption DEF QueueWake, FreeRunners
  <2>2. queue' \in Scheduler
    BY <1>1, <2>1 DEF QueueWake, Scheduler, TypeOK
  <2> QED
    BY <1>1, <2>2 DEF QueueWake, TypeOK, store
<1>2. CASE QueueClaim
  <2>1. runs' \in [Rid -> Run]
    BY <1>2 DEF QueueClaim, RunsSweep, TypeOK, Run, RunStatus, Active
  <2>2. worker' \in [Rid -> Worker]
    <3>1. \A r \in Rid : [NoWorker EXCEPT !.pc = "exec", !.tid = runs[r].tid] \in Worker
      BY NullTypes DEF Worker, TypeOK, Run
    <3> QED
      BY <1>2, <3>1 DEF QueueClaim, TypeOK
  <2>3. attempt' \in [Rid -> 0..MaxAttempt]
    <3>1. \A r \in Rid : attempt[r] \in 0..MaxAttempt
      BY DEF TypeOK
    <3>2. \A r \in Rid : attempt[r] < MaxAttempt => attempt[r] + 1 \in 0..MaxAttempt
      BY <3>1, ConstantsAssumption
    <3> QED
      BY <1>2, <3>1, <3>2 DEF QueueClaim
  <2> QED
    BY <1>2, <2>1, <2>2, <2>3, NullTypes DEF QueueClaim, TypeOK
<1> QED
  BY <1>1, <1>2 DEF QueueNext

\* The type of the end of a worker.
LEMMA TypeWorker == ASSUME TypeOK, NEW r \in Rid, WorkerNext(r) PROVE TypeOK'
<1>1. ASSUME NEW rs, NEW s \in Slot, NEW base \in ThreadStatus, NEW upd \in Time,
             SetThread(rs, s, base, upd)
      PROVE  thr' \in [Slot -> Thread]
  <2>1. JointStatus(rs, thr[s].tid, base) \in ThreadStatus
    BY DEF JointStatus, ThreadStatus
  <2> QED
    BY <1>1, <2>1, StatusType DEF SetThread, TypeOK
<1>2. ASSUME StopWorker(r) PROVE worker' \in [Rid -> Worker]
  BY <1>2, NullTypes DEF StopWorker, TypeOK
<1>3. ASSUME NEW out \in Outcome, WorkerLost(r, out) PROVE TypeOK'
  BY <1>2, <1>3 DEF WorkerLost, TypeOK, store
<1>4. ASSUME NEW out \in Outcome, NEW base \in BaseStatus, WorkerReport(r, out, base) PROVE TypeOK'
  <2>1. out \in RunStatus /\ (IF out = "error" THEN out ELSE base) \in ThreadStatus
    BY <1>4, ConstantsAssumption DEF WorkerReport, RunStatus, Active, ThreadStatus
  <2>2. runs' \in [Rid -> Run]
    BY <1>4, <2>1 DEF WorkerReport, TypeOK, Run
  <2>3. thr' \in [Slot -> Thread]
    BY <1>4, <2>1, <1>1, LookupType DEF WorkerReport, TypeOK
  <2>4. back' \subseteq Rid \X (Tid \cup {NoTid})
    BY <1>4 DEF WorkerReport, TypeOK, Worker
  <2> QED
    BY <1>2, <1>4, <2>2, <2>3, <2>4 DEF WorkerReport, TypeOK
<1>5. ASSUME NEW base \in BaseStatus, WorkerRollback(r, base) PROVE TypeOK'
  <2>1. thr' \in [Slot -> Thread]
    <3>1. base \in ThreadStatus /\ now \in Time
      BY ConstantsAssumption DEF TypeOK, ThreadStatus
    <3> QED
      BY <1>5, <1>1, <3>1, LookupType DEF WorkerRollback
  <2> QED
    BY <1>2, <1>5, <2>1, WithoutRunsType DEF WorkerRollback, TypeOK
<1>6. ASSUME NEW base \in BaseStatus, WorkerRollbackCall(r, base) PROVE TypeOK'
  <2>1. PICK s \in Lookup(worker[r].tid) :
          worker' = [worker EXCEPT ![r] =
                       [@ EXCEPT !.pc = "rollback", !.ref = RefTo(s), !.at = now, !.base = base]]
    BY <1>6 DEF WorkerRollbackCall
  <2>2. RefTo(s) \in Ref
    BY RefType, LookupType
  <2>3. worker' \in [Rid -> Worker]
    <3>1. worker \in [Rid -> Worker] /\ now \in Time /\ base \in {"idle", "interrupted"}
      BY ConstantsAssumption DEF TypeOK
    <3>2. [worker[r] EXCEPT !.pc = "rollback", !.ref = RefTo(s), !.at = now, !.base = base] \in Worker
      BY <2>2, <3>1 DEF Worker
    <3> QED
      BY <2>1, <3>1, <3>2
  <2> QED
    BY <1>6, <2>3 DEF WorkerRollbackCall, TypeOK, store
<1>7. CASE WorkerRollbackFinish(r)
  <2>1. worker[r].base \in ThreadStatus /\ worker[r].at \in Time
    BY DEF TypeOK, Worker, ThreadStatus
  <2>2. thr' \in [Slot -> Thread] /\ pruned' \subseteq Tid
    BY <1>7, <2>1, <1>1 DEF WorkerRollbackFinish, Attached, TypeOK
  <2> QED
    BY <1>2, <1>7, <2>2, WithoutRunsType DEF WorkerRollbackFinish, TypeOK
<1>8. CASE WorkerRollbackFail(r)
  BY <1>2, <1>8 DEF WorkerRollbackFail, TypeOK, store
<1> QED
  BY <1>3, <1>4, <1>5, <1>6, <1>7, <1>8 DEF WorkerNext

\* Type correctness of the store under every operation of Threads, Runs, the
\* scheduler, the sweeper and the workers.
THEOREM TypeCorrect == Spec => []TypeOK
<1>1. TypeOK /\ [Next]_vars => TypeOK'
  <2> SUFFICES ASSUME TypeOK, [Next]_vars PROVE TypeOK'
    OBVIOUS
  <2>1. CASE Tick
    BY <2>1, ConstantsAssumption DEF Tick, TypeOK, Time, store
  <2>2. CASE Restart
    <3>1. pruned' \subseteq Tid
      BY <2>2 DEF Restart, TypeOK
    <3> QED
      BY <2>2, <3>1, NullTypes, ConstantsAssumption DEF Restart, TypeOK, store
  <2>3. CASE UNCHANGED vars
    BY <2>3 DEF vars, store, TypeOK
  <2> QED
    BY <2>1, <2>2, <2>3, TypeThreads, TypeSweep, TypeRuns, TypeQueue, TypeWorker DEF Next
<1> QED
  BY <1>1, TypeInit, PTL DEF Spec

(***************************************************************************)
(* Safety of runs.                                                         *)
(***************************************************************************)
----------------------------------------------------------------------------
(* At most one run of a thread is "running".                               *)

\* What every step but Runs.next does: no run becomes "running".
NoneStarted ==
  \A r \in Rid : runs'[r].status = "running" =>
    runs[r].status = "running" /\ runs'[r].tid = runs[r].tid

\* Removing runs starts none.
LEMMA RemovalStartsNone ==
  ASSUME NEW S, runs' = WithoutRuns(S)
  PROVE  NoneStarted
BY DEF NoneStarted, WithoutRuns, NoRun

\* No operation of class Threads and no step of the sweeper starts a run.
LEMMA ThreadsStartNone == TypeOK /\ (ThreadsNext \/ SweepNext) => NoneStarted
<1> SUFFICES ASSUME TypeOK, ThreadsNext \/ SweepNext PROVE NoneStarted
  OBVIOUS
<1>1. CASE runs' = runs
  BY <1>1 DEF NoneStarted
<1>2. ASSUME NEW t, NEW ref, ApplyDelete(t, ref) PROVE NoneStarted
  BY <1>2, RemovalStartsNone DEF ApplyDelete
<1>3. CASE ThreadsNext
  BY <1>1, <1>2, <1>3 DEF ThreadsNext, ThreadsPut, ThreadsCopy, ThreadsPatch, ThreadsPatchCall,
     ThreadsPatchFinish, ThreadsDelete, ThreadsDeleteCall, ThreadsDeleteFinish, ThreadsDeleteFail,
     ThreadsSetStatus, store
<1>4. CASE SweepNext
  BY <1>1, <1>2, <1>4 DEF SweepNext, SweepSelect, SweepSkip, SweepClaim, SweepDelete, SweepPrune,
     SweepFail, SweepEnd, store
<1> QED
  BY <1>3, <1>4

\* No operation of class Runs starts a run.
LEMMA RunsStartNone == TypeOK /\ RunsNext => NoneStarted
<1> SUFFICES ASSUME TypeOK, RunsNext PROVE NoneStarted
  OBVIOUS
<1>1. CASE runs' = runs
  BY <1>1 DEF NoneStarted
<1>2. ASSUME NEW t, NEW p, NEW a, InsertRun(t, p, a) PROVE NoneStarted
  <2>1. CASE runs' = [runs EXCEPT ![nrun + 1] = [tid |-> t, status |-> "pending", at |-> now + a]]
    BY <2>1 DEF NoneStarted, TypeOK
  <2> QED
    BY <1>1, <1>2, <2>1 DEF InsertRun
<1>3. ASSUME NEW r \in Rid, NEW a, RunsCancel(r, a) PROVE NoneStarted
  <2>1. runs' = [runs EXCEPT ![r].status = "interrupted"]
    BY <1>3 DEF RunsCancel
  <2> QED
    BY <2>1 DEF NoneStarted, TypeOK
<1> QED
  BY <1>1, <1>2, <1>3, RemovalStartsNone DEF RunsNext, RunsPut, RunsPutCreate, RunsPutAppend,
     RunsDelete, RunsDeleteCall, RunsDeleteFinish, RunsDeleteFail, RunsCancelEager, RunsCancelDelete,
     WorkerHears, store

\* The end of a worker starts no run.
LEMMA WorkerStartsNone ==
  ASSUME TypeOK, NEW r \in Rid, WorkerNext(r)
  PROVE  NoneStarted
<1>1. CASE runs' = runs
  BY <1>1 DEF NoneStarted
<1>2. ASSUME NEW out \in Outcome, NEW base, WorkerReport(r, out, base) PROVE NoneStarted
  BY <1>2, ConstantsAssumption DEF WorkerReport, NoneStarted, TypeOK
<1> QED
  BY <1>1, <1>2, RemovalStartsNone DEF WorkerNext, WorkerLost, WorkerRollback, WorkerRollbackCall,
     WorkerRollbackFinish, WorkerRollbackFail, store

\* Runs.next starts at most one run of a thread, and none of a thread that
\* has a running one.
LEMMA ClaimKeepsOneRunning ==
  TypeOK /\ OneRunningPerThread /\ QueueClaim => OneRunningPerThread'
<1> SUFFICES ASSUME TypeOK, OneRunningPerThread, QueueClaim,
                    NEW q \in Rid, NEW r \in Rid,
                    runs'[q].status = "running", runs'[r].status = "running",
                    runs'[q].tid = runs'[r].tid
             PROVE  q = r
  BY DEF OneRunningPerThread
<1>1. \A p \in Rid : /\ runs'[p].tid = runs[p].tid
                     /\ runs'[p].status = "running" => p \in Claimed \/ runs[p].status = "running"
  BY DEF QueueClaim, RunsSweep, TypeOK, Run
<1>2. CASE q \in Claimed /\ r \in Claimed
  <2>1. q \in Batch /\ r \in Batch /\ ~RunsBefore(q, r) /\ ~RunsBefore(r, q)
    BY <1>1, <1>2 DEF Claimed
  <2>2. q \in Int /\ r \in Int /\ runs[q].at \in Int /\ runs[r].at \in Int
    BY DEF Rid, TypeOK, Run
  <2> QED
    BY <2>1, <2>2 DEF RunsBefore
<1>3. CASE q \in Claimed /\ runs[r].status = "running"
  BY <1>1, <1>3 DEF Claimed, ThreadBusy
<1>4. CASE r \in Claimed /\ runs[q].status = "running"
  BY <1>1, <1>4 DEF Claimed, ThreadBusy
<1>5. CASE runs[q].status = "running" /\ runs[r].status = "running"
  BY <1>1, <1>5 DEF OneRunningPerThread
<1> QED
  BY <1>1, <1>2, <1>3, <1>4, <1>5

\* Runs.next keeps a thread's runs apart: two runs of one thread are never
\* both in status "running", with any number of threads, runs, runners,
\* clients, retries, cancellations and restarts.
THEOREM OneRunning == Spec => []OneRunningPerThread
<1>1. Init => OneRunningPerThread
  BY DEF Init, OneRunningPerThread, NoRun
<1>2. TypeOK /\ OneRunningPerThread /\ [Next]_vars => OneRunningPerThread'
  <2> SUFFICES ASSUME TypeOK, OneRunningPerThread, [Next]_vars PROVE OneRunningPerThread'
    OBVIOUS
  <2>1. ASSUME NoneStarted PROVE OneRunningPerThread'
    BY <2>1 DEF NoneStarted, OneRunningPerThread
  <2>2. ASSUME runs' = runs PROVE OneRunningPerThread'
    BY <2>2 DEF OneRunningPerThread
  <2>3. CASE QueueNext
    BY <2>2, <2>3, ClaimKeepsOneRunning DEF QueueNext, QueueWake, store
  <2>4. CASE Tick \/ Restart \/ UNCHANGED vars
    BY <2>2, <2>4 DEF Tick, Restart, vars, store
  <2> QED
    BY <2>1, <2>3, <2>4, ThreadsStartNone, RunsStartNone, WorkerStartsNone DEF Next
<1> QED
  BY <1>1, <1>2, TypeCorrect, PTL DEF Spec

----------------------------------------------------------------------------
(* Every run has its thread.                                               *)

\* No thread is appended and none changes its id, but some may be removed.
NoneAppended == nslot' = nslot /\ \A s \in Slot : thr'[s].tid \in {thr[s].tid, NoTid}

\* No thread is appended or removed.
TidsKept == nslot' = nslot /\ \A s \in Slot : thr'[s].tid = thr[s].tid

\* A thread is appended.
OneAppended(t) ==
  /\ nslot < MaxSlot /\ nslot' = nslot + 1
  /\ thr'[nslot + 1].tid = t
  /\ \A s \in Slot : s # nslot + 1 => thr'[s].tid = thr[s].tid

\* No run is created.
NoneCreated ==
  \A r \in Rid : runs'[r].status # "absent" =>
    runs[r].status # "absent" /\ runs'[r].tid = runs[r].tid

\* A run of thread t may be created.
CreatedFor(t) ==
  \A r \in Rid : runs'[r].status # "absent" =>
    \/ runs'[r].tid = t
    \/ runs[r].status # "absent" /\ runs'[r].tid = runs[r].tid

\* No request begins that deletes a thread or creates one.
NoNewTask ==
  \A c \in Client : task'[c].op \in {"delete", "create"} =>
    /\ task'[c].op = task[c].op /\ task'[c].tid = task[c].tid /\ task'[c].ref = task[c].ref

\* The sweeper claims no thread for deletion.
NoNewSweep ==
  sweep'.pc = "delete" => sweep.pc = "delete" /\ sweep'.tid = sweep.tid /\ sweep'.ref = sweep.ref

\* Deleters keep their references while no thread is appended.
LEMMA DeletersFrame ==
  ASSUME TypeOK, RunThreadInv, NoneAppended, NoNewTask, NoNewSweep
  PROVE  SlotsInOrder' /\ DeletersHoldRef'
<1>1. \A s \in 1..nslot : s \in Slot
  BY ConstantsAssumption DEF TypeOK, Slot
<1>2. \A t, ref : HoldsRef(t, ref) => HoldsRef(t, ref)'
  BY <1>1 DEF HoldsRef, NoneAppended
<1>3. SlotsInOrder'
  BY DEF SlotsInOrder, NoneAppended, RunThreadInv
<1> QED
  BY <1>2, <1>3 DEF NoNewTask, NoNewSweep, RunThreadInv, DeletersHoldRef, HoldsRef

\* The invariant survives a step that neither appends nor removes a thread
\* and creates at most runs of a thread that exists.
LEMMA KeptFrame ==
  ASSUME TypeOK, RunThreadInv, TidsKept, NoNewTask, NoNewSweep,
         NEW t, t # NoTid, Exists(t), CreatedFor(t)
  PROVE  RunThreadInv'
<1>1. NoneAppended
  BY DEF NoneAppended, TidsKept
<1>2. \A u : Exists(u) => Exists(u)'
  BY DEF Exists, SlotsOf, TidsKept
<1>3. RunsHaveThread'
  BY <1>2 DEF RunThreadInv, RunsHaveThread, CreatedFor
<1>4. RunsNamed'
  BY DEF RunThreadInv, RunsNamed, CreatedFor, NoNewTask
<1> QED
  BY <1>1, <1>3, <1>4, DeletersFrame DEF RunThreadInv

\* The same when no run is created at all.
LEMMA StillFrame ==
  ASSUME TypeOK, RunThreadInv, TidsKept, NoNewTask, NoNewSweep, NoneCreated
  PROVE  RunThreadInv'
<1>1. NoneAppended
  BY DEF NoneAppended, TidsKept
<1>2. \A u : Exists(u) => Exists(u)'
  BY DEF Exists, SlotsOf, TidsKept
<1>3. RunsHaveThread'
  BY <1>2 DEF RunThreadInv, RunsHaveThread, NoneCreated
<1>4. RunsNamed'
  BY DEF RunThreadInv, RunsNamed, NoneCreated, NoNewTask
<1> QED
  BY <1>1, <1>3, <1>4, DeletersFrame DEF RunThreadInv

\* A new thread, with or without its first run, keeps the invariant.
LEMMA AppendFrame ==
  ASSUME TypeOK, RunThreadInv, NEW t \in Tid, OneAppended(t), CreatedFor(t), NoNewTask, NoNewSweep
  PROVE  RunThreadInv'
<1>1. nslot + 1 \in Slot /\ \A s \in 1..nslot : s \in Slot /\ s # nslot + 1
  BY ConstantsAssumption DEF TypeOK, Slot, OneAppended
<1>2. \A u : u # NoTid /\ Exists(u) => Exists(u)'
  <2> SUFFICES ASSUME NEW u, u # NoTid, Exists(u) PROVE Exists(u)'
    OBVIOUS
  <2>1. PICK s \in Slot : thr[s].tid = u
    BY DEF Exists, SlotsOf
  <2>2. s # nslot + 1
    BY <1>1, <2>1, ConstantsAssumption DEF RunThreadInv, SlotsInOrder, TypeOK
  <2>3. thr'[s].tid = u
    BY <2>1, <2>2 DEF OneAppended
  <2> QED
    BY <2>3 DEF Exists, SlotsOf
<1>3. Exists(t)'
  BY <1>1 DEF Exists, SlotsOf, OneAppended
<1>4. t # NoTid
  BY ConstantsAssumption
<1>5. RunsHaveThread'
  BY <1>2, <1>3 DEF RunThreadInv, RunsHaveThread, RunsNamed, CreatedFor
<1>6. RunsNamed'
  BY <1>4 DEF RunThreadInv, RunsNamed, CreatedFor, NoNewTask
<1>7. SlotsInOrder'
  BY ConstantsAssumption DEF RunThreadInv, SlotsInOrder, OneAppended, TypeOK, Slot
<1>8. \A u, ref : HoldsRef(u, ref) => HoldsRef(u, ref)'
  <2> SUFFICES ASSUME NEW u, NEW ref, HoldsRef(u, ref) PROVE HoldsRef(u, ref)'
    OBVIOUS
  <2>1. ref.slot \in 1..nslot' /\ thr'[ref.slot].tid = thr[ref.slot].tid
    BY <1>1 DEF HoldsRef, OneAppended, TypeOK
  <2> QED
    BY <2>1 DEF HoldsRef
<1>9. DeletersHoldRef'
  BY <1>8 DEF RunThreadInv, DeletersHoldRef, NoNewTask, NoNewSweep, HoldsRef
<1> QED
  BY <1>5, <1>6, <1>7, <1>9 DEF RunThreadInv

\* Deleting a thread removes its runs first: no other thread loses its own.
LEMMA DeleteFrame ==
  ASSUME TypeOK, RunThreadInv, NEW t, NEW ref, HoldsRef(t, ref), ApplyDelete(t, ref),
         nslot' = nslot, NoNewTask, NoNewSweep
  PROVE  RunThreadInv'
<1>1. \A s \in Slot : thr'[s] = IF s = ref.slot /\ Attached(ref) THEN NoThread ELSE thr[s]
  BY DEF ApplyDelete
<1>2. NoneAppended
  BY <1>1 DEF NoneAppended, NoThread
<1>3. \A r \in Rid : runs'[r].status # "absent" =>
        runs[r].status # "absent" /\ runs'[r].tid = runs[r].tid /\ runs[r].tid # t
  BY DEF ApplyDelete, WithoutRuns, RunsOf, NoRun
<1>4. \A u : u # t /\ u # NoTid /\ Exists(u) => Exists(u)'
  <2> SUFFICES ASSUME NEW u, u # t, u # NoTid, Exists(u) PROVE Exists(u)'
    OBVIOUS
  <2>1. PICK s \in Slot : thr[s].tid = u
    BY DEF Exists, SlotsOf
  <2>2. s # ref.slot
    BY <2>1 DEF HoldsRef
  <2>3. thr'[s].tid = u
    BY <1>1, <2>1, <2>2
  <2> QED
    BY <2>3 DEF Exists, SlotsOf
<1>5. RunsHaveThread'
  BY <1>3, <1>4 DEF RunThreadInv, RunsHaveThread, RunsNamed
<1>6. RunsNamed'
  BY <1>3 DEF RunThreadInv, RunsNamed, NoNewTask
<1> QED
  BY <1>2, <1>5, <1>6, DeletersFrame DEF RunThreadInv

\* What the elementary updates of the tasks and of the sweeper do.
LEMMA TaskFrames ==
  ASSUME TypeOK
  PROVE  /\ task' = task => NoNewTask
         /\ \A c \in Client : Resume(c) => NoNewTask
         /\ \A c \in Client : \A rec : rec.op \notin {"delete", "create"} /\ Suspend(c, rec) => NoNewTask
         /\ task' = Unlisted(task) => NoNewTask
         /\ \A c \in Client : task' = Unlisted([task EXCEPT ![c] = Idle]) => NoNewTask
<1>1. task' = task => NoNewTask
  BY DEF NoNewTask
<1>2. Idle.op = "idle"
  BY DEF Idle
<1>3. \A c \in Client : Resume(c) => NoNewTask
  BY <1>2 DEF Resume, NoNewTask, TypeOK
<1>4. \A c \in Client : \A rec : rec.op \notin {"delete", "create"} /\ Suspend(c, rec) => NoNewTask
  BY DEF Suspend, NoNewTask, TypeOK
<1>5. ASSUME NEW tk \in [Client -> Task], NEW d \in Client
      PROVE  Unlisted(tk)[d].op = tk[d].op /\ Unlisted(tk)[d].tid = tk[d].tid
             /\ Unlisted(tk)[d].ref = tk[d].ref
  BY DEF Unlisted, Task
<1>6. task' = Unlisted(task) => NoNewTask
  BY <1>5 DEF NoNewTask, TypeOK
<1>7. ASSUME NEW c \in Client, task' = Unlisted([task EXCEPT ![c] = Idle]) PROVE NoNewTask
  <2>1. [task EXCEPT ![c] = Idle] \in [Client -> Task]
    BY NullTypes DEF TypeOK
  <2>2. \A d \in Client : [task EXCEPT ![c] = Idle][d] = IF d = c THEN Idle ELSE task[d]
    BY DEF TypeOK
  <2> QED
    BY <1>2, <1>5, <1>7, <2>1, <2>2 DEF NoNewTask
<1> QED
  BY <1>1, <1>3, <1>4, <1>6, <1>7

\* A thread that was looked up has its slot among the used ones.
LEMMA LookupHolds ==
  ASSUME TypeOK, RunThreadInv, NEW t \in Tid, NEW s \in Lookup(t)
  PROVE  HoldsRef(t, RefTo(s))
<1>1. s \in Slot /\ thr[s].tid = t /\ t # NoTid
  BY LookupType, ConstantsAssumption
<1>2. s \in 1..nslot
  BY <1>1, ConstantsAssumption DEF RunThreadInv, SlotsInOrder, TypeOK, Slot
<1> QED
  BY <1>1, <1>2 DEF HoldsRef, RefTo

\* There are no runs, deleters or threads at the start.
LEMMA RunThreadInit == Init => RunThreadInv
BY DEF Init, RunThreadInv, RunsHaveThread, RunsNamed, SlotsInOrder, DeletersHoldRef, NoRun,
   NoThread, Idle, NoSweep

\* Every operation of class Threads keeps the invariant.
LEMMA RunThreadThreads == TypeOK /\ RunThreadInv /\ ThreadsNext => RunThreadInv'
<1> SUFFICES ASSUME TypeOK, RunThreadInv, ThreadsNext PROVE RunThreadInv'
  OBVIOUS
<1>1. sweep' = sweep => NoNewSweep
  BY DEF NoNewSweep
<1>2. runs' = runs => NoneCreated /\ \A t : CreatedFor(t)
  BY DEF NoneCreated, CreatedFor
<1>3. thr' = thr /\ nslot' = nslot => TidsKept
  BY DEF TidsKept
<1>4. ASSUME NEW t, NEW status, NEW upd, AppendThread(t, status, upd) PROVE OneAppended(t)
  BY <1>4, ConstantsAssumption DEF AppendThread, OneAppended, TypeOK, Slot
<1>5. ASSUME NEW t, NEW in, ApplyPatch(t, in), nslot' = nslot PROVE TidsKept
  BY <1>5 DEF ApplyPatch, TidsKept, TypeOK, Thread
<1>6. ASSUME NEW t \in Tid, NEW in \in TTLInput, ThreadsPut(t, in) PROVE RunThreadInv'
  <2>1. OneAppended(t) /\ runs' = runs /\ sweep' = sweep /\ task' = task
    BY <1>4, <1>6 DEF ThreadsPut
  <2> QED
    BY <1>1, <1>2, <2>1, TaskFrames, AppendFrame
<1>7. ASSUME NEW t \in Tid, NEW u \in Tid, ThreadsCopy(t, u) PROVE RunThreadInv'
  <2>1. OneAppended(u) /\ runs' = runs /\ sweep' = sweep /\ task' = task
    BY <1>4, <1>7 DEF ThreadsCopy
  <2> QED
    BY <1>1, <1>2, <2>1, TaskFrames, AppendFrame
<1>8. ASSUME NEW t \in Tid, NEW in \in TTLInput, ThreadsPatch(t, in) PROVE RunThreadInv'
  BY <1>1, <1>2, <1>5, <1>8, TaskFrames, StillFrame DEF ThreadsPatch
<1>9. ASSUME NEW c \in Client, NEW t \in Tid, NEW in \in TTLInput, ThreadsPatchCall(c, t, in)
      PROVE RunThreadInv'
  <2>1. [Idle EXCEPT !.op = "patch", !.tid = t, !.ttl = in].op = "patch"
    BY DEF Idle
  <2>2. NoNewTask
    BY <1>9, <2>1, TaskFrames DEF ThreadsPatchCall
  <2> QED
    BY <1>1, <1>2, <1>3, <1>9, <2>2, StillFrame DEF ThreadsPatchCall, store
<1>10. ASSUME NEW c \in Client, ThreadsPatchFinish(c) PROVE RunThreadInv'
  <2>1. TidsKept
    BY <1>3, <1>5, <1>10 DEF ThreadsPatchFinish
  <2> QED
    BY <1>1, <1>2, <1>10, <2>1, TaskFrames, StillFrame DEF ThreadsPatchFinish
<1>11. ASSUME NEW t \in Tid, ThreadsDelete(t) PROVE RunThreadInv'
  <2>1. PICK s \in Lookup(t) : ApplyDelete(t, RefTo(s))
    BY <1>11 DEF ThreadsDelete
  <2>2. NoNewTask /\ nslot' = nslot /\ NoNewSweep
    BY <1>1, <1>11, TaskFrames DEF ThreadsDelete
  <2> QED
    BY <2>1, <2>2, LookupHolds, DeleteFrame
<1>12. ASSUME NEW c \in Client, NEW t \in Tid, ThreadsDeleteCall(c, t) PROVE RunThreadInv'
  <2>1. PICK s \in Lookup(t) :
          Suspend(c, [Idle EXCEPT !.op = "delete", !.tid = t, !.ref = RefTo(s)])
    BY <1>12 DEF ThreadsDeleteCall
  <2>2. /\ task'[c].op = "delete" /\ task'[c].tid = t /\ task'[c].ref = RefTo(s)
        /\ \A d \in Client : d # c => task'[d] = task[d]
    BY <2>1 DEF Suspend, Idle, TypeOK
  <2>3. thr' = thr /\ nslot' = nslot /\ runs' = runs /\ sweep' = sweep
    BY <1>12 DEF ThreadsDeleteCall, store
  <2>4. \A u, ref : HoldsRef(u, ref) => HoldsRef(u, ref)'
    BY <2>3 DEF HoldsRef
  <2>5. DeletersHoldRef'
    <3>1. \A d \in Client : task'[d].op = "delete" => HoldsRef(task'[d].tid, task'[d].ref)
      BY <2>2, LookupHolds DEF RunThreadInv, DeletersHoldRef
    <3> QED
      BY <2>3, <2>4, <3>1 DEF RunThreadInv, DeletersHoldRef, HoldsRef
  <2>6. RunsHaveThread' /\ SlotsInOrder'
    BY <2>3 DEF RunThreadInv, RunsHaveThread, SlotsInOrder, Exists, SlotsOf
  <2>7. RunsNamed'
    BY <2>2, <2>3 DEF RunThreadInv, RunsNamed
  <2> QED
    BY <2>5, <2>6, <2>7 DEF RunThreadInv
<1>13. ASSUME NEW c \in Client, ThreadsDeleteFinish(c) PROVE RunThreadInv'
  <2>1. HoldsRef(task[c].tid, task[c].ref) /\ ApplyDelete(task[c].tid, task[c].ref)
    BY <1>13 DEF ThreadsDeleteFinish, Resumable, RunThreadInv, DeletersHoldRef
  <2>2. NoNewTask /\ nslot' = nslot /\ NoNewSweep
    BY <1>1, <1>13, TaskFrames DEF ThreadsDeleteFinish
  <2> QED
    BY <2>1, <2>2, DeleteFrame
<1>14. ASSUME NEW c \in Client, ThreadsDeleteFail(c) PROVE RunThreadInv'
  BY <1>1, <1>2, <1>3, <1>14, TaskFrames, StillFrame DEF ThreadsDeleteFail, store
<1>15. ASSUME NEW t \in Tid, NEW base \in BaseStatus, ThreadsSetStatus(t, base) PROVE RunThreadInv'
  <2>1. TidsKept
    BY <1>15 DEF ThreadsSetStatus, TidsKept, TypeOK, Thread
  <2> QED
    BY <1>1, <1>2, <1>15, <2>1, TaskFrames, StillFrame DEF ThreadsSetStatus
<1> QED
  BY <1>6, <1>7, <1>8, <1>9, <1>10, <1>11, <1>12, <1>13, <1>14, <1>15 DEF ThreadsNext

\* Every step of the sweeper keeps the invariant.
LEMMA RunThreadSweep == TypeOK /\ RunThreadInv /\ SweepNext => RunThreadInv'
<1> SUFFICES ASSUME TypeOK, RunThreadInv, SweepNext PROVE RunThreadInv'
  OBVIOUS
<1>1. runs' = runs => NoneCreated
  BY DEF NoneCreated
<1>2. thr' = thr /\ nslot' = nslot => TidsKept
  BY DEF TidsKept
<1>3. sweep'.pc # "delete" => NoNewSweep
  BY DEF NoNewSweep
<1>4. ASSUME NEW next \in {"idle", "loop"}, SweepRelease(next) PROVE sweep'.pc # "delete"
  BY <1>4 DEF SweepRelease, NoSweep
<1>5. CASE SweepSelect \/ SweepEnd
  <2>1. sweep'.pc # "delete"
    <3>1. \A todo : [NoSweep EXCEPT !.pc = "loop", !.todo = todo].pc = "loop"
      BY DEF NoSweep
    <3>2. NoSweep.pc = "idle"
      BY DEF NoSweep
    <3> QED
      BY <1>5, <3>1, <3>2 DEF SweepSelect, SweepEnd
  <2> QED
    BY <1>1, <1>2, <1>3, <1>5, <2>1, TaskFrames, StillFrame DEF SweepSelect, SweepEnd, store
<1>6. CASE SweepSkip
  <2>1. sweep'.pc = sweep.pc /\ sweep.pc = "loop"
    BY <1>6 DEF SweepSkip, TypeOK, Sweeper
  <2> QED
    BY <1>1, <1>2, <1>3, <1>6, <2>1, TaskFrames, StillFrame DEF SweepSkip, store
<1>7. CASE SweepClaim
  <2>1. PICK e \in sweep.todo : \E s \in Lookup(e.tid) :
          sweep'.tid = e.tid /\ sweep'.ref = RefTo(s)
    BY <1>7 DEF SweepClaim
  <2>2. e.tid \in Tid
    BY DEF TypeOK, Sweeper
  <2>3. thr' = thr /\ nslot' = nslot /\ runs' = runs /\ task' = task
    BY <1>7 DEF SweepClaim, store
  <2>4. HoldsRef(sweep'.tid, sweep'.ref)
    BY <2>1, <2>2, LookupHolds
  <2>5. DeletersHoldRef'
    BY <2>3, <2>4 DEF RunThreadInv, DeletersHoldRef, HoldsRef
  <2> QED
    BY <2>3, <2>5 DEF RunThreadInv, RunsHaveThread, RunsNamed, SlotsInOrder, Exists, SlotsOf
<1>8. CASE SweepDelete
  <2>1. HoldsRef(sweep.tid, sweep.ref) /\ ApplyDelete(sweep.tid, sweep.ref)
    BY <1>8 DEF SweepDelete, RunThreadInv, DeletersHoldRef
  <2>2. NoNewTask /\ nslot' = nslot /\ NoNewSweep
    BY <1>3, <1>4, <1>8, TaskFrames DEF SweepDelete
  <2> QED
    BY <2>1, <2>2, DeleteFrame
<1>9. CASE SweepPrune
  BY <1>1, <1>2, <1>3, <1>4, <1>9, TaskFrames, StillFrame DEF SweepPrune
<1>10. CASE SweepFail
  BY <1>1, <1>2, <1>3, <1>4, <1>10, TaskFrames, StillFrame DEF SweepFail, store
<1> QED
  BY <1>5, <1>6, <1>7, <1>8, <1>9, <1>10 DEF SweepNext

\* Every operation of class Runs keeps the invariant.
LEMMA RunThreadRuns == TypeOK /\ RunThreadInv /\ RunsNext => RunThreadInv'
<1> SUFFICES ASSUME TypeOK, RunThreadInv, RunsNext PROVE RunThreadInv'
  OBVIOUS
<1>1. sweep' = sweep => NoNewSweep
  BY DEF NoNewSweep
<1>2. runs' = runs => NoneCreated
  BY DEF NoneCreated
<1>3. thr' = thr /\ nslot' = nslot => TidsKept
  BY DEF TidsKept
<1>4. ASSUME NEW S, runs' = WithoutRuns(S) PROVE NoneCreated
  BY <1>4 DEF NoneCreated, WithoutRuns, NoRun
<1>5. ASSUME NEW t, NEW p, NEW a, InsertRun(t, p, a) PROVE CreatedFor(t)
  <2>1. CASE runs' = runs
    BY <2>1 DEF CreatedFor
  <2>2. CASE runs' = [runs EXCEPT ![nrun + 1] = [tid |-> t, status |-> "pending", at |-> now + a]]
    BY <2>2 DEF CreatedFor, TypeOK
  <2> QED
    BY <1>5, <2>1, <2>2 DEF InsertRun
<1>6. ASSUME NEW t \in Tid, NEW p \in Prevent, NEW a \in AfterSeconds, RunsPut(t, p, a)
      PROVE RunThreadInv'
  <2>1. PICK s \in Lookup(t) : \/ thr' = thr
                               \/ thr' = [thr EXCEPT ![s].status = "busy", ![s].upd = now]
    BY <1>6 DEF RunsPut
  <2>2. nslot' = nslot /\ task' = task /\ sweep' = sweep /\ CreatedFor(t)
    BY <1>5, <1>6 DEF RunsPut
  <2>3. TidsKept
    BY <2>1, <2>2 DEF TidsKept, TypeOK, Thread
  <2>4. Exists(t) /\ t # NoTid
    BY <2>1, ConstantsAssumption DEF Exists, Lookup
  <2> QED
    BY <1>1, <2>2, <2>3, <2>4, TaskFrames, KeptFrame
<1>7. ASSUME NEW c \in Client, NEW t \in Tid, NEW p \in Prevent, NEW a \in AfterSeconds,
             RunsPutCreate(c, t, p, a)
      PROVE RunThreadInv'
  <2>1. /\ task'[c].op = "create" /\ task'[c].tid = t
        /\ \A d \in Client : d # c => task'[d] = task[d]
    BY <1>7 DEF RunsPutCreate, Suspend, Idle, TypeOK
  <2>2. thr' = thr /\ nslot' = nslot /\ runs' = runs /\ sweep' = sweep
    BY <1>7 DEF RunsPutCreate, store
  <2>3. RunsNamed'
    BY <2>1, <2>2, ConstantsAssumption DEF RunThreadInv, RunsNamed
  <2>4. DeletersHoldRef'
    BY <2>1, <2>2 DEF RunThreadInv, DeletersHoldRef, HoldsRef
  <2> QED
    BY <2>2, <2>3, <2>4 DEF RunThreadInv, RunsHaveThread, SlotsInOrder, Exists, SlotsOf
<1>8. ASSUME NEW c \in Client, RunsPutAppend(c) PROVE RunThreadInv'
  <2>1. task[c].tid \in Tid
    <3>1. task[c].tid \in Tid \cup {NoTid}
      BY DEF TypeOK, Task
    <3> QED
      BY <1>8, <3>1 DEF RunsPutAppend, Resumable, RunThreadInv, RunsNamed
  <2>2. OneAppended(task[c].tid)
    BY <1>8, ConstantsAssumption DEF RunsPutAppend, AppendThread, OneAppended, TypeOK, Slot
  <2>3. CreatedFor(task[c].tid) /\ NoNewTask /\ NoNewSweep
    BY <1>1, <1>5, <1>8, TaskFrames DEF RunsPutAppend
  <2> QED
    BY <2>1, <2>2, <2>3, AppendFrame
<1>9. ASSUME NEW r \in Rid, RunsDelete(r) PROVE RunThreadInv'
  BY <1>1, <1>3, <1>4, <1>9, TaskFrames, StillFrame DEF RunsDelete
<1>10. ASSUME NEW c \in Client, NEW r \in Rid, RunsDeleteCall(c, r) \/ RunsCancelEager(c, r)
       PROVE RunThreadInv'
  <2>1. /\ [Idle EXCEPT !.op = "rundel", !.rid = r].op = "rundel"
        /\ [Idle EXCEPT !.op = "eager", !.rid = r].op = "eager"
    BY DEF Idle
  <2>2. NoNewTask
    BY <1>10, <2>1, TaskFrames DEF RunsDeleteCall, RunsCancelEager
  <2> QED
    BY <1>1, <1>2, <1>3, <1>10, <2>2, StillFrame DEF RunsDeleteCall, RunsCancelEager, store
<1>11. ASSUME NEW c \in Client, RunsDeleteFinish(c) PROVE RunThreadInv'
  BY <1>1, <1>3, <1>4, <1>11, TaskFrames, StillFrame DEF RunsDeleteFinish
<1>12. ASSUME NEW c \in Client, RunsDeleteFail(c) PROVE RunThreadInv'
  BY <1>1, <1>2, <1>3, <1>12, TaskFrames, StillFrame DEF RunsDeleteFail, store
<1>13. ASSUME NEW r \in Rid, NEW a \in CancelAction, RunsCancel(r, a) PROVE RunThreadInv'
  <2>1. runs' = [runs EXCEPT ![r].status = "interrupted"] /\ runs[r].status # "absent"
    BY <1>13 DEF RunsCancel, Cancelable, Active
  <2>2. NoneCreated
    BY <2>1 DEF NoneCreated, TypeOK
  <2>3. thr' = thr \/ thr' = [s \in Slot |-> IF s \in Lookup(runs[r].tid)
                                THEN [thr[s] EXCEPT !.status = "idle", !.upd = now] ELSE thr[s]]
    BY <1>13 DEF RunsCancel
  <2>4. nslot' = nslot /\ task' = task /\ sweep' = sweep
    BY <1>13 DEF RunsCancel
  <2>5. TidsKept
    BY <2>3, <2>4 DEF TidsKept, TypeOK, Thread
  <2> QED
    BY <1>1, <2>2, <2>4, <2>5, TaskFrames, StillFrame
<1>14. ASSUME NEW c \in Client, RunsCancelDelete(c) PROVE RunThreadInv'
  <2>1. NoNewTask
    <3>1. CASE task' = [task EXCEPT ![c].op = "rundel"]
      <4>1. task'[c].op = "rundel" /\ \A d \in Client : d # c => task'[d] = task[d]
        BY <3>1 DEF TypeOK, Task
      <4> QED
        BY <4>1 DEF NoNewTask
    <3> QED
      BY <1>14, <3>1, TaskFrames DEF RunsCancelDelete
  <2>2. NoneCreated /\ TidsKept /\ NoNewSweep
    BY <1>1, <1>2, <1>3, <1>4, <1>14 DEF RunsCancelDelete
  <2> QED
    BY <2>1, <2>2, StillFrame
<1>15. ASSUME NEW r, NEW a, WorkerHears(r, a) PROVE RunThreadInv'
  <2>1. runs' = runs /\ thr' = thr /\ nslot' = nslot /\ task' = task /\ sweep' = sweep
    BY <1>15 DEF WorkerHears, store
  <2>2. NoneCreated /\ TidsKept
    BY <2>1 DEF NoneCreated, TidsKept
  <2> QED
    BY <1>1, <2>1, <2>2, TaskFrames, StillFrame
<1> QED
  BY <1>6, <1>7, <1>8, <1>9, <1>10, <1>11, <1>12, <1>13, <1>14, <1>15 DEF RunsNext

\* The scheduler and the end of a worker keep the invariant.
LEMMA RunThreadWorker ==
  TypeOK /\ RunThreadInv /\ (QueueNext \/ \E r \in Rid : WorkerNext(r)) => RunThreadInv'
<1> SUFFICES ASSUME TypeOK, RunThreadInv, QueueNext \/ \E r \in Rid : WorkerNext(r)
             PROVE  RunThreadInv'
  OBVIOUS
<1>1. nslot' = nslot /\ task' = task /\ sweep' = sweep
  BY DEF QueueNext, QueueWake, QueueClaim, WorkerNext, WorkerLost, WorkerReport, WorkerRollback,
     WorkerRollbackCall, WorkerRollbackFinish, WorkerRollbackFail, store
<1>2. ASSUME NEW rs, NEW s \in Slot, NEW base, NEW upd, SetThread(rs, s, base, upd) PROVE TidsKept
  BY <1>1, <1>2 DEF SetThread, TidsKept, TypeOK, Thread
<1>3. TidsKept
  <2>1. thr' = thr => TidsKept
    BY <1>1 DEF TidsKept
  <2>2. ASSUME NEW r \in Rid, NEW out, NEW base, WorkerReport(r, out, base) PROVE TidsKept
    BY <1>2, <2>2, LookupType DEF WorkerReport
  <2> QED
    BY <1>2, <2>1, <2>2, LookupType DEF QueueNext, QueueWake, QueueClaim, WorkerNext, WorkerLost,
       WorkerRollback, WorkerRollbackCall, WorkerRollbackFinish, WorkerRollbackFail, Attached, store
<1>4. NoneCreated
  <2>1. runs' = runs => NoneCreated
    BY DEF NoneCreated
  <2>2. ASSUME NEW S, runs' = WithoutRuns(S) PROVE NoneCreated
    BY <2>2 DEF NoneCreated, WithoutRuns, NoRun
  <2>3. CASE QueueNext
    <3>1. CASE QueueClaim
      <4>1. \A r \in Claimed : r \in Rid /\ runs[r].status = "pending"
        BY DEF Claimed, Batch, PendingRuns
      <4>2. \A r \in Rid : runs'[r].tid = runs[r].tid
                           /\ runs'[r].status \in {runs[r].status, IF r \in Claimed THEN "running" ELSE "absent"}
        BY <3>1 DEF QueueClaim, RunsSweep, TypeOK, Run
      <4> QED
        BY <4>1, <4>2 DEF NoneCreated
    <3> QED
      BY <2>1, <2>3, <3>1 DEF QueueNext, QueueWake, store
  <2>4. ASSUME NEW r \in Rid, NEW out \in Outcome, NEW base, WorkerReport(r, out, base)
        PROVE  NoneCreated
    <3>1. runs' = [runs EXCEPT ![r].status = out] /\ runs[r].status # "absent"
      BY <2>4 DEF WorkerReport, Gone
    <3> QED
      BY <3>1 DEF NoneCreated, TypeOK
  <2> QED
    BY <2>1, <2>2, <2>3, <2>4 DEF WorkerNext, WorkerLost, WorkerRollback, WorkerRollbackCall,
       WorkerRollbackFinish, WorkerRollbackFail, store
<1>5. NoNewSweep
  BY <1>1 DEF NoNewSweep
<1> QED
  BY <1>1, <1>3, <1>4, <1>5, TaskFrames, StillFrame

\* The invariant of every behaviour.
LEMMA RunThreadInvariant == Spec => []RunThreadInv
<1>1. TypeOK /\ RunThreadInv /\ [Next]_vars => RunThreadInv'
  <2> SUFFICES ASSUME TypeOK, RunThreadInv, [Next]_vars PROVE RunThreadInv'
    OBVIOUS
  <2>1. CASE Tick \/ UNCHANGED vars
    <3>1. thr' = thr /\ nslot' = nslot /\ runs' = runs /\ sweep' = sweep /\ task' = task
      BY <2>1 DEF Tick, vars, store
    <3> QED
      BY <3>1, TaskFrames, StillFrame DEF TidsKept, NoneCreated, NoNewSweep
  <2>2. CASE Restart
    <3>1. thr' = thr /\ nslot' = nslot /\ runs' = runs
      BY <2>2 DEF Restart, store
    <3>2. NoNewTask /\ NoNewSweep
      BY <2>2 DEF Restart, NoNewTask, NoNewSweep, Idle, NoSweep
    <3> QED
      BY <3>1, <3>2, StillFrame DEF TidsKept, NoneCreated
  <2> QED
    BY <2>1, <2>2, RunThreadThreads, RunThreadSweep, RunThreadRuns, RunThreadWorker DEF Next
<1> QED
  BY <1>1, RunThreadInit, TypeCorrect, PTL DEF Spec

\* No operation leaves a run behind whose thread is gone, and none creates a
\* run without a thread: Runs.next never meets its "Unexpected missing
\* thread" branch, although deletions suspend between their look-up and the
\* removal while threads are replaced, deleted and created again.
THEOREM RunsKeepThread == Spec => []RunsHaveThread
<1>1. RunThreadInv => RunsHaveThread
  BY DEF RunThreadInv
<1> QED
  BY <1>1, RunThreadInvariant, PTL

----------------------------------------------------------------------------
(* What a step may do to the runs and to the workers, in nine kinds.       *)

\* Runs are at most removed.
RunsRemoved == nrun' = nrun /\ \A r \in Rid : runs'[r] = runs[r] \/ runs'[r] = NoRun

StepRemove == RunsRemoved /\ worker' = worker

StepCreate ==
  /\ worker' = worker
  /\ nrun < MaxRun /\ nrun' = nrun + 1
  /\ \E t, at :
       /\ t \notin maint \/ \E c \in Client : task[c].op = "create" /\ task[c].tid = t
       /\ runs' = [runs EXCEPT ![nrun + 1] = [tid |-> t, status |-> "pending", at |-> at]]

StepCancel(r) ==
  /\ runs[r].status \in Active
  /\ nrun' = nrun /\ runs' = [runs EXCEPT ![r].status = "interrupted"]
  /\ worker' = worker

StepHear(r) ==
  /\ runs' = runs /\ nrun' = nrun
  /\ worker'[r].pc = worker[r].pc /\ worker'[r].tid = worker[r].tid /\ worker'[r].sig # "none"
  /\ \A q \in Rid : q # r => worker'[q] = worker[q]

StepReport(r) ==
  /\ worker[r].pc = "exec" /\ runs[r].status # "absent" /\ StopWorker(r)
  /\ nrun' = nrun
  /\ \E out \in RunStatus \ {"running"} :
       /\ out = "pending" /\ runs[r].status = "interrupted" => <<r, worker[r].tid>> \in back'
       /\ runs' = [runs EXCEPT ![r].status = out]

StepStop(r) == RunsRemoved /\ StopWorker(r)

StepRollback(r) ==
  /\ runs' = runs /\ nrun' = nrun
  /\ worker[r].pc = "exec" /\ worker[r].sig = "rollback"
  /\ worker'[r].pc = "rollback" /\ worker'[r].tid = worker[r].tid /\ worker'[r].sig = "rollback"
  /\ \A q \in Rid : q # r => worker'[q] = worker[q]

StepRestart == runs' = runs /\ nrun' = nrun /\ \A r \in Rid : worker'[r].pc = "off"

RunStep ==
  \/ StepRemove \/ StepCreate \/ QueueClaim \/ StepRestart
  \/ \E r \in Rid : StepCancel(r) \/ StepHear(r) \/ StepReport(r) \/ StepStop(r) \/ StepRollback(r)

\* Every step is of one of the kinds.
LEMMA RunSteps == TypeOK /\ [Next]_vars => RunStep
<1> SUFFICES ASSUME TypeOK, [Next]_vars PROVE RunStep
  OBVIOUS
<1>1. runs' = runs /\ nrun' = nrun /\ worker' = worker => StepRemove
  BY DEF StepRemove, RunsRemoved
<1>2. ASSUME NEW S, runs' = WithoutRuns(S), nrun' = nrun PROVE RunsRemoved
  BY <1>2 DEF RunsRemoved, WithoutRuns
<1>3. ASSUME NEW t, NEW ref, ApplyDelete(t, ref), nrun' = nrun PROVE RunsRemoved
  BY <1>2, <1>3 DEF ApplyDelete
<1>4. CASE ThreadsNext
  BY <1>1, <1>3, <1>4 DEF RunStep, StepRemove, ThreadsNext, ThreadsPut, ThreadsCopy, ThreadsPatch,
     ThreadsPatchCall, ThreadsPatchFinish, ThreadsDelete, ThreadsDeleteCall, ThreadsDeleteFinish,
     ThreadsDeleteFail, ThreadsSetStatus, store
<1>5. CASE SweepNext
  BY <1>1, <1>3, <1>5 DEF RunStep, StepRemove, SweepNext, SweepSelect, SweepSkip, SweepClaim,
     SweepDelete, SweepPrune, SweepFail, SweepEnd, store
<1>6. CASE RunsNext
  <2>1. ASSUME NEW t, NEW p, NEW a, InsertRun(t, p, a), worker' = worker,
               t \notin maint \/ \E c \in Client : task[c].op = "create" /\ task[c].tid = t
        PROVE  StepRemove \/ StepCreate
    BY <1>1, <2>1 DEF InsertRun, StepCreate
  <2>2. ASSUME NEW t \in Tid, NEW p \in Prevent, NEW a \in AfterSeconds, RunsPut(t, p, a) PROVE RunStep
    BY <2>1, <2>2 DEF RunsPut, MaintenanceOver, RunStep
  <2>3. ASSUME NEW c \in Client, RunsPutAppend(c) PROVE RunStep
    BY <2>1, <2>3 DEF RunsPutAppend, Resumable, RunStep
  <2>4. ASSUME NEW r \in Rid, NEW a \in CancelAction, RunsCancel(r, a) PROVE RunStep
    BY <2>4, ConstantsAssumption DEF RunsCancel, Cancelable, StepCancel, RunStep
  <2>5. ASSUME NEW c \in Client, RunsCancelDelete(c) PROVE RunStep
    <3>1. RunsRemoved
      BY <1>2, <2>5 DEF RunsCancelDelete, RunsRemoved
    <3> QED
      BY <2>5, <3>1 DEF RunsCancelDelete, StepRemove, RunStep
  <2>6. ASSUME NEW r \in Rid, RunsDelete(r) PROVE RunStep
    BY <1>2, <2>6 DEF RunsDelete, StepRemove, RunStep
  <2>7. ASSUME NEW c \in Client, RunsDeleteFinish(c) PROVE RunStep
    BY <1>2, <2>7 DEF RunsDeleteFinish, StepRemove, RunStep
  <2>8. ASSUME NEW r \in Rid, NEW a \in CancelAction, WorkerHears(r, a) PROVE RunStep
    <3>1. worker' = [worker EXCEPT ![r].sig = a] /\ a # "none" /\ runs' = runs /\ nrun' = nrun
      BY <2>8, ConstantsAssumption DEF WorkerHears, store
    <3>2. StepHear(r)
      BY <3>1 DEF StepHear, TypeOK, Worker
    <3> QED
      BY <3>2 DEF RunStep
  <2> QED
    BY <1>1, <1>6, <2>2, <2>3, <2>4, <2>5, <2>6, <2>7, <2>8 DEF RunsNext, RunsPutCreate, RunsDeleteCall,
       RunsDeleteFail, RunsCancelEager, store, RunStep
<1>7. CASE QueueNext
  BY <1>1, <1>7 DEF QueueNext, QueueWake, store, RunStep
<1>8. ASSUME NEW r \in Rid, WorkerNext(r) PROVE RunStep
  <2>1. CASE \E out \in Outcome : WorkerLost(r, out)
    BY <2>1 DEF WorkerLost, StepStop, RunsRemoved, RunStep, store
  <2>2. CASE WorkerRollbackFail(r)
    BY <2>2 DEF WorkerRollbackFail, StepStop, RunsRemoved, RunStep, store
  <2>3. CASE (\E base \in BaseStatus : WorkerRollback(r, base)) \/ WorkerRollbackFinish(r)
    BY <1>2, <2>3 DEF WorkerRollback, WorkerRollbackFinish, StepStop, RunStep
  <2>4. ASSUME NEW out \in Outcome, NEW base, WorkerReport(r, out, base) PROVE RunStep
    <3>1. out \in RunStatus \ {"running"}
      BY <2>4, ConstantsAssumption DEF WorkerReport, RunStatus, Active
    <3>2. StepReport(r)
      BY <2>4, <3>1 DEF WorkerReport, MayReport, Gone, StepReport
    <3> QED
      BY <3>2 DEF RunStep
  <2>5. ASSUME NEW base \in BaseStatus, WorkerRollbackCall(r, base) PROVE RunStep
    <3>1. PICK s \in Lookup(worker[r].tid) :
            worker' = [worker EXCEPT ![r] =
                         [@ EXCEPT !.pc = "rollback", !.ref = RefTo(s), !.at = now, !.base = base]]
      BY <2>5 DEF WorkerRollbackCall
    <3>2. /\ worker'[r].pc = "rollback" /\ worker'[r].tid = worker[r].tid
          /\ worker'[r].sig = worker[r].sig
          /\ \A q \in Rid : q # r => worker'[q] = worker[q]
      BY <3>1 DEF TypeOK, Worker
    <3>3. StepRollback(r)
      BY <2>5, <3>2 DEF WorkerRollbackCall, MayReport, StepRollback, store
    <3> QED
      BY <3>3 DEF RunStep
  <2> QED
    BY <1>8, <2>1, <2>2, <2>3, <2>4, <2>5 DEF WorkerNext
<1>9. CASE Tick \/ UNCHANGED vars
  BY <1>1, <1>9 DEF Tick, vars, store, RunStep
<1>10. CASE Restart
  <2>1. StepRestart
    BY <1>10 DEF Restart, StepRestart, store, NoWorker
  <2> QED
    BY <2>1 DEF RunStep
<1> QED
  BY <1>4, <1>5, <1>6, <1>7, <1>8, <1>9, <1>10 DEF Next

\* A worker that ends leaves the others alone.
LEMMA StopEffect ==
  ASSUME TypeOK, NEW r \in Rid, StopWorker(r)
  PROVE  worker'[r].pc = "off" /\ \A q \in Rid : q # r => worker'[q] = worker[q]
BY DEF StopWorker, NoWorker, TypeOK

\* A change of the status of one run.
LEMMA StatusEffect ==
  ASSUME TypeOK, NEW r \in Rid, NEW st, runs' = [runs EXCEPT ![r].status = st]
  PROVE  /\ runs'[r].status = st /\ runs'[r].tid = runs[r].tid /\ runs'[r].at = runs[r].at
         /\ \A q \in Rid : q # r => runs'[q] = runs[q]
BY DEF TypeOK, Run

\* Runs.next starts pending runs, each with a worker of its own.
LEMMA ClaimEffect ==
  ASSUME TypeOK, QueueClaim
  PROVE  /\ nrun' = nrun
         /\ \A r \in Rid : r \notin Claimed => runs'[r] = runs[r] /\ worker'[r] = worker[r]
         /\ \A r \in Claimed : /\ r \in Rid /\ r \in Batch /\ runs[r].status = "pending"
                               /\ runs'[r].status = "running" /\ runs'[r].tid = runs[r].tid
                               /\ worker'[r].pc = "exec" /\ worker'[r].tid = runs[r].tid
                               /\ worker'[r].sig = "none"
<1>1. \A r \in Claimed : r \in Rid /\ r \in Batch /\ runs[r].status = "pending"
  BY DEF Claimed, Batch, PendingRuns
<1>2. \A r \in Rid : r \notin Claimed => runs'[r] = runs[r] /\ worker'[r] = worker[r]
  BY DEF QueueClaim, RunsSweep
<1>3. \A r \in Claimed : runs'[r].tid = runs[r].tid /\ runs'[r].status = "running"
  BY <1>1 DEF QueueClaim, RunsSweep, TypeOK, Run
<1>4. \A r \in Claimed : /\ worker'[r].pc = "exec" /\ worker'[r].tid = runs[r].tid
                         /\ worker'[r].sig = "none"
  BY <1>1 DEF QueueClaim, NoWorker
<1> QED
  BY <1>1, <1>2, <1>3, <1>4 DEF QueueClaim

\* A new run gets the next number.
LEMMA CreateEffect ==
  ASSUME TypeOK, StepCreate
  PROVE  /\ nrun + 1 \in Rid /\ nrun' = nrun + 1 /\ worker' = worker
         /\ runs'[nrun + 1].status = "pending"
         /\ \A q \in Rid : q # nrun + 1 => runs'[q] = runs[q]
BY ConstantsAssumption DEF StepCreate, TypeOK, Rid

\* No worker has a pending or a finished run: what a step does to runs and
\* workers keeps it so, whatever is cancelled, deleted or retried.
LEMMA WorkersStep == TypeOK /\ WorkersInv /\ RunStep => WorkersInv'
<1> SUFFICES ASSUME TypeOK, WorkersInv, RunStep PROVE RunsInOrder' /\ WorkersExecute'
  BY DEF WorkersInv
<1> USE DEF WorkersInv, RunsInOrder, WorkersExecute
<1>1. NoRun.status = "absent"
  BY DEF NoRun
<1>2. CASE StepRemove
  BY <1>1, <1>2 DEF StepRemove, RunsRemoved
<1>3. CASE StepCreate
  <2>1. worker[nrun + 1].pc = "off"
    BY <1>3, CreateEffect, ConstantsAssumption DEF TypeOK
  <2>2. RunsInOrder'
    BY <1>3, CreateEffect, ConstantsAssumption DEF TypeOK, Rid
  <2>3. WorkersExecute'
    BY <1>3, <2>1, CreateEffect
  <2> QED
    BY <2>2, <2>3
<1>4. ASSUME NEW r \in Rid, StepHear(r) PROVE RunsInOrder' /\ WorkersExecute'
  BY <1>4 DEF StepHear
<1>5. CASE QueueClaim
  BY <1>5, ClaimEffect
<1>6. CASE StepRestart
  BY <1>6 DEF StepRestart
<1>7. ASSUME NEW r \in Rid, StepCancel(r) PROVE RunsInOrder' /\ WorkersExecute'
  <2>1. /\ runs'[r].status = "interrupted" /\ runs'[r].tid = runs[r].tid
        /\ \A q \in Rid : q # r => runs'[q] = runs[q]
    BY <1>7, StatusEffect DEF StepCancel
  <2>2. nrun' = nrun /\ runs[r].status # "absent" /\ worker' = worker
    BY <1>7 DEF StepCancel, Active
  <2> QED
    BY <2>1, <2>2
<1>8. ASSUME NEW r \in Rid, StepReport(r) PROVE RunsInOrder' /\ WorkersExecute'
  <2>1. PICK out : runs' = [runs EXCEPT ![r].status = out]
    BY <1>8 DEF StepReport
  <2>2. \A q \in Rid : q # r => runs'[q] = runs[q]
    BY <2>1, StatusEffect
  <2>3. worker'[r].pc = "off" /\ \A q \in Rid : q # r => worker'[q] = worker[q]
    BY <1>8, StopEffect DEF StepReport
  <2>4. nrun' = nrun /\ ~(r > nrun)
    BY <1>8 DEF StepReport
  <2> QED
    BY <2>2, <2>3, <2>4
<1>9. ASSUME NEW r \in Rid, StepStop(r) PROVE RunsInOrder' /\ WorkersExecute'
  <2>1. worker'[r].pc = "off" /\ \A q \in Rid : q # r => worker'[q] = worker[q]
    BY <1>9, StopEffect DEF StepStop
  <2> QED
    BY <1>1, <1>9, <2>1 DEF StepStop, RunsRemoved
<1>10. ASSUME NEW r \in Rid, StepRollback(r) PROVE RunsInOrder' /\ WorkersExecute'
  BY <1>10 DEF StepRollback
<1> QED
  BY <1>2, <1>3, <1>4, <1>5, <1>6, <1>7, <1>8, <1>9, <1>10 DEF RunStep

\* The invariant of every behaviour.
LEMMA WorkersInvariant == Spec => []WorkersInv
<1>1. Init => WorkersInv
  BY DEF Init, WorkersInv, RunsInOrder, WorkersExecute, NoRun, NoWorker
<1> QED
  BY <1>1, RunSteps, WorkersStep, TypeCorrect, PTL DEF Spec

----------------------------------------------------------------------------
(* Finished runs, and the order and the number of the runs started.        *)

\* No late cancel, retry or second worker changes the outcome of a run.
LEMMA OutcomeKept ==
  ASSUME TypeOK, WorkersInv, RunStep, NEW r \in Rid, runs[r].status \in {"success", "error"}
  PROVE  runs'[r].status \in {runs[r].status, "absent"}
<1>1. NoRun.status = "absent" /\ worker[r].pc = "off"
  BY DEF NoRun, WorkersInv, WorkersExecute
<1>2. CASE StepCreate
  <2>1. r # nrun + 1
    BY <1>2, CreateEffect, ConstantsAssumption DEF WorkersInv, RunsInOrder, TypeOK
  <2> QED
    BY <1>2, <2>1, CreateEffect
<1>3. CASE QueueClaim
  BY <1>3, ClaimEffect
<1>4. ASSUME NEW q \in Rid, StepCancel(q) PROVE runs'[r].status = runs[r].status
  BY <1>4, StatusEffect DEF StepCancel, Active
<1>5. ASSUME NEW q \in Rid, StepReport(q) PROVE runs'[r].status = runs[r].status
  BY <1>1, <1>5, StatusEffect DEF StepReport
<1> QED
  BY <1>1, <1>2, <1>3, <1>4, <1>5
     DEF RunStep, StepRemove, StepHear, StepStop, StepRollback, StepRestart, RunsRemoved

\* A run that ended in "success" or "error" keeps that outcome until it is
\* deleted, with any interleaving of late cancels, retries, restarts and
\* deletions: no worker has a finished run.
THEOREM OutcomesStay == Spec => FinishedStays
<1>1. TypeOK /\ WorkersInv /\ [Next]_vars =>
        [\A r \in Rid : runs[r].status \in {"success", "error"} =>
           runs'[r].status \in {runs[r].status, "absent"}]_vars
  BY RunSteps, OutcomeKept
<1> QED
  BY <1>1, WorkersInvariant, TypeCorrect, PTL DEF Spec, FinishedStays

\* The runs that come before a run in the sorted list, and their number.
Before(r) == {q \in PendingRuns : RunsBefore(q, r)}

\* An earlier run has fewer runs before it.
LEMMA BeforeGrows ==
  ASSUME TypeOK, NEW q \in PendingRuns, NEW r \in PendingRuns, RunsBefore(q, r)
  PROVE  /\ Cardinality(Before(q)) \in Nat /\ Cardinality(Before(r)) \in Nat
         /\ Cardinality(Before(q)) < Cardinality(Before(r))
<1>1. \A p \in PendingRuns : p \in Int /\ runs[p].at \in Int
  BY DEF PendingRuns, Rid, TypeOK, Run
<1>2. IsFiniteSet(Before(r))
  <2>1. IsFiniteSet(Rid)
    BY FS_Interval, ConstantsAssumption DEF Rid
  <2>2. Before(r) \subseteq Rid
    BY DEF Before, PendingRuns
  <2> QED
    BY <2>1, <2>2, FS_Subset
<1>3. Before(q) \subseteq Before(r)
  BY <1>1 DEF Before, RunsBefore
<1>4. q \in Before(r) /\ q \notin Before(q)
  BY <1>1 DEF Before, RunsBefore
<1>5. /\ IsFiniteSet(Before(q)) /\ Cardinality(Before(q)) <= Cardinality(Before(r))
      /\ Cardinality(Before(r)) # Cardinality(Before(q))
  BY <1>2, <1>3, <1>4, FS_Subset
<1>6. Cardinality(Before(q)) \in Nat /\ Cardinality(Before(r)) \in Nat
  BY <1>2, <1>5, FS_CardinalityType
<1> QED
  BY <1>5, <1>6

\* Runs.next passes over no pending run of the same thread: an earlier one is
\* in the batch as well, and is started instead.
LEMMA ClaimInOrder ==
  ASSUME TypeOK, QueueClaim, NEW q \in Rid, NEW r \in Claimed,
         runs[q].status = "pending", runs[q].tid = runs[r].tid
  PROVE  runs[r].at <= runs[q].at
<1> SUFFICES ASSUME runs[q].at < runs[r].at PROVE FALSE
  BY DEF TypeOK, Run, Claimed, Batch, PendingRuns
<1>1. r \in Batch /\ r \in PendingRuns /\ r \in Rid
  BY DEF Claimed, Batch, PendingRuns
<1>2. q \in PendingRuns
  <2>1. runs[q].at \in Int /\ runs[r].at \in Int /\ queue.now \in Int
    BY <1>1 DEF TypeOK, Run, Scheduler, Time
  <2> QED
    BY <1>1, <2>1 DEF PendingRuns
<1>3. RunsBefore(q, r)
  BY DEF RunsBefore
<1>4. q \in Batch
  <2>1. Cardinality(Before(r)) < queue.limit
    BY <1>1 DEF Batch, Before
  <2>2. Cardinality(Before(q)) < queue.limit
    <3>1. queue.limit \in Int
      BY DEF TypeOK, Scheduler
    <3> QED
      BY <1>1, <1>2, <1>3, <2>1, <3>1, BeforeGrows
  <2> QED
    BY <1>2, <2>2 DEF Batch, Before
<1> QED
  BY <1>3, <1>4 DEF Claimed

\* Runs.next starts the runs of a thread in the order of created_at, whatever
\* the limit cuts off, however many runs were retried or deferred, and
\* although the time and the limit are the ones it read before it slept.
THEOREM StartsInOrder == Spec => StartInOrder
<1> DEFINE Ordered == \A q, r \in Rid :
                        /\ runs[r].status = "pending" /\ runs'[r].status = "running"
                        /\ runs[q].status = "pending" /\ runs[q].tid = runs[r].tid
                        => runs[r].at <= runs[q].at
<1>1. TypeOK /\ [Next]_vars => [Ordered]_vars
  <2> SUFFICES ASSUME TypeOK, [Next]_vars PROVE Ordered
    OBVIOUS
  <2>1. CASE NoneStarted
    BY <2>1 DEF NoneStarted
  <2>2. CASE runs' = runs
    BY <2>2
  <2>3. CASE QueueClaim
    BY <2>3, ClaimInOrder, ClaimEffect
  <2> QED
    BY <2>1, <2>2, <2>3, ThreadsStartNone, RunsStartNone, WorkerStartsNone
       DEF Next, QueueNext, QueueWake, Tick, Restart, vars, store
<1> QED
  BY <1>1, TypeCorrect, PTL DEF Spec, StartInOrder

----------------------------------------------------------------------------
(* The runners.                                                            *)

\* Runs.next starts at most as many runs as its limit.
LEMMA ClaimedBounded ==
  ASSUME TypeOK
  PROVE  IsFiniteSet(Claimed) /\ Cardinality(Claimed) \in Nat /\ Cardinality(Claimed) <= queue.limit
<1>1. IsFiniteSet(Batch) /\ Cardinality(Batch) \in Nat
  <2>1. IsFiniteSet(Rid)
    BY FS_Interval, ConstantsAssumption DEF Rid
  <2>2. Batch \subseteq Rid
    BY DEF Batch, PendingRuns
  <2> QED
    BY <2>1, <2>2, FS_Subset, FS_CardinalityType
<1>2. queue.limit \in Nat
  BY ConstantsAssumption DEF TypeOK, Scheduler
<1>3. /\ IsFiniteSet(0..(queue.limit - 1))
      /\ Cardinality(0..(queue.limit - 1)) = queue.limit
  <2> DEFINE last == queue.limit - 1
  <2>1. last \in Int /\ 0 \in Int /\ (IF 0 > last THEN 0 ELSE last - 0 + 1) = queue.limit
    BY <1>2
  <2> HIDE DEF last
  <2>2. IsFiniteSet(0..last) /\ Cardinality(0..last) = queue.limit
    BY <2>1, FS_Interval
  <2> QED
    BY <2>2 DEF last
<1>4. Cardinality(Batch) <= queue.limit
  <2> SUFFICES ASSUME queue.limit < Cardinality(Batch) PROVE FALSE
    BY <1>1, <1>2
  <2> DEFINE f == [r \in Batch |-> Cardinality(Before(r))]
  <2>1. f \in [Batch -> 0..(queue.limit - 1)]
    <3> SUFFICES ASSUME NEW r \in Batch PROVE Cardinality(Before(r)) \in 0..(queue.limit - 1)
      OBVIOUS
    <3>1. Cardinality(Before(r)) < queue.limit
      BY DEF Batch, Before
    <3>2. Cardinality(Before(r)) \in Nat
      <4>1. Before(r) \subseteq Rid
        BY DEF Before, PendingRuns
      <4>2. IsFiniteSet(Rid)
        BY FS_Interval, ConstantsAssumption DEF Rid
      <4>3. IsFiniteSet(Before(r))
        BY <4>1, <4>2, FS_Subset
      <4> QED
        BY <4>3, FS_CardinalityType
    <3> QED
      BY <1>2, <3>1, <3>2
  <2> HIDE DEF f
  <2>2. PICK q \in Batch, r \in Batch : q # r /\ f[q] = f[r]
    <3> DEFINE ranks == 0..(queue.limit - 1)
    <3>1. IsFiniteSet(ranks) /\ Cardinality(ranks) < Cardinality(Batch) /\ f \in [Batch -> ranks]
      BY <1>3, <2>1
    <3> HIDE DEF ranks
    <3> QED
      BY <1>1, <3>1, FS_PigeonHole
  <2>3. q \in PendingRuns /\ r \in PendingRuns /\ Cardinality(Before(q)) = Cardinality(Before(r))
    BY <2>2 DEF Batch, f
  <2>4. RunsBefore(q, r) \/ RunsBefore(r, q)
    BY <2>2, <2>3 DEF RunsBefore, PendingRuns, Rid, TypeOK, Run
  <2> QED
    BY <2>3, <2>4, BeforeGrows
<1>5. Claimed \subseteq Batch
  BY DEF Claimed
<1>6. IsFiniteSet(Claimed) /\ Cardinality(Claimed) <= Cardinality(Batch) /\ Cardinality(Claimed) \in Nat
  BY <1>1, <1>5, FS_Subset, FS_CardinalityType
<1> QED
  BY <1>1, <1>2, <1>4, <1>6

\* Workers only end, except when Runs.next starts some.
LEMMA WorkersEnd ==
  ASSUME TypeOK, RunStep, ~QueueClaim
  PROVE  Working' \subseteq Working
<1>3. ASSUME NEW r \in Rid, StepCancel(r) \/ StepHear(r) PROVE Working' \subseteq Working
  BY <1>3 DEF StepCancel, StepHear, Working
<1>4. ASSUME NEW r \in Rid, StepReport(r) \/ StepStop(r) PROVE Working' \subseteq Working
  BY <1>4, StopEffect DEF StepReport, StepStop, Working
<1>5. ASSUME NEW r \in Rid, StepRollback(r) PROVE Working' \subseteq Working
  BY <1>5 DEF StepRollback, Working
<1> QED
  BY <1>3, <1>4, <1>5 DEF RunStep, StepRemove, StepCreate, StepRestart, Working

\* The limit is read while Runs.next begins, and runners are only given back
\* until it starts runs.
LEMMA LimitStep == TypeOK /\ WorkersInv /\ LimitInv /\ [Next]_vars => LimitInv'
<1> SUFFICES ASSUME TypeOK, WorkersInv, LimitInv, [Next]_vars PROVE LimitInv'
  OBVIOUS
<1>1. IsFiniteSet(Working) /\ Cardinality(Working) \in Nat
  BY WorkingFinite
<1>2. Concurrency \in Nat /\ queue.limit \in Nat
  BY ConstantsAssumption DEF TypeOK, Scheduler
<1>3. CASE QueueClaim
  <2>1. Working' = Working \cup Claimed
    BY <1>3, ClaimEffect DEF Working
  <2>2. Working \cap Claimed = {}
    BY <1>3, ClaimEffect DEF Working, WorkersInv, WorkersExecute
  <2>3. Cardinality(Working') = Cardinality(Working) + Cardinality(Claimed)
    <3>1. /\ IsFiniteSet(Claimed) /\ Cardinality(Claimed) \in Nat
          /\ Cardinality({}) = 0
      BY ClaimedBounded, FS_EmptySet
    <3>2. Cardinality(Working \cup Claimed) =
            Cardinality(Working) + Cardinality(Claimed) - Cardinality(Working \cap Claimed)
      BY <1>1, <3>1, FS_Union
    <3>3. Cardinality(Working \cap Claimed) = 0
      BY <2>2, <3>1
    <3>4. Cardinality(Working \cup Claimed) = Cardinality(Working) + Cardinality(Claimed)
      BY <1>1, <3>1, <3>2, <3>3
    <3> QED
      BY <2>1, <3>4
  <2>4. queue'.pc = "idle" /\ queue.pc = "next"
    BY <1>3 DEF QueueClaim, NoQueue
  <2> QED
    BY <1>1, <1>2, <2>3, <2>4, ClaimedBounded DEF LimitInv
<1>4. CASE ~QueueClaim
  <2>1. Working' \subseteq Working
    BY <1>4, RunSteps, WorkersEnd
  <2>2. Cardinality(Working') <= Cardinality(Working) /\ Cardinality(Working') \in Nat
    BY <1>1, <2>1, FS_Subset, FS_CardinalityType
  <2>3. CASE QueueWake
    <3>1. queue'.limit = Concurrency - Cardinality(Working)
      BY <2>3 DEF QueueWake, FreeRunners
    <3> QED
      BY <1>1, <1>2, <2>2, <3>1 DEF LimitInv
  <2>4. CASE queue' = queue
    BY <1>1, <1>2, <2>2, <2>4 DEF LimitInv
  <2>5. CASE Restart
    <3>1. queue'.pc = "idle"
      BY <2>5 DEF Restart, NoQueue
    <3> QED
      BY <1>1, <1>2, <2>2, <3>1 DEF LimitInv
  <2>6. QueueWake \/ queue' = queue \/ Restart
    <3>1. CASE ThreadsNext
      BY <3>1 DEF ThreadsNext, ThreadsPut, ThreadsCopy, ThreadsPatch, ThreadsPatchCall,
         ThreadsPatchFinish, ThreadsDelete, ThreadsDeleteCall, ThreadsDeleteFinish,
         ThreadsDeleteFail, ThreadsSetStatus
    <3>2. CASE SweepNext
      BY <3>2 DEF SweepNext, SweepSelect, SweepSkip, SweepClaim, SweepDelete, SweepPrune,
         SweepFail, SweepEnd
    <3>3. CASE RunsNext
      BY <3>3 DEF RunsNext, RunsPut, RunsPutCreate, RunsPutAppend, RunsDelete, RunsDeleteCall,
         RunsDeleteFinish, RunsDeleteFail, RunsCancel, RunsCancelEager, RunsCancelDelete,
         WorkerHears
    <3>4. CASE \E r \in Rid : WorkerNext(r)
      BY <3>4 DEF WorkerNext, WorkerLost, WorkerReport, WorkerRollback, WorkerRollbackCall,
         WorkerRollbackFinish, WorkerRollbackFail
    <3> QED
      BY <1>4, <3>1, <3>2, <3>3, <3>4 DEF Next, QueueNext, Tick, vars
  <2> QED
    BY <2>3, <2>4, <2>5, <2>6
<1> QED
  BY <1>3, <1>4

\* There are never more workers than runners, with any number of runs and
\* runners: runners.get_nowait() finds one for every run that Runs.next
\* returns, although the limit was read before it slept.
THEOREM RunnersEnough == Spec => []RunnersSuffice
<1>1. Init => LimitInv
  <2>1. ASSUME Init PROVE Working = {}
    BY <2>1 DEF Init, Working, NoWorker
  <2>2. ASSUME Init PROVE queue.pc = "idle"
    BY <2>2 DEF Init, NoQueue
  <2> QED
    BY <2>1, <2>2, FS_EmptySet, ConstantsAssumption DEF LimitInv
<1>2. TypeOK /\ LimitInv => RunnersSuffice
  <2> SUFFICES ASSUME TypeOK, LimitInv PROVE RunnersSuffice
    OBVIOUS
  <2>1. queue.limit \in Nat /\ Concurrency \in Nat /\ Cardinality(Working) \in Nat
    BY WorkingFinite, ConstantsAssumption DEF TypeOK, Scheduler
  <2> QED
    BY <2>1 DEF LimitInv, RunnersSuffice
<1> QED
  BY <1>1, <1>2, LimitStep, WorkersInvariant, TypeCorrect, PTL DEF Spec

(***************************************************************************)
(* The TTL sweeper against runs, requests and deletions.                   *)
(***************************************************************************)
----------------------------------------------------------------------------
(* What a step may do to the requests, the sweeper and the workers.        *)

\* Request c ends, goes on, or is a new one of some operation.
TaskStep(c) ==
  \/ task'[c].op \in {"idle", "rundel", "eager"} /\ task'[c].ttl \in {NoTTL, task[c].ttl}
  \/ /\ task'[c].op = task[c].op /\ task'[c].tid = task[c].tid /\ task'[c].ttl = task[c].ttl
  \/ task'[c].op = "create" /\ "create" \in IfNotExists /\ task'[c].ttl = NoTTL
  \/ /\ task'[c].op = "patch" /\ task'[c].tid \in Tid /\ task'[c].ttl \in TTLInput
     /\ LoopFree /\ (AuthSuspends \/ task'[c].tid \in maint)
  \/ /\ task'[c].op = "delete" /\ task'[c].ttl = NoTTL
     /\ "Threads.delete" \in Workload /\ (AuthSuspends \/ CustomCheckpointer)

SweepStill == sweep' = sweep /\ maint' = maint

\* Every step changes the requests in one of these ways.
LEMMA TaskSteps == ASSUME TypeOK, [Next]_vars PROVE \A c \in Client : TaskStep(c)
<1>1. Idle.op = "idle" /\ Idle.ttl = NoTTL
  BY DEF Idle
<1>2. task' = task => \A c \in Client : TaskStep(c)
  BY DEF TaskStep
<1>3. ASSUME NEW c \in Client, Resume(c) PROVE \A d \in Client : TaskStep(d)
  BY <1>1, <1>3 DEF Resume, TaskStep, TypeOK
<1>4. ASSUME NEW tk \in [Client -> Task], NEW d \in Client
      PROVE  Unlisted(tk)[d].op = tk[d].op /\ Unlisted(tk)[d].tid = tk[d].tid
             /\ Unlisted(tk)[d].ttl = tk[d].ttl
  BY DEF Unlisted, Task
<1>5. task' = Unlisted(task) => \A c \in Client : TaskStep(c)
  BY <1>4 DEF TaskStep, TypeOK
<1>6. ASSUME NEW c \in Client, task' = Unlisted([task EXCEPT ![c] = Idle])
      PROVE  \A d \in Client : TaskStep(d)
  <2>1. [task EXCEPT ![c] = Idle] \in [Client -> Task]
    BY NullTypes DEF TypeOK
  <2>2. \A d \in Client : [task EXCEPT ![c] = Idle][d] = IF d = c THEN Idle ELSE task[d]
    BY DEF TypeOK
  <2> QED
    BY <1>1, <1>4, <1>6, <2>1, <2>2 DEF TaskStep
<1>7. ASSUME NEW c \in Client, NEW rec, Suspend(c, rec)
      PROVE  task'[c] = rec /\ \A d \in Client : d # c => TaskStep(d)
  BY <1>7 DEF Suspend, TaskStep, TypeOK
<1>8. CASE ThreadsNext
  <2>1. ASSUME NEW c \in Client, NEW t \in Tid, NEW in \in TTLInput, ThreadsPatchCall(c, t, in)
        PROVE  \A d \in Client : TaskStep(d)
    <3> DEFINE rec == [Idle EXCEPT !.op = "patch", !.tid = t, !.ttl = in]
    <3>1. rec.op = "patch" /\ rec.tid = t /\ rec.ttl = in
      BY DEF Idle
    <3> HIDE DEF rec
    <3>2. Suspend(c, rec) /\ LoopFree /\ (AuthSuspends \/ t \in maint)
      BY <2>1 DEF ThreadsPatchCall, Requested, rec
    <3> QED
      BY <1>7, <3>1, <3>2 DEF TaskStep
  <2>2. ASSUME NEW c \in Client, NEW t \in Tid, ThreadsDeleteCall(c, t)
        PROVE  \A d \in Client : TaskStep(d)
    <3>1. PICK s \in Lookup(t) : Suspend(c, [Idle EXCEPT !.op = "delete", !.tid = t, !.ref = RefTo(s)])
      BY <2>2 DEF ThreadsDeleteCall
    <3> DEFINE rec == [Idle EXCEPT !.op = "delete", !.tid = t, !.ref = RefTo(s)]
    <3>2. rec.op = "delete" /\ rec.ttl = NoTTL
      BY DEF Idle
    <3> HIDE DEF rec
    <3>3. Suspend(c, rec) /\ "Threads.delete" \in Workload /\ (AuthSuspends \/ CustomCheckpointer)
      BY <2>2, <3>1 DEF ThreadsDeleteCall, Requested, rec
    <3> QED
      BY <1>7, <3>2, <3>3 DEF TaskStep
  <2> QED
    BY <1>2, <1>3, <1>5, <1>6, <1>8, <2>1, <2>2 DEF ThreadsNext, ThreadsPut, ThreadsCopy,
       ThreadsPatch, ThreadsPatchFinish, ThreadsDelete, ThreadsDeleteFinish, ThreadsDeleteFail,
       ThreadsSetStatus
<1>9. CASE SweepNext
  BY <1>2, <1>5, <1>9 DEF SweepNext, SweepSelect, SweepSkip, SweepClaim, SweepDelete, SweepPrune,
     SweepFail, SweepEnd
<1>10. CASE RunsNext
  <2>1. ASSUME NEW c \in Client, NEW t \in Tid, NEW p \in Prevent, NEW a \in AfterSeconds,
               RunsPutCreate(c, t, p, a)
        PROVE  \A d \in Client : TaskStep(d)
    <3> DEFINE rec == [Idle EXCEPT !.op = "create", !.tid = t, !.prevent = p, !.after = a, !.at = now]
    <3>1. rec.op = "create" /\ rec.ttl = NoTTL
      BY DEF Idle
    <3> HIDE DEF rec
    <3>2. Suspend(c, rec) /\ "create" \in IfNotExists
      BY <2>1 DEF RunsPutCreate, rec
    <3> QED
      BY <1>7, <3>1, <3>2 DEF TaskStep
  <2>2. ASSUME NEW c \in Client, NEW r \in Rid, RunsDeleteCall(c, r) \/ RunsCancelEager(c, r)
        PROVE  \A d \in Client : TaskStep(d)
    <3>1. ASSUME NEW op \in {"rundel", "eager"}, NEW rec, Suspend(c, rec), rec.op = op, rec.ttl = NoTTL
          PROVE  \A d \in Client : TaskStep(d)
      BY <1>7, <3>1 DEF TaskStep
    <3>2. /\ [Idle EXCEPT !.op = "rundel", !.rid = r].op = "rundel"
          /\ [Idle EXCEPT !.op = "rundel", !.rid = r].ttl = NoTTL
          /\ [Idle EXCEPT !.op = "eager", !.rid = r].op = "eager"
          /\ [Idle EXCEPT !.op = "eager", !.rid = r].ttl = NoTTL
      BY DEF Idle
    <3> QED
      BY <2>2, <3>1, <3>2 DEF RunsDeleteCall, RunsCancelEager
  <2>3. ASSUME NEW c \in Client, RunsCancelDelete(c) PROVE \A d \in Client : TaskStep(d)
    <3>1. CASE task' = [task EXCEPT ![c].op = "rundel"]
      <4>1. task'[c].op = "rundel" /\ task'[c].ttl = task[c].ttl
            /\ \A d \in Client : d # c => task'[d] = task[d]
        BY <3>1 DEF TypeOK, Task
      <4> QED
        BY <4>1 DEF TaskStep
    <3> QED
      BY <1>3, <2>3, <3>1 DEF RunsCancelDelete
  <2> QED
    BY <1>2, <1>3, <1>10, <2>1, <2>2, <2>3 DEF RunsNext, RunsPut, RunsPutAppend, RunsDelete,
       RunsDeleteFinish, RunsDeleteFail, RunsCancel, WorkerHears
<1>11. CASE QueueNext \/ Tick \/ UNCHANGED vars
  BY <1>2, <1>11 DEF QueueNext, QueueWake, QueueClaim, Tick, vars
<1>12. CASE \E r \in Rid : WorkerNext(r)
  BY <1>2, <1>12 DEF WorkerNext, WorkerLost, WorkerReport, WorkerRollback, WorkerRollbackCall,
     WorkerRollbackFinish, WorkerRollbackFail
<1>13. CASE Restart
  BY <1>1, <1>13 DEF Restart, TaskStep
<1> QED
  BY <1>8, <1>9, <1>10, <1>11, <1>12, <1>13 DEF Next

\* Only the sweeper and a restart change what the sweeper holds.
LEMMA SweepSteps == [Next]_vars => SweepStill \/ SweepNext \/ Restart
<1> SUFFICES ASSUME [Next]_vars, ~SweepNext, ~Restart PROVE SweepStill
  OBVIOUS
<1>1. CASE ThreadsNext
  BY <1>1 DEF SweepStill, ThreadsNext, ThreadsPut, ThreadsCopy, ThreadsPatch, ThreadsPatchCall,
     ThreadsPatchFinish, ThreadsDelete, ThreadsDeleteCall, ThreadsDeleteFinish, ThreadsDeleteFail,
     ThreadsSetStatus
<1>2. CASE RunsNext
  BY <1>2 DEF SweepStill, RunsNext, RunsPut, RunsPutCreate, RunsPutAppend, RunsDelete,
     RunsDeleteCall, RunsDeleteFinish, RunsDeleteFail, RunsCancel, RunsCancelEager, RunsCancelDelete,
     WorkerHears
<1>3. CASE \E r \in Rid : WorkerNext(r)
  BY <1>3 DEF SweepStill, WorkerNext, WorkerLost, WorkerReport, WorkerRollback,
     WorkerRollbackCall, WorkerRollbackFinish, WorkerRollbackFail
<1> QED
  BY <1>1, <1>2, <1>3 DEF SweepStill, Next, QueueNext, QueueWake, QueueClaim, Tick, vars

\* When a sweep begins or ends, or goes on to its next thread, it holds none.
LEMMA SweepEnds ==
  ASSUME SweepSelect \/ SweepDelete \/ SweepPrune \/ SweepFail \/ SweepEnd \/ Restart
  PROVE  /\ sweep'.pc \in {"idle", "loop"} /\ sweep'.tid = NoTid
         /\ SweepFail \/ Restart => sweep'.pc = "idle"
<1>1. NoSweep.pc = "idle" /\ NoSweep.tid = NoTid
  BY DEF NoSweep
<1>2. ASSUME NEW next \in {"idle", "loop"}, SweepRelease(next)
      PROVE  sweep'.pc = next /\ sweep'.tid = NoTid
  BY <1>2 DEF SweepRelease, NoSweep
<1>3. CASE SweepSelect
  <2>1. PICK all : sweep' = [NoSweep EXCEPT !.pc = "loop", !.todo = Selected(all)]
    BY <1>3 DEF SweepSelect
  <2>2. sweep'.pc = "loop" /\ sweep'.tid = NoTid
    BY <2>1 DEF NoSweep
  <2>3. ~SweepFail /\ ~Restart
    BY <1>3, <1>1, <1>2, <2>2 DEF SweepFail, Restart
  <2> QED
    BY <2>2, <2>3
<1>4. SweepDelete \/ SweepPrune => SweepRelease("loop")
  BY DEF SweepDelete, SweepPrune
<1>5. SweepFail => SweepRelease("idle")
  BY DEF SweepFail
<1>6. SweepEnd \/ Restart => sweep' = NoSweep
  BY DEF SweepEnd, Restart
<1> QED
  BY <1>1, <1>2, <1>3, <1>4, <1>5, <1>6

----------------------------------------------------------------------------
(* The sweeper and runs exclude each other.                                *)

\* What was put back stays recorded.
LEMMA BackGrows == [Next]_vars => back \subseteq back'
<1> SUFFICES ASSUME [Next]_vars PROVE back \subseteq back'
  OBVIOUS
<1>1. CASE ThreadsNext
  BY <1>1 DEF ThreadsNext, ThreadsPut, ThreadsCopy, ThreadsPatch, ThreadsPatchCall,
     ThreadsPatchFinish, ThreadsDelete, ThreadsDeleteCall, ThreadsDeleteFinish, ThreadsDeleteFail,
     ThreadsSetStatus
<1>2. CASE SweepNext
  BY <1>2 DEF SweepNext, SweepSelect, SweepSkip, SweepClaim, SweepDelete, SweepPrune, SweepFail,
     SweepEnd
<1>3. CASE RunsNext
  BY <1>3 DEF RunsNext, RunsPut, RunsPutCreate, RunsPutAppend, RunsDelete, RunsDeleteCall,
     RunsDeleteFinish, RunsDeleteFail, RunsCancel, RunsCancelEager, RunsCancelDelete,
     WorkerHears
<1>4. CASE \E r \in Rid : WorkerNext(r)
  BY <1>4 DEF WorkerNext, WorkerLost, WorkerReport, WorkerRollback, WorkerRollbackCall,
     WorkerRollbackFinish, WorkerRollbackFail
<1> QED
  BY <1>1, <1>2, <1>3, <1>4 DEF Next, QueueNext, QueueWake, QueueClaim, Tick, Restart, vars

\* No run of thread t becomes active, but for a cancelled one that is put back.
NoneActivated(t) ==
  \A r \in Rid : runs'[r].tid = t /\ runs'[r].status \in Active =>
    <<r, t>> \in back' \/ (runs[r].tid = t /\ runs[r].status \in Active)

\* Only a new run is activated, or one put back: the retry of any other run was
\* "running" before.
LEMMA OthersActivateNone ==
  ASSUME TypeOK, WorkersInv, RunStep, ~StepCreate, NEW t
  PROVE  NoneActivated(t)
<1>1. NoRun.status = "absent" /\ Active = {"pending", "running"}
  BY DEF NoRun, Active
<1>2. RunsRemoved => NoneActivated(t)
  BY <1>1 DEF RunsRemoved, NoneActivated
<1>3. CASE QueueClaim
  BY <1>1, <1>3, ClaimEffect DEF NoneActivated
<1>4. ASSUME NEW r \in Rid, StepCancel(r) PROVE NoneActivated(t)
  BY <1>1, <1>4, StatusEffect DEF StepCancel, NoneActivated
<1>5. ASSUME NEW r \in Rid, StepReport(r) PROVE NoneActivated(t)
  <2>1. PICK out \in RunStatus \ {"running"} :
          /\ out = "pending" /\ runs[r].status = "interrupted" => <<r, worker[r].tid>> \in back'
          /\ runs' = [runs EXCEPT ![r].status = out]
    BY <1>5 DEF StepReport
  <2>2. runs[r].status \in {"running", "interrupted"} /\ runs[r].tid = worker[r].tid
    BY <1>5 DEF StepReport, WorkersInv, WorkersExecute
  <2>3. out \in Active => out = "pending"
    BY <1>1
  <2> QED
    BY <1>1, <2>1, <2>2, <2>3, StatusEffect DEF NoneActivated
<1> QED
  BY <1>2, <1>3, <1>4, <1>5
     DEF RunStep, StepRemove, StepHear, StepStop, StepRollback, StepRestart, NoneActivated

\* Runs.put activates no run of a claimed thread.
LEMMA StepActivates ==
  ASSUME TypeOK, WorkersInv, RunStep, NoCreation, NEW t \in maint
  PROVE  NoneActivated(t)
<1>1. CASE StepCreate
  <2>1. PICK u, at : /\ u \notin maint
                     /\ runs' = [runs EXCEPT ![nrun + 1] = [tid |-> u, status |-> "pending", at |-> at]]
    BY <1>1 DEF StepCreate, NoCreation
  <2>2. runs'[nrun + 1].tid = u /\ \A q \in Rid : q # nrun + 1 => runs'[q] = runs[q]
    BY <1>1, <2>1, CreateEffect DEF TypeOK
  <2> QED
    BY <2>1, <2>2 DEF NoneActivated
<1> QED
  BY <1>1, OthersActivateNone

\* Without if_not_exists="create" no request creates a thread.
LEMMA CreationStep ==
  ASSUME "create" \notin IfNotExists, TypeOK, NoCreation, [Next]_vars
  PROVE  NoCreation'
BY TaskSteps DEF TaskStep, NoCreation

\* A claim is made of a thread without active runs, and it holds.
LEMMA MaintenanceStep ==
  ASSUME "create" \notin IfNotExists, TypeOK, WorkersInv, MaintenanceInv, [Next]_vars
  PROVE  MaintenanceInv'
<1>1. NoCreation'
  BY CreationStep DEF MaintenanceInv
<1>2. CASE SweepStill
  <2>1. \A t \in maint : NoneActivated(t)
    BY RunSteps, StepActivates DEF MaintenanceInv
  <2>2. ClaimExcludesRuns'
    BY <1>2, <2>1, BackGrows
       DEF SweepStill, MaintenanceInv, ClaimExcludesRuns, MaintenanceExcludesRuns, NoneActivated
  <2> QED
    BY <1>1, <2>2 DEF MaintenanceInv
<1>3. ASSUME sweep'.pc \notin {"delete", "prune"} PROVE MaintenanceInv'
  BY <1>1, <1>3 DEF MaintenanceInv, ClaimExcludesRuns, MaintenanceExcludesRuns
<1>4. CASE SweepClaim
  <2>1. PICK e \in sweep.todo : \E s \in Lookup(e.tid) :
          Expired(e.tid, thr[s].upd) /\ maint' = maint \cup {e.tid} /\ sweep'.tid = e.tid
    BY <1>4 DEF SweepClaim
  <2>2. ~HasActive(runs, e.tid) /\ runs' = runs
    BY <1>4, <2>1 DEF Expired, SweepClaim, store
  <2>3. ClaimExcludesRuns'
    BY <2>1, <2>2 DEF ClaimExcludesRuns, MaintenanceExcludesRuns, HasActive
  <2> QED
    BY <1>1, <2>3 DEF MaintenanceInv
<1>5. CASE SweepSkip
  <2>1. sweep'.pc = "loop"
    BY <1>5 DEF SweepSkip, TypeOK, Sweeper
  <2> QED
    BY <1>3, <2>1
<1>6. CASE SweepSelect \/ SweepDelete \/ SweepPrune \/ SweepFail \/ SweepEnd \/ Restart
  BY <1>3, <1>6, SweepEnds
<1> QED
  BY <1>2, <1>4, <1>5, <1>6, SweepSteps DEF SweepNext

\* While Threads.sweep_ttl deletes or prunes a thread, awaiting a
\* checkpointer of any kind, the thread has no pending or running run but a
\* cancelled one that its worker, which did not hear of the cancel, put back to
\* pending (set_joint_status does not look at the status), provided that no
\* call uses if_not_exists="create".
THEOREM MaintenanceExclusion ==
  "create" \notin IfNotExists => (Spec => []MaintenanceExcludesRuns)
<1> SUFFICES ASSUME "create" \notin IfNotExists PROVE Spec => []MaintenanceExcludesRuns
  OBVIOUS
<1>1. Init => MaintenanceInv
  BY DEF Init, MaintenanceInv, ClaimExcludesRuns, MaintenanceExcludesRuns, NoCreation, NoSweep, Idle
<1>2. TypeOK /\ WorkersInv /\ MaintenanceInv /\ [Next]_vars => MaintenanceInv'
  BY MaintenanceStep
<1>3. MaintenanceInv => MaintenanceExcludesRuns
  BY DEF MaintenanceInv, ClaimExcludesRuns, MaintenanceExcludesRuns
<1> QED
  BY <1>1, <1>2, <1>3, WorkersInvariant, TypeCorrect, PTL DEF Spec

----------------------------------------------------------------------------
(* What a step may do to a thread, its TTL entry and the mark "pruned".    *)

SameTids(t) == \A s \in Slot : thr'[s].tid = t <=> thr[s].tid = t
SameSlots(t) == \A s \in Slot : thr[s].tid = t => thr'[s] = thr[s]
Kept(t) == SameTids(t) /\ SameSlots(t)
SameMark(t) == t \in pruned' <=> t \in pruned

Untouched(t) == Kept(t) /\ ttl'[t] = ttl[t] /\ SameMark(t)

\* A TTL override that was sent or copied, without last_swept_updated_at.
NewEntry(t) ==
  /\ ttl'[t].swept = -1
  /\ \/ ttl'[t].over \in TTLInput \cup {NoTTL}
     \/ \E c \in Client : ttl'[t].over = task[c].ttl
     \/ \E u \in Tid : ttl'[t].over = ttl[u].over

\* The status of an object of thread t is as before, or is "busy" if the
\* thread has an active run, or one of its active runs was cancelled.
StatusFits(t, s) ==
  \/ thr'[s].status = thr[s].status
  \/ HasActive(runs', t) => thr'[s].status = "busy"
  \/ \E r \in Rid : /\ runs[r].tid = t /\ runs[r].status \in Active
                    /\ runs'[r].status = "interrupted"

\* The first object with the id gets a new updated_at; only a request that
\* passed the maintenance gate also replaces it, or the TTL entry.
Updated(t) ==
  /\ LoopFree /\ SameTids(t) /\ t \notin pruned'
  /\ \E s \in Lookup(t) :
       /\ thr'[s].upd = now
       /\ \A q \in Slot \ {s} : thr[q].tid = t => thr'[q] = thr[q]
       /\ (ttl'[t] = ttl[t] /\ thr'[s].ver = thr[s].ver) \/ t \notin maint
       /\ StatusFits(t, s)
  /\ ttl'[t] = ttl[t] \/ NewEntry(t)

Added(t) ==
  /\ LoopFree /\ t \notin maint /\ ~Exists(t) /\ t \notin pruned'
  /\ nslot + 1 \in Slot /\ thr'[nslot + 1].upd = now
  /\ \A s \in Slot : thr'[s].tid = t <=> s = nslot + 1
  /\ ttl'[t] = ttl[t] \/ NewEntry(t)

\* Runs.put with if_not_exists="create", after its await.
Created(t) ==
  /\ LoopFree /\ \E c \in Client : task[c].op = "create" /\ task[c].tid = t
  /\ nslot + 1 \in Slot /\ SameSlots(t)
  /\ \A s \in Slot : thr'[s].tid = t <=> thr[s].tid = t \/ s = nslot + 1
  /\ ttl'[t] = ttl[t] /\ SameMark(t)

Removed(t) ==
  /\ \/ sweep.pc = "delete" /\ sweep.tid = t /\ sweep'.pc = "loop"
     \/ LoopFree /\ ~CustomCheckpointer
     \/ LoopFree /\ \E c \in Client : task[c].op = "delete"
  /\ ttl'[t] = NoEntry /\ t \notin pruned' /\ runs' = WithoutRuns(RunsOf(t))
  /\ \A s \in Slot : thr'[s].tid = t => thr[s].tid = t /\ thr'[s] = thr[s]

\* A patch of a list that is no longer the store's.
Reset(t) ==
  /\ \E c \in Client : task[c].op = "patch" /\ task[c].tid = t
  /\ Kept(t) /\ t \notin maint /\ NewEntry(t) /\ t \notin pruned'

RolledBack(t) ==
  /\ LoopFree /\ \E r \in Rid : worker[r].pc = "rollback"
  /\ SameTids(t)
  /\ \A s \in Slot : thr[s].tid = t => thr'[s].ver = thr[s].ver /\ StatusFits(t, s)
  /\ ttl'[t] = ttl[t] /\ t \notin pruned'

Claims(t) == SweepClaim /\ sweep'.tid = t
Prunes(t) == SweepPrune /\ sweep.tid = t

GivesUp(t) ==
  /\ Kept(t) /\ ttl'[t] = ttl[t] /\ t \notin pruned'
  /\ sweep.tid = t /\ (SweepFail \/ Restart)

ThreadStep(t) ==
  \/ Untouched(t) \/ Updated(t) \/ Added(t) \/ Created(t) \/ Removed(t)
  \/ Reset(t) \/ RolledBack(t) \/ Claims(t) \/ Prunes(t) \/ GivesUp(t)

\* What a suspended rollback, patch or sweep holds.
RollbackHolds == \A r \in Rid : worker[r].pc = "rollback" => HoldsRef(worker[r].tid, worker[r].ref)
PatchesNamed == \A c \in Client : task[c].op = "patch" => task[c].tid \in Tid
SweepNamed == sweep.pc \in {"delete", "prune"} \/ sweep.tid = NoTid
HoldInv == RollbackHolds /\ PatchesNamed /\ SweepNamed

\* The first object with an id is found when there is one.
LEMMA LookupFinds ==
  ASSUME NEW t, Exists(t)
  PROVE  \E s \in Slot : Lookup(t) = {s}
<1> DEFINE R == {p \in Nat \X Nat : p[1] < p[2]}
<1>1. IsWellFoundedOn(R, Nat)
  BY NatLessThanWellFounded DEF OpToRel
<1>2. ASSUME NEW m \in Nat, NEW n \in Nat, <<m, n>> \notin R PROVE n <= m
  BY <1>2
<1> HIDE DEF R
<1>3. SlotsOf(t) \subseteq Nat /\ SlotsOf(t) # {}
  BY DEF SlotsOf, Slot, Exists
<1>4. \E n \in SlotsOf(t) : \A m \in SlotsOf(t) : <<m, n>> \notin R
  BY <1>1, <1>3, WFMin
<1>5. PICK s \in SlotsOf(t) : \A m \in SlotsOf(t) : s <= m
  BY <1>2, <1>3, <1>4
<1>6. Lookup(t) = {s}
  BY <1>3, <1>5 DEF Lookup
<1> QED
  BY <1>6 DEF SlotsOf

\* An update of the first object with the id u.
LEMMA UpdateKind ==
  ASSUME TypeOK, LoopFree, NEW u \in Tid, NEW s \in Lookup(u),
         thr'[s].tid = u, thr'[s].upd = now, \A q \in Slot \ {s} : thr'[q] = thr[q],
         pruned' = pruned \ {u}, \A w \in Tid \ {u} : ttl'[w] = ttl[w],
         (ttl'[u] = ttl[u] /\ thr'[s].ver = thr[s].ver) \/ u \notin maint, StatusFits(u, s),
         ttl'[u] = ttl[u] \/ NewEntry(u),
         NEW t \in Tid
  PROVE  ThreadStep(t)
<1>1. s \in Slot /\ thr[s].tid = u
  BY LookupType
<1>2. CASE t = u
  <2>1. Updated(t)
    BY <1>1, <1>2 DEF Updated, SameTids
  <2> QED
    BY <2>1 DEF ThreadStep
<1>3. CASE t # u
  <2>1. Untouched(t)
    BY <1>1, <1>3 DEF Untouched, Kept, SameTids, SameSlots, SameMark
  <2> QED
    BY <2>1 DEF ThreadStep
<1> QED
  BY <1>2, <1>3

\* A new thread with the id u.
LEMMA AddKind ==
  ASSUME TypeOK, RunThreadInv, LoopFree, NEW u \in Tid, ~Exists(u), u \notin maint,
         NEW status, AppendThread(u, status, now),
         pruned' = pruned \ {u}, \A w \in Tid \ {u} : ttl'[w] = ttl[w],
         ttl'[u] = ttl[u] \/ NewEntry(u),
         NEW t \in Tid
  PROVE  ThreadStep(t)
<1>1. /\ nslot + 1 \in Slot /\ thr'[nslot + 1].tid = u /\ thr'[nslot + 1].upd = now
      /\ \A q \in Slot \ {nslot + 1} : thr'[q] = thr[q]
  BY ConstantsAssumption DEF AppendThread, TypeOK, Slot
<1>2. thr[nslot + 1].tid = NoTid /\ NoTid \notin Tid
  BY <1>1, ConstantsAssumption DEF RunThreadInv, SlotsInOrder, TypeOK
<1>3. CASE t = u
  <2>1. Added(t)
    BY <1>1, <1>2, <1>3 DEF Added, Exists, SlotsOf
  <2> QED
    BY <2>1 DEF ThreadStep
<1>4. CASE t # u
  <2>1. Untouched(t)
    BY <1>1, <1>2, <1>4 DEF Untouched, Kept, SameTids, SameSlots, SameMark
  <2> QED
    BY <2>1 DEF ThreadStep
<1> QED
  BY <1>3, <1>4

\* The deletion of a thread, with the object that the deleter holds.
LEMMA RemoveKind ==
  ASSUME TypeOK, NEW u, NEW ref, HoldsRef(u, ref), ApplyDelete(u, ref),
         \/ sweep.pc = "delete" /\ sweep.tid = u /\ sweep'.pc = "loop"
         \/ LoopFree /\ ~CustomCheckpointer
         \/ LoopFree /\ \E c \in Client : task[c].op = "delete",
         NEW t \in Tid
  PROVE  ThreadStep(t)
<1>1. \A s \in Slot : thr'[s] = IF s = ref.slot /\ Attached(ref) THEN NoThread ELSE thr[s]
  BY DEF ApplyDelete
<1>2. NoThread.tid = NoTid /\ NoTid \notin Tid /\ thr[ref.slot].tid \in {u, NoTid}
  BY ConstantsAssumption DEF NoThread, HoldsRef
<1>3. ttl'[t] = (IF t = u THEN NoEntry ELSE ttl[t]) /\ pruned' = pruned \ {u}
  BY DEF ApplyDelete, WithoutTTL, TypeOK
<1>4. CASE t = u
  <2>1. Removed(t)
    BY <1>1, <1>2, <1>3, <1>4 DEF Removed, ApplyDelete
  <2> QED
    BY <2>1 DEF ThreadStep
<1>5. CASE t # u
  <2>1. Untouched(t)
    BY <1>1, <1>2, <1>3, <1>5 DEF Untouched, Kept, SameTids, SameSlots, SameMark
  <2> QED
    BY <2>1 DEF ThreadStep
<1> QED
  BY <1>4, <1>5

\* A ttl argument of a request leaves the entry alone or makes a new one.
LEMMA OverrideKind ==
  ASSUME TypeOK, NEW u \in Tid, NEW in, ttl' = WithOverride(u, in),
         in \in TTLInput \/ \E c \in Client : in = task[c].ttl
  PROVE  /\ \A w \in Tid \ {u} : ttl'[w] = ttl[w]
         /\ ttl' = ttl \/ NewEntry(u)
<1>1. CASE ttl' = ttl
  BY <1>1
<1>2. CASE ttl' = [ttl EXCEPT ![u] = [over |-> in, swept |-> -1]]
  BY <1>2 DEF TypeOK, NewEntry
<1>3. CASE ttl' = [ttl EXCEPT ![u] = NoEntry]
  BY <1>3 DEF TypeOK, NewEntry, NoEntry
<1> QED
  BY <1>1, <1>2, <1>3 DEF WithOverride

\* A step that leaves threads, TTL entries and marks alone.
LEMMA StillKind ==
  ASSUME thr' = thr, ttl' = ttl, pruned' = pruned, NEW t
  PROVE  ThreadStep(t)
BY DEF ThreadStep, Untouched, Kept, SameTids, SameSlots, SameMark

\* The operations of class Threads.
LEMMA ThreadsKinds ==
  ASSUME TypeOK, RunThreadInv, HoldInv, ThreadsNext, NEW t \in Tid
  PROVE  ThreadStep(t)
<1>1. ASSUME NEW u \in Tid, NEW in, ApplyPatch(u, in), LoopFree, u \notin maint,
             in \in TTLInput \/ \E c \in Client : in = task[c].ttl
      PROVE  ThreadStep(t)
  <2>1. PICK s \in Lookup(u) : thr' = [thr EXCEPT ![s].ver = @ + 1, ![s].upd = now]
    BY <1>1 DEF ApplyPatch
  <2>2. /\ thr'[s].tid = u /\ thr'[s].upd = now /\ StatusFits(u, s)
        /\ \A q \in Slot \ {s} : thr'[q] = thr[q]
    BY <2>1, LookupType DEF TypeOK, Thread, StatusFits
  <2>3. ttl' = WithOverride(u, in) /\ pruned' = pruned \ {u}
    BY <1>1 DEF ApplyPatch
  <2>4. (\A w \in Tid \ {u} : ttl'[w] = ttl[w]) /\ (ttl'[u] = ttl[u] \/ NewEntry(u))
    BY <1>1, <2>3, OverrideKind
  <2> QED
    BY <1>1, <2>2, <2>3, <2>4, UpdateKind
<1>2. ASSUME NEW u \in Tid, NEW in \in TTLInput, ThreadsPut(u, in) PROVE ThreadStep(t)
  <2>1. (\A w \in Tid \ {u} : ttl'[w] = ttl[w]) /\ (ttl'[u] = ttl[u] \/ NewEntry(u))
    BY <1>2, OverrideKind DEF ThreadsPut
  <2> QED
    BY <1>2, <2>1, AddKind DEF ThreadsPut, Requested, MaintenanceOver
<1>3. ASSUME NEW v \in Tid, NEW u \in Tid, ThreadsCopy(v, u) PROVE ThreadStep(t)
  <2>1. ttl' = [ttl EXCEPT ![u] = [over |-> ttl[v].over, swept |-> -1]]
    BY <1>3 DEF ThreadsCopy
  <2>2. (\A w \in Tid \ {u} : ttl'[w] = ttl[w]) /\ NewEntry(u)
    BY <2>1 DEF TypeOK, NewEntry
  <2> QED
    BY <1>3, <2>2, AddKind DEF ThreadsCopy, Requested
<1>4. ASSUME NEW u \in Tid, NEW in \in TTLInput, ThreadsPatch(u, in) PROVE ThreadStep(t)
  BY <1>1, <1>4 DEF ThreadsPatch, Requested, MaintenanceOver
<1>5. ASSUME NEW c \in Client, ThreadsPatchFinish(c) PROVE ThreadStep(t)
  <2>1. task[c].tid \in Tid /\ task[c].op = "patch" /\ LoopFree /\ task[c].tid \notin maint
    BY <1>5 DEF ThreadsPatchFinish, Resumable, MaintenanceOver, HoldInv, PatchesNamed
  <2>2. CASE ApplyPatch(task[c].tid, task[c].ttl)
    BY <1>1, <2>1, <2>2
  <2>3. CASE /\ thr' = thr /\ ttl' = WithOverride(task[c].tid, task[c].ttl)
             /\ pruned' = IF ttl' = ttl THEN pruned ELSE pruned \ {task[c].tid}
    <3>1. /\ \A w \in Tid \ {task[c].tid} : ttl'[w] = ttl[w]
          /\ ttl' = ttl \/ NewEntry(task[c].tid)
      BY <2>1, <2>3, OverrideKind
    <3>2. CASE ttl' = ttl
      BY <2>3, <3>2, StillKind
    <3>3. CASE ttl' # ttl /\ t = task[c].tid
      <4>1. Reset(t)
        BY <2>1, <2>3, <3>1, <3>3 DEF Reset, Kept, SameTids, SameSlots
      <4> QED
        BY <4>1 DEF ThreadStep
    <3>4. CASE ttl' # ttl /\ t # task[c].tid
      <4>1. Untouched(t)
        BY <2>3, <3>1, <3>4 DEF Untouched, Kept, SameTids, SameSlots, SameMark
      <4> QED
        BY <4>1 DEF ThreadStep
    <3> QED
      BY <3>2, <3>3, <3>4
  <2> QED
    BY <1>5, <2>2, <2>3 DEF ThreadsPatchFinish
<1>6. ASSUME NEW u \in Tid, ThreadsDelete(u) PROVE ThreadStep(t)
  <2>1. PICK s \in Lookup(u) : ApplyDelete(u, RefTo(s))
    BY <1>6 DEF ThreadsDelete
  <2>2. HoldsRef(u, RefTo(s)) /\ LoopFree /\ ~CustomCheckpointer
    BY <1>6, LookupHolds DEF ThreadsDelete, Requested
  <2> QED
    BY <2>1, <2>2, RemoveKind
<1>7. ASSUME NEW c \in Client, ThreadsDeleteFinish(c) PROVE ThreadStep(t)
  <2>1. /\ HoldsRef(task[c].tid, task[c].ref) /\ LoopFree /\ task[c].op = "delete"
        /\ ApplyDelete(task[c].tid, task[c].ref)
    BY <1>7 DEF ThreadsDeleteFinish, Resumable, RunThreadInv, DeletersHoldRef
  <2> QED
    BY <2>1, RemoveKind
<1>8. ASSUME NEW u \in Tid, NEW base, ThreadsSetStatus(u, base) PROVE ThreadStep(t)
  <2>1. PICK s \in Lookup(u) :
          thr' = [thr EXCEPT ![s].upd = now,
                             ![s].status = IF HasActive(runs, u) THEN "busy" ELSE base]
    BY <1>8 DEF ThreadsSetStatus
  <2>2. /\ thr'[s].tid = u /\ thr'[s].upd = now /\ thr'[s].ver = thr[s].ver
        /\ \A q \in Slot \ {s} : thr'[q] = thr[q]
    BY <2>1, LookupType DEF TypeOK, Thread
  <2>3. StatusFits(u, s)
    <3>1. thr'[s].status = IF HasActive(runs, u) THEN "busy" ELSE base
      BY <2>1, LookupType DEF TypeOK, Thread
    <3> QED
      BY <1>8, <3>1 DEF ThreadsSetStatus, StatusFits
  <2> QED
    BY <1>8, <2>2, <2>3, UpdateKind DEF ThreadsSetStatus, Requested
<1> QED
  BY <1>2, <1>3, <1>4, <1>5, <1>6, <1>7, <1>8, StillKind
     DEF ThreadsNext, ThreadsPatchCall, ThreadsDeleteCall, ThreadsDeleteFail, store

\* The sweeper and a restart.
LEMMA SweepKinds ==
  ASSUME TypeOK, RunThreadInv, HoldInv, SweepNext \/ Restart, NEW t \in Tid
  PROVE  ThreadStep(t)
<1>1. CASE SweepClaim
  <2>1. PICK e \in sweep.todo : /\ sweep'.tid = e.tid
                                /\ pruned' = pruned \cup {e.tid} \/ pruned' = pruned
    BY <1>1 DEF SweepClaim
  <2>2. CASE t = e.tid
    BY <1>1, <2>1, <2>2 DEF ThreadStep, Claims
  <2>3. CASE t # e.tid
    <3>1. Untouched(t)
      BY <1>1, <2>1, <2>3 DEF SweepClaim, store, Untouched, Kept, SameTids, SameSlots, SameMark
    <3> QED
      BY <3>1 DEF ThreadStep
  <2> QED
    BY <2>2, <2>3
<1>2. CASE SweepDelete
  <2>1. HoldsRef(sweep.tid, sweep.ref) /\ sweep'.pc = "loop"
    <3>1. sweep' = [NoSweep EXCEPT !.pc = "loop", !.todo = sweep.todo]
      BY <1>2 DEF SweepDelete, SweepRelease
    <3> QED
      BY <1>2, <3>1 DEF SweepDelete, RunThreadInv, DeletersHoldRef, NoSweep
  <2> QED
    BY <1>2, <2>1, RemoveKind DEF SweepDelete
<1>3. CASE SweepPrune
  <2>1. CASE t = sweep.tid
    BY <1>3, <2>1 DEF ThreadStep, Prunes
  <2>2. CASE t # sweep.tid
    <3>1. ttl'[t] = ttl[t]
      BY <1>3, <2>2 DEF SweepPrune, TypeOK
    <3>2. Untouched(t)
      BY <1>3, <3>1 DEF SweepPrune, Untouched, Kept, SameTids, SameSlots, SameMark
    <3> QED
      BY <3>2 DEF ThreadStep
  <2> QED
    BY <2>1, <2>2
<1>4. CASE SweepFail \/ Restart
  <2>1. thr' = thr /\ ttl' = ttl /\ pruned' = pruned \ {sweep.tid}
    BY <1>4 DEF SweepFail, Restart, store
  <2>2. CASE t = sweep.tid
    <3>1. GivesUp(t)
      BY <1>4, <2>1, <2>2 DEF GivesUp, Kept, SameTids, SameSlots
    <3> QED
      BY <3>1 DEF ThreadStep
  <2>3. CASE t # sweep.tid
    <3>1. Untouched(t)
      BY <2>1, <2>3 DEF Untouched, Kept, SameTids, SameSlots, SameMark
    <3> QED
      BY <3>1 DEF ThreadStep
  <2> QED
    BY <2>2, <2>3
<1> QED
  BY <1>1, <1>2, <1>3, <1>4, StillKind DEF SweepNext, SweepSelect, SweepSkip, SweepEnd, store

\* The operations of class Runs.
LEMMA RunsKinds ==
  ASSUME TypeOK, RunThreadInv, RunsNext, NEW t \in Tid
  PROVE  ThreadStep(t)
<1>1. ASSUME NEW u \in Tid, NEW p, NEW a, RunsPut(u, p, a) PROVE ThreadStep(t)
  <2>1. PICK s \in Lookup(u) :
          \/ thr' = thr /\ pruned' = pruned
          \/ /\ thr' = [thr EXCEPT ![s].status = "busy", ![s].upd = now]
             /\ pruned' = pruned \ {u}
    BY <1>1 DEF RunsPut
  <2>2. ttl' = ttl /\ LoopFree
    BY <1>1 DEF RunsPut, Requested
  <2>3. CASE /\ thr' = [thr EXCEPT ![s].status = "busy", ![s].upd = now]
             /\ pruned' = pruned \ {u}
    <3>1. /\ thr'[s].tid = u /\ thr'[s].upd = now /\ thr'[s].ver = thr[s].ver
          /\ thr'[s].status = "busy" /\ \A q \in Slot \ {s} : thr'[q] = thr[q]
      BY <2>3, LookupType DEF TypeOK, Thread
    <3> QED
      BY <2>2, <2>3, <3>1, UpdateKind DEF StatusFits
  <2> QED
    BY <2>1, <2>2, <2>3, StillKind
<1>2. ASSUME NEW c \in Client, RunsPutAppend(c) PROVE ThreadStep(t)
  <2>1. /\ AppendThread(task[c].tid, "busy", task[c].at) /\ ttl' = ttl /\ pruned' = pruned
        /\ LoopFree /\ task[c].op = "create"
    BY <1>2 DEF RunsPutAppend, Resumable
  <2>2. /\ nslot + 1 \in Slot /\ thr'[nslot + 1].tid = task[c].tid
        /\ \A q \in Slot \ {nslot + 1} : thr'[q] = thr[q]
    BY <2>1, ConstantsAssumption DEF AppendThread, TypeOK, Slot
  <2>3. thr[nslot + 1].tid = NoTid /\ NoTid \notin Tid
    <3>1. nslot + 1 > nslot
      BY ConstantsAssumption DEF TypeOK
    <3>2. NoTid \notin Tid
      BY ConstantsAssumption
    <3> QED BY <2>2, <3>1, <3>2 DEF RunThreadInv, SlotsInOrder
  <2>4. CASE t = task[c].tid
    <3>1. Created(t)
      BY <2>1, <2>2, <2>3, <2>4 DEF Created, SameSlots, SameMark
    <3> QED
      BY <3>1 DEF ThreadStep
  <2>5. CASE t # task[c].tid
    <3>1. Untouched(t)
      BY <2>1, <2>2, <2>3, <2>5 DEF Untouched, Kept, SameTids, SameSlots, SameMark
    <3> QED
      BY <3>1 DEF ThreadStep
  <2> QED
    BY <2>4, <2>5
<1>3. ASSUME NEW r \in Rid, NEW a, RunsCancel(r, a) PROVE ThreadStep(t)
  <2> DEFINE u == runs[r].tid
  <2>1. CASE thr' = thr /\ pruned' = pruned
    BY <1>3, <2>1, StillKind DEF RunsCancel
  <2>2. CASE /\ thr' = [s \in Slot |-> IF s \in Lookup(u)
                          THEN [thr[s] EXCEPT !.status = "idle", !.upd = now] ELSE thr[s]]
             /\ pruned' = pruned \ {u}
    <3>1. runs[r].status # "absent" /\ ttl' = ttl /\ LoopFree
      BY <1>3 DEF RunsCancel, Cancelable, Active, Requested
    <3>2. u \in Tid /\ Exists(u)
      BY <3>1 DEF RunThreadInv, RunsNamed, RunsHaveThread, TypeOK, Run
    <3> HIDE DEF u
    <3>3. PICK s \in Slot : Lookup(u) = {s}
      BY <3>2, LookupFinds
    <3>4. /\ thr'[s].tid = u /\ thr'[s].upd = now /\ thr'[s].ver = thr[s].ver
          /\ \A q \in Slot \ {s} : thr'[q] = thr[q]
      <4>1. thr[s] \in Thread /\ thr[s].tid = u
        BY <3>3, LookupType DEF TypeOK
      <4>2. thr'[s] = [thr[s] EXCEPT !.status = "idle", !.upd = now]
            /\ \A q \in Slot \ {s} : thr'[q] = thr[q]
        BY <2>2, <3>3
      <4> QED
        BY <4>1, <4>2 DEF Thread
    <3>5. s \in Lookup(u)
      BY <3>3
    <3>6. StatusFits(u, s)
      <4>1. runs[r].status \in Active /\ runs' = [runs EXCEPT ![r].status = "interrupted"]
        BY <1>3 DEF RunsCancel, Cancelable
      <4>2. runs'[r].status = "interrupted"
        BY <4>1, StatusEffect
      <4> QED
        BY <4>1, <4>2 DEF StatusFits, u
    <3> QED
      BY <2>2, <3>1, <3>2, <3>4, <3>5, <3>6, UpdateKind
  <2> QED
    BY <1>3, <2>1, <2>2 DEF RunsCancel
<1> QED
  BY <1>1, <1>2, <1>3, StillKind DEF RunsNext, RunsPutCreate, RunsDelete, RunsDeleteCall,
     RunsDeleteFinish, RunsDeleteFail, RunsCancelEager, RunsCancelDelete,
     WorkerHears, store

\* The end of a worker.
LEMMA WorkerKinds ==
  ASSUME TypeOK, RunThreadInv, WorkersInv, HoldInv, NEW r \in Rid, WorkerNext(r), NEW t \in Tid
  PROVE  ThreadStep(t)
<1>1. ASSUME NEW s \in Slot, NEW base, NEW upd, SetThread(runs', s, base, upd)
      PROVE  /\ thr'[s].tid = thr[s].tid /\ thr'[s].upd = upd /\ thr'[s].ver = thr[s].ver
             /\ StatusFits(thr[s].tid, s) /\ \A q \in Slot \ {s} : thr'[q] = thr[q]
  <2> DEFINE st == JointStatus(runs', thr[s].tid, base)
  <2>1. thr' = [thr EXCEPT ![s].status = st, ![s].upd = upd]
    BY <1>1 DEF SetThread
  <2>2. HasActive(runs', thr[s].tid) => st = "busy"
    BY DEF JointStatus
  <2> HIDE DEF st
  <2>3. /\ thr'[s].tid = thr[s].tid /\ thr'[s].upd = upd /\ thr'[s].ver = thr[s].ver
        /\ thr'[s].status = st /\ \A q \in Slot \ {s} : thr'[q] = thr[q]
    BY <2>1 DEF TypeOK, Thread
  <2> QED
    BY <2>2, <2>3 DEF StatusFits
<1>2. ASSUME LoopFree, worker[r].pc = "exec", ~Gone(r), pruned' = pruned \ {worker[r].tid}, ttl' = ttl,
             NEW base, \E s \in Lookup(worker[r].tid) : SetThread(runs', s, base, now)
      PROVE  ThreadStep(t)
  <2>1. worker[r].tid \in Tid
    BY <1>2 DEF Gone, WorkersInv, WorkersExecute, RunThreadInv, RunsNamed, TypeOK, Worker
  <2>2. PICK s \in Lookup(worker[r].tid) : SetThread(runs', s, base, now)
    BY <1>2
  <2>3. s \in Slot /\ thr[s].tid = worker[r].tid
    BY <2>1, <2>2, LookupType
  <2>4. /\ thr'[s].tid = worker[r].tid /\ thr'[s].upd = now /\ thr'[s].ver = thr[s].ver
        /\ StatusFits(worker[r].tid, s) /\ \A q \in Slot \ {s} : thr'[q] = thr[q]
    BY <1>1, <2>2, <2>3
  <2> QED
    BY <1>2, <2>1, <2>2, <2>4, UpdateKind
<1>3. ASSUME NEW out \in Outcome, NEW base, WorkerReport(r, out, base) PROVE ThreadStep(t)
  BY <1>2, <1>3 DEF WorkerReport, MayReport
<1>4. ASSUME NEW base, WorkerRollback(r, base) PROVE ThreadStep(t)
  BY <1>2, <1>4 DEF WorkerRollback, MayReport
<1>5. CASE WorkerRollbackFinish(r)
  <2>1. CASE /\ Attached(worker[r].ref) /\ pruned' = pruned \ {worker[r].tid}
             /\ SetThread(runs', worker[r].ref.slot, worker[r].base, worker[r].at)
    <3> DEFINE s == worker[r].ref.slot
    <3>1. ttl' = ttl /\ LoopFree /\ worker[r].pc = "rollback"
      BY <1>5 DEF WorkerRollbackFinish
    <3>2. s \in Slot /\ thr[s].tid = worker[r].tid
      BY <2>1, <3>1 DEF HoldInv, RollbackHolds, HoldsRef, Attached
    <3>3. /\ thr'[s].tid = thr[s].tid /\ thr'[s].ver = thr[s].ver /\ StatusFits(worker[r].tid, s)
          /\ \A q \in Slot \ {s} : thr'[q] = thr[q]
      BY <1>1, <2>1, <3>2
    <3> HIDE DEF s
    <3>4. CASE t = worker[r].tid
      <4>1. RolledBack(t)
        BY <2>1, <3>1, <3>2, <3>3, <3>4 DEF RolledBack, SameTids, StatusFits
      <4> QED
        BY <4>1 DEF ThreadStep
    <3>5. CASE t # worker[r].tid
      <4>1. Untouched(t)
        BY <2>1, <3>1, <3>2, <3>3, <3>5 DEF Untouched, Kept, SameTids, SameSlots, SameMark
      <4> QED
        BY <4>1 DEF ThreadStep
    <3> QED
      BY <3>4, <3>5
  <2> QED
    BY <1>5, <2>1, StillKind DEF WorkerRollbackFinish
<1> QED
  BY <1>3, <1>4, <1>5, StillKind DEF WorkerNext, WorkerLost, WorkerRollbackCall, WorkerRollbackFail, store

\* Every step does one of these to a thread.
LEMMA ThreadSteps ==
  ASSUME TypeOK, RunThreadInv, WorkersInv, HoldInv, [Next]_vars, NEW t \in Tid
  PROVE  ThreadStep(t)
<1>1. CASE QueueNext \/ Tick \/ UNCHANGED vars
  BY <1>1, StillKind DEF QueueNext, QueueWake, QueueClaim, Tick, vars, store
<1> QED
  BY <1>1, ThreadsKinds, SweepKinds, RunsKinds, WorkerKinds DEF Next

\* A slot in use gets no other id.
LEMMA IdsStay ==
  ASSUME NEW t, ThreadStep(t), NEW s \in Slot, thr'[s].tid = t
  PROVE  thr[s].tid = t \/ s = nslot + 1
<1>1. Claims(t) \/ Prunes(t) => thr' = thr
  BY DEF Claims, Prunes, SweepClaim, SweepPrune, store
<1> QED
  BY <1>1 DEF ThreadStep, Untouched, Updated, Added, Created, Removed, Reset, RolledBack, GivesUp,
     Kept, SameTids

\* Slots are never given back.
LEMMA SlotsGrow == ASSUME TypeOK, [Next]_vars PROVE nslot' >= nslot
<1>1. nslot' = nslot \/ nslot' = nslot + 1
  <2>1. CASE ThreadsNext
    BY <2>1 DEF ThreadsNext, ThreadsPut, ThreadsCopy, ThreadsPatch, ThreadsPatchCall,
       ThreadsPatchFinish, ThreadsDelete, ThreadsDeleteCall, ThreadsDeleteFinish,
       ThreadsDeleteFail, ThreadsSetStatus, AppendThread, store
  <2>2. CASE SweepNext
    BY <2>2 DEF SweepNext, SweepSelect, SweepSkip, SweepClaim, SweepDelete, SweepPrune,
       SweepFail, SweepEnd, store
  <2>3. CASE RunsNext
    BY <2>3 DEF RunsNext, RunsPut, RunsPutCreate, RunsPutAppend, RunsDelete, RunsDeleteCall,
       RunsDeleteFinish, RunsDeleteFail, RunsCancel, RunsCancelEager, RunsCancelDelete,
       WorkerHears, AppendThread, store
  <2>4. CASE \E r \in Rid : WorkerNext(r)
    BY <2>4 DEF WorkerNext, WorkerLost, WorkerReport, WorkerRollback, WorkerRollbackCall,
       WorkerRollbackFinish, WorkerRollbackFail, store
  <2> QED
    BY <2>1, <2>2, <2>3, <2>4 DEF Next, QueueNext, QueueWake, QueueClaim, Tick, Restart, vars, store
<1> QED
  BY <1>1, ConstantsAssumption DEF TypeOK

\* A rollback goes on, or begins with a custom checkpointer.
LEMMA RollbackSteps ==
  ASSUME TypeOK, [Next]_vars, NEW r \in Rid, worker'[r].pc = "rollback"
  PROVE  \/ /\ worker[r].pc = "rollback"
            /\ worker'[r].tid = worker[r].tid /\ worker'[r].ref = worker[r].ref
         \/ /\ CustomCheckpointer /\ "rollback" \in Outcome
            /\ worker[r].pc = "exec" /\ ~Gone(r) /\ thr' = thr /\ nslot' = nslot
            /\ worker'[r].tid = worker[r].tid
            /\ \E s \in Lookup(worker[r].tid) : worker'[r].ref = RefTo(s)
<1> DEFINE Goes == worker[r].pc = "rollback" /\ worker'[r].tid = worker[r].tid
                   /\ worker'[r].ref = worker[r].ref
<1> SUFFICES ASSUME ~Goes
             PROVE  /\ CustomCheckpointer /\ "rollback" \in Outcome
                    /\ worker[r].pc = "exec" /\ ~Gone(r) /\ thr' = thr /\ nslot' = nslot
                    /\ worker'[r].tid = worker[r].tid
                    /\ \E s \in Lookup(worker[r].tid) : worker'[r].ref = RefTo(s)
  OBVIOUS
<1>1. worker' # worker
  OBVIOUS
<1>2. ASSUME NEW q \in Rid, NEW a, WorkerHears(q, a) PROVE FALSE
  <2>1. worker' = [worker EXCEPT ![q].sig = a] /\ worker[q].pc = "exec"
    BY <1>2 DEF WorkerHears
  <2> QED
    BY <2>1 DEF TypeOK, Worker
<1>3. ASSUME NEW q \in Rid, StopWorker(q) PROVE FALSE
  BY <1>3, StopEffect
<1>4. ~QueueClaim
  BY ClaimEffect
<1>5. ~Restart
  BY DEF Restart, NoWorker
<1>6. PICK q \in Rid : WorkerNext(q)
  <2>1. ~ThreadsNext
    BY <1>1 DEF ThreadsNext, ThreadsPut, ThreadsCopy, ThreadsPatch, ThreadsPatchCall,
       ThreadsPatchFinish, ThreadsDelete, ThreadsDeleteCall, ThreadsDeleteFinish,
       ThreadsDeleteFail, ThreadsSetStatus
  <2>2. ~SweepNext
    BY <1>1 DEF SweepNext, SweepSelect, SweepSkip, SweepClaim, SweepDelete, SweepPrune,
       SweepFail, SweepEnd
  <2>3. ~RunsNext
    BY <1>1, <1>2 DEF RunsNext, RunsPut, RunsPutCreate, RunsPutAppend, RunsDelete, RunsDeleteCall,
       RunsDeleteFinish, RunsDeleteFail, RunsCancel, RunsCancelEager, RunsCancelDelete
  <2> QED
    BY <1>1, <1>4, <1>5, <2>1, <2>2, <2>3 DEF Next, QueueNext, QueueWake, Tick, vars
<1>7. PICK base \in BaseStatus : WorkerRollbackCall(q, base)
  BY <1>3, <1>6 DEF WorkerNext, WorkerLost, WorkerReport, WorkerRollback, WorkerRollbackFinish,
     WorkerRollbackFail
<1>8. PICK s \in Lookup(worker[q].tid) :
        worker' = [worker EXCEPT ![q] =
                     [@ EXCEPT !.pc = "rollback", !.ref = RefTo(s), !.at = now, !.base = base]]
  BY <1>7 DEF WorkerRollbackCall
<1>9. q = r /\ worker'[r].tid = worker[r].tid /\ worker'[r].ref = RefTo(s)
  BY <1>8 DEF TypeOK, Worker
<1> QED
  BY <1>7, <1>8, <1>9 DEF WorkerRollbackCall, MayReport, store

\* What suspended rollbacks, patches and sweeps hold stays held.
LEMMA HoldStep ==
  ASSUME TypeOK, TypeOK', RunThreadInv, WorkersInv, HoldInv, [Next]_vars
  PROVE  HoldInv'
<1>1. PatchesNamed'
  BY TaskSteps DEF TaskStep, HoldInv, PatchesNamed
<1>2. SweepNamed'
  <2>1. CASE SweepStill
    BY <2>1 DEF SweepStill, HoldInv, SweepNamed
  <2>2. CASE SweepClaim
    <3>1. sweep'.pc \in {"delete", "prune"}
      BY <2>2 DEF SweepClaim
    <3> QED
      BY <3>1 DEF SweepNamed
  <2>3. CASE SweepSkip
    <3>1. sweep.pc = "loop" /\ sweep'.tid = sweep.tid
      BY <2>3 DEF SweepSkip, TypeOK, Sweeper
    <3> QED
      BY <3>1 DEF HoldInv, SweepNamed
  <2> QED
    BY <2>1, <2>2, <2>3, SweepSteps, SweepEnds DEF SweepNext, SweepNamed
<1>3. RollbackHolds'
  <2> SUFFICES ASSUME NEW r \in Rid, worker'[r].pc = "rollback"
               PROVE  HoldsRef(worker[r].tid, worker[r].ref)'
    BY DEF RollbackHolds
  <2>1. CASE /\ worker[r].pc = "rollback"
             /\ worker'[r].tid = worker[r].tid /\ worker'[r].ref = worker[r].ref
    <3> DEFINE s == worker[r].ref.slot
    <3>1. s \in 1..nslot /\ thr[s].tid \in {worker[r].tid, NoTid}
      BY <2>1 DEF HoldInv, RollbackHolds, HoldsRef
    <3> HIDE DEF s
    <3>2. s \in 1..nslot' /\ s \in Slot /\ s # nslot + 1
      BY <3>1, SlotsGrow, ConstantsAssumption DEF TypeOK, Slot
    <3>3. thr'[s].tid \in {thr[s].tid, NoTid}
      <4>1. thr'[s].tid \in Tid \cup {NoTid}
        BY <3>2 DEF TypeOK, Thread
      <4> QED
        BY <3>2, <4>1, ThreadSteps, IdsStay
    <3>4. thr'[s].tid \in {worker'[r].tid, NoTid}
      BY <2>1, <3>1, <3>3
    <3> QED
      BY <2>1, <3>2, <3>4 DEF HoldsRef, s
  <2>2. ASSUME NEW s \in Lookup(worker[r].tid), worker'[r].ref = RefTo(s),
               worker'[r].tid = worker[r].tid, worker[r].pc = "exec", ~Gone(r),
               thr' = thr, nslot' = nslot
        PROVE  HoldsRef(worker[r].tid, worker[r].ref)'
    <3>1. worker[r].tid \in Tid
      BY <2>2 DEF Gone, WorkersInv, WorkersExecute, RunThreadInv, RunsNamed, TypeOK, Worker
    <3>2. HoldsRef(worker[r].tid, RefTo(s))
      BY <2>2, <3>1, LookupHolds
    <3> QED
      BY <2>2, <3>2 DEF HoldsRef
  <2> QED
    BY <2>1, <2>2, RollbackSteps
<1> QED
  BY <1>1, <1>2, <1>3 DEF HoldInv

\* The invariant of every behaviour.
LEMMA HoldInvariant == Spec => []HoldInv
<1>1. Init => HoldInv
  BY DEF Init, HoldInv, RollbackHolds, PatchesNamed, SweepNamed, NoWorker, Idle, NoSweep
<1>2. TypeOK /\ TypeOK' /\ RunThreadInv /\ WorkersInv /\ HoldInv /\ [Next]_vars => HoldInv'
  BY HoldStep
<1> QED
  BY <1>1, <1>2, TypeCorrect, RunThreadInvariant, WorkersInvariant, PTL DEF Spec

----------------------------------------------------------------------------
(* keep_latest prunes a thread once in each of its states.                 *)

Pruning(t) == sweep.pc = "prune" /\ sweep.tid = t

\* A thread that was pruned in its present state has the updated_at that the
\* sweeper holds, or has recorded.
PrunedOnce(t) ==
  t \in pruned =>
    /\ Exists(t)
    /\ \A s \in Lookup(t) : thr[s].upd <= IF Pruning(t) THEN sweep.upd ELSE ttl[t].swept

PruneInv == \A t \in Tid : PrunedOnce(t)

\* The same objects have the id, so the same one is found.
LEMMA SameLookup ==
  ASSUME NEW t, SameTids(t)
  PROVE  Lookup(t)' = Lookup(t) /\ (Exists(t)' <=> Exists(t))
BY DEF SameTids, Lookup, SlotsOf, Exists

\* A duplicate comes last in the list, so the first object is found as before.
LEMMA CreatedLookup ==
  ASSUME TypeOK, RunThreadInv, NEW t \in Tid, Created(t), Exists(t)
  PROVE  /\ Exists(t)' /\ Lookup(t)' = Lookup(t)
         /\ \A s \in Lookup(t) : thr'[s] = thr[s]
<1>1. SlotsOf(t)' = SlotsOf(t) \cup {nslot + 1} /\ SlotsOf(t) # {}
  BY DEF Created, SlotsOf, Exists
<1>2. \A s \in SlotsOf(t) : s \in Int /\ s < nslot + 1
  BY ConstantsAssumption DEF SlotsOf, RunThreadInv, SlotsInOrder, TypeOK, Slot
<1>3. nslot + 1 \in Int
  BY DEF TypeOK
<1>4. Lookup(t)' = Lookup(t)
  BY <1>1, <1>2, <1>3 DEF Lookup
<1> QED
  BY <1>1, <1>4, LookupType DEF Exists, Created, SameSlots

\* A claimed thread stays claimed until the sweeper is done with it.
LEMMA PruningStep ==
  ASSUME TypeOK, [Next]_vars, NEW t \in Tid, ~Claims(t), ~Prunes(t), ~SweepFail, ~Restart
  PROVE  /\ Pruning(t)' <=> Pruning(t)
         /\ Pruning(t) => sweep' = sweep /\ maint' = maint
<1>1. CASE SweepStill
  BY <1>1 DEF SweepStill, Pruning
<1>2. CASE SweepSelect \/ SweepDelete \/ SweepEnd
  <2>1. ~Pruning(t)
    BY <1>2 DEF SweepSelect, SweepDelete, SweepEnd, Pruning
  <2> QED
    BY <1>2, <2>1, SweepEnds DEF Pruning
<1>3. CASE SweepSkip
  <2>1. sweep.pc = "loop" /\ sweep'.pc = "loop"
    BY <1>3 DEF SweepSkip, TypeOK, Sweeper
  <2> QED
    BY <2>1 DEF Pruning
<1>4. CASE SweepClaim
  BY <1>4 DEF SweepClaim, Claims, Pruning
<1>5. CASE SweepPrune
  <2>1. sweep.tid # t
    BY <1>5 DEF Prunes
  <2>2. sweep'.pc \in {"idle", "loop"}
    BY <1>5, SweepEnds
  <2> QED
    BY <2>1, <2>2 DEF Pruning
<1> QED
  BY <1>1, <1>2, <1>3, <1>4, <1>5, SweepSteps DEF SweepNext

\* A failed prune, or one that a restart interrupts, does not count.
LEMMA GiveUpUnmarks ==
  ASSUME SweepFail \/ Restart
  PROVE  pruned' = pruned \ {sweep.tid} /\ thr' = thr /\ ttl' = ttl /\ sweep'.pc = "idle"
BY SweepEnds DEF SweepFail, Restart, store

\* The claim of a thread by the sweeper.
LEMMA ClaimKind ==
  ASSUME TypeOK, NEW t, Claims(t)
  PROVE  /\ sweep.pc = "loop" /\ thr' = thr /\ ttl' = ttl /\ t \in Tid
         /\ sweep'.pc = (IF EffectiveTTL(t).strategy = "keep_latest" THEN "prune" ELSE "delete")
         /\ pruned' = (IF EffectiveTTL(t).strategy = "keep_latest" THEN pruned \cup {t} ELSE pruned)
         /\ maint' = maint \cup {t} /\ t \notin maint
         /\ \E s \in Lookup(t) : /\ Lookup(t) = {s} /\ Expired(t, thr[s].upd)
                                 /\ sweep'.upd = thr[s].upd /\ sweep'.ref = RefTo(s)
                                 /\ sweep'.state = ttl[t]
<1>1. PICK e \in sweep.todo : \E s \in Lookup(e.tid) :
        /\ e.tid \notin maint /\ Expired(e.tid, thr[s].upd) /\ maint' = maint \cup {e.tid}
        /\ LET keep == EffectiveTTL(e.tid).strategy = "keep_latest" IN
             /\ sweep' = [pc |-> IF keep THEN "prune" ELSE "delete", todo |-> sweep.todo \ {e},
                          tid |-> e.tid, ref |-> RefTo(s), state |-> ttl[e.tid], upd |-> thr[s].upd]
             /\ pruned' = IF keep THEN pruned \cup {e.tid} ELSE pruned
  BY DEF Claims, SweepClaim
<1>2. e.tid = t /\ e.tid \in Tid
  BY <1>1 DEF Claims, TypeOK, Sweeper
<1>3. \A s \in Lookup(t) : Lookup(t) = {s}
  BY LookupFinds DEF Lookup, Exists
<1> QED
  BY <1>1, <1>2, <1>3 DEF Claims, SweepClaim, store

\* The end of a prune.
LEMMA PruneKind ==
  ASSUME TypeOK, NEW t \in Tid, Prunes(t)
  PROVE  /\ Pruning(t) /\ ~Pruning(t)' /\ thr' = thr /\ pruned' = pruned
         /\ ttl'[t].swept = sweep.upd /\ ttl'[t].over = sweep.state.over
         /\ sweep'.pc = "loop"
<1>1. sweep.pc = "prune" /\ sweep.tid = t /\ thr' = thr /\ pruned' = pruned
  BY DEF Prunes, SweepPrune
<1>2. sweep' = [NoSweep EXCEPT !.pc = "loop", !.todo = sweep.todo]
  BY DEF Prunes, SweepPrune, SweepRelease
<1>3. sweep'.pc = "loop"
  BY <1>2 DEF NoSweep
<1>4. ttl'[t] = [sweep.state EXCEPT !.swept = sweep.upd] /\ sweep.state \in TTLState
  BY DEF Prunes, SweepPrune, SweptMark, TypeOK, Sweeper
<1>5. ttl'[t].swept = sweep.upd /\ ttl'[t].over = sweep.state.over
  BY <1>4 DEF TTLState
<1> QED
  BY <1>1, <1>3, <1>5 DEF Pruning

\* Every update of a thread clears the mark; what is left is as it was.
LEMMA PruneStep ==
  ASSUME TypeOK, TypeOK', RunThreadInv, WorkersInv, HoldInv, PruneInv, [Next]_vars
  PROVE  PruneInv'
<1> SUFFICES ASSUME NEW t \in Tid, t \in pruned' PROVE PrunedOnce(t)'
  BY DEF PruneInv, PrunedOnce
<1>1. CASE Claims(t)
  <2>1. PICK s \in Lookup(t) : Lookup(t) = {s} /\ sweep'.upd = thr[s].upd
    BY <1>1, ClaimKind
  <2>2. Lookup(t)' = Lookup(t) /\ Exists(t)'
    BY <1>1, <2>1, ClaimKind, LookupType DEF Lookup, SlotsOf, Exists
  <2>3. CASE EffectiveTTL(t).strategy = "keep_latest"
    <3>1. Pruning(t)'
      BY <1>1, <2>3, ClaimKind DEF Pruning, Claims
    <3>2. thr'[s].upd <= sweep'.upd
      BY <1>1, <2>1, ClaimKind, LookupType DEF TypeOK, Thread, Time
    <3> QED
      BY <2>1, <2>2, <3>1, <3>2 DEF PrunedOnce
  <2>4. CASE EffectiveTTL(t).strategy # "keep_latest"
    <3>1. ~Pruning(t) /\ ~Pruning(t)' /\ t \in pruned
      BY <1>1, <2>4, ClaimKind DEF Pruning
    <3> QED
      BY <1>1, <2>2, <3>1, ClaimKind DEF PrunedOnce, PruneInv
  <2> QED
    BY <2>3, <2>4
<1>2. CASE Prunes(t)
  <2>1. Lookup(t)' = Lookup(t) /\ (Exists(t)' <=> Exists(t))
    BY <1>2, PruneKind, SameLookup DEF SameTids
  <2> QED
    BY <1>2, <2>1, PruneKind DEF PrunedOnce, PruneInv
<1>3. CASE ~Claims(t) /\ ~Prunes(t)
  <2>1. ThreadStep(t)
    BY ThreadSteps
  <2>2. CASE SweepFail \/ Restart
    <3>1. t # sweep.tid /\ thr' = thr /\ ttl' = ttl /\ t \in pruned /\ sweep'.pc = "idle"
      BY <2>2, GiveUpUnmarks
    <3>2. Lookup(t)' = Lookup(t) /\ (Exists(t)' <=> Exists(t)) /\ ~Pruning(t) /\ ~Pruning(t)'
      BY <3>1, SameLookup DEF SameTids, Pruning
    <3> QED
      BY <3>1, <3>2 DEF PrunedOnce, PruneInv
  <2>3. CASE ~SweepFail /\ ~Restart
    <3>1. (Pruning(t)' <=> Pruning(t)) /\ (Pruning(t) => sweep' = sweep)
      BY <1>3, <2>3, PruningStep
    <3>2. CASE Untouched(t)
      <4>1. /\ Lookup(t)' = Lookup(t) /\ (Exists(t)' <=> Exists(t)) /\ t \in pruned
            /\ ttl'[t] = ttl[t] /\ \A s \in Lookup(t) : thr'[s] = thr[s]
        BY <3>2, SameLookup, LookupType DEF Untouched, Kept, SameSlots, SameMark
      <4> QED
        BY <3>1, <4>1 DEF PrunedOnce, PruneInv
    <3>3. CASE Created(t)
      <4>1. t \in pruned /\ Exists(t) /\ ttl'[t] = ttl[t]
        BY <3>3 DEF Created, SameMark, PrunedOnce, PruneInv
      <4> QED
        BY <3>1, <3>3, <4>1, CreatedLookup DEF PrunedOnce, PruneInv
    <3> QED
      BY <1>3, <2>1, <3>2, <3>3 DEF ThreadStep, Updated, Added, Removed, Reset, RolledBack, GivesUp
  <2> QED
    BY <2>2, <2>3
<1> QED
  BY <1>1, <1>2, <1>3

\* keep_latest does not prune a thread again until it is updated, deleted or
\* given another TTL: not even when the prune overlaps requests, duplicate
\* creations, suspended rollbacks and patches of a stale list, with any
\* checkpointer, any clock and any configuration.
THEOREM PrunesOnce == Spec => NoRepeatPrune
<1>1. Init => PruneInv
  BY DEF Init, PruneInv, PrunedOnce
<1>2. TypeOK /\ TypeOK' /\ RunThreadInv /\ WorkersInv /\ HoldInv /\ PruneInv /\ [Next]_vars => PruneInv'
  BY PruneStep
<1>3. TypeOK /\ PruneInv /\ [Next]_vars =>
        [sweep.pc # "prune" /\ sweep'.pc = "prune" => sweep'.tid \notin pruned]_vars
  <2> SUFFICES ASSUME TypeOK, PruneInv, [Next]_vars, sweep.pc # "prune", sweep'.pc = "prune"
               PROVE  sweep'.tid \notin pruned
    OBVIOUS
  <2>1. SweepClaim
    <3>1. ~SweepSkip
      BY DEF SweepSkip, TypeOK, Sweeper
    <3> QED
      BY <3>1, SweepSteps, SweepEnds DEF SweepStill, SweepNext
  <2> DEFINE t == sweep'.tid
  <2>2. Claims(t)
    BY <2>1 DEF Claims
  <2> HIDE DEF t
  <2>3. /\ EffectiveTTL(t).strategy = "keep_latest" /\ t \in Tid
        /\ \E s \in Lookup(t) : Expired(t, thr[s].upd)
    BY <2>2, ClaimKind
  <2>4. PICK s \in Lookup(t) : ~(ttl[t].swept >= thr[s].upd)
    BY <2>3 DEF Expired, AlreadyPruned
  <2>5. ttl[t].swept \in Int /\ thr[s].upd \in Int
    BY <2>3, <2>4, LookupType DEF TypeOK, Thread, TTLState, Time
  <2>6. t \notin pruned
    BY <2>3, <2>4, <2>5 DEF PruneInv, PrunedOnce, Pruning
  <2> QED
    BY <2>6 DEF t
<1> QED
  BY <1>1, <1>2, <1>3, HoldInvariant, TypeCorrect, RunThreadInvariant, WorkersInvariant, PTL
     DEF Spec, NoRepeatPrune

----------------------------------------------------------------------------
(* The deletion of an expired thread removes it.                           *)

\* A claim for deletion holds the only object with the id, as it is now.
UniqueId(t) == \A s, u \in SlotsOf(t) : s = u
ClaimHolds ==
  sweep.pc = "delete" =>
    sweep.tid \in maint /\ \A s \in SlotsOf(sweep.tid) : RefTo(s) = sweep.ref
DeleteInv == NoCreation /\ (\A t \in Tid : UniqueId(t)) /\ ClaimHolds

\* What the sweeper holds of a thread it goes on holding.
LEMMA ClaimStays ==
  ASSUME TypeOK, [Next]_vars, NEW t \in Tid, ~Claims(t),
         sweep'.pc \in {"delete", "prune"}, sweep'.tid = t
  PROVE  SweepStill
<1>1. ~SweepClaim
  BY DEF Claims
<1>2. CASE SweepSkip
  <2>1. sweep'.pc = "loop"
    BY <1>2 DEF SweepSkip, TypeOK, Sweeper
  <2> QED
    BY <2>1
<1> QED
  BY <1>1, <1>2, SweepSteps, SweepEnds DEF SweepNext

\* The gate keeps a claimed object in place: it is not replaced, and no other
\* object with its id is appended.
LEMMA DeleteStep ==
  ASSUME "create" \notin IfNotExists, TypeOK, TypeOK', RunThreadInv, WorkersInv, HoldInv, DeleteInv,
         [Next]_vars
  PROVE  DeleteInv'
<1>1. NoCreation'
  BY CreationStep DEF DeleteInv
<1>2. ASSUME NEW t \in Tid PROVE ~Created(t) /\ ThreadStep(t)
  BY <1>2, ThreadSteps DEF Created, DeleteInv, NoCreation
<1>3. ASSUME NEW t \in Tid, Claims(t) \/ Prunes(t) PROVE thr' = thr
  BY <1>3 DEF Claims, Prunes, SweepClaim, SweepPrune, store
<1>4. ASSUME NEW t \in Tid PROVE UniqueId(t)'
  <2>1. CASE SameTids(t)
    BY <2>1, <1>4 DEF DeleteInv, UniqueId, SameTids, SlotsOf
  <2>2. CASE Added(t)
    BY <2>2 DEF Added, UniqueId, SlotsOf
  <2>3. CASE Removed(t)
    BY <2>3, <1>4 DEF DeleteInv, UniqueId, Removed, SlotsOf
  <2>4. CASE thr' = thr
    BY <2>4 DEF DeleteInv, UniqueId, SlotsOf
  <2> QED
    BY <1>2, <1>3, <2>1, <2>2, <2>3, <2>4 DEF ThreadStep, Untouched, Updated, Reset, RolledBack,
       GivesUp, Kept
<1>5. ClaimHolds'
  <2> SUFFICES ASSUME sweep'.pc = "delete"
               PROVE  /\ sweep'.tid \in maint'
                      /\ \A s \in Slot : thr'[s].tid = sweep'.tid =>
                           [slot |-> s, ver |-> thr'[s].ver] = sweep'.ref
    BY DEF ClaimHolds, SlotsOf, RefTo
  <2>1. CASE SweepStill
    <3> DEFINE t == sweep.tid
    <3>1. t \in maint /\ t \in Tid /\ \A s \in SlotsOf(t) : RefTo(s) = sweep.ref
      BY <2>1 DEF SweepStill, DeleteInv, ClaimHolds, TypeOK
    <3>2. sweep' = sweep /\ maint' = maint /\ ThreadStep(t)
      BY <1>2, <2>1, <3>1 DEF SweepStill
    <3>3. ~Claims(t) /\ ~Prunes(t) /\ ~GivesUp(t)
      BY <3>2, SweepEnds DEF Claims, Prunes, GivesUp, SweepClaim, SweepPrune
    <3> HIDE DEF t
    <3>4. ASSUME NEW s \in Slot, thr'[s].tid = t PROVE thr[s].tid = t /\ thr'[s].ver = thr[s].ver
      <4>1. CASE Updated(t)
        <5>1. PICK q \in Lookup(t) : /\ thr'[q].ver = thr[q].ver
                                     /\ \A p \in Slot \ {q} : thr[p].tid = t => thr'[p] = thr[p]
          BY <3>1, <4>1 DEF Updated
        <5> QED
          BY <3>4, <4>1, <5>1 DEF Updated, SameTids
      <4> QED
        BY <1>2, <3>1, <3>2, <3>3, <3>4, <4>1 DEF ThreadStep, Untouched, Added, Removed, Reset,
           RolledBack, Kept, SameTids, SameSlots
    <3>5. \A s \in Slot : thr'[s].tid = t => [slot |-> s, ver |-> thr'[s].ver] = sweep.ref
      BY <3>1, <3>4 DEF SlotsOf, RefTo
    <3> QED
      BY <3>1, <3>2, <3>5 DEF t
  <2>2. CASE SweepClaim
    <3> DEFINE t == sweep'.tid
    <3>1. Claims(t)
      BY <2>2 DEF Claims
    <3> HIDE DEF t
    <3>2. /\ t \in maint' /\ thr' = thr /\ t \in Tid
          /\ \E s \in Lookup(t) : sweep'.ref = RefTo(s)
      BY <3>1, ClaimKind
    <3>3. PICK s \in SlotsOf(t) : sweep'.ref = RefTo(s)
      BY <3>2 DEF Lookup
    <3>4. \A q \in SlotsOf(t) : q = s
      BY <3>2 DEF DeleteInv, UniqueId
    <3>5. \A q \in Slot : thr'[q].tid = t => [slot |-> q, ver |-> thr'[q].ver] = sweep'.ref
      BY <3>2, <3>3, <3>4 DEF SlotsOf, RefTo
    <3> QED
      BY <3>2, <3>5 DEF t
  <2>3. ~SweepSkip
    BY DEF SweepSkip, TypeOK, Sweeper
  <2> QED
    BY <2>1, <2>2, <2>3, SweepSteps, SweepEnds DEF SweepNext
<1> QED
  BY <1>1, <1>4, <1>5 DEF DeleteInv

\* When sweep_ttl reports a thread as deleted, no thread with that id is
\* left, whatever requests and deletions overlapped the await between the
\* look-up and the removal, provided that no call uses if_not_exists="create".
THEOREM SweepRemovesThread ==
  "create" \notin IfNotExists => (Spec => SweepDeleteRemoves)
<1> SUFFICES ASSUME "create" \notin IfNotExists PROVE Spec => SweepDeleteRemoves
  OBVIOUS
<1>1. Init => DeleteInv
  <2> SUFFICES ASSUME Init PROVE DeleteInv
    OBVIOUS
  <2>1. \A t \in Tid : SlotsOf(t) = {}
    BY ConstantsAssumption DEF Init, SlotsOf, NoThread
  <2> QED
    BY <2>1 DEF Init, DeleteInv, NoCreation, Idle, UniqueId, ClaimHolds, NoSweep
<1>2. TypeOK /\ TypeOK' /\ RunThreadInv /\ WorkersInv /\ HoldInv /\ DeleteInv /\ [Next]_vars => DeleteInv'
  BY DeleteStep
<1>3. TypeOK /\ DeleteInv /\ [Next]_vars =>
        [sweep.pc = "delete" /\ sweep'.pc = "loop" => \A s \in Slot : thr'[s].tid # sweep.tid]_vars
  <2> SUFFICES ASSUME TypeOK, DeleteInv, [Next]_vars, sweep.pc = "delete", sweep'.pc = "loop",
                      NEW s \in Slot, thr'[s].tid = sweep.tid
               PROVE  FALSE
    OBVIOUS
  <2>1. SweepDelete
    BY SweepSteps, SweepEnds DEF SweepStill, SweepNext, SweepSelect, SweepSkip, SweepClaim,
       SweepPrune, SweepEnd
  <2>2. thr'[s] = IF s = sweep.ref.slot /\ Attached(sweep.ref) THEN NoThread ELSE thr[s]
    BY <2>1 DEF SweepDelete, ApplyDelete
  <2>3. sweep.tid \in Tid /\ NoTid \notin Tid /\ NoThread.tid = NoTid
    BY ConstantsAssumption DEF DeleteInv, ClaimHolds, TypeOK, NoThread
  <2>4. thr[s].tid = sweep.tid
    BY <2>2, <2>3
  <2>5. RefTo(s) = sweep.ref
    BY <2>4 DEF DeleteInv, ClaimHolds, SlotsOf
  <2>6. sweep.ref.slot = s /\ Attached(sweep.ref)
    BY <2>3, <2>4, <2>5 DEF RefTo, Attached
  <2> QED
    BY <2>2, <2>3, <2>6
<1> QED
  BY <1>1, <1>2, <1>3, HoldInvariant, TypeCorrect, RunThreadInvariant, WorkersInvariant, PTL
     DEF Spec, SweepDeleteRemoves

----------------------------------------------------------------------------
(* keep_latest forgets no update.                                          *)

\* No TTL is zero minutes.  An update at the very instant of the claim would
\* otherwise leave updated_at as the sweeper read it.
LastsAMinute(cfg) == cfg \in TTLConfig => cfg.minutes > 0

\* With a custom checkpointer, a rollback uses the time it read before its
\* await, and Threads.delete may pop the TTL entry of a thread that stays.
SweepConfig ==
  /\ \A cfg \in TTLInput \cup {GlobalTTL} : LastsAMinute(cfg)
  /\ CustomCheckpointer => "rollback" \notin Outcome /\ "Threads.delete" \notin Workload

NoneSuspended ==
  /\ \A r \in Rid : worker[r].pc # "rollback"
  /\ CustomCheckpointer => \A c \in Client : task[c].op # "delete"
  /\ \A c \in Client : LastsAMinute(task[c].ttl)

\* A thread that is not marked as pruned, or whose prune may still fail, is
\* newer than the recorded mark; one that was updated while it is pruned is
\* newer than the mark that the sweeper is going to record.
Newer(t) ==
  /\ t \notin pruned \/ Pruning(t) => \A s \in Lookup(t) : ttl[t].swept < thr[s].upd
  /\ t \notin pruned /\ Pruning(t) => \A s \in Lookup(t) : sweep.upd < thr[s].upd

\* Marks are in the past, and of threads that exist.
MarksPast(t) ==
  /\ ttl[t].swept < now
  /\ Pruning(t) => sweep.upd < now
  /\ ttl[t].swept # -1 \/ Pruning(t) => Exists(t)

\* What is marked as pruned is under keep_latest, also in the entry that the
\* sweeper is going to write back, and is not claimed for deletion.
MarksKeep(t) ==
  /\ t \in pruned => EffectiveTTL(t).strategy = "keep_latest"
  /\ t \in pruned /\ Pruning(t) => sweep.state.over = ttl[t].over
  /\ sweep.pc = "delete" /\ sweep.tid = t => t \notin pruned
  /\ sweep.pc \in {"delete", "prune"} /\ sweep.tid = t => t \in maint

EntriesLast(t) ==
  LastsAMinute(ttl[t].over) /\ (Pruning(t) => LastsAMinute(sweep.state.over))

Rearms(t) == Newer(t) /\ MarksPast(t) /\ MarksKeep(t) /\ EntriesLast(t)

RearmInv == NoneSuspended /\ \A t \in Tid : Rearms(t)

\* The clock does not go back.
LEMMA TimeGrows == ASSUME TypeOK, [Next]_vars PROVE now' >= now
<1>1. now' = now \/ now' = now + 1
  <2>1. CASE ThreadsNext
    BY <2>1 DEF ThreadsNext, ThreadsPut, ThreadsCopy, ThreadsPatch, ThreadsPatchCall,
       ThreadsPatchFinish, ThreadsDelete, ThreadsDeleteCall, ThreadsDeleteFinish,
       ThreadsDeleteFail, ThreadsSetStatus
  <2>2. CASE SweepNext
    BY <2>2 DEF SweepNext, SweepSelect, SweepSkip, SweepClaim, SweepDelete, SweepPrune,
       SweepFail, SweepEnd
  <2>3. CASE RunsNext
    BY <2>3 DEF RunsNext, RunsPut, RunsPutCreate, RunsPutAppend, RunsDelete, RunsDeleteCall,
       RunsDeleteFinish, RunsDeleteFail, RunsCancel, RunsCancelEager, RunsCancelDelete,
       WorkerHears
  <2>4. CASE \E r \in Rid : WorkerNext(r)
    BY <2>4 DEF WorkerNext, WorkerLost, WorkerReport, WorkerRollback, WorkerRollbackCall,
       WorkerRollbackFinish, WorkerRollbackFail
  <2> QED
    BY <2>1, <2>2, <2>3, <2>4 DEF Next, QueueNext, QueueWake, QueueClaim, Tick, Restart, vars
<1> QED
  BY <1>1 DEF TypeOK, Time

\* The numbers that are compared.
LEMMA MarkTypes ==
  ASSUME TypeOK, NEW t \in Tid
  PROVE  /\ now \in Nat /\ ttl[t].swept \in Int /\ ttl[t].swept >= -1 /\ sweep.upd \in Nat
         /\ \A s \in Lookup(t) : s \in Slot /\ thr[s].upd \in Nat
<1>1. now \in Nat
  BY DEF TypeOK, Time
<1>2. ttl[t].swept \in Int /\ ttl[t].swept >= -1
  BY DEF TypeOK, TTLState, Time
<1>3. sweep.upd \in Nat
  BY DEF TypeOK, Sweeper, Time
<1>4. \A s \in Lookup(t) : s \in Slot /\ thr[s].upd \in Nat
  BY LookupType DEF TypeOK, Thread, Time
<1> QED
  BY <1>1, <1>2, <1>3, <1>4

\* No rollback or deletion is suspended, and no request sends a zero TTL.
LEMMA NoneSuspendedStep ==
  ASSUME SweepConfig, TypeOK, NoneSuspended, [Next]_vars
  PROVE  NoneSuspended'
<1>1. \A r \in Rid : worker'[r].pc # "rollback"
  BY RollbackSteps DEF NoneSuspended, SweepConfig
<1>2. CustomCheckpointer => \A c \in Client : task'[c].op # "delete"
  BY TaskSteps DEF TaskStep, NoneSuspended, SweepConfig
<1>3. LastsAMinute(NoTTL)
  BY DEF LastsAMinute, TTLConfig, NoTTL
<1>4. \A c \in Client : LastsAMinute(task'[c].ttl)
  BY <1>3, TaskSteps DEF TaskStep, NoneSuspended, SweepConfig
<1> QED
  BY <1>1, <1>2, <1>4 DEF NoneSuspended, LastsAMinute

\* A claim is of a thread whose updated_at is past and not recorded yet.
LEMMA RearmClaim ==
  ASSUME SweepConfig, TypeOK, TypeOK', NEW t \in Tid, Rearms(t), Claims(t)
  PROVE  Rearms(t)'
<1>1. PICK s \in Lookup(t) : /\ Lookup(t) = {s} /\ Expired(t, thr[s].upd)
                             /\ sweep'.upd = thr[s].upd /\ sweep'.state = ttl[t]
  BY ClaimKind
<1>2. /\ thr' = thr /\ ttl' = ttl /\ now' = now /\ ~Pruning(t) /\ t \in maint'
  BY ClaimKind DEF Pruning, Claims, SweepClaim
<1>3. Lookup(t)' = Lookup(t) /\ (Exists(t)' <=> Exists(t)) /\ Exists(t)
  BY <1>1, <1>2, SameLookup, LookupType DEF SameTids, Exists, SlotsOf
<1>4. thr[s].upd < now
  <2>1. EffectiveTTL(t) \in TTLConfig /\ LastsAMinute(EffectiveTTL(t))
    <3>1. EffectiveTTL(t) # NoTTL /\ ttl[t].over \in TTLConfig \cup {NoTTL}
      BY <1>1 DEF Expired, TypeOK, TTLState
    <3> QED
      BY <3>1, ConstantsAssumption DEF EffectiveTTL, Rearms, EntriesLast, SweepConfig
  <2>2. EffectiveTTL(t).minutes \in Nat /\ EffectiveTTL(t).minutes > 0
    BY <2>1 DEF LastsAMinute, TTLConfig
  <2>3. thr[s].upd + EffectiveTTL(t).minutes <= now
    BY <1>1 DEF Expired
  <2> QED
    BY <1>1, <2>2, <2>3, MarkTypes
<1>5. Pruning(t)' <=> EffectiveTTL(t).strategy = "keep_latest"
  BY ClaimKind DEF Pruning, Claims
<1>6. EffectiveTTL(t)' = EffectiveTTL(t)
  BY <1>2 DEF EffectiveTTL
<1>7. Newer(t)'
  <2>1. CASE EffectiveTTL(t).strategy = "keep_latest"
    <3>1. t \in pruned' /\ ~(ttl[t].swept >= thr[s].upd)
      BY <1>1, <2>1, ClaimKind DEF Expired, AlreadyPruned
    <3> QED
      BY <1>1, <1>2, <1>3, <3>1, MarkTypes DEF Newer
  <2>2. CASE EffectiveTTL(t).strategy # "keep_latest"
    BY <1>2, <1>3, <1>5, <2>2, ClaimKind DEF Rearms, Newer
  <2> QED
    BY <2>1, <2>2
<1>8. MarksPast(t)'
  BY <1>1, <1>2, <1>3, <1>4 DEF Rearms, MarksPast
<1>9. MarksKeep(t)'
  <2>1. EffectiveTTL(t).strategy # "keep_latest" => t \notin pruned'
    BY ClaimKind DEF Rearms, MarksKeep
  <2>2. sweep'.pc = "delete" => EffectiveTTL(t).strategy # "keep_latest"
    BY ClaimKind
  <2> QED
    BY <1>1, <1>2, <1>6, <2>1, <2>2 DEF MarksKeep
<1>10. EntriesLast(t)'
  BY <1>1, <1>2 DEF Rearms, EntriesLast
<1> QED
  BY <1>7, <1>8, <1>9, <1>10 DEF Rearms

\* The end of a prune records a mark that an update meanwhile has passed.
LEMMA RearmPrune ==
  ASSUME TypeOK, TypeOK', NEW t \in Tid, Rearms(t), Prunes(t)
  PROVE  Rearms(t)'
<1>1. /\ Pruning(t) /\ ~Pruning(t)' /\ thr' = thr /\ pruned' = pruned
      /\ ttl'[t].swept = sweep.upd /\ ttl'[t].over = sweep.state.over /\ sweep'.pc = "loop"
  BY PruneKind
<1>2. Lookup(t)' = Lookup(t) /\ (Exists(t)' <=> Exists(t)) /\ now' = now
  BY <1>1, SameLookup DEF SameTids, Prunes, SweepPrune
<1>3. Newer(t)'
  BY <1>1, <1>2 DEF Rearms, Newer
<1>4. MarksPast(t)'
  BY <1>1, <1>2 DEF Rearms, MarksPast
<1>5. MarksKeep(t)'
  <2>1. t \in pruned => EffectiveTTL(t)' = EffectiveTTL(t)
    BY <1>1 DEF EffectiveTTL, Rearms, MarksKeep
  <2> QED
    BY <1>1, <2>1 DEF Rearms, MarksKeep
<1>6. EntriesLast(t)'
  BY <1>1 DEF Rearms, EntriesLast
<1> QED
  BY <1>3, <1>4, <1>5, <1>6 DEF Rearms

\* A failed prune leaves a thread unmarked, and it was newer before.
LEMMA RearmGiveUp ==
  ASSUME TypeOK, HoldInv, NEW t \in Tid, Rearms(t), SweepFail \/ Restart
  PROVE  Rearms(t)'
<1>1. pruned' = pruned \ {sweep.tid} /\ thr' = thr /\ ttl' = ttl /\ sweep'.pc = "idle" /\ now' = now
  BY GiveUpUnmarks DEF SweepFail, Restart
<1>2. Lookup(t)' = Lookup(t) /\ (Exists(t)' <=> Exists(t)) /\ ~Pruning(t)'
  BY <1>1, SameLookup DEF SameTids, Pruning
<1>3. t \notin pruned' => t \notin pruned \/ Pruning(t)
  <2>1. t # NoTid
    BY ConstantsAssumption
  <2> QED
    BY <1>1, <2>1 DEF HoldInv, SweepNamed, Rearms, MarksKeep, Pruning
<1>4. EffectiveTTL(t)' = EffectiveTTL(t)
  BY <1>1 DEF EffectiveTTL
<1> QED
  BY <1>1, <1>2, <1>3, <1>4 DEF Rearms, Newer, MarksPast, MarksKeep, EntriesLast

\* Every other step: an update is at a time after every mark.
LEMMA RearmOther ==
  ASSUME SweepConfig, TypeOK, TypeOK', RunThreadInv, RearmInv, [Next]_vars,
         NEW t \in Tid, ThreadStep(t), ~Claims(t), ~Prunes(t), ~SweepFail, ~Restart
  PROVE  Rearms(t)'
<1>1. (Pruning(t)' <=> Pruning(t)) /\ (Pruning(t) => sweep' = sweep /\ maint' = maint)
  BY PruningStep
<1>2. sweep'.pc \in {"delete", "prune"} /\ sweep'.tid = t => sweep' = sweep /\ maint' = maint
  BY ClaimStays DEF SweepStill
<1>3. Rearms(t) /\ now' >= now
  BY TimeGrows DEF RearmInv
<1>4. /\ now \in Nat /\ now' \in Nat /\ ttl[t].swept \in Int /\ ttl[t].swept >= -1
      /\ sweep.upd \in Nat
  BY MarkTypes DEF TypeOK, Time
<1>5. \A s \in Lookup(t)' : s \in Slot /\ thr'[s].upd \in Nat
  BY DEF Lookup, SlotsOf, TypeOK, Thread, Time
<1>6. ASSUME ttl'[t] = ttl[t] \/ NewEntry(t)
      PROVE  EntriesLast(t)' /\ ttl'[t].swept < now /\ ttl'[t].swept \in Int
  <2>1. LastsAMinute(NoTTL)
    BY DEF LastsAMinute, TTLConfig, NoTTL
  <2>2. LastsAMinute(ttl'[t].over)
    <3>1. CASE ttl'[t] = ttl[t]
      BY <1>3, <3>1 DEF Rearms, EntriesLast
    <3>2. CASE NewEntry(t)
      BY <2>1, <3>2 DEF NewEntry, SweepConfig, RearmInv, NoneSuspended, Rearms, EntriesLast
    <3> QED
      BY <1>6, <3>1, <3>2
  <2>3. EntriesLast(t)'
    BY <1>1, <1>3, <2>2 DEF Rearms, EntriesLast
  <2>4. ttl'[t].swept = ttl[t].swept \/ ttl'[t].swept = -1
    BY <1>6 DEF NewEntry
  <2> QED
    BY <1>3, <1>4, <2>3, <2>4 DEF Rearms, MarksPast
<1>7. ASSUME t \notin pruned' PROVE MarksKeep(t)'
  BY <1>2, <1>3, <1>7 DEF Rearms, MarksKeep
<1>8. ASSUME Kept(t), ttl'[t] = ttl[t], SameMark(t) PROVE Rearms(t)'
  <2>1. /\ Lookup(t)' = Lookup(t) /\ (Exists(t)' <=> Exists(t))
        /\ \A s \in Lookup(t) : thr'[s] = thr[s]
    BY <1>8, SameLookup, LookupType DEF Kept, SameSlots
  <2>2. Newer(t)'
    BY <1>1, <1>3, <1>8, <2>1 DEF Rearms, Newer, SameMark
  <2>3. MarksPast(t)'
    BY <1>1, <1>3, <1>4, <1>8, <2>1 DEF Rearms, MarksPast
  <2>4. MarksKeep(t)'
    BY <1>1, <1>2, <1>3, <1>8 DEF Rearms, MarksKeep, EffectiveTTL, SameMark
  <2>5. EntriesLast(t)'
    BY <1>6, <1>8
  <2> QED
    BY <2>2, <2>3, <2>4, <2>5 DEF Rearms
<1>9. CASE Updated(t)
  <2>1. PICK s \in Lookup(t) : thr'[s].upd = now
    BY <1>9 DEF Updated
  <2>2. Lookup(t)' = {s} /\ Exists(t)'
    BY <1>9, <2>1, SameLookup, LookupFinds, LookupType DEF Updated, Exists, SlotsOf
  <2>3. ttl'[t] = ttl[t] \/ NewEntry(t)
    BY <1>9 DEF Updated
  <2>4. Newer(t)'
    BY <1>1, <1>3, <1>6, <2>1, <2>2, <2>3 DEF Rearms, MarksPast, Newer
  <2>5. MarksPast(t)'
    BY <1>1, <1>3, <1>4, <1>6, <2>2, <2>3 DEF Rearms, MarksPast
  <2> QED
    BY <1>6, <1>7, <1>9, <2>3, <2>4, <2>5 DEF Rearms, Updated
<1>10. CASE Added(t)
  <2>1. ~Pruning(t)
    BY <1>3, <1>10 DEF Added, Rearms, MarksKeep, Pruning
  <2>2. Lookup(t)' \subseteq {nslot + 1} /\ thr'[nslot + 1].upd = now /\ Exists(t)'
    BY <1>10 DEF Added, Lookup, SlotsOf, Exists
  <2>3. ttl'[t] = ttl[t] \/ NewEntry(t)
    BY <1>10 DEF Added
  <2>4. Newer(t)'
    BY <1>1, <1>6, <2>1, <2>2, <2>3 DEF Newer
  <2>5. MarksPast(t)'
    BY <1>1, <1>3, <1>4, <1>6, <2>1, <2>2, <2>3 DEF MarksPast
  <2> QED
    BY <1>6, <1>7, <1>10, <2>3, <2>4, <2>5 DEF Rearms, Added
<1>11. CASE Created(t)
  <2>1. ttl'[t] = ttl[t] /\ SameMark(t)
    BY <1>11 DEF Created
  <2>2. Exists(t)'
    BY <1>11 DEF Created, Exists, SlotsOf
  <2>3. Newer(t)'
    <3>1. CASE Exists(t)
      BY <1>1, <1>3, <1>11, <2>1, <3>1, CreatedLookup DEF Rearms, Newer, SameMark
    <3>2. CASE ~Exists(t)
      <4>1. ttl'[t].swept = -1 /\ ~Pruning(t)
        BY <1>3, <2>1, <3>2 DEF Rearms, MarksPast
      <4> QED
        BY <1>1, <1>5, <4>1 DEF Newer
    <3> QED
      BY <3>1, <3>2
  <2>4. MarksPast(t)'
    BY <1>1, <1>3, <1>4, <2>1, <2>2 DEF Rearms, MarksPast
  <2>5. MarksKeep(t)'
    BY <1>1, <1>2, <1>3, <2>1 DEF Rearms, MarksKeep, EffectiveTTL, SameMark
  <2> QED
    BY <1>6, <2>1, <2>3, <2>4, <2>5 DEF Rearms
<1>12. CASE Removed(t)
  <2>1. ~Pruning(t)
    BY <1>12 DEF Removed, Pruning, LoopFree, RearmInv, NoneSuspended
  <2>2. ttl'[t].swept = -1 /\ ttl'[t].over = NoTTL
    BY <1>12 DEF Removed, NoEntry
  <2>3. Newer(t)'
    BY <1>1, <1>5, <2>1, <2>2 DEF Newer
  <2>4. MarksPast(t)'
    BY <1>1, <1>4, <2>1, <2>2 DEF MarksPast
  <2>5. NewEntry(t)
    BY <2>2 DEF NewEntry
  <2> QED
    BY <1>6, <1>7, <1>12, <2>3, <2>4, <2>5 DEF Rearms, Removed
<1>13. CASE Reset(t)
  <2>1. ~Pruning(t)
    BY <1>3, <1>13 DEF Reset, Rearms, MarksKeep, Pruning
  <2>2. ttl'[t].swept = -1
    BY <1>13 DEF Reset, NewEntry
  <2>3. Newer(t)'
    BY <1>1, <1>5, <2>1, <2>2 DEF Newer
  <2>4. MarksPast(t)'
    BY <1>1, <1>4, <2>1, <2>2 DEF MarksPast
  <2> QED
    BY <1>6, <1>7, <1>13, <2>3, <2>4 DEF Rearms, Reset
<1>14. ~RolledBack(t)
  BY DEF RolledBack, RearmInv, NoneSuspended
<1> QED
  BY <1>8, <1>9, <1>10, <1>11, <1>12, <1>13, <1>14 DEF ThreadStep, Untouched, GivesUp

\* An update made while keep_latest prunes a thread, or at any time after,
\* leaves the thread newer than the mark that the sweeper records, so that it
\* expires again; provided that no TTL is zero and that, with a custom
\* checkpointer, no rollback and no deletion overlaps the prune.
THEOREM UpdatesKept == SweepConfig => (Spec => []UpdatesRearm)
<1> SUFFICES ASSUME SweepConfig PROVE Spec => []UpdatesRearm
  OBVIOUS
<1>1. Init => RearmInv
  <2> SUFFICES ASSUME Init PROVE RearmInv
    OBVIOUS
  <2>1. LastsAMinute(NoTTL)
    BY DEF LastsAMinute, TTLConfig, NoTTL
  <2>2. NoneSuspended
    BY <2>1 DEF Init, NoneSuspended, NoWorker, Idle
  <2>3. ASSUME NEW t \in Tid PROVE Rearms(t)
    <3>1. Lookup(t) = {}
      BY <2>3, ConstantsAssumption DEF Init, Lookup, SlotsOf, NoThread
    <3>2. ttl[t].swept = -1 /\ ttl[t].over = NoTTL /\ now = 0 /\ pruned = {} /\ sweep.pc = "idle"
      BY <2>3 DEF Init, NoEntry, NoSweep
    <3> QED
      BY <2>1, <3>1, <3>2 DEF Rearms, Newer, MarksPast, MarksKeep, EntriesLast, Pruning
  <2> QED
    BY <2>2, <2>3 DEF RearmInv
<1>2. TypeOK /\ TypeOK' /\ RunThreadInv /\ WorkersInv /\ HoldInv /\ RearmInv /\ [Next]_vars => RearmInv'
  <2> SUFFICES ASSUME TypeOK, TypeOK', RunThreadInv, WorkersInv, HoldInv, RearmInv, [Next]_vars
               PROVE  RearmInv'
    OBVIOUS
  <2>1. NoneSuspended'
    BY NoneSuspendedStep DEF RearmInv
  <2>2. ASSUME NEW t \in Tid PROVE Rearms(t)'
    <3>1. Rearms(t) /\ ThreadStep(t)
      BY ThreadSteps DEF RearmInv
    <3> QED
      BY <3>1, RearmClaim, RearmPrune, RearmGiveUp, RearmOther
  <2> QED
    BY <2>1, <2>2 DEF RearmInv
<1>3. RearmInv => UpdatesRearm
  BY DEF RearmInv, Rearms, Newer, UpdatesRearm
<1> QED
  BY <1>1, <1>2, <1>3, HoldInvariant, TypeCorrect, RunThreadInvariant, WorkersInvariant, PTL DEF Spec

----------------------------------------------------------------------------
(* TTL entries belong to threads.                                          *)

\* Nothing is suspended but the sweeper, which keeps the loop.
OnlySweeps ==
  /\ maint \subseteq {sweep.tid}
  /\ \A c \in Client : task[c].op \notin {"patch", "delete"}

HasEntry(t) == ttl[t] # NoEntry \/ Pruning(t) => Exists(t)

EntryInv == OnlySweeps /\ \A t \in Tid : HasEntry(t)

\* No request is suspended with the built-in checkpointer.
LEMMA OnlySweepsStep ==
  ASSUME ~CustomCheckpointer, ~AuthSuspends, TypeOK, HoldInv, OnlySweeps, [Next]_vars
  PROVE  OnlySweeps'
<1>1. sweep.pc \notin {"delete", "prune"} => maint = {}
  BY ConstantsAssumption DEF HoldInv, SweepNamed, OnlySweeps, TypeOK
<1>2. \A c \in Client : task'[c].op \notin {"patch", "delete"}
  BY <1>1, TaskSteps DEF TaskStep, OnlySweeps, LoopFree
<1>3. maint' \subseteq {sweep'.tid}
  <2>1. CASE SweepStill
    BY <2>1 DEF SweepStill, OnlySweeps
  <2>2. CASE SweepClaim
    <3>1. sweep.pc = "loop" /\ maint' = maint \cup {sweep'.tid}
      BY <2>2 DEF SweepClaim
    <3> QED
      BY <1>1, <3>1
  <2>3. CASE SweepSelect \/ SweepSkip \/ SweepEnd
    <3>1. maint' = maint /\ sweep.pc \notin {"delete", "prune"}
      BY <2>3 DEF SweepSelect, SweepSkip, SweepEnd
    <3> QED
      BY <1>1, <3>1
  <2>4. CASE SweepDelete \/ SweepPrune \/ SweepFail
    <3>1. maint' = maint \ {sweep.tid}
      BY <2>4 DEF SweepDelete, SweepPrune, SweepFail, SweepRelease
    <3> QED
      BY <3>1 DEF OnlySweeps
  <2>5. CASE Restart
    BY <2>5 DEF Restart
  <2> QED
    BY <2>1, <2>2, <2>3, <2>4, <2>5, SweepSteps DEF SweepNext
<1> QED
  BY <1>2, <1>3 DEF OnlySweeps

\* An entry goes with its thread, and the entry that a prune writes back is
\* of a thread that was not deleted meanwhile.
LEMMA EntryStep ==
  ASSUME ~CustomCheckpointer, TypeOK, OnlySweeps, [Next]_vars,
         NEW t \in Tid, HasEntry(t), ThreadStep(t)
  PROVE  HasEntry(t)'
<1>1. CASE Claims(t)
  <2>1. thr' = thr /\ Exists(t)
    BY <1>1, ClaimKind, LookupType DEF Exists, SlotsOf
  <2> QED
    BY <2>1, SameLookup DEF HasEntry, SameTids
<1>2. CASE Prunes(t)
  <2>1. thr' = thr /\ Exists(t)
    BY <1>2, PruneKind DEF HasEntry
  <2> QED
    BY <2>1, SameLookup DEF HasEntry, SameTids
<1>3. CASE SweepFail \/ Restart
  <2>1. thr' = thr /\ ttl' = ttl /\ ~Pruning(t)'
    BY <1>3, GiveUpUnmarks DEF Pruning
  <2> QED
    BY <2>1, SameLookup DEF HasEntry, SameTids
<1>4. CASE ~Claims(t) /\ ~Prunes(t) /\ ~SweepFail /\ ~Restart
  <2>1. Pruning(t)' <=> Pruning(t)
    BY <1>4, PruningStep
  <2>2. CASE SameTids(t) /\ ttl'[t] = ttl[t]
    BY <2>1, <2>2, SameLookup DEF HasEntry
  <2>3. CASE Updated(t)
    BY <2>3, SameLookup, LookupType DEF Updated, HasEntry, Exists, SlotsOf
  <2>4. CASE Added(t) \/ Created(t)
    <3>1. Exists(t)'
      BY <2>4 DEF Added, Created, Exists, SlotsOf
    <3> QED
      BY <3>1 DEF HasEntry
  <2>5. CASE Removed(t)
    <3>1. ~Pruning(t)
      BY <2>5 DEF Removed, Pruning, LoopFree
    <3> QED
      BY <2>1, <2>5, <3>1 DEF Removed, HasEntry
  <2>6. ~Reset(t)
    BY DEF Reset, OnlySweeps
  <2> QED
    BY <1>4, <2>2, <2>3, <2>4, <2>5, <2>6 DEF ThreadStep, Untouched, RolledBack, GivesUp, Kept
<1> QED
  BY <1>1, <1>2, <1>3, <1>4

\* With the built-in checkpointer and no auth handler that suspends, a TTL
\* entry belongs to a thread: no sweep writes one back after a deletion, and
\* no deletion leaves one behind, also with duplicate threads and restarts.
THEOREM EntriesHaveThread ==
  ~CustomCheckpointer /\ ~AuthSuspends => (Spec => []TTLHasThread)
<1> SUFFICES ASSUME ~CustomCheckpointer, ~AuthSuspends PROVE Spec => []TTLHasThread
  OBVIOUS
<1>1. Init => EntryInv
  BY DEF Init, EntryInv, OnlySweeps, HasEntry, Idle, NoSweep, Pruning
<1>2. TypeOK /\ RunThreadInv /\ WorkersInv /\ HoldInv /\ EntryInv /\ [Next]_vars => EntryInv'
  BY OnlySweepsStep, EntryStep, ThreadSteps DEF EntryInv
<1>3. EntryInv => TTLHasThread
  BY DEF EntryInv, HasEntry, TTLHasThread
<1> QED
  BY <1>1, <1>2, <1>3, HoldInvariant, TypeCorrect, RunThreadInvariant, WorkersInvariant, PTL DEF Spec

----------------------------------------------------------------------------
(* The status of a thread with active runs.                                *)

OneActive ==
  \A q, r \in Rid :
    runs[q].status \in Active /\ runs[r].status \in Active /\ runs[q].tid = runs[r].tid =>
      q = r \/ PutBack(runs[q].tid)

BusyInv == NoCreation /\ OneActive /\ ActiveIsBusy

\* Only Runs.put creates a run.
LEMMA CreateSteps ==
  ASSUME TypeOK, [Next]_vars, StepCreate, NoCreation
  PROVE  \E t \in Tid, p \in Prevent, a \in AfterSeconds : RunsPut(t, p, a)
<1>1. nrun' # nrun
  BY DEF StepCreate, TypeOK
<1>2. ~ThreadsNext
  BY <1>1 DEF ThreadsNext, ThreadsPut, ThreadsCopy, ThreadsPatch, ThreadsPatchCall,
     ThreadsPatchFinish, ThreadsDelete, ThreadsDeleteCall, ThreadsDeleteFinish,
     ThreadsDeleteFail, ThreadsSetStatus, store
<1>3. ~SweepNext
  BY <1>1 DEF SweepNext, SweepSelect, SweepSkip, SweepClaim, SweepDelete, SweepPrune,
     SweepFail, SweepEnd, store
<1>4. \A r \in Rid : ~WorkerNext(r)
  BY <1>1 DEF WorkerNext, WorkerLost, WorkerReport, WorkerRollback, WorkerRollbackCall,
     WorkerRollbackFinish, WorkerRollbackFail, store
<1>5. RunsNext
  BY <1>1, <1>2, <1>3, <1>4 DEF Next, QueueNext, QueueWake, QueueClaim, Tick, Restart, vars, store
<1>6. \A c \in Client : ~RunsPutAppend(c)
  BY DEF RunsPutAppend, Resumable, NoCreation
<1> QED
  BY <1>1, <1>5, <1>6 DEF RunsNext, RunsPutCreate, RunsDelete, RunsDeleteCall, RunsDeleteFinish,
     RunsDeleteFail, RunsCancel, RunsCancelEager, RunsCancelDelete, WorkerHears, store

\* Runs.put with prevent_insert_if_inflight: the first active run of its
\* thread, which becomes busy.
LEMMA PutBusy ==
  ASSUME FALSE \notin Prevent, TypeOK, BusyInv, StepCreate,
         NEW u \in Tid, NEW p \in Prevent, NEW a \in AfterSeconds, RunsPut(u, p, a)
  PROVE  OneActive' /\ ActiveIsBusy'
<1>0. back' = back
  BY DEF RunsPut
<1>1. p = TRUE
  BY ConstantsAssumption
<1>2. nrun + 1 \in Rid /\ nrun' = nrun + 1
  BY CreateEffect
<1>3. /\ ~HasActive(runs, u)
      /\ runs' = [runs EXCEPT ![nrun + 1] = [tid |-> u, status |-> "pending", at |-> now + a]]
  BY <1>1, <1>2 DEF RunsPut, InsertRun, TypeOK
<1>4. runs'[nrun + 1].tid = u /\ \A q \in Rid : q # nrun + 1 => runs'[q] = runs[q]
  BY <1>2, <1>3 DEF TypeOK
<1>5. OneActive'
  BY <1>0, <1>2, <1>3, <1>4 DEF BusyInv, OneActive, HasActive, PutBack
<1>6. PICK s \in Lookup(u) :
        \/ thr[s].status = "busy" /\ thr' = thr
        \/ thr' = [thr EXCEPT ![s].status = "busy", ![s].upd = now]
  BY DEF RunsPut
<1>7. /\ s \in Slot /\ thr'[s].tid = u /\ thr'[s].status = "busy" /\ thr[s].tid = u
      /\ \A q \in Slot \ {s} : thr'[q] = thr[q]
  BY <1>6, LookupType DEF TypeOK, Thread
<1>8. ASSUME NEW t \in Tid, NEW q \in Lookup(t)', HasActive(runs', t), ~PutBack(t)'
      PROVE  thr'[q].status = "busy"
  <2>1. SameTids(t)
    BY <1>7 DEF SameTids
  <2>2. q \in Lookup(t) /\ q \in Slot
    BY <1>8, <2>1, SameLookup, LookupType
  <2>3. CASE t = u
    BY <1>6, <1>7, <2>2, <2>3, LookupFinds DEF Exists, SlotsOf
  <2>4. CASE t # u
    <3>1. HasActive(runs, t)
      BY <1>4, <1>8, <2>4 DEF HasActive
    <3>2. thr'[q] = thr[q]
      BY <1>7, <2>2, <2>4, LookupType
    <3> QED
      BY <1>0, <1>8, <2>2, <3>1, <3>2 DEF BusyInv, ActiveIsBusy, PutBack
  <2> QED
    BY <2>3, <2>4
<1> QED
  BY <1>5, <1>8 DEF ActiveIsBusy

\* Every other step activates no run, and what it does to the status of a
\* thread fits the runs that are left.
LEMMA OtherBusy ==
  ASSUME TypeOK, RunThreadInv, WorkersInv, HoldInv, BusyInv, [Next]_vars, ~StepCreate
  PROVE  OneActive' /\ ActiveIsBusy'
<1>1. \A t : NoneActivated(t)
  BY RunSteps, OthersActivateNone
<1>a. \A t : PutBack(t) => PutBack(t)'
  BY BackGrows DEF PutBack
<1>b. \A t : \A r \in Rid : <<r, t>> \in back' => PutBack(t)'
  BY DEF PutBack
<1>2. OneActive'
  <2> SUFFICES ASSUME NEW q \in Rid, NEW r \in Rid, runs'[q].status \in Active,
                      runs'[r].status \in Active, runs'[q].tid = runs'[r].tid,
                      \A p \in Rid : <<p, runs'[q].tid>> \notin back'
               PROVE  q = r
    BY DEF OneActive, PutBack
  <2>1. /\ runs[q].tid = runs'[q].tid /\ runs[q].status \in Active
        /\ runs[r].tid = runs'[q].tid /\ runs[r].status \in Active
    BY <1>1 DEF NoneActivated
  <2> QED
    BY <2>1, BackGrows DEF BusyInv, OneActive, PutBack
<1>3. ASSUME NEW t \in Tid, NEW q \in Lookup(t)', HasActive(runs', t), ~PutBack(t)'
      PROVE  thr'[q].status = "busy"
  <2>1. HasActive(runs, t)
    BY <1>1, <1>3, <1>b DEF HasActive, NoneActivated
  <2>2. \A s \in Lookup(t) : thr[s].status = "busy"
    BY <1>3, <1>a, <2>1 DEF BusyInv, ActiveIsBusy
  <2>3. Exists(t)
    BY <2>1 DEF HasActive, RunThreadInv, RunsHaveThread, Active
  <2>4. q \in Slot /\ thr'[q].tid = t
    BY <1>3 DEF Lookup, SlotsOf
  <2>5. CASE Kept(t)
    BY <2>2, <2>4, <2>5, <1>3, SameLookup DEF Kept, SameTids, SameSlots
  <2>6. ASSUME NEW s \in Lookup(t), StatusFits(t, s) PROVE thr'[s].status = "busy"
    <3>1. ASSUME NEW r \in Rid, runs[r].tid = t, runs[r].status \in Active,
                 runs'[r].status = "interrupted"
          PROVE  FALSE
      <4>1. PICK p \in Rid : runs'[p].tid = t /\ runs'[p].status \in Active
        BY <1>3 DEF HasActive
      <4>2. runs[p].tid = t /\ runs[p].status \in Active
        BY <1>1, <1>3, <1>b, <4>1 DEF NoneActivated
      <4>3. p = r
        BY <1>3, <1>a, <3>1, <4>2 DEF BusyInv, OneActive
      <4> QED
        BY <3>1, <4>1, <4>3 DEF Active
    <3> QED
      BY <1>3, <2>2, <2>6, <3>1 DEF StatusFits
  <2>7. CASE Updated(t)
    <3>1. PICK s \in Lookup(t) : StatusFits(t, s)
      BY <2>7 DEF Updated
    <3>2. q = s
      BY <1>3, <2>3, <2>7, <3>1, SameLookup, LookupFinds DEF Updated
    <3> QED
      BY <2>6, <3>1, <3>2
  <2>8. CASE RolledBack(t)
    <3>1. q \in Lookup(t) /\ StatusFits(t, q)
      BY <1>3, <2>4, <2>8, SameLookup DEF RolledBack, SameTids
    <3> QED
      BY <2>6, <3>1
  <2>9. ~Added(t) /\ ~Created(t)
    BY <2>3 DEF Added, Created, BusyInv, NoCreation
  <2>10. ~Removed(t)
    <3>1. t # NoTid
      BY ConstantsAssumption
    <3> QED
      BY <1>3, <3>1 DEF Removed, WithoutRuns, RunsOf, HasActive, NoRun
  <2>11. CASE Claims(t) \/ Prunes(t)
    <3>1. thr' = thr
      BY <2>11 DEF Claims, Prunes, SweepClaim, SweepPrune, store
    <3> QED
      BY <2>5, <3>1 DEF Kept, SameTids, SameSlots
  <2> QED
    BY <2>5, <2>7, <2>8, <2>9, <2>10, <2>11, ThreadSteps DEF ThreadStep, Untouched, Reset, GivesUp
<1> QED
  BY <1>2, <1>3 DEF ActiveIsBusy

\* With prevent_insert_if_inflight on every Runs.put and no
\* if_not_exists="create", a thread with a pending or running run is "busy"
\* until a cancelled run is put back to pending on it: no other cancel, retry,
\* rollback, state update, deletion or sweep between the steps of
\* set_joint_status leaves it marked as free.  The invariant is that a thread
\* has one active run, or a run was put back on it.
THEOREM ActiveThreadsBusy ==
  FALSE \notin Prevent /\ "create" \notin IfNotExists => (Spec => []ActiveIsBusy)
<1> SUFFICES ASSUME FALSE \notin Prevent, "create" \notin IfNotExists PROVE Spec => []ActiveIsBusy
  OBVIOUS
<1>1. Init => BusyInv
  BY DEF Init, BusyInv, NoCreation, OneActive, ActiveIsBusy, HasActive, Idle, NoRun, Active
<1>2. TypeOK /\ RunThreadInv /\ WorkersInv /\ HoldInv /\ BusyInv /\ [Next]_vars => BusyInv'
  BY CreationStep, CreateSteps, PutBusy, OtherBusy DEF BusyInv
<1>3. BusyInv => ActiveIsBusy
  BY DEF BusyInv
<1> QED
  BY <1>1, <1>2, <1>3, HoldInvariant, TypeCorrect, RunThreadInvariant, WorkersInvariant, PTL DEF Spec
=============================================================================
