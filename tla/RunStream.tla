----------------------------- MODULE RunStream -----------------------------
(***************************************************************************)
(* The streams of the runs of one thread: StreamManager (inmem_stream.py), *)
(* Runs.enter, listen_for_cancellation, Runs.Stream.subscribe and join     *)
(* (ops.py), with cancellations, deletions and the shutdown around them.   *)
(*                                                                         *)
(* A frame is numbered by its place in the run's stream: StreamId shows    *)
(* that the generated ids have that order.  StreamManager.put stores a     *)
(* message at once and hands it to the queues it found in tasks that run   *)
(* later (gather); those are the messages in flight.                       *)
(***************************************************************************)
EXTENDS Naturals, Sequences

CONSTANTS
  Run,             (* runs of the thread                                    *)
  Sub,             (* subscribers: one subscribe and join each              *)
  MaxFrame,        (* bound: frames a run publishes                         *)
  MaxAttempt,      (* bound: attempts of a run                              *)
  Resumable,       (* runs are created with stream_resumable                *)
  CancelAction,    (* the actions of the cancels that are made              *)
  ListenTimeouts,  (* a run may last longer than the listener waits (240 s) *)
  MayStop          (* stop_stream may happen                                *)

ASSUME StreamAssumption ==
  /\ MaxFrame \in Nat /\ MaxAttempt \in Nat /\ CancelAction \subseteq {"interrupt", "rollback"}
  /\ Resumable \in BOOLEAN /\ ListenTimeouts \in BOOLEAN /\ MayStop \in BOOLEAN

VARIABLES
  stopped,   (* _stopped                                                    *)
  active,    (* _active_runs                                                *)
  pdel,      (* _pending_run_deletes                                        *)
  key,       (* control_keys                                                *)
  stored,    (* message_stores                                              *)
  ctl,       (* the control queue a context made, and if it is listed       *)
  sub,       (* subscribers, their queues, and if those are listed          *)
  flight,    (* puts handed to tasks by gather, in order                    *)
  cput,      (* Runs.cancel under way: the puts and deletes of its gather   *)
  st,        (* the status of a run in the store                            *)
  ctx,       (* where the worker of a run is in Runs.enter                  *)
  lis,       (* listen_for_cancellation of that context                     *)
  done,      (* its "done" event: the value set                             *)
  npub,      (* frames published so far                                     *)
  attempts

vars == <<stopped, active, pdel, key, stored, ctl, sub, flight, cput, st, ctx, lis, done,
          npub, attempts>>

manager == <<stopped, active, pdel>>
worker == <<ctx, lis, done>>
counters == <<npub, attempts>>

----------------------------------------------------------------------------
\* Messages.  "done" carries the number of frames published before it, or 0
\* when the manager makes it up for a deleted run.
Cancels == {"interrupt", "rollback"}
Frame(n) == [kind |-> "frame", n |-> n]
Done(n) == [kind |-> "done", n |-> n]
Close == [kind |-> "close", n |-> 0]
Control(a) == [kind |-> a, n |-> 0]
Message == [kind : {"frame", "done", "close"} \cup Cancels, n : 0..MaxFrame]
ControlMessage == [kind : {"done"} \cup Cancels, n : 0..MaxFrame]

\* A subscriber; cursor is its last_event_id, NoCursor when it has none.
NoCursor == MaxFrame + 1
Subscriber == [pc : {"off", "sub", "live", "over"}, run : Run \cup {"none"}, listed : BOOLEAN,
               q : Seq(Message), cursor : 0..NoCursor, got : SUBSET (0..MaxFrame),
               end : {"no", "done", "cut"}, upto : 0..MaxFrame]
NoSub == [pc |-> "off", run |-> "none", listed |-> FALSE, q |-> <<>>, cursor |-> NoCursor,
          got |-> {}, end |-> "no", upto |-> 0]

\* A control queue; drained is history: a subscriber took a cancel out of it.
Queue == [listed : BOOLEAN, q : Seq(ControlMessage), drained : BOOLEAN]
NoCtl == [listed |-> FALSE, q |-> <<>>, drained |-> FALSE]

\* A put under way: to the subscribers it found, or to the control queue.
Put == [run : Run, m : Message, to : SUBSET Sub, ctl : {FALSE}]
         \cup [run : Run, m : ControlMessage, to : {{}}, ctl : {TRUE}]

Listed(r) == {s \in Sub : sub[s].run = r /\ sub[s].listed}

----------------------------------------------------------------------------
(* StreamManager.put.                                                      *)

\* A stopped manager drops messages, and so does a run that was deleted
\* while its context is active.
MutDropped(r) == stopped
Dropped(r) == stopped \/ r \in pdel

PutStream(r, m) ==
  /\ stored' = IF Dropped(r) \/ ~Resumable THEN stored
               ELSE [stored EXCEPT ![r] = Append(@, m)]
  /\ flight' = IF Dropped(r) \/ Listed(r) = {} THEN flight
               ELSE Append(flight, [run |-> r, m |-> m, to |-> Listed(r), ctl |-> FALSE])

PutControl(r, m) ==
  /\ key' = IF Dropped(r) THEN key ELSE [key EXCEPT ![r] = m.kind]
  /\ flight' = IF Dropped(r) \/ ~ctl[r].listed THEN flight
               ELSE Append(flight, [run |-> r, m |-> m, to |-> {}, ctl |-> TRUE])

\* A queue that is listed may be drained by a subscriber; after that only its
\* listener reads it.
Read(r) == ctl[r].listed \/ lis[r] # "over"

\* The queue.put tasks of the oldest put run.  The queue of a subscriber that
\* has gone is not read any more, nor that of a listener that is over.
Deliver ==
  /\ flight # <<>>
  /\ LET f == Head(flight) IN
       /\ sub' = [s \in Sub |-> IF s \in f.to /\ sub[s].pc # "over"
                             THEN [sub[s] EXCEPT !.q = Append(@, f.m)] ELSE sub[s]]
       /\ ctl' = IF f.ctl /\ Read(f.run) THEN [ctl EXCEPT ![f.run].q = Append(@, f.m)] ELSE ctl
  /\ flight' = Tail(flight)
  /\ UNCHANGED <<manager, key, stored, cput, st, worker, counters>>

\* The worker awaits its own puts.
Awaits(r) == \E i \in 1..Len(flight) : flight[i].run = r /\ flight[i].m.kind \notin Cancels

----------------------------------------------------------------------------
(* Runs.enter and the worker in it.                                        *)

\* Runs.next; the worker task it starts enters the run later.  The queue is
\* cancelled before the stream manager stops (lifespan).
Claim(r) ==
  /\ st[r] = "pending" /\ ctx[r] = "off" /\ ~stopped
  /\ st' = [st EXCEPT ![r] = "running"]
  /\ ctx' = [ctx EXCEPT ![r] = "claimed"]
  /\ attempts' = [attempts EXCEPT ![r] = @ + 1]
  /\ UNCHANGED <<manager, key, stored, ctl, sub, flight, cput, lis, done, npub>>

\* mark_run_active, add_control_queue and the listener task.
Enter(r) ==
  /\ ctx[r] = "claimed"
  /\ ctx' = [ctx EXCEPT ![r] = "in"]
  /\ active' = IF Dropped(r) THEN active ELSE active \cup {r}
  /\ ctl' = [ctl EXCEPT ![r] = [NoCtl EXCEPT !.listed = ~Dropped(r),
                                             !.q = IF Dropped(r) THEN <<Done(0)>> ELSE <<>>]]
  /\ lis' = [lis EXCEPT ![r] = "start"]
  /\ done' = [done EXCEPT ![r] = "unset"]
  /\ UNCHANGED <<stopped, pdel, key, stored, sub, flight, cput, st, counters>>

\* The listener looks at the stored control message first.
MutKeySignal(r) == "unset"
MutAnyKey(r) == key[r]
KeySignal(r) == IF key[r] \in Cancels THEN key[r] ELSE "unset"

ListenStart(r) ==
  /\ lis[r] = "start"
  /\ done' = [done EXCEPT ![r] = KeySignal(r)]
  /\ lis' = [lis EXCEPT ![r] = IF KeySignal(r) = "unset" THEN "listen" ELSE "over"]
  /\ UNCHANGED <<manager, key, stored, ctl, sub, flight, cput, st, ctx, counters>>

ListenGet(r) ==
  /\ lis[r] = "listen" /\ ctl[r].q # <<>>
  /\ done' = [done EXCEPT ![r] = Head(ctl[r].q).kind]
  /\ ctl' = [ctl EXCEPT ![r].q = IF ctl[r].listed THEN Tail(@) ELSE <<>>]
  /\ lis' = [lis EXCEPT ![r] = "over"]
  /\ UNCHANGED <<manager, key, stored, sub, flight, cput, st, ctx, counters>>

\* except TimeoutError: break
ListenTimeout(r) ==
  /\ ListenTimeouts
  /\ lis[r] = "listen" /\ ctl[r].q = <<>>
  /\ lis' = [lis EXCEPT ![r] = "over"]
  /\ UNCHANGED <<manager, key, stored, ctl, sub, flight, cput, st, ctx, done, counters>>

\* Runs.Stream.publish by the worker.
Publish(r) ==
  /\ ctx[r] = "in" /\ ~Awaits(r)
  /\ npub[r] < MaxFrame
  /\ npub' = [npub EXCEPT ![r] = @ + 1]
  /\ PutStream(r, Frame(npub[r] + 1))
  /\ UNCHANGED <<manager, key, ctl, sub, cput, st, worker, attempts>>

\* The inner finally: "done" for late subscribers, then for the stream.
ExitControl(r) ==
  /\ ctx[r] = "in" /\ ~Awaits(r)
  /\ PutControl(r, Done(npub[r]))
  /\ ctx' = [ctx EXCEPT ![r] = "control"]
  /\ UNCHANGED <<manager, stored, ctl, sub, cput, st, lis, done, counters>>

ExitStream(r) ==
  /\ ctx[r] = "control" /\ ~Awaits(r)
  /\ PutStream(r, Done(npub[r]))
  /\ ctx' = [ctx EXCEPT ![r] = "stream"]
  /\ UNCHANGED <<manager, key, ctl, sub, cput, st, lis, done, counters>>

\* The status of a run that its worker has still to report on.
Unsettled == {"running", "cancelled"}

\* The listener is cancelled, the control queue removed, the run inactive.
ExitLeave(r) ==
  /\ ctx[r] = "stream" /\ ~Awaits(r)
  /\ ctx' = [ctx EXCEPT ![r] = IF st[r] \in Unsettled THEN "left" ELSE "off"]
  /\ done' = IF st[r] \in Unsettled THEN done ELSE [done EXCEPT ![r] = "unset"]
  /\ lis' = [lis EXCEPT ![r] = "off"]
  /\ ctl' = [ctl EXCEPT ![r] = NoCtl]
  /\ flight' = [i \in 1..Len(flight) |->
                  IF flight[i].run = r THEN [flight[i] EXCEPT !.ctl = FALSE] ELSE flight[i]]
  /\ active' = active \ {r}
  /\ pdel' = pdel \ {r}
  /\ key' = IF r \in pdel THEN [key EXCEPT ![r] = "none"] ELSE key
  /\ stored' = IF r \in pdel THEN [stored EXCEPT ![r] = <<>>] ELSE stored
  /\ sub' = IF r \in pdel THEN [s \in Sub |-> IF s \in Listed(r)
                                  THEN [sub[s] EXCEPT !.listed = FALSE] ELSE sub[s]] ELSE sub
  /\ UNCHANGED <<stopped, cput, st, counters>>

\* set_joint_status by the worker, in the context or after it; a retry
\* after it, by a worker that did not hear a cancel.  It does not look at the
\* status that a cancel may have left.
Settle(r) ==
  /\ st[r] \in Unsettled /\ ctx[r] \in {"in", "left"}
  /\ \/ st' = [st EXCEPT ![r] = "ended"]
     \/ /\ ctx[r] = "left" /\ done[r] \notin Cancels /\ attempts[r] < MaxAttempt
        /\ st' = [st EXCEPT ![r] = "pending"]
  /\ ctx' = IF ctx[r] = "left" THEN [ctx EXCEPT ![r] = "off"] ELSE ctx
  /\ done' = IF ctx[r] = "left" THEN [done EXCEPT ![r] = "unset"] ELSE done
  /\ UNCHANGED <<manager, key, stored, ctl, sub, flight, cput, lis, counters>>

\* 404: the run was deleted.
SettleLost(r) ==
  /\ ctx[r] = "left" /\ st[r] \notin Unsettled
  /\ ctx' = [ctx EXCEPT ![r] = "off"]
  /\ done' = [done EXCEPT ![r] = "unset"]
  /\ UNCHANGED <<manager, key, stored, ctl, sub, flight, cput, st, lis, counters>>

----------------------------------------------------------------------------
(* Runs.cancel, deletions and the shutdown.                                *)

\* The status changes at once; the control put is a task of gather.
Cancel(r, a) ==
  /\ st[r] \in {"pending", "running"} /\ cput[r] = "none"
  /\ Listed(r) # {} \/ a # "rollback"
  /\ st' = [st EXCEPT ![r] = "cancelled"]
  /\ cput' = [cput EXCEPT ![r] = a]
  /\ UNCHANGED <<manager, key, stored, ctl, sub, flight, worker, counters>>

\* A rollback of a run without subscribers: gather(put, Runs.delete), after
\* a logging await.
CancelEager(r) ==
  /\ st[r] \in {"pending", "running"} /\ cput[r] = "none"
  /\ Listed(r) = {} /\ "rollback" \in CancelAction
  /\ cput' = [cput EXCEPT ![r] = "eager"]
  /\ UNCHANGED <<manager, key, stored, ctl, sub, flight, st, worker, counters>>

CancelPut(r) ==
  /\ cput[r] \in Cancels \cup {"eager"}
  /\ PutControl(r, Control(IF cput[r] = "eager" THEN "rollback" ELSE cput[r]))
  /\ cput' = [cput EXCEPT ![r] = IF @ = "eager" THEN "delete" ELSE "none"]
  /\ UNCHANGED <<manager, stored, ctl, sub, st, worker, counters>>

\* _signal_run and _clear_run_state for the runs rs, whose queues get "done".
SignalAndClear(rs) ==
  /\ sub' = [s \in Sub |-> IF sub[s].listed /\ sub[s].run \in rs
                             THEN [sub[s] EXCEPT !.q = Append(@, Done(0)), !.listed = FALSE]
                             ELSE sub[s]]
  /\ ctl' = [r \in Run |-> IF r \in rs /\ ctl[r].listed
                             THEN [ctl[r] EXCEPT !.listed = FALSE,
                                                  !.q = IF lis[r] = "over" THEN <<>> ELSE Append(@, Done(0))]
                             ELSE ctl[r]]
  /\ key' = [r \in Run |-> IF r \in rs THEN "none" ELSE key[r]]
  /\ stored' = [r \in Run |-> IF r \in rs THEN <<>> ELSE stored[r]]

Remove(rs) ==
  /\ \E r \in rs : st[r] # "absent"
  /\ st' = [r \in Run |-> IF r \in rs THEN "absent" ELSE st[r]]
  /\ SignalAndClear(rs)
  /\ pdel' = pdel \cup (rs \cap active)
  /\ UNCHANGED <<stopped, active, flight, worker, counters>>

\* Runs.delete (delete_run) of one run, Threads.delete (delete_thread) of all.
Delete(rs) == Remove(rs) /\ UNCHANGED cput

\* The Runs.delete of an eager cancel; 404 when the run is gone.
CancelDelete(r) ==
  /\ cput[r] = "delete"
  /\ cput' = [cput EXCEPT ![r] = "none"]
  /\ \/ Remove({r})
     \/ st[r] = "absent" /\ UNCHANGED <<manager, key, stored, ctl, sub, flight, st, worker, counters>>

\* stop_stream: StreamManager.close.
Stop ==
  /\ MayStop /\ ~stopped
  /\ stopped' = TRUE
  /\ SignalAndClear(Run)
  /\ active' = {} /\ pdel' = {}
  /\ UNCHANGED <<flight, cput, st, worker, counters>>

----------------------------------------------------------------------------
(* Subscribers.                                                            *)

\* subscribe takes the messages that wait in the control queue of the run
\* and puts them into the new queue.  A cursor is the id of a frame the client
\* has received, or 0 for the start.
Subscribe(s, r, c) ==
  /\ sub[s].pc = "off" /\ (c <= npub[r] \/ c = NoCursor)
  /\ sub' = [sub EXCEPT ![s] =
       [NoSub EXCEPT !.pc = "sub", !.run = r, !.cursor = c, !.listed = ~Dropped(r),
                     !.q = (IF Dropped(r) THEN <<Close>> ELSE <<>>)
                           \o (IF ctl[r].listed THEN ctl[r].q ELSE <<>>)]]
  /\ ctl' = IF ctl[r].listed
            THEN [ctl EXCEPT ![r].q = <<>>,
                             ![r].drained = @ \/ \E i \in 1..Len(ctl[r].q) : ctl[r].q[i].kind \in Cancels]
            ELSE ctl
  /\ UNCHANGED <<manager, key, stored, flight, cput, st, worker, counters>>

\* The end of join, at a "done" that counts n frames, or without one:
\* remove_queue.
Ended(u, n) == [u EXCEPT !.pc = "over", !.end = "done", !.upto = n, !.listed = FALSE, !.q = <<>>]
Left(u) == [NoSub EXCEPT !.pc = "over", !.run = u.run, !.end = "cut"]

\* Which stored messages restore_messages yields: those after the cursor.
MutAfter(m, c) == m.n > c + 1
After(m, c) == IF m.kind = "done" THEN m.n >= c ELSE m.n > c

Replayed(r, c) ==
  IF c = NoCursor THEN {} ELSE {i \in 1..Len(stored[r]) : After(stored[r][i], c)}

\* join: the replay, which ends the stream at a stored "done".  It is taken at
\* once: what is published while it is sent is in the queue as well.
JoinStart(s) ==
  /\ sub[s].pc = "sub"
  /\ LET ms == stored[sub[s].run]
         all == Replayed(sub[s].run, sub[s].cursor)
         ends == {i \in all : ms[i].kind = "done"}
         seen == {ms[i].n : i \in {j \in all : \A d \in ends : j < d}}
     IN \/ /\ ends = {}
           /\ sub' = [sub EXCEPT ![s].pc = "live", ![s].got = seen]
        \/ \E d \in ends :
             /\ \A e \in ends : d <= e
             /\ sub' = [sub EXCEPT ![s] = [Ended(@, ms[d].n) EXCEPT !.got = seen]]
  /\ UNCHANGED <<manager, key, stored, ctl, flight, cput, st, worker, counters>>

\* A message from the queue; control messages other than "done" are skipped.
JoinGet(s) ==
  /\ sub[s].pc = "live" /\ sub[s].q # <<>>
  /\ LET m == Head(sub[s].q) IN
       \/ m.kind = "done" /\ sub' = [sub EXCEPT ![s] = Ended(@, m.n)]
       \/ m.kind = "close" /\ sub' = [sub EXCEPT ![s] = Left(@)]
       \/ /\ m.kind \notin {"done", "close"}
          /\ sub' = [sub EXCEPT ![s].q = Tail(@),
                                ![s].got = IF m.kind = "frame" THEN @ \cup {m.n} ELSE @]
  /\ UNCHANGED <<manager, key, stored, ctl, flight, cput, st, worker, counters>>

\* What the poll after 0.5 s without a message finds.
MutOver(r) == st[r] = "absent"
Over(r) == st[r] \notin {"pending", "running"}

JoinTimeout(s) ==
  /\ sub[s].pc = "live" /\ sub[s].q = <<>>
  /\ Over(sub[s].run)
  /\ sub' = [sub EXCEPT ![s] = Left(@)]
  /\ UNCHANGED <<manager, key, stored, ctl, flight, cput, st, worker, counters>>

\* The client goes away: finally: remove_queue.
Disconnect(s) ==
  /\ sub[s].pc = "live"
  /\ sub' = [sub EXCEPT ![s] = Left(@)]
  /\ UNCHANGED <<manager, key, stored, ctl, flight, cput, st, worker, counters>>

----------------------------------------------------------------------------
Init ==
  /\ stopped = FALSE /\ active = {} /\ pdel = {}
  /\ key = [r \in Run |-> "none"]
  /\ stored = [r \in Run |-> <<>>]
  /\ ctl = [r \in Run |-> NoCtl]
  /\ sub = [s \in Sub |-> NoSub]
  /\ flight = <<>>
  /\ cput = [r \in Run |-> "none"]
  /\ st = [r \in Run |-> "pending"]
  /\ ctx = [r \in Run |-> "off"] /\ lis = [r \in Run |-> "off"]
  /\ done = [r \in Run |-> "unset"]
  /\ npub = [r \in Run |-> 0] /\ attempts = [r \in Run |-> 0]

Listen(r) == ListenStart(r) \/ ListenGet(r) \/ ListenTimeout(r)

Work(r) ==
  \/ Claim(r) \/ Enter(r) \/ Publish(r)
  \/ ExitControl(r) \/ ExitStream(r) \/ ExitLeave(r)
  \/ Settle(r) \/ SettleLost(r)

Join(s) == JoinStart(s) \/ JoinGet(s) \/ JoinTimeout(s)

Next ==
  \/ Deliver
  \/ \E r \in Run : Listen(r) \/ Work(r) \/ Delete({r})
  \/ \E r \in Run : CancelEager(r) \/ CancelPut(r) \/ CancelDelete(r)
  \/ \E r \in Run, a \in CancelAction : Cancel(r, a)
  \/ Delete(Run)
  \/ Stop
  \/ \E s \in Sub, r \in Run, c \in 0..NoCursor : Subscribe(s, r, c)
  \/ \E s \in Sub : Join(s) \/ Disconnect(s)

Spec == Init /\ [][Next]_vars

\* Tasks that are ready run: deliveries, cancels under way, listeners and
\* subscribers.  How long a worker takes is left open.
FairSpec ==
  /\ Spec
  /\ WF_vars(Deliver)
  /\ \A r \in Run : WF_vars(CancelPut(r)) /\ WF_vars(CancelDelete(r))
  /\ \A r \in Run : WF_vars(ListenStart(r)) /\ WF_vars(ListenGet(r))
  /\ \A s \in Sub : WF_vars(Join(s))

----------------------------------------------------------------------------
\* Types of the manager's maps, of the queues and of the tasks.
TypeOK ==
  /\ stopped \in BOOLEAN /\ active \subseteq Run /\ pdel \subseteq Run
  /\ key \in [Run -> {"none", "done"} \cup Cancels]
  /\ stored \in [Run -> Seq(Message)]
  /\ ctl \in [Run -> Queue]
  /\ sub \in [Sub -> Subscriber]
  /\ \A s \in Sub : sub[s].pc # "off" => sub[s].run \in Run
  /\ flight \in Seq(Put)
  /\ cput \in [Run -> {"none", "eager", "delete"} \cup Cancels]
  /\ st \in [Run -> {"pending", "running", "cancelled", "ended", "absent"}]
  /\ ctx \in [Run -> {"off", "claimed", "in", "control", "stream", "left"}]
  /\ lis \in [Run -> {"off", "start", "listen", "over"}]
  /\ done \in [Run -> {"unset", "done"} \cup Cancels]
  /\ npub \in [Run -> 0..MaxFrame] /\ attempts \in [Run -> Nat]

\* A run that was deleted while its context is active stays without stream
\* state until the context ends, whatever the worker, a cancel or a new
\* subscriber publishes or adds; and the mark does not outlive the context.
DeletedStaysClean ==
  \A r \in pdel : /\ r \in active
                  /\ key[r] = "none" /\ stored[r] = <<>> /\ ~ctl[r].listed /\ Listed(r) = {}

\* A subscriber that resumes a resumable run and meets its "done" has
\* received every frame after its cursor that the run published before it,
\* from the replay or from its queue, unless the run was deleted.
ResumeComplete ==
  \A s \in Sub :
    /\ Resumable /\ sub[s].end = "done" /\ sub[s].cursor # NoCursor
    /\ ~stopped /\ st[sub[s].run] # "absent"
    => (sub[s].cursor + 1)..(sub[s].upto) \subseteq sub[s].got

\* The stream of a run that is over ends for every subscriber, also for one
\* that came after "done" or whose queue a deletion dropped, unless the run is
\* put back to pending first.
JoinsEnd ==
  \A s \in Sub, r \in Run :
    sub[s].pc = "live" /\ sub[s].run = r /\ st[r] \notin {"pending", "running"}
    ~> sub[s].pc = "over" \/ st[r] \in {"pending", "running"}

\* The two ways to miss a cancellation: a subscriber took it out of the control
\* queue, or the listener gave up after 240 s.
Missed(r) == ctl[r].drained \/ (lis[r] = "over" /\ done[r] = "unset")

\* A worker hears every cancellation of its run that was neither taken out of
\* its control queue by a subscriber nor sent after the listener gave up: its
\* done event is set, or it leaves the run.
CancelHeard ==
  \A r \in Run :
    key[r] \in Cancels /\ ctx[r] = "in" ~> done[r] # "unset" \/ ctx[r] # "in" \/ Missed(r)

\* "If 'running', the worker will pick up the message" (Runs.cancel): also one
\* that does not end by itself.
WorkerPicksUp ==
  \A r \in Run : key[r] \in Cancels /\ ctx[r] = "in" ~> done[r] # "unset" \/ ctx[r] # "in"

============================================================================
