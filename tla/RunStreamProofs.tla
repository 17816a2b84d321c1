-------------------------- MODULE RunStreamProofs --------------------------
(***************************************************************************)
(* Proofs about RunStream: its types, that a run deleted while its context *)
(* is active stays without stream state, and that a subscriber that        *)
(* resumes misses no frame.                                                *)
(***************************************************************************)
EXTENDS RunStream, SequenceTheorems, TLAPS

\* The queue part of TypeOK, which the actions of the manager rebuild.
QueuesOK ==
  /\ stored \in [Run -> Seq(Message)]
  /\ ctl \in [Run -> Queue]
  /\ sub \in [Sub -> Subscriber]
  /\ \A s \in Sub : sub[s].pc # "off" => sub[s].run \in Run
  /\ flight \in Seq(Put)

\* The other part: sets, status values and counters.
TasksOK ==
  /\ stopped \in BOOLEAN /\ active \subseteq Run /\ pdel \subseteq Run
  /\ key \in [Run -> {"none", "done"} \cup Cancels]
  /\ cput \in [Run -> {"none", "eager", "delete"} \cup Cancels]
  /\ st \in [Run -> {"pending", "running", "cancelled", "ended", "absent"}]
  /\ ctx \in [Run -> {"off", "claimed", "in", "control", "stream", "left"}]
  /\ lis \in [Run -> {"off", "start", "listen", "over"}]
  /\ done \in [Run -> {"unset", "done"} \cup Cancels]
  /\ npub \in [Run -> 0..MaxFrame] /\ attempts \in [Run -> Nat]

\* TypeOK is the conjunction of its two parts.
LEMMA TypeParts == TypeOK <=> QueuesOK /\ TasksOK
  BY DEF TypeOK, QueuesOK, TasksOK

\* The messages the code makes are messages.
LEMMA Messages ==
  /\ \A n \in 0..MaxFrame : Frame(n) \in Message /\ Done(n) \in ControlMessage
  /\ Close \in Message /\ Done(0) \in ControlMessage
  /\ \A a \in Cancels : Control(a) \in ControlMessage
  /\ ControlMessage \subseteq Message
  /\ 0 \in 0..MaxFrame /\ NoCursor \in 0..NoCursor
  BY StreamAssumption DEF Frame, Done, Close, Control, Message, ControlMessage, Cancels, NoCursor

\* A sequence of control messages is a sequence of messages.
LEMMA ControlSeq == Seq(ControlMessage) \subseteq Seq(Message)
  BY Messages, SeqMonotonic

\* The cancels that are made are those of the messages.
LEMMA CancelActions == CancelAction \subseteq Cancels
  BY StreamAssumption DEF Cancels

\* The initial record of a subscriber is one.
LEMMA NoSubType == NoSub \in Subscriber
  BY Messages DEF NoSub, Subscriber

\* Appending to a sequence keeps its type.
LEMMA AppendType ==
  ASSUME NEW S, NEW q \in Seq(S), NEW e \in S
  PROVE  Append(q, e) \in Seq(S)
  BY AppendProperties

\* StreamManager.put on a stream keeps the types.
LEMMA PutStreamType ==
  ASSUME QueuesOK, NEW r \in Run, NEW m \in Message, PutStream(r, m)
  PROVE  stored' \in [Run -> Seq(Message)] /\ flight' \in Seq(Put)
<1>1. stored' \in [Run -> Seq(Message)]
  <2>1. Append(stored[r], m) \in Seq(Message)
    BY AppendType DEF QueuesOK
  <2> QED BY <2>1 DEF QueuesOK, PutStream
<1>2. flight' \in Seq(Put)
  <2>1. [run |-> r, m |-> m, to |-> Listed(r), ctl |-> FALSE] \in Put
    BY DEF Put, Listed
  <2>2. Append(flight, [run |-> r, m |-> m, to |-> Listed(r), ctl |-> FALSE]) \in Seq(Put)
    BY <2>1, AppendType DEF QueuesOK
  <2> QED BY <2>2 DEF QueuesOK, PutStream
<1> QED BY <1>1, <1>2

\* StreamManager.put of a control message keeps the types.
LEMMA PutControlType ==
  ASSUME TypeOK, NEW r \in Run, NEW m \in ControlMessage, PutControl(r, m)
  PROVE  key' \in [Run -> {"none", "done"} \cup Cancels] /\ flight' \in Seq(Put)
<1>1. key' \in [Run -> {"none", "done"} \cup Cancels]
  BY DEF TypeOK, PutControl, ControlMessage
<1>2. flight' \in Seq(Put)
  <2>1. [run |-> r, m |-> m, to |-> {}, ctl |-> TRUE] \in Put
    BY DEF Put
  <2>2. Append(flight, [run |-> r, m |-> m, to |-> {}, ctl |-> TRUE]) \in Seq(Put)
    BY <2>1, AppendType DEF TypeOK
  <2> QED BY <2>2 DEF TypeOK, PutControl
<1> QED BY <1>1, <1>2

\* _signal_run and _clear_run_state keep the types.
LEMMA SignalType ==
  ASSUME QueuesOK, NEW rs \in SUBSET Run, SignalAndClear(rs)
  PROVE  /\ stored' \in [Run -> Seq(Message)] /\ ctl' \in [Run -> Queue]
         /\ sub' \in [Sub -> Subscriber]
         /\ \A s \in Sub : sub'[s].pc # "off" => sub'[s].run \in Run
<1>1. stored' \in [Run -> Seq(Message)]
  BY EmptySeq DEF QueuesOK, SignalAndClear
<1>2. ctl' \in [Run -> Queue]
  <2>1. ASSUME NEW r \in Run PROVE Append(ctl[r].q, Done(0)) \in Seq(ControlMessage)
    BY AppendType, Messages DEF QueuesOK, Queue
  <2> QED BY <2>1, EmptySeq DEF QueuesOK, SignalAndClear, Queue
<1>3. ASSUME NEW s \in Sub
      PROVE  sub'[s] \in Subscriber /\ (sub'[s].pc # "off" => sub'[s].run \in Run)
  <2>1. Append(sub[s].q, Done(0)) \in Seq(Message)
    BY AppendType, Messages DEF QueuesOK, Subscriber
  <2> QED BY <2>1 DEF QueuesOK, SignalAndClear, Subscriber
<1>4. sub' \in [Sub -> Subscriber]
  BY <1>3 DEF SignalAndClear
<1> QED BY <1>1, <1>2, <1>3, <1>4

----------------------------------------------------------------------------
\* The initial state is well typed.
LEMMA TypeInit == Init => TypeOK
<1> SUFFICES ASSUME Init PROVE TypeOK
  OBVIOUS
<1>1. QueuesOK
  <2>1. NoCtl \in Queue
    BY EmptySeq DEF NoCtl, Queue
  <2>2. \A s \in Sub : sub[s].pc = "off"
    BY DEF Init, NoSub
  <2>3. flight \in Seq(Put)
    BY EmptySeq DEF Init
  <2> QED BY <2>1, <2>2, <2>3, EmptySeq, NoSubType DEF Init, QueuesOK
<1>2. TasksOK
  <2>1. stopped \in BOOLEAN /\ active \subseteq Run /\ pdel \subseteq Run
    BY DEF Init
  <2>2. npub \in [Run -> 0..MaxFrame] /\ attempts \in [Run -> Nat]
    BY Messages DEF Init
  <2> QED BY <2>1, <2>2 DEF Init, TasksOK
<1> QED BY <1>1, <1>2, TypeParts

\* Runs.enter, the worker and its listener keep the types.
LEMMA WorkType ==
  ASSUME TypeOK, NEW r \in Run, Work(r) \/ Listen(r)
  PROVE  TypeOK'
<1> USE DEF manager, worker, counters
<1>0. QueuesOK /\ TasksOK
  BY TypeParts
<1>1. CASE Claim(r)
  BY <1>1 DEF TypeOK, Claim
<1>2. CASE Enter(r)
  <2>1. [NoCtl EXCEPT !.listed = ~Dropped(r), !.q = IF Dropped(r) THEN <<Done(0)>> ELSE <<>>]
          \in Queue
    <3>1. ASSUME NEW q \in Seq(ControlMessage)
          PROVE  [NoCtl EXCEPT !.listed = ~Dropped(r), !.q = q] \in Queue
      BY <3>1 DEF Queue, NoCtl, Dropped
    <3>2. (IF Dropped(r) THEN <<Done(0)>> ELSE <<>>) \in Seq(ControlMessage)
      BY Messages, EmptySeq
    <3> QED BY <3>1, <3>2
  <2> QED BY <1>2, <2>1 DEF TypeOK, Enter
<1>3. CASE Publish(r)
  <2>1. npub[r] + 1 \in 0..MaxFrame
    BY <1>3, StreamAssumption DEF TypeOK, Publish
  <2>2. stored' \in [Run -> Seq(Message)] /\ flight' \in Seq(Put)
    BY <1>0, <1>3, <2>1, Messages, PutStreamType DEF Publish
  <2>3. npub' \in [Run -> 0..MaxFrame]
    BY <1>3, <2>1 DEF TypeOK, Publish
  <2> QED BY <1>3, <2>2, <2>3 DEF TypeOK, Publish
<1>4. CASE ExitControl(r)
  <2>1. npub[r] \in 0..MaxFrame
    BY DEF TypeOK
  <2>2. key' \in [Run -> {"none", "done"} \cup Cancels] /\ flight' \in Seq(Put)
    BY <1>4, <2>1, Messages, PutControlType DEF ExitControl
  <2> QED BY <1>4, <2>2 DEF TypeOK, ExitControl
<1>5. CASE ExitStream(r)
  <2>1. Done(npub[r]) \in Message
    BY Messages DEF TypeOK
  <2>2. stored' \in [Run -> Seq(Message)] /\ flight' \in Seq(Put)
    BY <1>0, <1>5, <2>1, PutStreamType DEF ExitStream
  <2> QED BY <1>5, <2>2 DEF TypeOK, ExitStream
<1>6. CASE ExitLeave(r)
  <2>1. stored' \in [Run -> Seq(Message)]
    BY <1>6, EmptySeq DEF TypeOK, ExitLeave
  <2>2. ctl' \in [Run -> Queue]
    BY <1>6, EmptySeq DEF TypeOK, ExitLeave, NoCtl, Queue
  <2>3. ASSUME NEW s \in Sub
        PROVE  sub'[s] \in Subscriber /\ (sub'[s].pc # "off" => sub'[s].run \in Run)
    <3>1. sub[s] \in Subscriber /\ (sub[s].pc # "off" => sub[s].run \in Run)
      BY DEF TypeOK
    <3>2. sub'[s] \in {sub[s], [sub[s] EXCEPT !.listed = FALSE]}
      BY <1>6 DEF ExitLeave
    <3>3. CASE sub'[s] = sub[s]
      BY <3>1, <3>3
    <3>4. CASE sub'[s] = [sub[s] EXCEPT !.listed = FALSE]
      BY <3>1, <3>4 DEF Subscriber
    <3> QED BY <3>2, <3>3, <3>4
  <2>4. sub' \in [Sub -> Subscriber]
    BY <1>6, <2>3 DEF TypeOK, ExitLeave
  <2>5. flight' \in Seq(Put)
    <3>1. ASSUME NEW i \in 1..Len(flight)
          PROVE  (IF flight[i].run = r THEN [flight[i] EXCEPT !.ctl = FALSE] ELSE flight[i]) \in Put
      <4>1. flight[i] \in Put
        BY ElementOfSeq DEF TypeOK
      <4> QED BY <4>1, Messages DEF Put
    <3>2. Len(flight) \in Nat
      BY LenProperties DEF TypeOK
    <3> QED BY <1>6, <3>1, <3>2, IsASeq DEF ExitLeave
  <2> QED BY <1>6, <2>1, <2>2, <2>3, <2>4, <2>5 DEF TypeOK, ExitLeave
<1>7. CASE Settle(r)
  BY <1>7 DEF TypeOK, Settle
<1>8. CASE SettleLost(r)
  BY <1>8 DEF TypeOK, SettleLost
<1>9. CASE ListenStart(r)
  BY <1>9 DEF TypeOK, ListenStart, KeySignal
<1>10. CASE ListenGet(r)
  <2>1. Head(ctl[r].q) \in ControlMessage /\ Tail(ctl[r].q) \in Seq(ControlMessage)
    BY <1>10, HeadTailProperties DEF TypeOK, ListenGet, Queue
  <2>2. done' \in [Run -> {"unset", "done"} \cup Cancels]
    BY <1>10, <2>1 DEF TypeOK, ListenGet, ControlMessage
  <2>3. ctl' \in [Run -> Queue]
    <3>1. \A q \in {Tail(ctl[r].q), <<>>} : [ctl[r] EXCEPT !.q = q] \in Queue
      BY <2>1, EmptySeq DEF TypeOK, Queue
    <3>2. ctl' = [ctl EXCEPT ![r] = [ctl[r] EXCEPT !.q = IF ctl[r].listed THEN Tail(ctl[r].q) ELSE <<>>]]
      BY <1>10 DEF ListenGet
    <3> QED BY <3>1, <3>2 DEF TypeOK
  <2> QED BY <1>10, <2>2, <2>3 DEF TypeOK, ListenGet
<1>11. CASE ListenTimeout(r)
  BY <1>11 DEF TypeOK, ListenTimeout
<1> QED BY <1>1, <1>2, <1>3, <1>4, <1>5, <1>6, <1>7, <1>8, <1>9, <1>10, <1>11 DEF Work, Listen

\* Cancellations and deletions keep the types.
LEMMA CancelType ==
  ASSUME TypeOK, NEW r \in Run,
         \/ \E a \in Cancels : Cancel(r, a)
         \/ CancelEager(r) \/ CancelPut(r) \/ CancelDelete(r)
  PROVE  TypeOK'
<1> USE DEF manager, worker, counters
<1>0. QueuesOK
  BY TypeParts
<1>1. CASE \E a \in Cancels : Cancel(r, a)
  BY <1>1 DEF TypeOK, Cancel
<1>2. CASE CancelEager(r)
  BY <1>2 DEF TypeOK, CancelEager
<1>3. CASE CancelPut(r)
  <2>1. (IF cput[r] = "eager" THEN "rollback" ELSE cput[r]) \in Cancels
    BY <1>3 DEF CancelPut, Cancels
  <2>2. key' \in [Run -> {"none", "done"} \cup Cancels] /\ flight' \in Seq(Put)
    BY <1>3, <2>1, Messages, PutControlType DEF CancelPut
  <2> QED BY <1>3, <2>2 DEF TypeOK, CancelPut
<1>4. CASE CancelDelete(r)
  <2>1. CASE Remove({r})
    <3>1. SignalAndClear({r})
      BY <2>1 DEF Remove
    <3>2. key' \in [Run -> {"none", "done"} \cup Cancels]
      BY <3>1 DEF TypeOK, SignalAndClear
    <3> QED BY <1>0, <1>4, <2>1, <3>1, <3>2, SignalType DEF TypeOK, CancelDelete, Remove
  <2>2. CASE ~Remove({r})
    BY <1>4, <2>2 DEF TypeOK, CancelDelete
  <2> QED BY <2>1, <2>2
<1> QED BY <1>1, <1>2, <1>3, <1>4

\* The manager keeps the types: deliveries, deletions, the shutdown.
LEMMA ManagerType ==
  ASSUME TypeOK, Deliver \/ Stop \/ \E rs \in SUBSET Run : Delete(rs)
  PROVE  TypeOK'
<1> USE DEF manager, worker, counters
<1>0. QueuesOK
  BY TypeParts
<1>1. CASE Deliver
  <2> DEFINE f == Head(flight)
  <2>1. f \in Put /\ Tail(flight) \in Seq(Put)
    BY <1>1, HeadTailProperties DEF TypeOK, Deliver
  <2>2. f.m \in Message /\ f.run \in Run /\ (f.ctl => f.m \in ControlMessage)
    BY <2>1, Messages DEF Put
  <2>3. ASSUME NEW s \in Sub
        PROVE  sub'[s] \in Subscriber /\ (sub'[s].pc # "off" => sub'[s].run \in Run)
    <3>1. sub[s] \in Subscriber /\ (sub[s].pc # "off" => sub[s].run \in Run)
      BY DEF TypeOK
    <3>2. Append(sub[s].q, f.m) \in Seq(Message)
      BY <2>2, <3>1, AppendType DEF Subscriber
    <3>3. sub'[s] \in {sub[s], [sub[s] EXCEPT !.q = Append(sub[s].q, f.m)]}
      BY <1>1 DEF Deliver
    <3>4. CASE sub'[s] = sub[s]
      BY <3>1, <3>4
    <3>5. CASE sub'[s] = [sub[s] EXCEPT !.q = Append(sub[s].q, f.m)]
      BY <3>1, <3>2, <3>5 DEF Subscriber
    <3> QED BY <3>3, <3>4, <3>5
  <2>4. sub' \in [Sub -> Subscriber]
    BY <1>1, <2>3 DEF Deliver
  <2>5. ctl' \in [Run -> Queue]
    <3>1. f.ctl => Append(ctl[f.run].q, f.m) \in Seq(ControlMessage)
      BY <2>2, AppendType DEF TypeOK, Queue
    <3> QED BY <1>1, <2>2, <3>1 DEF TypeOK, Deliver, Queue
  <2> QED BY <1>1, <2>1, <2>3, <2>4, <2>5 DEF TypeOK, Deliver
<1>2. CASE Stop
  <2>1. SignalAndClear(Run)
    BY <1>2 DEF Stop
  <2>2. key' \in [Run -> {"none", "done"} \cup Cancels]
    BY <2>1 DEF TypeOK, SignalAndClear
  <2> QED BY <1>0, <1>2, <2>1, <2>2, SignalType DEF TypeOK, Stop
<1>3. CASE \E rs \in SUBSET Run : Delete(rs)
  <2>1. PICK rs \in SUBSET Run : Delete(rs)
    BY <1>3
  <2>2. SignalAndClear(rs)
    BY <2>1 DEF Delete, Remove
  <2>3. key' \in [Run -> {"none", "done"} \cup Cancels]
    BY <2>2 DEF TypeOK, SignalAndClear
  <2> QED BY <1>0, <2>1, <2>2, <2>3, SignalType DEF TypeOK, Delete, Remove
<1> QED BY <1>1, <1>2, <1>3

\* A step of a subscriber that leaves its own record well typed.
LEMMA SubscriberType ==
  ASSUME TypeOK, NEW s \in Sub, NEW u \in Subscriber, u.pc # "off" => u.run \in Run,
         sub' = [sub EXCEPT ![s] = u],
         UNCHANGED <<manager, key, stored, flight, cput, st, worker, counters>>,
         ctl' \in [Run -> Queue]
  PROVE  TypeOK'
  BY DEF TypeOK, manager, worker, counters

\* The end of a subscription is well typed.
LEMMA EndedType ==
  ASSUME NEW u \in Subscriber, NEW n \in 0..MaxFrame
  PROVE  Ended(u, n) \in Subscriber /\ Ended(u, n).run = u.run
  BY EmptySeq DEF Ended, Subscriber

LEMMA LeftType ==
  ASSUME NEW u \in Subscriber
  PROVE  Left(u) \in Subscriber /\ Left(u).run = u.run
  BY NoSubType DEF Left, Subscriber

\* Subscribers keep the types.
LEMMA JoinType ==
  ASSUME TypeOK, NEW s \in Sub,
         \/ \E r \in Run, c \in 0..NoCursor : Subscribe(s, r, c)
         \/ Join(s) \/ Disconnect(s)
  PROVE  TypeOK'
<1>0. sub[s] \in Subscriber /\ ctl \in [Run -> Queue] /\ 0 \in 0..MaxFrame
  BY Messages DEF TypeOK
<1>1. CASE \E r \in Run, c \in 0..NoCursor : Subscribe(s, r, c)
  <2>1. PICK r \in Run, c \in 0..NoCursor : Subscribe(s, r, c)
    BY <1>1
  <2> DEFINE q == (IF Dropped(r) THEN <<Close>> ELSE <<>>)
                    \o (IF ctl[r].listed THEN ctl[r].q ELSE <<>>)
             u == [NoSub EXCEPT !.pc = "sub", !.run = r, !.cursor = c, !.listed = ~Dropped(r),
                                !.q = q]
  <2>2. q \in Seq(Message)
    <3>1. (IF Dropped(r) THEN <<Close>> ELSE <<>>) \in Seq(Message)
      BY Messages, EmptySeq
    <3>2. (IF ctl[r].listed THEN ctl[r].q ELSE <<>>) \in Seq(Message)
      BY <1>0, ControlSeq, EmptySeq DEF Queue
    <3> QED BY <3>1, <3>2, ConcatProperties
  <2>3. u \in Subscriber /\ u.run \in Run
    BY <2>2, NoSubType DEF Subscriber, Dropped
  <2>4. ctl' \in [Run -> Queue]
    BY <1>0, <2>1, EmptySeq DEF Subscribe, Queue
  <2>5. sub' = [sub EXCEPT ![s] = u]
    BY <2>1 DEF Subscribe
  <2> HIDE DEF u
  <2> QED BY <2>1, <2>3, <2>4, <2>5, SubscriberType DEF Subscribe
<1>2. CASE JoinStart(s)
  <2>1. sub[s].run \in Run
    BY <1>2 DEF TypeOK, JoinStart
  <2> DEFINE ms == stored[sub[s].run]
             all == Replayed(sub[s].run, sub[s].cursor)
             ends == {i \in all : ms[i].kind = "done"}
             seen == {ms[i].n : i \in {j \in all : \A d \in ends : j < d}}
             u(d) == [Ended(sub[s], ms[d].n) EXCEPT !.got = seen]
             live == [sub[s] EXCEPT !.pc = "live", !.got = seen]
  <2>2. \A i \in all : ms[i] \in Message
    BY <2>1, ElementOfSeq DEF TypeOK, Replayed
  <2>3. seen \in SUBSET (0..MaxFrame)
    BY <2>2 DEF Message
  <2>4. ctl' \in [Run -> Queue] /\ UNCHANGED <<manager, key, stored, flight, cput, st, worker, counters>>
    BY <1>0, <1>2 DEF JoinStart
  <2>5. CASE sub' = [sub EXCEPT ![s].pc = "live", ![s].got = seen]
    <3>1. live \in Subscriber /\ live.run \in Run
      BY <1>0, <2>1, <2>3 DEF Subscriber
    <3>2. sub' = [sub EXCEPT ![s] = live]
      BY <2>5 DEF TypeOK, Subscriber
    <3> HIDE DEF live
    <3> QED BY <2>4, <3>1, <3>2, SubscriberType
  <2>6. ASSUME NEW d \in ends, sub' = [sub EXCEPT ![s] = u(d)]
        PROVE  TypeOK'
    <3>1. ms[d].n \in 0..MaxFrame
      BY <2>2 DEF Message
    <3>2. Ended(sub[s], ms[d].n) \in Subscriber
          /\ Ended(sub[s], ms[d].n).run = sub[s].run
      BY <1>0, <3>1, EndedType
    <3>3. u(d) \in Subscriber /\ u(d).run \in Run
      BY <2>1, <2>3, <3>2 DEF Subscriber
    <3> HIDE DEF u
    <3> QED BY <2>4, <2>6, <3>3, SubscriberType
  <2> QED BY <1>2, <2>5, <2>6 DEF JoinStart
<1>3. CASE JoinGet(s)
  <2> DEFINE m == Head(sub[s].q)
             u == [sub[s] EXCEPT !.q = Tail(@), !.got = IF m.kind = "frame" THEN @ \cup {m.n} ELSE @]
  <2>1. m \in Message /\ Tail(sub[s].q) \in Seq(Message)
    BY <1>0, <1>3, HeadTailProperties DEF JoinGet, Subscriber
  <2>2. sub[s].run \in Run
    BY <1>3 DEF TypeOK, JoinGet
  <2>3. u \in Subscriber /\ u.run \in Run
    BY <1>0, <2>1, <2>2 DEF Subscriber, Message
  <2>4. /\ Ended(sub[s], m.n) \in Subscriber /\ Ended(sub[s], m.n).run \in Run
        /\ Left(sub[s]) \in Subscriber /\ Left(sub[s]).run \in Run
    <3>1. m.n \in 0..MaxFrame
      BY <2>1 DEF Message
    <3> HIDE DEF m
    <3> QED BY <1>0, <2>2, <3>1, EndedType, LeftType
  <2>5. ctl' \in [Run -> Queue] /\ UNCHANGED <<manager, key, stored, flight, cput, st, worker, counters>>
    BY <1>0, <1>3 DEF JoinGet
  <2>6. CASE m.kind \in {"done", "close"}
    BY <1>3, <2>4, <2>5, <2>6, SubscriberType DEF JoinGet
  <2>7. CASE m.kind \notin {"done", "close"}
    <3>1. sub' = [sub EXCEPT ![s] = u]
      BY <1>0, <1>3, <2>7 DEF TypeOK, JoinGet, Subscriber
    <3> HIDE DEF u
    <3> QED BY <2>3, <2>5, <3>1, SubscriberType
  <2> QED BY <2>6, <2>7
<1>4. CASE JoinTimeout(s) \/ Disconnect(s)
  <2>1. /\ sub[s].pc = "live"
        /\ sub' = [sub EXCEPT ![s] = Left(sub[s])]
        /\ UNCHANGED <<manager, key, stored, ctl, flight, cput, st, worker, counters>>
    BY <1>4 DEF JoinTimeout, Disconnect
  <2>2. Left(sub[s]) \in Subscriber /\ Left(sub[s]).run \in Run
    BY <1>0, <2>1, LeftType DEF TypeOK
  <2> QED BY <1>0, <2>1, <2>2, SubscriberType
<1> QED BY <1>1, <1>2, <1>3, <1>4 DEF Join

\* Every step keeps the types.
LEMMA TypeNext == TypeOK /\ [Next]_vars => TypeOK'
<1> SUFFICES ASSUME TypeOK, [Next]_vars PROVE TypeOK'
  OBVIOUS
<1>1. CASE UNCHANGED vars
  BY <1>1 DEF vars, TypeOK
<1>2. CASE Next
  BY <1>2, CancelActions, WorkType, CancelType, ManagerType, JoinType DEF Next
<1> QED BY <1>1, <1>2

\* Types of the manager's maps, of the queues and of the tasks, for every
\* number of runs and subscribers.
THEOREM StreamTypes == Spec => []TypeOK
<1>1. TypeOK /\ [Next]_vars => TypeOK'
  BY TypeNext
<1> QED BY TypeInit, <1>1, PTL DEF Spec

----------------------------------------------------------------------------
\* In the initial state no run is marked deleted.
LEMMA CleanInit == Init => DeletedStaysClean
  BY DEF Init, DeletedStaysClean

\* The state of a marked run that a step must leave empty.
Clean(r) == key[r] = "none" /\ stored[r] = <<>> /\ ~ctl[r].listed /\ Listed(r) = {}

\* Putting to a marked run changes nothing of any run.
LEMMA DroppedStream ==
  ASSUME TypeOK, NEW r \in Run, NEW m, PutStream(r, m), NEW q \in pdel
  PROVE  stored'[q] = stored[q]
<1>1. CASE q = r
  BY <1>1 DEF PutStream, Dropped
<1>2. CASE q # r
  BY <1>2 DEF TypeOK, PutStream
<1> QED BY <1>1, <1>2

\* The same for a control message.
LEMMA DroppedControl ==
  ASSUME TypeOK, NEW r \in Run, NEW m, PutControl(r, m), NEW q \in pdel
  PROVE  key'[q] = key[q]
<1>1. CASE q = r
  BY <1>1 DEF PutControl, Dropped
<1>2. CASE q # r
  BY <1>2 DEF TypeOK, PutControl
<1> QED BY <1>1, <1>2

\* What deletions and the shutdown leave of a run: nothing of those they
\* clear, and the others as they were.
LEMMA Cleared ==
  ASSUME TypeOK, NEW rs \in SUBSET Run, SignalAndClear(rs), NEW q \in Run,
         q \in rs \/ Clean(q)
  PROVE  Clean(q)'
<1>1. key'[q] = "none" /\ stored'[q] = <<>> /\ ~ctl'[q].listed
  BY DEF Clean, SignalAndClear, TypeOK, Queue
<1>2. ASSUME NEW s \in Sub PROVE ~(sub'[s].run = q /\ sub'[s].listed)
  <2>1. sub[s] \in Subscriber
    BY DEF TypeOK
  <2>2. CASE sub[s].listed /\ sub[s].run \in rs
    BY <2>1, <2>2 DEF SignalAndClear, Subscriber
  <2>3. CASE ~(sub[s].listed /\ sub[s].run \in rs)
    BY <2>3 DEF SignalAndClear, Clean, Listed
  <2> QED BY <2>2, <2>3
<1> QED BY <1>1, <1>2 DEF Clean, Listed

\* No step gives a marked run stream state again, and the mark goes with the
\* context.
LEMMA CleanNext == TypeOK /\ DeletedStaysClean /\ [Next]_vars => DeletedStaysClean'
<1> SUFFICES ASSUME TypeOK, DeletedStaysClean, [Next]_vars, NEW q \in pdel'
             PROVE  q \in active' /\ Clean(q)'
  BY DEF DeletedStaysClean, Clean
<1> USE DEF manager, worker, counters
<1>0. q \in pdel => q \in Run /\ q \in active /\ Clean(q)
  BY DEF DeletedStaysClean, Clean, TypeOK
<1>1. CASE UNCHANGED vars
  BY <1>0, <1>1 DEF vars, Clean, Listed
<1>2. ASSUME NEW r \in Run, Work(r) \/ Listen(r) PROVE q \in active' /\ Clean(q)'
  <2>1. CASE Enter(r)
    BY <1>0, <2>1 DEF Enter, Clean, Listed, Dropped, TypeOK, Queue
  <2>2. CASE Publish(r) \/ ExitStream(r)
    <3>1. q \in pdel /\ stored'[q] = stored[q]
      BY <2>2, DroppedStream DEF Publish, ExitStream
    <3> QED BY <1>0, <2>2, <3>1 DEF Publish, ExitStream, Clean, Listed
  <2>3. CASE ExitControl(r)
    <3>1. q \in pdel /\ key'[q] = key[q]
      BY <2>3, DroppedControl DEF ExitControl
    <3> QED BY <1>0, <2>3, <3>1 DEF ExitControl, Clean, Listed
  <2>4. CASE ExitLeave(r)
    <3>1. q \in pdel /\ q # r
      BY <2>4 DEF ExitLeave
    <3>2. key'[q] = key[q] /\ stored'[q] = stored[q] /\ ctl'[q] = ctl[q]
      BY <1>0, <2>4, <3>1 DEF ExitLeave, TypeOK
    <3>3. ASSUME NEW s \in Sub PROVE ~(sub'[s].run = q /\ sub'[s].listed)
      <4>1. sub[s] \in Subscriber
        BY DEF TypeOK
      <4>2. sub'[s] \in {sub[s], [sub[s] EXCEPT !.listed = FALSE]}
        BY <2>4 DEF ExitLeave
      <4>3. CASE sub'[s] = sub[s]
        BY <1>0, <3>1, <4>3 DEF Clean, Listed
      <4>4. CASE sub'[s] = [sub[s] EXCEPT !.listed = FALSE]
        BY <4>1, <4>4 DEF Subscriber
      <4> QED BY <4>2, <4>3, <4>4
    <3>4. q \in active'
      BY <1>0, <2>4, <3>1 DEF ExitLeave
    <3> QED BY <1>0, <3>1, <3>2, <3>3, <3>4 DEF Clean, Listed
  <2>5. CASE ListenGet(r)
    BY <1>0, <2>5 DEF ListenGet, Clean, Listed, TypeOK, Queue
  <2>6. CASE Claim(r) \/ Settle(r) \/ SettleLost(r) \/ ListenStart(r) \/ ListenTimeout(r)
    BY <1>0, <2>6 DEF Claim, Settle, SettleLost, ListenStart, ListenTimeout, Clean, Listed
  <2> QED BY <1>2, <2>1, <2>2, <2>3, <2>4, <2>5, <2>6 DEF Work, Listen
<1>3. ASSUME NEW rs \in SUBSET Run, Remove(rs) PROVE q \in active' /\ Clean(q)'
  <2>1. q \in Run /\ q \in active /\ (q \in rs \/ Clean(q))
    BY <1>0, <1>3 DEF Remove, TypeOK
  <2> QED BY <1>3, <2>1, Cleared DEF Remove
<1>4. ASSUME NEW r \in Run,
             \/ \E a \in Cancels : Cancel(r, a)
             \/ CancelEager(r) \/ CancelPut(r) \/ CancelDelete(r)
      PROVE  q \in active' /\ Clean(q)'
  <2>1. CASE CancelPut(r)
    <3>1. q \in pdel /\ key'[q] = key[q]
      BY <2>1, DroppedControl DEF CancelPut
    <3> QED BY <1>0, <2>1, <3>1 DEF CancelPut, Clean, Listed
  <2>2. CASE CancelDelete(r)
    BY <1>0, <1>3, <2>2 DEF CancelDelete, Clean, Listed
  <2>3. CASE (\E a \in Cancels : Cancel(r, a)) \/ CancelEager(r)
    BY <1>0, <2>3 DEF Cancel, CancelEager, Clean, Listed
  <2> QED BY <1>4, <2>1, <2>2, <2>3
<1>5. CASE Deliver
  <2>1. ctl'[q].listed = ctl[q].listed
    BY <1>0, <1>5 DEF Deliver, TypeOK, Queue
  <2>2. ASSUME NEW s \in Sub PROVE sub'[s].run = sub[s].run /\ sub'[s].listed = sub[s].listed
    <3>1. sub[s] \in Subscriber
      BY DEF TypeOK
    <3>2. sub'[s] \in {sub[s], [sub[s] EXCEPT !.q = Append(sub[s].q, Head(flight).m)]}
      BY <1>5 DEF Deliver
    <3> QED BY <3>1, <3>2 DEF Subscriber
  <2> QED BY <1>0, <1>5, <2>1, <2>2 DEF Deliver, Clean, Listed
<1>6. CASE Stop
  BY <1>6 DEF Stop
<1>7. ASSUME NEW s \in Sub, NEW r \in Run, NEW c \in 0..NoCursor, Subscribe(s, r, c)
      PROVE  q \in active' /\ Clean(q)'
  <2>1. q \in pdel
    BY <1>7 DEF Subscribe
  <2>2. ctl'[q].listed = ctl[q].listed
    BY <1>0, <1>7, <2>1 DEF Subscribe, TypeOK, Queue
  <2>3. ~(sub'[s].run = q /\ sub'[s].listed)
    BY <1>7, <2>1 DEF Subscribe, Dropped, TypeOK, NoSub
  <2>4. \A u \in Sub \ {s} : sub'[u] = sub[u]
    BY <1>7 DEF Subscribe, TypeOK
  <2> QED BY <1>0, <1>7, <2>1, <2>2, <2>3, <2>4 DEF Subscribe, Clean, Listed
<1>8. ASSUME NEW s \in Sub, Join(s) \/ Disconnect(s) PROVE q \in active' /\ Clean(q)'
  <2>1. sub'[s].run = sub[s].run /\ (sub'[s].listed => sub[s].listed)
    <3>1. sub[s] \in Subscriber
      BY DEF TypeOK
    <3>2. CASE JoinStart(s)
      <4>1. CASE \E seen : sub' = [sub EXCEPT ![s].pc = "live", ![s].got = seen]
        BY <3>1, <4>1 DEF TypeOK, Subscriber
      <4>2. CASE \E seen, n : sub' = [sub EXCEPT ![s] = [Ended(sub[s], n) EXCEPT !.got = seen]]
        BY <3>1, <4>2 DEF TypeOK, Subscriber, Ended
      <4> QED BY <3>2, <4>1, <4>2 DEF JoinStart
    <3>3. CASE JoinGet(s)
      <4>1. CASE \E n : sub' = [sub EXCEPT ![s] = Ended(sub[s], n)]
        BY <3>1, <4>1 DEF TypeOK, Subscriber, Ended
      <4>2. CASE sub' = [sub EXCEPT ![s] = Left(sub[s])]
        BY <3>1, <4>2 DEF TypeOK, Left, NoSub
      <4>3. CASE \E q2, got : sub' = [sub EXCEPT ![s].q = q2, ![s].got = got]
        BY <3>1, <4>3 DEF TypeOK, Subscriber
      <4> QED BY <3>3, <4>1, <4>2, <4>3 DEF JoinGet
    <3>4. CASE JoinTimeout(s) \/ Disconnect(s)
      <4>1. sub' = [sub EXCEPT ![s] = Left(sub[s])]
        BY <3>4 DEF JoinTimeout, Disconnect
      <4> QED BY <3>1, <4>1 DEF TypeOK, Left, NoSub
    <3> QED BY <1>8, <3>2, <3>3, <3>4 DEF Join
  <2>2. \A u \in Sub \ {s} : sub'[u] = sub[u]
    BY <1>8 DEF Join, JoinStart, JoinGet, JoinTimeout, Disconnect, TypeOK
  <2>3. UNCHANGED <<manager, key, stored, ctl>>
    BY <1>8 DEF Join, JoinStart, JoinGet, JoinTimeout, Disconnect
  <2> QED BY <1>0, <2>1, <2>2, <2>3 DEF Clean, Listed
<1>9. CASE Next
  BY <1>2, <1>3, <1>4, <1>5, <1>6, <1>7, <1>8, <1>9, CancelActions DEF Next, Delete
<1> QED BY <1>1, <1>9

\* A run deleted while its context is active stays without stream state until
\* the context ends, whatever its worker, a cancel or a new subscriber puts or
\* adds, for every number of runs and subscribers.
THEOREM DeletedClean == Spec => []DeletedStaysClean
<1>1. TypeOK /\ DeletedStaysClean /\ [Next]_vars => (TypeOK /\ DeletedStaysClean)'
  BY TypeNext, CleanNext
<1>2. Init => TypeOK /\ DeletedStaysClean
  BY TypeInit, CleanInit
<1> QED BY <1>1, <1>2, PTL DEF Spec

----------------------------------------------------------------------------
(* ResumeComplete.  A frame is found in the stored messages until the run  *)
(* is deleted or the manager stops; a subscriber that took its replay has  *)
(* every later frame in its queue, or in flight to it, before any "done"   *)
(* that counts it.                                                         *)

\* The stream of the run is kept: it is stored, and nothing cleared it.
Kept(r) == Resumable /\ ~stopped /\ st[r] # "absent"

\* The message is frame number n.
IsFrame(m, n) == m.kind = "frame" /\ m.n = n

\* No message counts more frames than its run has published.
CtlCounts == \A r \in Run : \A i \in 1..Len(ctl[r].q) : ctl[r].q[i].n <= npub[r]
Counts ==
  /\ \A s \in Sub : sub[s].pc # "off" => \A i \in 1..Len(sub[s].q) : sub[s].q[i].n <= npub[sub[s].run]
  /\ \A i \in 1..Len(flight) : flight[i].m.n <= npub[flight[i].run]

\* A message in flight goes to subscribers of its run.
Addressed ==
  \A i \in 1..Len(flight) : \A s \in flight[i].to : sub[s].pc # "off" /\ sub[s].run = flight[i].run

\* A marked run is deleted.
MarkedAbsent == \A r \in pdel : st[r] = "absent"

\* A kept stream holds every frame, and before a "done" those it counts.
StoredComplete ==
  \A r \in Run : Kept(r) =>
    /\ \A n \in 1..npub[r] : \E i \in 1..Len(stored[r]) : IsFrame(stored[r][i], n)
    /\ \A i \in 1..Len(stored[r]) : stored[r][i].kind = "done" =>
         \A n \in 1..stored[r][i].n : \E j \in 1..(i - 1) : IsFrame(stored[r][j], n)

\* A subscriber that joined a kept stream is listed, and has not ended.
JoinedListed ==
  \A s \in Sub : /\ sub[s].pc # "over" => sub[s].end = "no"
                 /\ sub[s].pc = "off" => ~sub[s].listed
                 /\ sub[s].pc \in {"sub", "live"} /\ Kept(sub[s].run) => sub[s].listed

\* Frame n is in the first k messages of the queue.
InQueue(q, n, k) == \E j \in 1..k : IsFrame(q[j], n)

\* The messages in flight to a subscriber.
Pending(s) == {flight[i].m : i \in {j \in 1..Len(flight) : s \in flight[j].to}}

\* With the messages ms in flight to it, a subscriber u after its replay misses
\* none of the b frames after its cursor, nor before a "done" those it counts.
Follows(u, b, ms) ==
  /\ \A n \in (u.cursor + 1)..b :
       n \in u.got \/ InQueue(u.q, n, Len(u.q)) \/ \E m \in ms : IsFrame(m, n)
  /\ \A i \in 1..Len(u.q) : u.q[i].kind = "done" =>
       \A n \in (u.cursor + 1)..u.q[i].n : n \in u.got \/ InQueue(u.q, n, i - 1)
  /\ \A m \in ms : m.kind = "done" =>
       \A n \in (u.cursor + 1)..m.n : n \in u.got \/ InQueue(u.q, n, Len(u.q))

LiveFollows ==
  \A s \in Sub : sub[s].pc = "live" /\ Kept(sub[s].run) /\ sub[s].cursor # NoCursor
                   => Follows(sub[s], npub[sub[s].run], Pending(s))

\* The parts that do not depend on what a subscriber received.
StreamInv == CtlCounts /\ Counts /\ Addressed /\ MarkedAbsent /\ StoredComplete /\ JoinedListed

\* What Append and Tail leave at each place.
LEMMA AppendAt ==
  ASSUME NEW S, NEW q \in Seq(S), NEW e \in S
  PROVE  /\ Append(q, e) \in Seq(S) /\ Len(q) \in Nat
         /\ Len(Append(q, e)) = Len(q) + 1 /\ Append(q, e)[Len(q) + 1] = e
         /\ \A i \in 1..Len(q) : Append(q, e)[i] = q[i]
  BY AppendProperties, LenProperties

LEMMA TailAt ==
  ASSUME NEW S, NEW q \in Seq(S), q # <<>>
  PROVE  /\ Tail(q) \in Seq(S) /\ Len(q) \in Nat \ {0} /\ Head(q) = q[1]
         /\ Len(Tail(q)) = Len(q) - 1
         /\ \A i \in 1..Len(Tail(q)) : Tail(q)[i] = q[i + 1]
  BY HeadTailProperties, LenProperties, EmptySeq

\* A step that leaves streams, subscribers and deliveries alone.
Still ==
  /\ UNCHANGED <<stopped, pdel, stored, sub, flight, npub>>
  /\ \A r \in Run : st'[r] = "absent" <=> st[r] = "absent"

\* A put of a control message.
ControlStep(r) ==
  /\ UNCHANGED <<stopped, pdel, stored, ctl, sub, st, npub>>
  /\ \/ flight' = flight
     \/ \E m \in ControlMessage :
          m.n <= npub[r] /\ flight' = Append(flight, [run |-> r, m |-> m, to |-> {}, ctl |-> TRUE])

\* A deletion of the runs, or the shutdown.
Clears(rs) ==
  /\ SignalAndClear(rs) /\ UNCHANGED <<flight, npub>>
  /\ \/ stopped' /\ pdel' = {} /\ UNCHANGED st
     \/ /\ UNCHANGED stopped /\ pdel' \subseteq pdel \cup rs
        /\ \A r \in Run : st'[r] = IF r \in rs THEN "absent" ELSE st[r]

\* A subscriber goes away, or finds by its poll that the run is over.
Leaves(s) ==
  /\ sub[s].pc = "live"
  /\ sub' = [sub EXCEPT ![s] = Left(sub[s])]
  /\ UNCHANGED <<stopped, pdel, stored, ctl, flight, st, npub>>

\* Every step is one of these.
LEMMA StreamSteps ==
  ASSUME TypeOK, [Next]_vars
  PROVE  \/ Still
         \/ \E r \in Run : Publish(r) \/ ExitStream(r) \/ ControlStep(r) \/ ExitLeave(r)
         \/ Deliver
         \/ \E rs \in SUBSET Run : Clears(rs)
         \/ \E s \in Sub, r \in Run, c \in 0..NoCursor : Subscribe(s, r, c)
         \/ \E s \in Sub : JoinStart(s) \/ JoinGet(s) \/ Leaves(s)
<1> USE DEF manager, worker, counters
<1>1. CASE UNCHANGED vars
  BY <1>1 DEF vars, Still
<1>2. ASSUME NEW r \in Run, Work(r) \/ Listen(r), ~Publish(r), ~ExitStream(r), ~ExitLeave(r)
      PROVE  Still \/ ControlStep(r)
  <2>1. CASE ExitControl(r)
    <3>1. Done(npub[r]) \in ControlMessage /\ Done(npub[r]).n <= npub[r]
      BY Messages DEF TypeOK, Done
    <3>2. PutControl(r, Done(npub[r])) /\ UNCHANGED <<stopped, pdel, stored, ctl, sub, st, npub>>
      BY <2>1 DEF ExitControl
    <3> QED BY <3>1, <3>2 DEF PutControl, ControlStep
  <2>2. CASE Claim(r) \/ Settle(r)
    <3>1. \A q \in Run : st'[q] = "absent" <=> st[q] = "absent"
      BY <2>2 DEF Claim, Settle, Unsettled, TypeOK
    <3> QED BY <2>2, <3>1 DEF Claim, Settle, Still
  <2>3. CASE Enter(r) \/ SettleLost(r) \/ Listen(r)
    BY <2>3 DEF Enter, SettleLost, Listen, ListenStart, ListenGet, ListenTimeout, Still
  <2> QED BY <1>2, <2>1, <2>2, <2>3 DEF Work
<1>3. ASSUME NEW rs \in SUBSET Run, Remove(rs) PROVE Clears(rs)
  BY <1>3 DEF Remove, Clears
<1>4. ASSUME NEW r \in Run, CancelEager(r) \/ CancelPut(r) \/ CancelDelete(r)
      PROVE  Still \/ ControlStep(r) \/ Clears({r})
  <2>1. CASE CancelEager(r)
    BY <2>1 DEF CancelEager, Still
  <2>2. CASE CancelPut(r)
    <3> DEFINE m == Control(IF cput[r] = "eager" THEN "rollback" ELSE cput[r])
    <3>1. m \in ControlMessage
      BY <2>2, Messages DEF CancelPut, Cancels
    <3>2. m.n <= npub[r]
      BY DEF TypeOK, Control
    <3>3. PutControl(r, m) /\ UNCHANGED <<stopped, pdel, stored, ctl, sub, st, npub>>
      BY <2>2 DEF CancelPut
    <3> HIDE DEF m
    <3> QED BY <3>1, <3>2, <3>3 DEF PutControl, ControlStep
  <2>3. CASE CancelDelete(r)
    BY <1>3, <2>3 DEF CancelDelete, Still
  <2> QED BY <1>4, <2>1, <2>2, <2>3
<1>5. ASSUME NEW r \in Run, NEW a \in Cancels, Cancel(r, a) PROVE Still
  <2>1. \A q \in Run : st'[q] = "absent" <=> st[q] = "absent"
    BY <1>5 DEF Cancel, TypeOK
  <2> QED BY <1>5, <2>1 DEF Cancel, Still
<1>6. CASE Stop
  BY <1>6 DEF Stop, Clears
<1>7. ASSUME NEW s \in Sub, JoinTimeout(s) \/ Disconnect(s) PROVE Leaves(s)
  BY <1>7 DEF JoinTimeout, Disconnect, Leaves
<1> QED BY <1>1, <1>2, <1>3, <1>4, <1>5, <1>6, <1>7, CancelActions DEF Next, Delete, Work, Join

\* A shutdown and a deletion are for good, and a marked run is deleted.
LEMMA MarkedNext ==
  ASSUME TypeOK, MarkedAbsent, [Next]_vars
  PROVE  /\ MarkedAbsent' /\ (stopped => stopped')
         /\ \A r \in Run : st[r] = "absent" => st'[r] = "absent"
<1> USE DEF manager, worker, counters, MarkedAbsent
<1>0. pdel \subseteq Run
  BY DEF TypeOK
<1>1. CASE Still
  BY <1>0, <1>1 DEF Still
<1>2. ASSUME NEW r \in Run, Publish(r) \/ ExitStream(r) \/ ControlStep(r) \/ ExitLeave(r)
      PROVE  UNCHANGED <<stopped, st>> /\ pdel' \subseteq pdel
  BY <1>2 DEF Publish, ExitStream, ControlStep, ExitLeave
<1>3. CASE Deliver
  BY <1>3 DEF Deliver
<1>4. ASSUME NEW rs \in SUBSET Run, Clears(rs)
      PROVE  /\ MarkedAbsent' /\ (stopped => stopped')
             /\ \A r \in Run : st[r] = "absent" => st'[r] = "absent"
  BY <1>0, <1>4 DEF Clears
<1>5. ASSUME NEW s \in Sub, NEW r \in Run, NEW c \in 0..NoCursor, Subscribe(s, r, c)
      PROVE  UNCHANGED <<stopped, st, pdel>>
  BY <1>5 DEF Subscribe
<1>6. ASSUME NEW s \in Sub, JoinStart(s) \/ JoinGet(s) \/ Leaves(s)
      PROVE  UNCHANGED <<stopped, st, pdel>>
  BY <1>6 DEF JoinStart, JoinGet, Leaves
<1> QED BY StreamSteps, <1>1, <1>2, <1>3, <1>4, <1>5, <1>6

\* A kept stream was kept before the step, and its messages are not dropped.
LEMMA KeptBefore ==
  ASSUME TypeOK, MarkedAbsent, [Next]_vars, NEW r \in Run, Kept(r)'
  PROVE  Kept(r) /\ ~Dropped(r) /\ r \notin pdel /\ r \notin pdel'
  BY MarkedNext DEF Kept, Dropped, MarkedAbsent

\* Frames are only added.
LEMMA PublishedGrows ==
  ASSUME TypeOK, [Next]_vars, NEW r \in Run
  PROVE  npub[r] \in Nat /\ npub'[r] \in Nat /\ npub[r] <= npub'[r]
<1> USE DEF manager, worker, counters
<1>0. npub[r] \in Nat
  BY DEF TypeOK
<1>1. CASE npub' = npub
  BY <1>0, <1>1
<1>2. ASSUME NEW q \in Run, Publish(q) PROVE npub'[r] \in Nat /\ npub[r] <= npub'[r]
  BY <1>0, <1>2 DEF Publish, TypeOK
<1>3. npub' = npub \/ \E q \in Run : Publish(q)
  BY StreamSteps DEF Still, ExitStream, ControlStep, ExitLeave, Deliver, Clears, Subscribe, JoinStart,
                     JoinGet, Leaves
<1> QED BY <1>0, <1>1, <1>2, <1>3

\* What a step does to the control queue of a run.
LEMMA ControlQueueSteps ==
  ASSUME TypeOK, [Next]_vars, NEW r \in Run
  PROVE  \/ ctl'[r].q \in {ctl[r].q, <<>>, <<Done(0)>>, Append(ctl[r].q, Done(0))}
         \/ ctl[r].q # <<>> /\ ctl'[r].q = Tail(ctl[r].q)
         \/ flight # <<>> /\ Head(flight).run = r /\ Head(flight).ctl
              /\ ctl'[r].q = Append(ctl[r].q, Head(flight).m)
<1> USE DEF manager, worker, counters
<1> DEFINE Goal ==
      \/ ctl'[r].q \in {ctl[r].q, <<>>, <<Done(0)>>, Append(ctl[r].q, Done(0))}
      \/ ctl[r].q # <<>> /\ ctl'[r].q = Tail(ctl[r].q)
      \/ flight # <<>> /\ Head(flight).run = r /\ Head(flight).ctl
           /\ ctl'[r].q = Append(ctl[r].q, Head(flight).m)
<1>0. ctl \in [Run -> Queue] /\ ctl[r] \in Queue
  BY DEF TypeOK
<1>1. CASE ctl' = ctl
  BY <1>1
<1>2. ASSUME NEW q \in Run, Enter(q) \/ ListenGet(q) \/ ExitLeave(q) PROVE Goal
  <2>1. CASE q # r
    BY <1>0, <1>2, <2>1 DEF Enter, ListenGet, ExitLeave
  <2>2. CASE q = r /\ Enter(q)
    BY <1>0, <2>2 DEF Enter, NoCtl
  <2>3. CASE q = r /\ ListenGet(q)
    BY <1>0, <2>3 DEF ListenGet, Queue
  <2>4. CASE q = r /\ ExitLeave(q)
    BY <1>0, <2>4 DEF ExitLeave, NoCtl
  <2> QED BY <1>2, <2>1, <2>2, <2>3, <2>4
<1>3. ASSUME Deliver PROVE Goal
  BY <1>0, <1>3 DEF Deliver, Queue
<1>4. ASSUME NEW rs \in SUBSET Run, SignalAndClear(rs) PROVE Goal
  BY <1>0, <1>4 DEF SignalAndClear, Queue
<1>5. ASSUME NEW s \in Sub, NEW q \in Run, NEW c \in 0..NoCursor, Subscribe(s, q, c) PROVE Goal
  BY <1>0, <1>5 DEF Subscribe, Queue
<1> HIDE DEF Goal
<1>6. ASSUME NEW q \in Run, Work(q) \/ Listen(q) PROVE Goal
  <2>1. CASE Enter(q) \/ ListenGet(q) \/ ExitLeave(q)
    BY <1>2, <2>1
  <2>2. CASE ~(Enter(q) \/ ListenGet(q) \/ ExitLeave(q))
    <3>1. ctl' = ctl
      BY <1>6, <2>2 DEF Work, Listen, Claim, Publish, ExitControl, ExitStream, Settle, SettleLost,
                        ListenStart, ListenTimeout
    <3> QED BY <1>1, <3>1 DEF Goal
  <2> QED BY <2>1, <2>2
<1>7. ASSUME NEW q \in Run, CancelEager(q) \/ CancelPut(q) \/ CancelDelete(q) \/ \E a \in Cancels : Cancel(q, a)
      PROVE  Goal
  <2>1. ctl' = ctl \/ SignalAndClear({q})
    BY <1>7 DEF CancelEager, CancelPut, CancelDelete, Cancel, Remove
  <2> QED BY <1>1, <1>4, <2>1 DEF Goal
<1>8. ASSUME NEW s \in Sub, Join(s) \/ Disconnect(s) PROVE Goal
  <2>1. ctl' = ctl
    BY <1>8 DEF Join, JoinStart, JoinGet, JoinTimeout, Disconnect
  <2> QED BY <1>1, <2>1 DEF Goal
<1>9. ASSUME Stop \/ \E rs \in SUBSET Run : Delete(rs) PROVE Goal
  BY <1>4, <1>9 DEF Stop, Delete, Remove
<1>10. ASSUME UNCHANGED vars PROVE Goal
  BY <1>1, <1>10 DEF vars, Goal
<1>11. Goal
  BY <1>3, <1>5, <1>6, <1>7, <1>8, <1>9, <1>10, CancelActions DEF Next
<1> QED BY <1>11 DEF Goal

\* The first message in flight, and those after it.
LEMMA FlightHead ==
  ASSUME TypeOK, flight # <<>>
  PROVE  /\ Head(flight) = flight[1] /\ Head(flight) \in Put /\ Head(flight).m \in Message
         /\ Head(flight).run \in Run /\ 1 \in 1..Len(flight) /\ Len(flight) \in Nat
         /\ Tail(flight) \in Seq(Put) /\ Len(Tail(flight)) = Len(flight) - 1
         /\ \A i \in 1..Len(Tail(flight)) : i + 1 \in 1..Len(flight) /\ Tail(flight)[i] = flight[i + 1]
<1>1. flight \in Seq(Put)
  BY DEF TypeOK
<1>2. Len(flight) \in Nat \ {0} /\ Head(flight) = flight[1] /\ Tail(flight) \in Seq(Put)
      /\ Len(Tail(flight)) = Len(flight) - 1 /\ \A i \in 1..Len(Tail(flight)) : Tail(flight)[i] = flight[i + 1]
  BY <1>1, TailAt
<1>3. Head(flight) \in Put
  BY <1>1, HeadTailProperties
<1>4. Head(flight).m \in Message /\ Head(flight).run \in Run
  BY <1>3, Messages DEF Put
<1> QED BY <1>2, <1>3, <1>4

\* The control queues keep their counts.
LEMMA CtlCountsNext ==
  ASSUME TypeOK, CtlCounts, Counts, [Next]_vars
  PROVE  CtlCounts'
<1> SUFFICES ASSUME NEW r \in Run, NEW i \in 1..Len(ctl'[r].q) PROVE ctl'[r].q[i].n <= npub'[r]
  BY DEF CtlCounts
<1>0. npub[r] \in Nat /\ npub'[r] \in Nat /\ npub[r] <= npub'[r]
  BY PublishedGrows
<1> DEFINE q == ctl[r].q
<1>1. q \in Seq(Message) /\ \A j \in 1..Len(q) : q[j].n <= npub[r] /\ q[j].n \in Nat
  <2>1. q \in Seq(ControlMessage)
    BY DEF TypeOK, Queue
  <2>2. ASSUME NEW j \in 1..Len(q) PROVE q[j].n \in Nat
    <3>1. q[j] \in ControlMessage
      BY <2>1, ElementOfSeq
    <3> QED BY <3>1 DEF ControlMessage
  <2> QED BY <2>1, <2>2, ControlSeq DEF CtlCounts
<1>2. Done(0) \in Message /\ Done(0).n = 0
  BY Messages DEF Done
<1>3. CASE ctl'[r].q = q \/ ctl'[r].q = <<>> \/ ctl'[r].q = <<Done(0)>>
  <2>1. CASE ctl'[r].q = q
    BY <1>0, <1>1, <2>1
  <2>2. CASE ctl'[r].q = <<>>
    BY <2>2
  <2>3. CASE ctl'[r].q = <<Done(0)>>
    BY <1>0, <1>2, <2>3
  <2> QED BY <1>3, <2>1, <2>2, <2>3
<1>4. ASSUME NEW e \in Message, e.n <= npub[r], ctl'[r].q = Append(q, e) PROVE ctl'[r].q[i].n <= npub'[r]
  <2>1. e.n \in Nat
    BY DEF Message
  <2>2. Append(q, e)[i] = e \/ \E j \in 1..Len(q) : Append(q, e)[i] = q[j]
    BY <1>1, <1>4, AppendAt
  <2> HIDE DEF q
  <2> QED BY <1>0, <1>1, <1>4, <2>1, <2>2
<1>5. CASE q # <<>> /\ ctl'[r].q = Tail(q)
  <2>1. \E j \in 1..Len(q) : Tail(q)[i] = q[j]
    BY <1>1, <1>5, TailAt
  <2> QED BY <1>0, <1>1, <1>5, <2>1
<1>6. CASE flight # <<>> /\ Head(flight).run = r /\ ctl'[r].q = Append(q, Head(flight).m)
  <2>1. Head(flight).m \in Message /\ Head(flight).m.n <= npub[r]
    BY <1>6, FlightHead DEF Counts
  <2> QED BY <1>4, <1>6, <2>1
<1>7. CASE ctl'[r].q = Append(q, Done(0))
  BY <1>0, <1>2, <1>4, <1>7
<1> HIDE DEF q
<1>8. \/ ctl'[r].q \in {q, <<>>, <<Done(0)>>, Append(q, Done(0))}
      \/ q # <<>> /\ ctl'[r].q = Tail(q)
      \/ flight # <<>> /\ Head(flight).run = r /\ ctl'[r].q = Append(q, Head(flight).m)
  BY ControlQueueSteps DEF q
<1> QED BY <1>3, <1>5, <1>6, <1>7, <1>8

\* The ways a step changes a subscriber: it is given a message, or cut off
\* from a stream that is not kept; the rest are its own steps.
Delivered(s) ==
  Deliver /\ s \in Head(flight).to /\ sub'[s] = [sub[s] EXCEPT !.q = Append(@, Head(flight).m)]

Cut(s) ==
  /\ \E r \in Run : r = sub[s].run /\ ~Kept(r)'
  /\ \/ sub'[s] = [sub[s] EXCEPT !.listed = FALSE]
     \/ sub'[s] = [sub[s] EXCEPT !.q = Append(@, Done(0)), !.listed = FALSE]

OwnStep(s) ==
  \/ \E r \in Run, c \in 0..NoCursor : Subscribe(s, r, c)
  \/ JoinStart(s) \/ JoinGet(s) \/ Leaves(s)

LEMMA SubscriberSteps ==
  ASSUME TypeOK, MarkedAbsent, [Next]_vars, NEW s \in Sub
  PROVE  sub'[s] = sub[s] \/ Delivered(s) \/ Cut(s) \/ OwnStep(s)
<1> USE DEF manager, worker, counters
<1>0. sub[s] \in Subscriber /\ sub \in [Sub -> Subscriber]
  BY DEF TypeOK
<1>1. CASE UNCHANGED sub
  BY <1>1
<1>2. ASSUME NEW r \in Run, ExitLeave(r) PROVE sub'[s] = sub[s] \/ Cut(s)
  <2>1. CASE r \in pdel /\ s \in Listed(r)
    <3>1. sub'[s] = [sub[s] EXCEPT !.listed = FALSE] /\ sub[s].run = r
      BY <1>2, <2>1 DEF ExitLeave, Listed
    <3>2. ~Kept(r)'
      BY <2>1, KeptBefore
    <3> QED BY <3>1, <3>2 DEF Cut
  <2>2. CASE ~(r \in pdel /\ s \in Listed(r))
    BY <1>2, <2>2 DEF ExitLeave
  <2> QED BY <2>1, <2>2
<1>3. CASE Deliver
  <2>1. CASE s \in Head(flight).to
    BY <1>3, <2>1 DEF Deliver, Delivered
  <2>2. CASE s \notin Head(flight).to
    BY <1>3, <2>2 DEF Deliver
  <2> QED BY <2>1, <2>2
<1>4. ASSUME NEW rs \in SUBSET Run, Clears(rs) PROVE sub'[s] = sub[s] \/ Cut(s)
  <2>1. CASE sub[s].listed /\ sub[s].run \in rs
    <3>1. sub'[s] = [sub[s] EXCEPT !.q = Append(@, Done(0)), !.listed = FALSE]
      BY <1>4, <2>1 DEF Clears, SignalAndClear
    <3>2. ASSUME NEW r \in rs PROVE ~Kept(r)'
      BY <1>4 DEF Clears, Kept
    <3> QED BY <2>1, <3>1, <3>2 DEF Cut
  <2>2. CASE ~(sub[s].listed /\ sub[s].run \in rs)
    BY <1>4, <2>2 DEF Clears, SignalAndClear
  <2> QED BY <2>1, <2>2
<1>5. ASSUME NEW u \in Sub, OwnStep(u) PROVE sub'[s] = sub[s] \/ OwnStep(s)
  <2>1. CASE u = s
    BY <1>5, <2>1
  <2>2. CASE u # s
    BY <1>0, <1>5, <2>2 DEF OwnStep, Subscribe, JoinStart, JoinGet, Leaves
  <2> QED BY <2>1, <2>2
<1>6. CASE Still \/ \E r \in Run : Publish(r) \/ ExitStream(r) \/ ControlStep(r)
  BY <1>6 DEF Still, Publish, ExitStream, ControlStep
<1> QED BY StreamSteps, <1>2, <1>3, <1>4, <1>5, <1>6 DEF OwnStep

\* The records that the own steps of a subscriber leave.
LEMMA SubscribeLeaves ==
  ASSUME TypeOK, NEW s \in Sub, NEW r \in Run, NEW c \in 0..NoCursor, Subscribe(s, r, c)
  PROVE  /\ sub[s].pc = "off" /\ sub'[s].pc = "sub" /\ sub'[s].run = r /\ sub'[s].cursor = c
         /\ sub'[s].end = "no" /\ sub'[s].listed = ~Dropped(r)
         /\ sub'[s].q = (IF Dropped(r) THEN <<Close>> ELSE <<>>)
                           \o (IF ctl[r].listed THEN ctl[r].q ELSE <<>>)
         /\ UNCHANGED <<stored, flight, npub, st, stopped>>
<1>1. sub'[s] = [NoSub EXCEPT !.pc = "sub", !.run = r, !.cursor = c, !.listed = ~Dropped(r),
                     !.q = (IF Dropped(r) THEN <<Close>> ELSE <<>>)
                           \o (IF ctl[r].listed THEN ctl[r].q ELSE <<>>)]
  BY DEF Subscribe, TypeOK
<1>2. sub[s].pc = "off" /\ UNCHANGED <<stored, flight, npub, st, stopped>>
  BY DEF Subscribe, manager, counters
<1> QED BY <1>1, <1>2 DEF NoSub

LEMMA JoinStartLeaves ==
  ASSUME TypeOK, NEW s \in Sub, JoinStart(s)
  PROVE  /\ sub[s].pc = "sub" /\ sub'[s].run = sub[s].run /\ sub'[s].cursor = sub[s].cursor
         /\ \/ sub'[s].pc = "live" /\ sub'[s].end = sub[s].end /\ sub'[s].listed = sub[s].listed
                 /\ sub'[s].q = sub[s].q
            \/ sub'[s].pc = "over" /\ sub'[s].end = "done" /\ ~sub'[s].listed /\ sub'[s].q = <<>>
         /\ UNCHANGED <<stored, flight, npub, st, stopped>>
<1>0. sub[s] \in Subscriber /\ sub \in [Sub -> Subscriber]
  BY DEF TypeOK
<1>1. sub[s].pc = "sub" /\ UNCHANGED <<stored, flight, npub, st, stopped>>
  BY DEF JoinStart, manager, counters
<1>2. CASE \E seen : sub' = [sub EXCEPT ![s].pc = "live", ![s].got = seen]
  BY <1>0, <1>1, <1>2 DEF Subscriber
<1>3. CASE \E seen, n : sub' = [sub EXCEPT ![s] = [Ended(sub[s], n) EXCEPT !.got = seen]]
  BY <1>0, <1>1, <1>3 DEF Subscriber, Ended
<1> QED BY <1>1, <1>2, <1>3 DEF JoinStart

LEMMA JoinGetLeaves ==
  ASSUME TypeOK, NEW s \in Sub, JoinGet(s)
  PROVE  /\ sub[s].pc = "live" /\ sub[s].q # <<>>
         /\ sub'[s].run = sub[s].run
         /\ LET m == Head(sub[s].q)
            IN \/ /\ m.kind = "done" /\ sub'[s].pc = "over" /\ sub'[s].end = "done"
                  /\ sub'[s].cursor = sub[s].cursor
                  /\ sub'[s].upto = m.n /\ sub'[s].got = sub[s].got /\ ~sub'[s].listed /\ sub'[s].q = <<>>
               \/ /\ m.kind = "close" /\ sub'[s].pc = "over" /\ sub'[s].end = "cut"
                  /\ ~sub'[s].listed /\ sub'[s].q = <<>>
               \/ /\ m.kind \notin {"done", "close"} /\ sub'[s].pc = "live" /\ sub'[s].end = sub[s].end
                  /\ sub'[s].cursor = sub[s].cursor
                  /\ sub'[s].listed = sub[s].listed /\ sub'[s].q = Tail(sub[s].q)
                  /\ sub'[s].got = IF m.kind = "frame" THEN sub[s].got \cup {m.n} ELSE sub[s].got
         /\ UNCHANGED <<stored, flight, npub, st, stopped>>
<1>0. sub[s] \in Subscriber /\ sub \in [Sub -> Subscriber]
  BY DEF TypeOK
<1>1. /\ sub[s].pc = "live" /\ sub[s].q # <<>> /\ UNCHANGED <<stored, flight, npub, st, stopped>>
  BY DEF JoinGet, manager, counters
<1> DEFINE m == Head(sub[s].q)
           got == IF m.kind = "frame" THEN sub[s].got \cup {m.n} ELSE sub[s].got
<1>2. CASE m.kind = "done" /\ sub' = [sub EXCEPT ![s] = Ended(sub[s], m.n)]
  BY <1>0, <1>1, <1>2 DEF Subscriber, Ended
<1>3. CASE m.kind = "close" /\ sub' = [sub EXCEPT ![s] = Left(sub[s])]
  BY <1>0, <1>1, <1>3 DEF Left, NoSub
<1>4. CASE m.kind \notin {"done", "close"} /\ sub' = [sub EXCEPT ![s].q = Tail(sub[s].q), ![s].got = got]
  BY <1>0, <1>1, <1>4 DEF Subscriber
<1> QED BY <1>0, <1>1, <1>2, <1>3, <1>4 DEF JoinGet

LEMMA LeavesLeaves ==
  ASSUME TypeOK, NEW s \in Sub, Leaves(s)
  PROVE  /\ sub'[s].run = sub[s].run /\ sub[s].pc = "live"
         /\ sub'[s].pc = "over" /\ sub'[s].end = "cut" /\ ~sub'[s].listed /\ sub'[s].q = <<>>
         /\ UNCHANGED <<stored, flight, npub, st, stopped>>
<1>0. sub[s] \in Subscriber /\ sub \in [Sub -> Subscriber]
  BY DEF TypeOK
<1> QED BY <1>0 DEF Leaves, Left, NoSub

LEMMA DeliveredLeaves ==
  ASSUME TypeOK, NEW s \in Sub, Delivered(s)
  PROVE  /\ sub'[s].pc = sub[s].pc /\ sub'[s].run = sub[s].run /\ sub'[s].cursor = sub[s].cursor
         /\ sub'[s].end = sub[s].end /\ sub'[s].listed = sub[s].listed /\ sub'[s].got = sub[s].got
         /\ sub'[s].upto = sub[s].upto
         /\ sub'[s].q = Append(sub[s].q, Head(flight).m)
         /\ flight # <<>> /\ flight' = Tail(flight) /\ UNCHANGED <<stored, npub, st, stopped>>
<1>0. sub[s] \in Subscriber
  BY DEF TypeOK
<1> QED BY <1>0 DEF Delivered, Deliver, Subscriber, manager, counters

LEMMA CutLeaves ==
  ASSUME TypeOK, NEW s \in Sub, Cut(s)
  PROVE  /\ sub'[s].pc = sub[s].pc /\ sub'[s].run = sub[s].run /\ sub'[s].cursor = sub[s].cursor
         /\ sub'[s].end = sub[s].end /\ ~sub'[s].listed /\ sub[s].run \in Run
         /\ sub'[s].q \in {sub[s].q, Append(sub[s].q, Done(0))}
         /\ \A r \in Run : r = sub[s].run => ~Kept(r)'
<1>0. sub[s] \in Subscriber
  BY DEF TypeOK
<1>1. sub[s].run \in Run /\ \A r \in Run : r = sub[s].run => ~Kept(r)'
  BY DEF Cut
<1>2. CASE sub'[s] = [sub[s] EXCEPT !.listed = FALSE]
  BY <1>0, <1>1, <1>2 DEF Subscriber
<1>3. CASE sub'[s] = [sub[s] EXCEPT !.q = Append(@, Done(0)), !.listed = FALSE]
  BY <1>0, <1>1, <1>3 DEF Subscriber
<1> QED BY <1>2, <1>3 DEF Cut

\* A subscriber keeps its run and, until it is cut off, its cursor.
LEMMA RunKept ==
  ASSUME TypeOK, MarkedAbsent, [Next]_vars, NEW s \in Sub, sub[s].pc # "off"
  PROVE  /\ sub'[s].pc # "off" /\ sub'[s].run = sub[s].run
         /\ sub'[s].cursor = sub[s].cursor \/ (sub'[s].pc = "over" /\ sub'[s].end = "cut")
<1>1. CASE sub'[s] = sub[s]
  BY <1>1
<1>2. CASE Delivered(s)
  BY <1>2, DeliveredLeaves
<1>3. CASE Cut(s)
  BY <1>3, CutLeaves
<1>4. CASE OwnStep(s)
  <2>1. ASSUME NEW r \in Run, NEW c \in 0..NoCursor, Subscribe(s, r, c) PROVE FALSE
    BY <2>1, SubscribeLeaves
  <2>2. CASE JoinStart(s)
    BY <2>2, JoinStartLeaves
  <2>3. CASE JoinGet(s)
    <3>1. /\ sub'[s].run = sub[s].run /\ sub'[s].pc \in {"live", "over"}
          /\ sub'[s].cursor = sub[s].cursor \/ (sub'[s].pc = "over" /\ sub'[s].end = "cut")
      BY <2>3, JoinGetLeaves
    <3> QED BY <3>1
  <2>4. CASE Leaves(s)
    BY <2>4, LeavesLeaves
  <2> QED BY <1>4, <2>1, <2>2, <2>3, <2>4 DEF OwnStep
<1> QED BY SubscriberSteps, <1>1, <1>2, <1>3, <1>4

\* Frames and "done" are put to the subscribers that are listed.
LEMMA PutsStream ==
  ASSUME TypeOK, NEW r \in Run, Publish(r) \/ ExitStream(r)
  PROVE  \E m \in Message :
           /\ m.n <= npub'[r] /\ PutStream(r, m)
           /\ \/ IsFrame(m, npub[r] + 1) /\ npub' = [npub EXCEPT ![r] = npub[r] + 1]
              \/ m.kind = "done" /\ m.n = npub[r] /\ npub' = npub
           /\ ~Awaits(r) /\ UNCHANGED <<stopped, st, sub>>
<1> USE DEF manager, worker, counters
<1>0. npub[r] \in 0..MaxFrame
  BY DEF TypeOK
<1>1. CASE Publish(r)
  <2>1. npub[r] + 1 \in 0..MaxFrame
    BY <1>0, <1>1, StreamAssumption DEF Publish
  <2>2. Frame(npub[r] + 1) \in Message /\ Frame(npub[r] + 1).kind = "frame" /\ Frame(npub[r] + 1).n = npub[r] + 1
    BY <2>1, Messages DEF Frame
  <2>3. npub' = [npub EXCEPT ![r] = npub[r] + 1] /\ npub'[r] = npub[r] + 1
    BY <1>1 DEF Publish, TypeOK
  <2>4. Frame(npub[r] + 1).n <= npub'[r]
    BY <2>1, <2>2, <2>3
  <2> QED BY <1>1, <2>2, <2>3, <2>4 DEF Publish, IsFrame
<1>2. CASE ExitStream(r)
  <2>1. Done(npub[r]) \in Message /\ Done(npub[r]).kind = "done" /\ Done(npub[r]).n = npub[r]
    BY <1>0, Messages DEF Done
  <2>2. npub' = npub /\ npub[r] <= npub[r]
    BY <1>0, <1>2 DEF ExitStream
  <2> QED BY <1>2, <2>1, <2>2 DEF ExitStream
<1> QED BY <1>1, <1>2

\* Every message in flight was in flight before, or is put by this step.
LEMMA FlightFrom ==
  ASSUME TypeOK, [Next]_vars, NEW i \in 1..Len(flight')
  PROVE  \/ \E j \in 1..Len(flight) : /\ flight'[i].run = flight[j].run /\ flight'[i].m = flight[j].m
                                       /\ flight'[i].to = flight[j].to
         \/ /\ flight'[i].m.n <= npub'[flight'[i].run] /\ flight'[i].run \in Run
            /\ flight'[i].to = {} \/ flight'[i].to = Listed(flight'[i].run)
<1> USE DEF manager, worker, counters
<1> DEFINE Old == \E j \in 1..Len(flight) : /\ flight'[i].run = flight[j].run /\ flight'[i].m = flight[j].m
                                             /\ flight'[i].to = flight[j].to
           New == /\ flight'[i].m.n <= npub'[flight'[i].run] /\ flight'[i].run \in Run
                  /\ flight'[i].to = {} \/ flight'[i].to = Listed(flight'[i].run)
<1>0. flight \in Seq(Put) /\ Len(flight) \in Nat
  BY LenProperties DEF TypeOK
<1>1. ASSUME flight' = flight PROVE Old
  BY <1>1
<1>2. ASSUME NEW f \in Put, flight' = Append(flight, f), f.m.n <= npub'[f.run], f.run \in Run,
             f.to = {} \/ f.to = Listed(f.run)
      PROVE  Old \/ New
  <2>1. CASE i \in 1..Len(flight)
    <3>1. flight'[i] = flight[i]
      BY <1>0, <1>2, <2>1, AppendAt
    <3> QED BY <2>1, <3>1
  <2>2. CASE i \notin 1..Len(flight)
    <3>1. flight'[i] = f
      BY <1>0, <1>2, <2>2, AppendAt
    <3> QED BY <1>2, <3>1
  <2> QED BY <2>1, <2>2
<1>3. ASSUME NEW r \in Run, ExitLeave(r) PROVE Old
  <2>1. i \in 1..Len(flight)
    BY <1>0, <1>3 DEF ExitLeave
  <2>2. flight[i] \in Put
    BY <1>0, <2>1, ElementOfSeq
  <2>3. flight'[i] = IF flight[i].run = r THEN [flight[i] EXCEPT !.ctl = FALSE] ELSE flight[i]
    BY <1>3, <2>1 DEF ExitLeave
  <2>4. flight'[i].run = flight[i].run /\ flight'[i].m = flight[i].m /\ flight'[i].to = flight[i].to
    BY <2>2, <2>3 DEF Put
  <2> QED BY <2>1, <2>4
<1>4. ASSUME Deliver PROVE Old
  <2>1. flight # <<>> /\ flight' = Tail(flight)
    BY <1>4 DEF Deliver
  <2>2. i + 1 \in 1..Len(flight) /\ flight'[i] = flight[i + 1]
    BY <2>1, FlightHead
  <2> QED BY <2>2
<1>5. ASSUME NEW r \in Run, ControlStep(r) PROVE Old \/ New
  <2>1. CASE flight' = flight
    BY <1>1, <2>1
  <2>2. ASSUME NEW m \in ControlMessage, m.n <= npub[r],
               flight' = Append(flight, [run |-> r, m |-> m, to |-> {}, ctl |-> TRUE])
        PROVE  Old \/ New
    <3> DEFINE f == [run |-> r, m |-> m, to |-> {}, ctl |-> TRUE]
    <3>1. f \in Put
      BY DEF Put
    <3>2. f.run = r /\ f.m = m /\ f.to = {} /\ npub' = npub /\ flight' = Append(flight, f)
      BY <1>5, <2>2 DEF ControlStep
    <3> HIDE DEF f, Old, New
    <3> QED BY <1>2, <2>2, <3>1, <3>2
  <2> QED BY <1>5, <2>1, <2>2 DEF ControlStep
<1>6. ASSUME NEW r \in Run, Publish(r) \/ ExitStream(r) PROVE Old \/ New
  <2>1. PICK m \in Message : m.n <= npub'[r] /\ PutStream(r, m)
    BY <1>6, PutsStream
  <2> DEFINE f == [run |-> r, m |-> m, to |-> Listed(r), ctl |-> FALSE]
  <2>2. f \in Put
    BY DEF Put, Listed
  <2>3. f.run = r /\ f.m = m /\ f.to = Listed(r) /\ (flight' = flight \/ flight' = Append(flight, f))
    BY <2>1 DEF PutStream
  <2> HIDE DEF f, Old, New
  <2> QED BY <1>1, <1>2, <2>1, <2>2, <2>3
<1>7. Still \/ (\E rs \in SUBSET Run : Clears(rs)) \/ (\E s \in Sub : OwnStep(s)) => flight' = flight
  BY DEF Still, Clears, OwnStep, Subscribe, JoinStart, JoinGet, Leaves
<1> HIDE DEF Old, New
<1>8. Old \/ New
  BY StreamSteps, <1>1, <1>3, <1>4, <1>5, <1>6, <1>7 DEF OwnStep
<1> QED BY <1>8 DEF Old, New

\* Messages in flight keep their counts and their addressees.
LEMMA AddressedNext ==
  ASSUME TypeOK, StreamInv, [Next]_vars
  PROVE  /\ Addressed' /\ \A i \in 1..Len(flight') : flight'[i].m.n <= npub'[flight'[i].run]
<1> USE DEF StreamInv
<1>0. flight \in Seq(Put)
  BY DEF TypeOK
<1>1. ASSUME NEW i \in 1..Len(flight')
      PROVE  /\ flight'[i].m.n <= npub'[flight'[i].run]
             /\ \A s \in flight'[i].to : sub'[s].pc # "off" /\ sub'[s].run = flight'[i].run
  <2>1. ASSUME NEW j \in 1..Len(flight), flight'[i].run = flight[j].run, flight'[i].m = flight[j].m,
               flight'[i].to = flight[j].to
        PROVE  /\ flight'[i].m.n <= npub'[flight'[i].run]
               /\ \A s \in flight'[i].to : sub'[s].pc # "off" /\ sub'[s].run = flight'[i].run
    <3>1. flight[j] \in Put
      BY <1>0, ElementOfSeq
    <3>2. flight[j].run \in Run /\ flight[j].to \subseteq Sub /\ flight[j].m.n \in Nat
      <4>1. flight[j].run \in Run /\ flight[j].to \subseteq Sub /\ flight[j].m \in Message
        BY <3>1, Messages DEF Put
      <4> QED BY <4>1 DEF Message
    <3>3. npub[flight[j].run] <= npub'[flight[j].run] /\ npub[flight[j].run] \in Nat /\ npub'[flight[j].run] \in Nat
      BY <3>2, PublishedGrows
    <3>4. flight[j].m.n <= npub[flight[j].run]
      BY DEF Counts
    <3>5. ASSUME NEW s \in flight[j].to PROVE sub'[s].pc # "off" /\ sub'[s].run = flight[j].run
      BY <3>2, RunKept DEF Addressed
    <3> QED BY <2>1, <3>2, <3>3, <3>4, <3>5
  <2>2. ASSUME flight'[i].m.n <= npub'[flight'[i].run], flight'[i].run \in Run,
               flight'[i].to = {} \/ flight'[i].to = Listed(flight'[i].run)
        PROVE  \A s \in flight'[i].to : sub'[s].pc # "off" /\ sub'[s].run = flight'[i].run
    BY <2>2, RunKept DEF Listed, JoinedListed
  <2> QED BY FlightFrom, <2>1, <2>2
<1> QED BY <1>1 DEF Addressed

\* Subscribers that join a kept stream stay listed until they end.
LEMMA ListedNext ==
  ASSUME TypeOK, StreamInv, [Next]_vars
  PROVE  JoinedListed'
<1> USE DEF StreamInv
<1> SUFFICES ASSUME NEW s \in Sub
             PROVE  /\ sub'[s].pc # "over" => sub'[s].end = "no"
                    /\ sub'[s].pc = "off" => ~sub'[s].listed
                    /\ sub'[s].pc \in {"sub", "live"} /\ Kept(sub[s].run)' => sub'[s].listed
  BY DEF JoinedListed
<1>0. /\ sub[s].pc # "over" => sub[s].end = "no"
      /\ sub[s].pc = "off" => ~sub[s].listed
      /\ sub[s].pc \in {"sub", "live"} /\ Kept(sub[s].run) => sub[s].listed
      /\ sub[s].pc # "off" => sub[s].run \in Run
  BY DEF JoinedListed, TypeOK
<1>1. \A r \in Run : Kept(r)' => Kept(r) /\ ~Dropped(r)
  BY KeptBefore
<1>2. CASE sub'[s] = sub[s]
  BY <1>0, <1>1, <1>2 DEF Kept
<1>3. CASE Delivered(s)
  BY <1>0, <1>1, <1>3, DeliveredLeaves DEF Kept
<1>4. CASE Cut(s)
  <2>1. /\ sub'[s].pc = sub[s].pc /\ sub'[s].end = sub[s].end /\ ~sub'[s].listed
        /\ sub'[s].run = sub[s].run /\ sub[s].run \in Run
        /\ \A r \in Run : r = sub[s].run => ~Kept(r)'
    BY <1>4, CutLeaves
  <2>2. ~Kept(sub[s].run)'
    BY <2>1 DEF Kept
  <2> QED BY <1>0, <2>1, <2>2
<1>5. CASE OwnStep(s)
  <2>1. ASSUME NEW r \in Run, NEW c \in 0..NoCursor, Subscribe(s, r, c)
        PROVE  /\ sub'[s].pc = "sub" /\ sub'[s].end = "no"
               /\ Kept(sub[s].run)' => sub'[s].listed
    <3>1. sub'[s].pc = "sub" /\ sub'[s].run = r /\ sub'[s].end = "no" /\ sub'[s].listed = ~Dropped(r)
      BY <2>1, SubscribeLeaves
    <3> QED BY <1>1, <3>1 DEF Kept
  <2>2. CASE JoinStart(s)
    BY <1>0, <1>1, <2>2, JoinStartLeaves DEF Kept
  <2>3. CASE JoinGet(s)
    BY <1>0, <1>1, <2>3, JoinGetLeaves DEF Kept
  <2>4. CASE Leaves(s)
    BY <2>4, LeavesLeaves
  <2> QED BY <1>5, <2>1, <2>2, <2>3, <2>4 DEF OwnStep
<1> QED BY SubscriberSteps, <1>2, <1>3, <1>4, <1>5

\* The queues of subscribers keep their counts.
LEMMA QueueCountsNext ==
  ASSUME TypeOK, StreamInv, [Next]_vars, NEW s \in Sub, sub'[s].pc # "off", NEW i \in 1..Len(sub'[s].q)
  PROVE  sub'[s].q[i].n <= npub'[sub'[s].run]
<1> USE DEF StreamInv
<1> DEFINE q == sub[s].q
           r == sub[s].run
<1>0. sub[s] \in Subscriber /\ q \in Seq(Message) /\ Len(q) \in Nat
  <2>1. sub[s] \in Subscriber
    BY DEF TypeOK
  <2>2. q \in Seq(Message)
    BY <2>1 DEF Subscriber
  <2> QED BY <2>1, <2>2, LenProperties
<1>1. ASSUME sub[s].pc # "off"
      PROVE  /\ r \in Run /\ npub[r] \in Nat /\ npub'[r] \in Nat /\ npub[r] <= npub'[r]
             /\ \A j \in 1..Len(q) : q[j].n <= npub[r] /\ q[j].n \in Nat
             /\ sub'[s].run = r
  <2>1. r \in Run /\ sub'[s].run = r
    BY <1>1, RunKept DEF TypeOK
  <2>2. ASSUME NEW j \in 1..Len(q) PROVE q[j].n <= npub[r] /\ q[j].n \in Nat
    <3>1. q[j] \in Message
      BY <1>0, ElementOfSeq
    <3> QED BY <1>1, <3>1 DEF Counts, Message
  <2> QED BY <2>1, <2>2, PublishedGrows
<1>2. ASSUME sub[s].pc # "off", NEW e \in Message, e.n <= npub[r], sub'[s].q = Append(q, e)
      PROVE  sub'[s].q[i].n <= npub'[sub'[s].run]
  <2>1. e.n \in Nat
    BY DEF Message
  <2>2. Append(q, e)[i] = e \/ \E j \in 1..Len(q) : Append(q, e)[i] = q[j]
    BY <1>0, <1>2, AppendAt
  <2> HIDE DEF q, r
  <2> QED BY <1>1, <1>2, <2>1, <2>2
<1>3. ASSUME sub[s].pc # "off", sub'[s].q = q \/ sub'[s].q = <<>>
      PROVE  sub'[s].q[i].n <= npub'[sub'[s].run]
  <2> HIDE DEF r
  <2>1. CASE sub'[s].q = <<>>
    BY <2>1
  <2>2. CASE sub'[s].q = q
    BY <1>1, <1>3, <2>2
  <2> QED BY <1>3, <2>1, <2>2
<1>4. ASSUME sub[s].pc # "off", q # <<>>, sub'[s].q = Tail(q)
      PROVE  sub'[s].q[i].n <= npub'[sub'[s].run]
  <2>1. \E j \in 1..Len(q) : Tail(q)[i] = q[j]
    BY <1>0, <1>4, TailAt
  <2> HIDE DEF r, q
  <2> QED BY <1>1, <1>4, <2>1
<1>5. CASE sub'[s] = sub[s]
  BY <1>3, <1>5
<1>6. CASE Delivered(s)
  <2>1. sub'[s].pc = sub[s].pc /\ sub'[s].q = Append(q, Head(flight).m) /\ flight # <<>>
    BY <1>6, DeliveredLeaves
  <2>2. Head(flight).m \in Message /\ Head(flight) = flight[1] /\ 1 \in 1..Len(flight)
    BY <2>1, FlightHead
  <2>3. Head(flight).run = r /\ Head(flight).m.n <= npub[r]
    BY <1>6, <2>2 DEF Delivered, Addressed, Counts
  <2> QED BY <1>2, <2>1, <2>2, <2>3
<1>7. CASE Cut(s)
  <2>1. sub'[s].pc = sub[s].pc /\ sub'[s].q \in {q, Append(q, Done(0))}
    BY <1>7, CutLeaves
  <2>2. Done(0) \in Message /\ Done(0).n = 0
    BY Messages DEF Done
  <2>3. Done(0).n <= npub[r]
    BY <1>1, <2>1, <2>2
  <2> QED BY <1>2, <1>3, <2>1, <2>2, <2>3
<1>8. CASE JoinStart(s) \/ JoinGet(s) \/ Leaves(s)
  <2>1. CASE JoinStart(s)
    BY <1>3, <2>1, JoinStartLeaves
  <2>2. CASE JoinGet(s)
    BY <1>3, <1>4, <2>2, JoinGetLeaves
  <2>3. CASE Leaves(s)
    BY <1>3, <2>3, LeavesLeaves
  <2> QED BY <1>8, <2>1, <2>2, <2>3
<1>9. ASSUME NEW p \in Run, NEW c \in 0..NoCursor, Subscribe(s, p, c)
      PROVE  sub'[s].q[i].n <= npub'[sub'[s].run]
  <2> DEFINE a == IF Dropped(p) THEN <<Close>> ELSE <<>>
             b == IF ctl[p].listed THEN ctl[p].q ELSE <<>>
  <2>1. sub'[s].q = a \o b /\ sub'[s].run = p /\ npub' = npub
    BY <1>9, SubscribeLeaves
  <2>2. a \in Seq(Message) /\ b \in Seq(Message)
    <3>1. ctl[p].q \in Seq(Message)
      BY ControlSeq DEF TypeOK, Queue
    <3> QED BY <3>1, Messages, EmptySeq
  <2>3. Len(a) \in Nat /\ Len(b) \in Nat /\ i \in 1..(Len(a) + Len(b))
        /\ (a \o b)[i] = IF i <= Len(a) THEN a[i] ELSE b[i - Len(a)]
    <3> HIDE DEF a, b
    <3>1. Len(a \o b) = Len(a) + Len(b)
          /\ \A j \in 1..(Len(a) + Len(b)) : (a \o b)[j] = IF j <= Len(a) THEN a[j] ELSE b[j - Len(a)]
      BY <2>2, ConcatProperties
    <3> QED BY <2>1, <2>2, <3>1, LenProperties
  <2>4. npub[p] \in Nat
    BY DEF TypeOK
  <2>5. \A j \in 1..Len(a) : a[j].n <= npub[p]
    BY <2>4 DEF Close
  <2>6. \A j \in 1..Len(b) : b[j].n <= npub[p]
    BY DEF CtlCounts
  <2> HIDE DEF a, b
  <2> QED BY <2>1, <2>3, <2>4, <2>5, <2>6
<1> HIDE DEF q, r
<1> QED BY SubscriberSteps, <1>5, <1>6, <1>7, <1>8, <1>9 DEF OwnStep

\* What a step does to a stream that stays kept.
LEMMA StoredSteps ==
  ASSUME TypeOK, MarkedAbsent, [Next]_vars, NEW r \in Run, Kept(r)'
  PROVE  \/ stored'[r] = stored[r] /\ npub'[r] = npub[r]
         \/ \E m \in Message : /\ stored'[r] = Append(stored[r], m)
                               /\ \/ IsFrame(m, npub[r] + 1) /\ npub'[r] = npub[r] + 1
                                  \/ m.kind = "done" /\ m.n = npub[r] /\ npub'[r] = npub[r]
<1> USE DEF manager, worker, counters
<1>0. Kept(r) /\ ~Dropped(r) /\ r \notin pdel /\ Resumable
  BY KeptBefore DEF Kept
<1>1. ASSUME NEW q \in Run, Publish(q) \/ ExitStream(q), q # r
      PROVE  stored'[r] = stored[r] /\ npub'[r] = npub[r]
  BY <1>1 DEF Publish, ExitStream, PutStream, TypeOK
<1>2. ASSUME Publish(r) \/ ExitStream(r)
      PROVE  \E m \in Message : /\ stored'[r] = Append(stored[r], m)
                                /\ \/ IsFrame(m, npub[r] + 1) /\ npub'[r] = npub[r] + 1
                                   \/ m.kind = "done" /\ m.n = npub[r] /\ npub'[r] = npub[r]
  <2>1. PICK m \in Message :
           /\ PutStream(r, m)
           /\ \/ IsFrame(m, npub[r] + 1) /\ npub' = [npub EXCEPT ![r] = npub[r] + 1]
              \/ m.kind = "done" /\ m.n = npub[r] /\ npub' = npub
    BY <1>2, PutsStream
  <2>2. stored'[r] = Append(stored[r], m)
    BY <1>0, <2>1 DEF PutStream, TypeOK
  <2>3. \/ IsFrame(m, npub[r] + 1) /\ npub'[r] = npub[r] + 1
        \/ m.kind = "done" /\ m.n = npub[r] /\ npub'[r] = npub[r]
    BY <2>1 DEF TypeOK
  <2> QED BY <2>2, <2>3
<1>3. ASSUME NEW q \in Run, ExitLeave(q) PROVE stored'[r] = stored[r] /\ npub'[r] = npub[r]
  BY <1>0, <1>3 DEF ExitLeave, TypeOK
<1>4. ASSUME NEW rs \in SUBSET Run, Clears(rs) PROVE stored'[r] = stored[r] /\ npub'[r] = npub[r]
  <2>1. r \notin rs
    BY <1>4 DEF Clears, Kept
  <2> QED BY <1>4, <2>1 DEF Clears, SignalAndClear
<1>5. Still \/ Deliver \/ (\E q \in Run : ControlStep(q)) \/ (\E s \in Sub : OwnStep(s)) => UNCHANGED <<stored, npub>>
  BY DEF Still, Deliver, ControlStep, OwnStep, Subscribe, JoinStart, JoinGet, Leaves
<1> QED BY StreamSteps, <1>1, <1>2, <1>3, <1>4, <1>5 DEF OwnStep

\* The stored messages of a kept stream stay complete.
LEMMA StoredNext ==
  ASSUME TypeOK, StreamInv, [Next]_vars
  PROVE  StoredComplete'
<1> USE DEF StreamInv
<1> SUFFICES ASSUME NEW r \in Run, Kept(r)'
             PROVE  /\ \A n \in 1..npub'[r] : \E i \in 1..Len(stored'[r]) : IsFrame(stored'[r][i], n)
                    /\ \A i \in 1..Len(stored'[r]) : stored'[r][i].kind = "done" =>
                         \A n \in 1..stored'[r][i].n : \E j \in 1..(i - 1) : IsFrame(stored'[r][j], n)
  BY DEF StoredComplete, IsFrame
<1> DEFINE q == stored[r]
<1>0. q \in Seq(Message) /\ Len(q) \in Nat /\ npub[r] \in Nat
  BY LenProperties DEF TypeOK
<1>1. /\ \A n \in 1..npub[r] : \E i \in 1..Len(q) : IsFrame(q[i], n)
      /\ \A i \in 1..Len(q) : q[i].kind = "done" =>
           \A n \in 1..q[i].n : \E j \in 1..(i - 1) : IsFrame(q[j], n)
  BY KeptBefore DEF StoredComplete
<1>2. CASE stored'[r] = q /\ npub'[r] = npub[r]
  BY <1>1, <1>2
<1>3. ASSUME NEW m \in Message, stored'[r] = Append(q, m),
             \/ IsFrame(m, npub[r] + 1) /\ npub'[r] = npub[r] + 1
             \/ m.kind = "done" /\ m.n = npub[r] /\ npub'[r] = npub[r]
      PROVE  /\ \A n \in 1..npub'[r] : \E i \in 1..Len(stored'[r]) : IsFrame(stored'[r][i], n)
             /\ \A i \in 1..Len(stored'[r]) : stored'[r][i].kind = "done" =>
                  \A n \in 1..stored'[r][i].n : \E j \in 1..(i - 1) : IsFrame(stored'[r][j], n)
  <2> DEFINE p == Append(q, m)
  <2>1. Len(p) = Len(q) + 1 /\ p[Len(q) + 1] = m /\ \A i \in 1..Len(q) : p[i] = q[i]
    BY <1>0, AppendAt
  <2> HIDE DEF p, q
  <2>2. ASSUME NEW n \in 1..npub'[r] PROVE \E i \in 1..Len(p) : IsFrame(p[i], n)
    <3>1. CASE n \in 1..npub[r]
      BY <1>0, <1>1, <2>1, <3>1
    <3>2. CASE n \notin 1..npub[r]
      BY <1>0, <1>3, <2>1, <3>2
    <3> QED BY <3>1, <3>2
  <2>3. ASSUME NEW i \in 1..Len(p), p[i].kind = "done", NEW n \in 1..p[i].n
        PROVE  \E j \in 1..(i - 1) : IsFrame(p[j], n)
    <3>1. CASE i \in 1..Len(q)
      <4>1. p[i] = q[i]
        BY <2>1, <3>1
      <4>2. PICK j \in 1..(i - 1) : IsFrame(q[j], n)
        BY <1>1, <2>3, <3>1, <4>1
      <4> QED BY <1>0, <2>1, <3>1, <4>2
    <3>2. CASE i \notin 1..Len(q)
      <4>1. i = Len(q) + 1 /\ p[i] = m
        BY <1>0, <2>1, <3>2
      <4>2. m.n = npub[r]
        BY <1>3, <2>3, <4>1 DEF IsFrame
      <4>3. PICK j \in 1..Len(q) : IsFrame(q[j], n)
        BY <1>1, <4>1, <4>2
      <4> QED BY <1>0, <2>1, <4>1, <4>3
    <3> QED BY <3>1, <3>2
  <2> QED BY <1>3, <2>2, <2>3 DEF p
<1> HIDE DEF q
<1> QED BY StoredSteps, <1>2, <1>3 DEF q

\* The parts together.
LEMMA StreamInvNext == TypeOK /\ StreamInv /\ [Next]_vars => StreamInv'
<1> SUFFICES ASSUME TypeOK, StreamInv, [Next]_vars PROVE StreamInv'
  OBVIOUS
<1>1. CtlCounts' /\ MarkedAbsent'
  BY CtlCountsNext, MarkedNext DEF StreamInv
<1>2. Counts'
  BY QueueCountsNext, AddressedNext DEF Counts
<1> QED BY <1>1, <1>2, AddressedNext, StoredNext, ListedNext DEF StreamInv

----------------------------------------------------------------------------
\* A subscriber that has every frame misses none.
LEMMA FollowsReplay ==
  ASSUME NEW u \in Subscriber, NEW b \in Nat, NEW ms \in SUBSET Message,
         (u.cursor + 1)..b \subseteq u.got,
         \A i \in 1..Len(u.q) : u.q[i].n <= b, \A m \in ms : m.n <= b
  PROVE  Follows(u, b, ms)
<1>0. u.cursor \in Nat /\ u.q \in Seq(Message)
  BY StreamAssumption DEF Subscriber, NoCursor
<1>1. ASSUME NEW i \in 1..Len(u.q), NEW n \in (u.cursor + 1)..u.q[i].n PROVE n \in u.got
  <2>1. u.q[i] \in Message
    BY <1>0, ElementOfSeq
  <2>2. u.q[i].n \in Nat /\ u.q[i].n <= b
    BY <2>1 DEF Message
  <2> QED BY <1>0, <2>2
<1>2. ASSUME NEW m \in ms, NEW n \in (u.cursor + 1)..m.n PROVE n \in u.got
  <2>1. m.n \in Nat /\ m.n <= b
    BY DEF Message
  <2> QED BY <1>0, <2>1
<1> QED BY <1>1, <1>2 DEF Follows

\* It takes the first message of its queue.
LEMMA FollowsGet ==
  ASSUME NEW u \in Subscriber, NEW v \in Subscriber, NEW b \in Nat, NEW ms \in SUBSET Message,
         Follows(u, b, ms), u.q # <<>>, v.cursor = u.cursor, v.q = Tail(u.q),
         v.got = IF Head(u.q).kind = "frame" THEN u.got \cup {Head(u.q).n} ELSE u.got
  PROVE  Follows(v, b, ms)
<1> DEFINE q == u.q
           p == v.q
<1>0. /\ q \in Seq(Message) /\ Len(q) \in Nat \ {0} /\ Head(q) = q[1] /\ Len(p) = Len(q) - 1
      /\ \A i \in 1..Len(p) : p[i] = q[i + 1]
  <2>1. q \in Seq(Message)
    BY DEF Subscriber
  <2> QED BY <2>1, TailAt
<1> HIDE DEF q, p
<1>1. ASSUME NEW n, NEW k \in 1..Len(q), n \in u.got \/ InQueue(q, n, k)
      PROVE  n \in v.got \/ InQueue(p, n, k - 1)
  <2>1. CASE n \in u.got
    BY <2>1
  <2>2. ASSUME NEW j \in 1..k, IsFrame(q[j], n) PROVE n \in v.got \/ InQueue(p, n, k - 1)
    <3>1. CASE j = 1
      BY <1>0, <2>2, <3>1 DEF IsFrame, q
    <3>2. CASE j # 1
      <4>1. j - 1 \in 1..(k - 1) /\ j - 1 \in 1..Len(p) /\ p[j - 1] = q[j]
        BY <1>0, <3>2
      <4> QED BY <2>2, <4>1 DEF InQueue
    <3> QED BY <3>1, <3>2
  <2> QED BY <1>1, <2>1, <2>2 DEF InQueue
<1>2. ASSUME NEW n, n \in u.got \/ InQueue(q, n, Len(q)) PROVE n \in v.got \/ InQueue(p, n, Len(p))
  <2>1. Len(q) \in 1..Len(q) /\ Len(q) - 1 = Len(p)
    BY <1>0
  <2> QED BY <1>1, <1>2, <2>1
<1>3. ASSUME NEW i \in 1..Len(p), p[i].kind = "done", NEW n \in (v.cursor + 1)..p[i].n
      PROVE  n \in v.got \/ InQueue(p, n, i - 1)
  <2>1. i + 1 \in 1..Len(q) /\ p[i] = q[i + 1] /\ (i + 1) - 1 = i /\ i \in 1..Len(q)
    BY <1>0
  <2>2. n \in u.got \/ InQueue(q, n, i)
    BY <1>3, <2>1 DEF Follows, q
  <2> QED BY <1>1, <2>1, <2>2
<1> QED BY <1>2, <1>3 DEF Follows, q, p

\* A message in flight arrives in its queue.
LEMMA FollowsDeliver ==
  ASSUME NEW u \in Subscriber, NEW v \in Subscriber, NEW b \in Nat, NEW ms \in SUBSET Message,
         NEW ns \in SUBSET ms, NEW m \in ms, ms \subseteq ns \cup {m},
         Follows(u, b, ms), v.cursor = u.cursor, v.got = u.got, v.q = Append(u.q, m)
  PROVE  Follows(v, b, ns)
<1> DEFINE q == u.q
           p == v.q
<1>0. /\ q \in Seq(Message) /\ Len(q) \in Nat /\ Len(p) = Len(q) + 1 /\ p[Len(q) + 1] = m
      /\ \A i \in 1..Len(q) : p[i] = q[i]
  <2>1. q \in Seq(Message)
    BY DEF Subscriber
  <2> QED BY <2>1, AppendAt
<1> HIDE DEF q, p
<1>1. ASSUME NEW n, NEW k \in 0..Len(q), NEW l \in k..Len(p), InQueue(q, n, k) PROVE InQueue(p, n, l)
  <2>1. PICK j \in 1..k : IsFrame(q[j], n)
    BY <1>1 DEF InQueue
  <2>2. j \in 1..l /\ p[j] = q[j]
    BY <1>0
  <2> QED BY <2>1, <2>2 DEF InQueue
<1>2. Len(q) \in 0..Len(q) /\ Len(p) \in Len(q)..Len(p) /\ Len(q) \in Len(q)..Len(p)
  BY <1>0
<1>3. ASSUME NEW n \in (v.cursor + 1)..b
      PROVE  n \in v.got \/ InQueue(p, n, Len(p)) \/ \E x \in ns : IsFrame(x, n)
  <2>1. CASE IsFrame(m, n)
    <3>1. Len(q) + 1 \in 1..Len(p)
      BY <1>0
    <3> QED BY <1>0, <2>1, <3>1 DEF InQueue
  <2>2. CASE ~IsFrame(m, n)
    BY <1>1, <1>2, <2>2 DEF Follows, q
  <2> QED BY <2>1, <2>2
<1>4. ASSUME NEW i \in 1..Len(p), p[i].kind = "done", NEW n \in (v.cursor + 1)..p[i].n
      PROVE  n \in v.got \/ InQueue(p, n, i - 1)
  <2>1. CASE i \in 1..Len(q)
    <3>1. p[i] = q[i] /\ i - 1 \in 0..Len(q) /\ i - 1 \in (i - 1)..Len(p)
      BY <1>0, <2>1
    <3>2. n \in u.got \/ InQueue(q, n, i - 1)
      BY <1>4, <2>1, <3>1 DEF Follows, q
    <3> QED BY <1>1, <3>1, <3>2
  <2>2. CASE i \notin 1..Len(q)
    <3>1. i - 1 = Len(q) /\ p[i] = m
      BY <1>0, <2>2
    <3>2. n \in u.got \/ InQueue(q, n, Len(q))
      BY <1>4, <3>1 DEF Follows, q
    <3> QED BY <1>1, <1>2, <3>1, <3>2
  <2> QED BY <2>1, <2>2
<1>5. ASSUME NEW x \in ns, x.kind = "done", NEW n \in (v.cursor + 1)..x.n
      PROVE  n \in v.got \/ InQueue(p, n, Len(p))
  BY <1>1, <1>2, <1>5 DEF Follows, q
<1> QED BY <1>3, <1>4, <1>5 DEF Follows, p

\* A new frame is put.
LEMMA FollowsPublish ==
  ASSUME NEW u \in Subscriber, NEW b \in Nat, NEW ms, NEW m, Follows(u, b, ms), IsFrame(m, b + 1)
  PROVE  Follows(u, b + 1, ms \cup {m})
<1>0. u.cursor \in Nat
  BY StreamAssumption DEF Subscriber, NoCursor
<1>1. \A n \in (u.cursor + 1)..(b + 1) : n \in (u.cursor + 1)..b \/ n = b + 1
  BY <1>0
<1> QED BY <1>1 DEF Follows, IsFrame

\* "done" is put when no frame is in flight.
LEMMA FollowsDone ==
  ASSUME NEW u \in Subscriber, NEW b \in Nat, NEW ms, NEW m, Follows(u, b, ms), m.kind = "done", m.n = b,
         \A x \in ms : x.kind # "frame"
  PROVE  Follows(u, b, ms \cup {m})
<1>1. ASSUME NEW n \in (u.cursor + 1)..b PROVE n \in u.got \/ InQueue(u.q, n, Len(u.q))
  BY DEF Follows, IsFrame
<1> QED BY <1>1 DEF Follows

\* Messages in flight to a subscriber are messages.
LEMMA PendingType == ASSUME TypeOK, NEW s PROVE Pending(s) \in SUBSET Message
<1>1. ASSUME NEW i \in 1..Len(flight) PROVE flight[i].m \in Message
  <2>1. flight[i] \in Put
    BY ElementOfSeq DEF TypeOK
  <2> QED BY <2>1, Messages DEF Put
<1> QED BY <1>1 DEF Pending

\* A put leaves in flight what was, and adds its message for those it found.
LEMMA PendingAppend ==
  ASSUME TypeOK, NEW f \in Put, flight' = Append(flight, f), NEW s \in Sub
  PROVE  Pending(s)' = IF s \in f.to THEN Pending(s) \cup {f.m} ELSE Pending(s)
<1>1. /\ Len(flight) \in Nat /\ Len(flight') = Len(flight) + 1 /\ flight'[Len(flight) + 1] = f
      /\ \A i \in 1..Len(flight) : flight'[i] = flight[i]
  <2>1. flight \in Seq(Put)
    BY DEF TypeOK
  <2> QED BY <2>1, AppendAt
<1>2. ASSUME NEW x \in Pending(s) PROVE x \in Pending(s)'
  <2>1. PICK i \in 1..Len(flight) : s \in flight[i].to /\ x = flight[i].m
    BY DEF Pending
  <2>2. i \in 1..Len(flight') /\ s \in flight'[i].to /\ x = flight'[i].m
    BY <1>1, <2>1
  <2> QED BY <2>2 DEF Pending
<1>3. ASSUME NEW x \in Pending(s)' PROVE x \in Pending(s) \/ (s \in f.to /\ x = f.m)
  <2>1. PICK i \in 1..Len(flight') : s \in flight'[i].to /\ x = flight'[i].m
    BY DEF Pending
  <2>2. CASE i \in 1..Len(flight)
    BY <1>1, <2>1, <2>2 DEF Pending
  <2>3. CASE i \notin 1..Len(flight)
    <3>1. flight'[i] = f
      BY <1>1, <2>3
    <3> QED BY <2>1, <3>1
  <2> QED BY <2>2, <2>3
<1>4. s \in f.to => f.m \in Pending(s)'
  <2>1. Len(flight) + 1 \in 1..Len(flight')
    BY <1>1
  <2> QED BY <1>1, <2>1 DEF Pending
<1> QED BY <1>2, <1>3, <1>4

\* What a step does to the messages in flight to a subscriber of a kept stream.
LEMMA PendingSteps ==
  ASSUME TypeOK, StreamInv, [Next]_vars, NEW s \in Sub, NEW r \in Run, sub[s].pc = "live",
         sub[s].run = r, Kept(r)'
  PROVE  \/ Pending(s)' = Pending(s) /\ npub'[r] = npub[r]
         \/ /\ Delivered(s) /\ Head(flight).m \in Pending(s) /\ npub'[r] = npub[r]
            /\ Pending(s)' \subseteq Pending(s) /\ Pending(s) \subseteq Pending(s)' \cup {Head(flight).m}
         \/ \E m \in Message : /\ Pending(s)' = Pending(s) \cup {m} /\ sub'[s] = sub[s]
                               /\ IsFrame(m, npub[r] + 1) /\ npub'[r] = npub[r] + 1
         \/ \E m \in Message : /\ Pending(s)' = Pending(s) \cup {m} /\ sub'[s] = sub[s]
                               /\ m.kind = "done" /\ m.n = npub[r] /\ npub'[r] = npub[r]
                               /\ \A x \in Pending(s) : x.kind # "frame"
<1> USE DEF manager, worker, counters
<1> DEFINE Same == Pending(s)' = Pending(s) /\ npub'[r] = npub[r]
           Arrives == /\ Delivered(s) /\ Head(flight).m \in Pending(s) /\ npub'[r] = npub[r]
                      /\ Pending(s)' \subseteq Pending(s)
                      /\ Pending(s) \subseteq Pending(s)' \cup {Head(flight).m}
           Grows(m) == Pending(s)' = Pending(s) \cup {m} /\ sub'[s] = sub[s]
           Added == \E m \in Message : Grows(m) /\ IsFrame(m, npub[r] + 1) /\ npub'[r] = npub[r] + 1
           Closed == \E m \in Message : /\ Grows(m) /\ m.kind = "done" /\ m.n = npub[r] /\ npub'[r] = npub[r]
                                        /\ \A x \in Pending(s) : x.kind # "frame"
<1>0. /\ Kept(r) /\ ~Dropped(r) /\ sub[s].listed /\ s \in Listed(r)
      /\ flight \in Seq(Put) /\ Len(flight) \in Nat
  <2>1. Kept(r) /\ ~Dropped(r)
    BY KeptBefore DEF StreamInv
  <2>2. sub[s].listed
    BY <2>1 DEF StreamInv, JoinedListed
  <2> QED BY <2>1, <2>2, LenProperties DEF TypeOK, Listed
<1>1. ASSUME UNCHANGED <<flight, npub>> PROVE Same
  BY <1>1 DEF Pending
<1>2. ASSUME NEW p \in Run, ExitLeave(p) PROVE Same
  <2>1. ASSUME NEW i \in 1..Len(flight)
        PROVE  i \in 1..Len(flight') /\ flight'[i].m = flight[i].m /\ flight'[i].to = flight[i].to
    <3>1. flight[i] \in Put
      BY <1>0, ElementOfSeq
    <3>2. /\ flight'[i] = IF flight[i].run = p THEN [flight[i] EXCEPT !.ctl = FALSE] ELSE flight[i]
          /\ Len(flight') = Len(flight)
      BY <1>0, <1>2 DEF ExitLeave
    <3> QED BY <3>1, <3>2 DEF Put
  <2>2. Len(flight') = Len(flight) /\ npub' = npub
    BY <1>0, <1>2 DEF ExitLeave
  <2> QED BY <2>1, <2>2 DEF Pending
<1>3. ASSUME Deliver PROVE Same \/ Arrives
  <2>1. flight # <<>> /\ flight' = Tail(flight) /\ npub' = npub
    BY <1>3 DEF Deliver
  <2>2. /\ Head(flight) = flight[1] /\ 1 \in 1..Len(flight) /\ Len(flight') = Len(flight) - 1
        /\ \A i \in 1..Len(flight') : i + 1 \in 1..Len(flight) /\ flight'[i] = flight[i + 1]
    BY <2>1, FlightHead
  <2>3. Pending(s)' \subseteq Pending(s)
    BY <2>2 DEF Pending
  <2>4. ASSUME NEW x \in Pending(s)
        PROVE  x \in Pending(s)' \/ (s \in Head(flight).to /\ x = Head(flight).m)
    <3>1. PICK i \in 1..Len(flight) : s \in flight[i].to /\ x = flight[i].m
      BY DEF Pending
    <3>2. CASE i = 1
      BY <2>2, <3>1, <3>2
    <3>3. CASE i # 1
      <4>1. i - 1 \in 1..Len(flight') /\ (i - 1) + 1 = i
        BY <1>0, <2>2, <3>3
      <4>2. flight'[i - 1] = flight[i]
        BY <2>2, <4>1
      <4> QED BY <3>1, <4>1, <4>2 DEF Pending
    <3> QED BY <3>2, <3>3
  <2>5. CASE s \in Head(flight).to
    <3>1. Head(flight).m \in Pending(s)
      BY <2>2, <2>5 DEF Pending
    <3>2. Delivered(s)
      BY <1>3, <2>5 DEF Delivered, Deliver
    <3> QED BY <2>1, <2>3, <2>4, <3>1, <3>2
  <2>6. CASE s \notin Head(flight).to
    BY <2>1, <2>3, <2>4, <2>6
  <2> QED BY <2>5, <2>6
<1>4. ASSUME NEW p \in Run, ControlStep(p) PROVE Same
  <2>1. npub' = npub
    BY <1>4 DEF ControlStep
  <2>2. ASSUME NEW m \in ControlMessage,
               flight' = Append(flight, [run |-> p, m |-> m, to |-> {}, ctl |-> TRUE])
        PROVE  Pending(s)' = Pending(s)
    <3> DEFINE f == [run |-> p, m |-> m, to |-> {}, ctl |-> TRUE]
    <3>1. f \in Put
      BY DEF Put
    <3>2. s \notin f.to /\ flight' = Append(flight, f)
      BY <2>2
    <3> HIDE DEF f
    <3> QED BY <3>1, <3>2, PendingAppend
  <2> QED BY <1>1, <1>4, <2>1, <2>2 DEF ControlStep
<1>5. ASSUME NEW p \in Run, Publish(p) \/ ExitStream(p) PROVE Same \/ Added \/ Closed
  <2>1. PICK m \in Message :
           /\ PutStream(p, m)
           /\ \/ IsFrame(m, npub[p] + 1) /\ npub' = [npub EXCEPT ![p] = npub[p] + 1]
              \/ m.kind = "done" /\ m.n = npub[p] /\ npub' = npub
           /\ ~Awaits(p) /\ UNCHANGED <<stopped, st, sub>>
    BY <1>5, PutsStream
  <2> DEFINE f == [run |-> p, m |-> m, to |-> Listed(p), ctl |-> FALSE]
  <2>2. f \in Put /\ f.to = Listed(p) /\ f.m = m /\ (flight' = flight \/ flight' = Append(flight, f))
    BY <2>1 DEF Put, Listed, PutStream
  <2>3. p = r => flight' = Append(flight, f)
    BY <1>0, <2>1 DEF PutStream
  <2> HIDE DEF f
  <2>4. CASE p # r
    <3>1. s \notin f.to /\ npub'[r] = npub[r]
      BY <2>1, <2>2, <2>4 DEF Listed, TypeOK
    <3>2. Pending(s)' = Pending(s)
      <4>1. CASE flight' = flight
        BY <4>1 DEF Pending
      <4>2. CASE flight' = Append(flight, f)
        BY <2>2, <3>1, <4>2, PendingAppend
      <4> QED BY <2>2, <4>1, <4>2
    <3> QED BY <3>1, <3>2
  <2>5. CASE p = r
    <3>1. Pending(s)' = Pending(s) \cup {m} /\ sub'[s] = sub[s]
      BY <1>0, <2>1, <2>2, <2>3, <2>5, PendingAppend
    <3>2. CASE IsFrame(m, npub[p] + 1) /\ npub' = [npub EXCEPT ![p] = npub[p] + 1]
      <4>1. npub'[r] = npub[r] + 1
        BY <2>5, <3>2 DEF TypeOK
      <4> QED BY <2>5, <3>1, <3>2, <4>1
    <3>3. CASE m.kind = "done" /\ m.n = npub[p] /\ npub' = npub
      <4>1. ASSUME NEW x \in Pending(s), x.kind = "frame" PROVE FALSE
        <5>1. PICK i \in 1..Len(flight) : s \in flight[i].to /\ x = flight[i].m
          BY DEF Pending
        <5>2. flight[i].run = r
          BY <5>1 DEF StreamInv, Addressed
        <5> QED BY <2>1, <2>5, <4>1, <5>1, <5>2 DEF Awaits, Cancels
      <4> QED BY <2>5, <3>1, <3>3, <4>1
    <3> QED BY <2>1, <3>2, <3>3
  <2> QED BY <2>4, <2>5
<1>6. Still \/ (\E rs \in SUBSET Run : Clears(rs)) \/ (\E u \in Sub : OwnStep(u)) => UNCHANGED <<flight, npub>>
  BY DEF Still, Clears, OwnStep, Subscribe, JoinStart, JoinGet, Leaves
<1> HIDE DEF Same, Arrives, Added, Closed
<1>7. Same \/ Arrives \/ Added \/ Closed
  BY StreamSteps, <1>1, <1>2, <1>3, <1>4, <1>5, <1>6 DEF OwnStep
<1> QED BY <1>7 DEF Same, Arrives, Added, Closed, Grows

\* The replay of a kept stream gives every frame after the cursor, or those
\* that the "done" it ends with counts.
LEMMA ReplayComplete ==
  ASSUME TypeOK, StreamInv, NEW s \in Sub, JoinStart(s), Kept(sub[s].run), sub[s].cursor # NoCursor
  PROVE  /\ sub'[s].pc = "live" => (sub[s].cursor + 1)..npub[sub[s].run] \subseteq sub'[s].got
         /\ sub'[s].pc = "over" => (sub[s].cursor + 1)..sub'[s].upto \subseteq sub'[s].got
<1> DEFINE r == sub[s].run
           c == sub[s].cursor
           ms == stored[r]
           all == Replayed(r, c)
           ends == {i \in all : ms[i].kind = "done"}
           seen == {ms[i].n : i \in {j \in all : \A d \in ends : j < d}}
<1>0. sub[s] \in Subscriber /\ sub \in [Sub -> Subscriber] /\ sub[s].pc = "sub" /\ r \in Run
  BY DEF TypeOK, JoinStart
<1>1. c \in Nat /\ npub[r] \in Nat /\ ms \in Seq(Message) /\ Len(ms) \in Nat
  <2>1. c \in Nat
    BY <1>0, StreamAssumption DEF Subscriber, NoCursor
  <2> QED BY <1>0, <2>1, LenProperties DEF TypeOK
<1>2. /\ \A n \in 1..npub[r] : \E i \in 1..Len(ms) : IsFrame(ms[i], n)
      /\ \A i \in 1..Len(ms) : ms[i].kind = "done" =>
           \A n \in 1..ms[i].n : \E j \in 1..(i - 1) : IsFrame(ms[j], n)
  BY <1>0 DEF StreamInv, StoredComplete
<1>3. all = {i \in 1..Len(ms) : After(ms[i], c)}
  BY DEF Replayed
<1>4. ASSUME NEW n \in Nat, n > c, NEW i \in 1..Len(ms), IsFrame(ms[i], n) PROVE i \in all /\ ms[i].n = n
  BY <1>3, <1>4 DEF IsFrame, After
<1> HIDE DEF all, ms
<1>5. CASE ends = {} /\ sub' = [sub EXCEPT ![s].pc = "live", ![s].got = seen]
  <2>1. sub'[s].pc = "live" /\ sub'[s].got = seen
    BY <1>0, <1>5 DEF Subscriber
  <2>2. ASSUME NEW n \in (c + 1)..npub[r] PROVE n \in seen
    <3>1. n \in Nat /\ n > c /\ n \in 1..npub[r]
      BY <1>1
    <3>2. PICK i \in 1..Len(ms) : IsFrame(ms[i], n)
      BY <1>2, <3>1
    <3>3. i \in all /\ ms[i].n = n
      BY <1>4, <3>1, <3>2
    <3> QED BY <1>5, <3>3
  <2> QED BY <2>1, <2>2
<1>6. ASSUME NEW d \in ends, \A e \in ends : d <= e,
             sub' = [sub EXCEPT ![s] = [Ended(sub[s], ms[d].n) EXCEPT !.got = seen]]
      PROVE  sub'[s].pc = "over" /\ (c + 1)..sub'[s].upto \subseteq sub'[s].got
  <2>1. sub'[s].pc = "over" /\ sub'[s].got = seen /\ sub'[s].upto = ms[d].n
    BY <1>0, <1>6 DEF Subscriber, Ended
  <2>2. d \in 1..Len(ms) /\ ms[d].kind = "done" /\ ms[d].n \in Nat
    <3>1. d \in 1..Len(ms) /\ ms[d].kind = "done"
      BY <1>3
    <3>2. ms[d] \in Message
      BY <1>1, <3>1, ElementOfSeq
    <3> QED BY <3>1, <3>2 DEF Message
  <2>3. ASSUME NEW n \in (c + 1)..ms[d].n PROVE n \in seen
    <3>1. n \in Nat /\ n > c /\ n \in 1..ms[d].n
      BY <1>1, <2>2
    <3>2. PICK i \in 1..(d - 1) : IsFrame(ms[i], n)
      BY <1>2, <2>2, <3>1
    <3>3. i \in 1..Len(ms) /\ i < d
      BY <1>1, <2>2
    <3>4. i \in all /\ ms[i].n = n
      BY <1>4, <3>1, <3>2, <3>3
    <3>5. \A e \in ends : i < e
      <4>1. \A e \in ends : e \in Nat /\ d <= e
        BY <1>1, <1>3, <1>6
      <4> QED BY <2>2, <3>3, <4>1
    <3> QED BY <3>4, <3>5
  <2> QED BY <2>1, <2>3
<1>7. \/ ends = {} /\ sub' = [sub EXCEPT ![s].pc = "live", ![s].got = seen]
      \/ \E d \in ends : /\ \A e \in ends : d <= e
                         /\ sub' = [sub EXCEPT ![s] = [Ended(sub[s], ms[d].n) EXCEPT !.got = seen]]
  BY DEF JoinStart, all, ms
<1> HIDE DEF ends, seen
<1> QED BY <1>5, <1>6, <1>7

\* Every step leaves subscribers after their replay missing nothing.
LEMMA LiveNext == TypeOK /\ StreamInv /\ LiveFollows /\ [Next]_vars => LiveFollows'
<1> SUFFICES ASSUME TypeOK, StreamInv, LiveFollows, [Next]_vars, NEW s \in Sub,
                    sub'[s].pc = "live", Kept(sub[s].run)', sub'[s].cursor # NoCursor
             PROVE  Follows(sub'[s], npub'[sub'[s].run], Pending(s)')
  BY DEF LiveFollows
<1> DEFINE u == sub[s]
           v == sub'[s]
           b == npub[sub[s].run]
<1>0. TypeOK'
  BY TypeNext
<1>1. u \in Subscriber /\ v \in Subscriber /\ Pending(s) \in SUBSET Message /\ MarkedAbsent
  BY <1>0, PendingType DEF TypeOK, StreamInv
<1>2. u.pc \in {"sub", "live"} /\ v.run = u.run /\ v.cursor = u.cursor
  <2>1. u.pc # "off"
    <3> SUFFICES ASSUME u.pc = "off" PROVE FALSE
      OBVIOUS
    <3>1. CASE v = u
      BY <3>1
    <3>2. CASE Delivered(s)
      BY <3>2, DeliveredLeaves
    <3>3. CASE Cut(s)
      BY <3>3, CutLeaves
    <3>4. ASSUME NEW r \in Run, NEW c \in 0..NoCursor, Subscribe(s, r, c) PROVE FALSE
      BY <3>4, SubscribeLeaves
    <3>5. CASE JoinStart(s) \/ JoinGet(s) \/ Leaves(s)
      BY <3>5 DEF JoinStart, JoinGet, Leaves
    <3> QED BY <1>1, SubscriberSteps, <3>1, <3>2, <3>3, <3>4, <3>5 DEF OwnStep
  <2>2. u.pc # "over"
    <3> SUFFICES ASSUME u.pc = "over" PROVE FALSE
      OBVIOUS
    <3>1. CASE v = u
      BY <3>1
    <3>2. CASE Delivered(s)
      BY <3>2, DeliveredLeaves
    <3>3. CASE Cut(s)
      BY <3>3, CutLeaves
    <3>4. CASE OwnStep(s)
      BY <3>4 DEF OwnStep, Subscribe, JoinStart, JoinGet, Leaves
    <3> QED BY <1>1, SubscriberSteps, <3>1, <3>2, <3>3, <3>4
  <2> QED BY <1>1, <2>1, <2>2, RunKept DEF Subscriber
<1>3. u.run \in Run /\ \A r \in Run : r = u.run => Kept(r)'
  BY <1>2 DEF TypeOK, Kept
<1>4. Kept(u.run) /\ b \in Nat /\ npub'[v.run] = npub'[u.run]
  BY <1>1, <1>2, <1>3, KeptBefore DEF TypeOK
<1>5. CASE JoinStart(s)
  <2>1. /\ v.pc = "live" /\ v.q = u.q /\ UNCHANGED <<flight, npub>>
    BY <1>5, JoinStartLeaves
  <2>2. (v.cursor + 1)..b \subseteq v.got
    BY <1>2, <1>4, <1>5, <2>1, ReplayComplete
  <2>3. \A i \in 1..Len(v.q) : v.q[i].n <= b
    BY <1>2, <2>1 DEF StreamInv, Counts
  <2>4. Pending(s)' = Pending(s) /\ npub'[v.run] = b
    BY <1>2, <2>1 DEF Pending
  <2>5. \A m \in Pending(s) : m.n <= b
    BY DEF Pending, StreamInv, Counts, Addressed
  <2> HIDE DEF v, b
  <2>6. Follows(v, b, Pending(s))
    BY <1>1, <1>4, <2>2, <2>3, <2>5, FollowsReplay
  <2> QED BY <2>4, <2>6 DEF v
<1>6. ASSUME u.pc = "live" PROVE Follows(u, b, Pending(s))
  BY <1>2, <1>4, <1>6 DEF LiveFollows
<1>7. CASE JoinGet(s)
  <2>1. /\ u.pc = "live" /\ u.q # <<>> /\ v.q = Tail(u.q)
        /\ v.got = IF Head(u.q).kind = "frame" THEN u.got \cup {Head(u.q).n} ELSE u.got
        /\ UNCHANGED <<flight, npub>>
    BY <1>7, JoinGetLeaves
  <2>2. Pending(s)' = Pending(s) /\ npub'[v.run] = b
    BY <1>2, <2>1 DEF Pending
  <2>3. Follows(v, b, Pending(s))
    <3> HIDE DEF u, v, b
    <3> QED BY <1>1, <1>2, <1>4, <1>6, <2>1, FollowsGet
  <2> QED BY <2>2, <2>3
<1>8. CASE u.pc = "live" /\ ~JoinGet(s)
  <2>1. v = u \/ Delivered(s)
    <3>1. ~Cut(s)
      BY <1>3, CutLeaves
    <3>2. ~OwnStep(s)
      <4>1. ASSUME Leaves(s) PROVE FALSE
        BY <4>1, LeavesLeaves
      <4> QED BY <1>8, <4>1 DEF OwnStep, Subscribe, JoinStart
    <3> QED BY <1>1, <3>1, <3>2, SubscriberSteps
  <2>2. CASE Pending(s)' = Pending(s) /\ npub'[u.run] = b /\ v = u
    BY <1>2, <1>6, <1>8, <2>2
  <2>3. ASSUME Delivered(s), Head(flight).m \in Pending(s), npub'[u.run] = b,
               Pending(s)' \subseteq Pending(s), Pending(s) \subseteq Pending(s)' \cup {Head(flight).m}
        PROVE  Follows(v, npub'[v.run], Pending(s)')
    <3>1. v.got = u.got /\ v.q = Append(u.q, Head(flight).m)
      BY <2>3, DeliveredLeaves
    <3>2. Follows(v, b, Pending(s)')
      <4> DEFINE ns == Pending(s)'
                 m == Head(flight).m
      <4>1. ns \in SUBSET Pending(s) /\ m \in Pending(s) /\ Pending(s) \subseteq ns \cup {m} /\ v.q = Append(u.q, m)
        BY <2>3, <3>1
      <4>2. Follows(u, b, Pending(s))
        BY <1>6, <1>8
      <4> HIDE DEF ns, m, u, v, b
      <4>3. Follows(v, b, ns)
        BY <1>1, <1>2, <1>4, <3>1, <4>1, <4>2, FollowsDeliver
      <4> QED BY <4>3 DEF ns
    <3> QED BY <1>2, <2>3, <3>2
  <2>4. ASSUME NEW m \in Message, Pending(s)' = Pending(s) \cup {m}, v = u,
               IsFrame(m, b + 1), npub'[u.run] = b + 1
        PROVE  Follows(v, npub'[v.run], Pending(s)')
    <3>1. Follows(u, b + 1, Pending(s) \cup {m})
      <4> HIDE DEF u, b
      <4> QED BY <1>1, <1>4, <1>6, <1>8, <2>4, FollowsPublish DEF u
    <3> QED BY <1>2, <2>4, <3>1
  <2>5. ASSUME NEW m \in Message, Pending(s)' = Pending(s) \cup {m}, v = u, m.kind = "done", m.n = b,
               npub'[u.run] = b, \A x \in Pending(s) : x.kind # "frame"
        PROVE  Follows(v, npub'[v.run], Pending(s)')
    <3>1. Follows(u, b, Pending(s) \cup {m})
      <4> HIDE DEF u, b
      <4> QED BY <1>1, <1>4, <1>6, <1>8, <2>5, FollowsDone DEF u
    <3> QED BY <1>2, <2>5, <3>1
  <2>6. CASE Pending(s)' = Pending(s) /\ npub'[u.run] = b /\ Delivered(s)
    <3>1. Head(flight) = flight[1] /\ 1 \in 1..Len(flight) /\ s \in Head(flight).to
      BY <2>6, FlightHead DEF Delivered, Deliver
    <3>2. Head(flight).m \in Pending(s)
      BY <3>1 DEF Pending
    <3> QED BY <2>3, <2>6, <3>2
  <2> QED BY <1>3, <1>8, <2>1, <2>2, <2>3, <2>4, <2>5, <2>6, PendingSteps
<1>9. ASSUME u.pc = "sub" PROVE JoinStart(s)
  <2>1. ~(v = u)
    BY <1>9
  <2>2. ~Delivered(s)
    BY <1>9, DeliveredLeaves
  <2>3. ~Cut(s)
    BY <1>9, CutLeaves
  <2>4. OwnStep(s) => JoinStart(s)
    BY <1>9 DEF OwnStep, Subscribe, JoinGet, Leaves
  <2> QED BY <1>1, <2>1, <2>2, <2>3, <2>4, SubscriberSteps
<1> QED BY <1>2, <1>5, <1>7, <1>8, <1>9

\* A subscriber that ends with "done" has what the "done" counts.
LEMMA ResumeNext ==
  ASSUME TypeOK, StreamInv, LiveFollows, ResumeComplete, [Next]_vars
  PROVE  ResumeComplete'
<1> SUFFICES ASSUME NEW s \in Sub, sub'[s].end = "done", sub'[s].cursor # NoCursor, Kept(sub[s].run)'
             PROVE  (sub'[s].cursor + 1)..sub'[s].upto \subseteq sub'[s].got
  BY DEF ResumeComplete, Kept
<1>0. MarkedAbsent /\ sub[s] \in Subscriber /\ (sub[s].pc # "over" => sub[s].end # "done")
  BY DEF StreamInv, JoinedListed, TypeOK
<1>1. ASSUME sub[s].pc # "off"
      PROVE  sub[s].run \in Run /\ Kept(sub[s].run) /\ sub'[s].cursor = sub[s].cursor
  <2>1. sub'[s].run = sub[s].run /\ sub'[s].cursor = sub[s].cursor /\ sub[s].run \in Run
    BY <1>0, <1>1, RunKept DEF TypeOK
  <2>2. \A r \in Run : r = sub[s].run => Kept(r)'
    BY <2>1 DEF Kept
  <2> QED BY <1>0, <2>1, <2>2, KeptBefore
<1>2. ASSUME sub'[s].end = sub[s].end, sub'[s].upto = sub[s].upto, sub'[s].got = sub[s].got
      PROVE  (sub'[s].cursor + 1)..sub'[s].upto \subseteq sub'[s].got
  BY <1>0, <1>1, <1>2 DEF ResumeComplete, Kept
<1>3. CASE sub'[s] = sub[s]
  BY <1>2, <1>3
<1>4. CASE Delivered(s)
  BY <1>2, <1>4, DeliveredLeaves
<1>5. CASE Cut(s)
  <2>1. /\ sub'[s].run = sub[s].run /\ sub[s].run \in Run
        /\ \A r \in Run : r = sub[s].run => ~Kept(r)'
    BY <1>5, CutLeaves
  <2> QED BY <2>1 DEF Kept
<1>6. ASSUME NEW r \in Run, NEW c \in 0..NoCursor, Subscribe(s, r, c) PROVE FALSE
  BY <1>6, SubscribeLeaves
<1>7. CASE JoinStart(s)
  <2>1. sub[s].pc = "sub" /\ sub'[s].pc = "over"
    BY <1>0, <1>7, JoinStartLeaves
  <2> QED BY <1>1, <1>7, <2>1, ReplayComplete
<1>8. CASE JoinGet(s)
  <2> DEFINE q == sub[s].q
  <2>1. /\ sub[s].pc = "live" /\ q # <<>> /\ Head(q).kind = "done" /\ sub'[s].upto = Head(q).n
        /\ sub'[s].got = sub[s].got
    BY <1>0, <1>8, JoinGetLeaves
  <2>2. Follows(sub[s], npub[sub[s].run], Pending(s))
    BY <1>1, <2>1 DEF LiveFollows
  <2>3. Head(q) = q[1] /\ 1 \in 1..Len(q)
    <3>1. q \in Seq(Message)
      BY <1>0 DEF Subscriber
    <3> QED BY <2>1, <3>1, TailAt
  <2>4. \A n \in (sub[s].cursor + 1)..Head(q).n : n \in sub[s].got \/ InQueue(q, n, 1 - 1)
    BY <2>1, <2>2, <2>3 DEF Follows
  <2>5. \A n : ~InQueue(q, n, 1 - 1)
    BY DEF InQueue
  <2> QED BY <1>1, <2>1, <2>4, <2>5
<1>9. CASE Leaves(s)
  BY <1>9, LeavesLeaves
<1> QED BY <1>0, SubscriberSteps, <1>3, <1>4, <1>5, <1>6, <1>7, <1>8, <1>9 DEF OwnStep

\* The initial state: nothing is published, and nobody has subscribed.
LEMMA StreamInit == Init => StreamInv /\ LiveFollows /\ ResumeComplete
<1> SUFFICES ASSUME Init PROVE StreamInv /\ LiveFollows /\ ResumeComplete
  OBVIOUS
<1>1. \A s \in Sub : sub[s] = NoSub /\ sub[s].pc = "off" /\ sub[s].end = "no" /\ ~sub[s].listed
  BY DEF Init, NoSub
<1>2. \A r \in Run : ctl[r].q = <<>> /\ stored[r] = <<>> /\ npub[r] = 0
  BY DEF Init, NoCtl
<1>3. flight = <<>> /\ pdel = {}
  BY DEF Init
<1>4. CtlCounts /\ Counts /\ Addressed /\ MarkedAbsent /\ JoinedListed
  BY <1>1, <1>2, <1>3 DEF CtlCounts, Counts, Addressed, MarkedAbsent, JoinedListed
<1>5. StoredComplete
  BY <1>2 DEF StoredComplete
<1> QED BY <1>1, <1>4, <1>5 DEF StreamInv, LiveFollows, ResumeComplete

\* A subscriber that resumes a resumable run and meets its "done" has received
\* every frame after its cursor that the run published before it, from the
\* replay or from its queue, for every number of runs, subscribers, frames and
\* attempts, unless the run was deleted or the manager stopped.
THEOREM ResumedComplete == Spec => []ResumeComplete
<1> DEFINE Inv == TypeOK /\ StreamInv /\ LiveFollows /\ ResumeComplete
<1>1. Init => Inv
  BY TypeInit, StreamInit
<1>2. Inv /\ [Next]_vars => Inv'
  BY TypeNext, StreamInvNext, LiveNext, ResumeNext
<1>3. Inv => ResumeComplete
  OBVIOUS
<1> HIDE DEF Inv
<1> QED BY <1>1, <1>2, <1>3, PTL DEF Spec

============================================================================
