---------------------------- MODULE DeployProofs ----------------------------
(***************************************************************************)
(* Proofs about Deploy: whatever the watchdog, the reader and stderr do,   *)
(* and however often a client reconnects, the log stream delivers in order *)
(* and ends complete, for any buffer, number of lines, deploys and clients.*)
(***************************************************************************)
EXTENDS Deploy, WellFoundedInduction, TLAPS

\* What the watchdog has appended, at most.
Messages(watchdog) ==
  IF watchdog = "sleep" THEN 0 ELSE IF watchdog = "grace" THEN 1 ELSE 2

\* An operation: the status comes last, after the reader ended and the
\* watchdog was cancelled, so that nothing is appended behind it.
OpSound(p) ==
  /\ p \in Op
  /\ p.status # "running" => p.reader = "done" /\ p.watchdog = "off"
  /\ p.total <= p.lines + (IF p.reader = "done" THEN p.tail ELSE 0) + Messages(p.watchdog)

\* What a step of the tasks may do to an operation: append, and not once the
\* status is terminal.
Grows(p, q) ==
  /\ p.total <= q.total
  /\ p.status # "running" => q.status = p.status /\ q.total = p.total

View == [pc : ViewPc, op : Nat, cursor : Nat, pending : SUBSET Nat, last : Nat,
         got : Seq(Nat), missed : SUBSET Nat, ended : BOOLEAN]

Connected(w) == w.pc # "off"
Increasing(s) == \A i, j \in DOMAIN s : i < j => s[i] < s[j]

\* The ids a client has, will be sent, or can no longer be sent.
Known(w) == ToSet(w.got) \cup w.pending \cup w.missed

\* Delivery: in order, and what is pending is behind what was received.
Delivery(w) ==
  /\ Increasing(w.got)
  /\ \A n \in ToSet(w.got) : \A m \in w.pending : n < m
  /\ w.pc \in {"off", "loop", "done"} => w.pending = {}
  /\ Connected(w) => \A n \in ToSet(w.got) \cup w.pending : n <= w.cursor

\* Coverage of the events of operation p: up to the cursor, or up to any id
\* received when the client is away, every id is known.
Coverage(w, p) ==
  /\ w.op = 0 => ~Connected(w) /\ w.got = <<>> /\ w.missed = {} /\ ~w.ended
  /\ w.op # 0 => Known(w) \subseteq 1..p.total
  /\ Connected(w) /\ ~w.ended => w.cursor <= p.total /\ 1..w.cursor \subseteq Known(w)
  /\ \A n \in ToSet(w.got) : 1..n \subseteq ToSet(w.got) \cup w.missed
  /\ w.pc \in {"final", "done"} => p.status # "running" /\ w.cursor = p.total

\* The last id: of an event, or of the terminal event, which comes when the
\* client knows everything and nothing more is to come.
LastId(w, p) ==
  /\ ~w.ended => w.last \in ToSet(w.got) \cup {0} /\ \A n \in ToSet(w.got) : n <= w.last
  /\ w.ended => /\ p.status # "running" /\ w.last = p.total + 1 /\ w.pending = {}
                /\ 1..p.total \subseteq ToSet(w.got) \cup w.missed
                /\ Connected(w) => w.cursor >= p.total

ViewSound(w, p) == Delivery(w) /\ Coverage(w, p) /\ LastId(w, p)

OpsInv ==
  /\ ops \in Seq(Op) /\ \A o \in 1..Len(ops) : OpSound(ops[o])
  /\ current \in 0..Len(ops) /\ starting \subseteq Client

ViewsInv ==
  /\ view \in [Viewer -> View]
  /\ \A v \in Viewer : view[v].op \in 0..Len(ops) /\ ViewSound(view[v], ops[view[v].op])

DeployInv == OpsInv /\ ViewsInv

-----------------------------------------------------------------------------
\* A non-empty set of numbers has a least element, which Least gives.
LEMMA LeastExists ==
  ASSUME NEW S, S \subseteq Nat, S # {}
  PROVE  Least(S) \in S /\ \A m \in S : Least(S) <= m
<1> DEFINE R == {p \in Nat \X Nat : p[1] < p[2]}
<1>1. IsWellFoundedOn(R, Nat)
  BY NatLessThanWellFounded DEF OpToRel
<1>2. ASSUME NEW m \in Nat, NEW n \in Nat, <<m, n>> \notin R PROVE n <= m
  BY <1>2
<1> HIDE DEF R
<1>3. \E n \in S : \A m \in S : <<m, n>> \notin R
  BY <1>1, WFMin
<1>4. \E n \in S : \A m \in S : n <= m
  BY <1>2, <1>3
<1> QED BY <1>4 DEF Least

\* The end of the reader: the stderr lines fit behind the messages, and the
\* watchdog is off.
LEMMA ReaderDoneSound ==
  ASSUME NEW p, OpSound(p), p.reader = "drain"
  PROVE  LET q == [p EXCEPT !.reader = "done", !.stderr = "done",
                     !.total = IF p.final = "failed" THEN @ + p.tail ELSE @,
                     !.status = IF p.final = "none" THEN @ ELSE p.final,
                     !.watchdog = "off"]
         IN  OpSound(q) /\ Grows(p, q)
<1> DEFINE total == IF p.final = "failed" THEN p.total + p.tail ELSE p.total
           status == IF p.final = "none" THEN p.status ELSE p.final
           q == [p EXCEPT !.reader = "done", !.stderr = "done", !.total = total,
                   !.status = status, !.watchdog = "off"]
<1>1. p \in Op /\ p.status = "running" /\ status \in {"running", "succeeded", "failed"}
  BY DEF OpSound, Op
<1>2. total \in p.total..(p.lines + p.tail + 2) /\ total \in 0..(2 * MaxLine + 2)
  BY BoundsAssumption DEF OpSound, Op, Messages
<1> HIDE DEF total, status
<1>3. q \in Op
  BY <1>1, <1>2 DEF Op
<1>4. /\ q.reader = "done" /\ q.watchdog = "off" /\ q.total = total /\ q.status = status
      /\ q.lines = p.lines /\ q.tail = p.tail
  BY <1>1 DEF Op
<1> HIDE DEF q
<1>5. OpSound(q) /\ Grows(p, q)
  BY <1>1, <1>2, <1>3, <1>4, BoundsAssumption DEF OpSound, Op, Grows, Messages
<1> QED BY <1>5 DEF q, total, status

\* The watchdog appends at most two messages.
LEMMA WatchdogSound ==
  ASSUME NEW p, OpSound(p), NEW proc \in {"terminated", "killed"},
         NEW to \in {"grace", "off"}, Messages(p.watchdog) < Messages(to)
  PROVE  LET q == [p EXCEPT !.watchdog = to, !.total = @ + 1, !.proc = proc]
         IN  OpSound(q) /\ Grows(p, q)
<1> DEFINE q == [p EXCEPT !.watchdog = to, !.total = p.total + 1, !.proc = proc]
<1>1. p \in Op /\ p.status = "running"
  BY DEF OpSound, Op, Messages
<1>2. p.total + 1 <= p.lines + (IF p.reader = "done" THEN p.tail ELSE 0) + Messages(to) /\ p.total + 1 \in 0..(2 * MaxLine + 2)
  BY <1>1, BoundsAssumption DEF OpSound, Op, Messages
<1>3. q \in Op
  BY <1>1, <1>2 DEF Op
<1>4. /\ q.reader = p.reader /\ q.watchdog = to /\ q.total = p.total + 1
      /\ q.status = p.status /\ q.lines = p.lines /\ q.tail = p.tail
  BY <1>1 DEF Op
<1> HIDE DEF q
<1>5. OpSound(q) /\ Grows(p, q)
  BY <1>1, <1>2, <1>3, <1>4, BoundsAssumption DEF OpSound, Op, Grows
<1> QED BY <1>5 DEF q

\* A step that appends nothing and leaves the status alone.
LEMMA SilentSound ==
  ASSUME NEW p, OpSound(p), NEW q \in Op,
         q.status = p.status, q.total = p.total, q.lines = p.lines,
         q.watchdog \in {p.watchdog, "off"},
         (q.reader = p.reader /\ q.tail >= p.tail) \/ (p.reader # "done" /\ q.reader # "done")
  PROVE  OpSound(q) /\ Grows(p, q)
  BY BoundsAssumption DEF OpSound, Op, Grows, Messages

\* One step of the tasks of an operation keeps it sound and only appends.
LEMMA TasksSound ==
  ASSUME OpsInv, NEW o \in 1..Len(ops),
         Process(o) \/ Stderr(o) \/ Reader(o) \/ ReadError(o) \/ ReaderCancelled(o) \/ Watchdog(o)
  PROVE  \E q : OpSound(q) /\ Grows(ops[o], q) /\ Update(o, q)
<1> DEFINE p == ops[o]
<1>1. p \in Op /\ OpSound(p)
  BY DEF OpsInv
<1>2. CASE Exit(o)
  <2>1. PICK code \in {"ok", "bad"} : Update(o, [p EXCEPT !.proc = code])
    BY <1>2 DEF Exit
  <2> DEFINE q == [p EXCEPT !.proc = code]
  <2>2. OpSound(q) /\ Grows(p, q)
    BY <1>1, SilentSound DEF Op
  <2> QED BY <2>1, <2>2
<1>3. CASE CloseStdout(o)
  <2> DEFINE q == [p EXCEPT !.stdout = FALSE]
  <2>1. q \in Op
    BY <1>1 DEF Op
  <2>2. /\ q.status = p.status /\ q.total = p.total /\ q.lines = p.lines /\ q.tail = p.tail
        /\ q.watchdog = p.watchdog /\ q.reader = p.reader /\ p.tail >= p.tail
    BY <1>1 DEF Op
  <2> HIDE DEF q
  <2>3. OpSound(q) /\ Grows(p, q)
    BY <1>1, <2>1, <2>2, SilentSound
  <2> QED BY <1>3, <2>3 DEF CloseStdout, q
<1>4. CASE StderrLine(o)
  <2> DEFINE q == [p EXCEPT !.tail = p.tail + 1]
  <2>1. p.tail + 1 \in 0..MaxLine /\ p.tail + 1 >= p.tail
    BY <1>1, <1>4, BoundsAssumption DEF Op, StderrLine
  <2>2. OpSound(q) /\ Grows(p, q)
    BY <1>1, <2>1, SilentSound DEF Op
  <2> QED BY <1>4, <2>2 DEF StderrLine
<1>5. CASE StderrEnd(o)
  <2> DEFINE q == [p EXCEPT !.stderr = "done"]
  <2>1. OpSound(q) /\ Grows(p, q)
    BY <1>1, SilentSound DEF Op
  <2> QED BY <1>5, <2>1 DEF StderrEnd
<1>6. CASE ReadLine(o)
  <2> DEFINE q == [p EXCEPT !.lines = p.lines + 1, !.total = p.total + 1]
  <2>1. p.reader = "read" /\ p.lines < MaxLine /\ Update(o, q)
    BY <1>6 DEF ReadLine
  <2>2. p.total + 1 \in 0..(2 * MaxLine + 2) /\ p.status = "running"
    BY <1>1, <2>1, BoundsAssumption DEF OpSound, Op, Messages
  <2>3. p.lines + 1 \in 0..MaxLine
    BY <1>1, <2>1, BoundsAssumption DEF Op
  <2>4. /\ q \in Op /\ q.lines = p.lines + 1 /\ q.total = p.total + 1
        /\ q.status = p.status /\ q.reader = "read" /\ q.watchdog = p.watchdog
    BY <1>1, <2>1, <2>2, <2>3 DEF Op
  <2> HIDE DEF q
  <2>5. OpSound(q) /\ Grows(p, q)
    BY <1>1, <2>1, <2>2, <2>4, BoundsAssumption DEF OpSound, Op, Grows, Messages
  <2> QED BY <2>1, <2>5
<1>7. CASE ReadError(o)
  <2> DEFINE q == [p EXCEPT !.reader = "drain", !.final = "failed"]
  <2>1. OpSound(q) /\ Grows(p, q)
    BY <1>1, <1>7, SilentSound DEF Op, ReadError
  <2> QED BY <1>7, <2>1 DEF ReadError
<1>8. CASE ReadEnd(o)
  <2> DEFINE q == [p EXCEPT !.reader = "wait"]
  <2>1. OpSound(q) /\ Grows(p, q)
    BY <1>1, <1>8, SilentSound DEF Op, ReadEnd
  <2> QED BY <1>8, <2>1 DEF ReadEnd
<1>9. CASE ExitSeen(o)
  <2> DEFINE q == [p EXCEPT !.reader = "drain",
                     !.final = IF p.proc = "ok" THEN "succeeded" ELSE "failed"]
  <2>1. OpSound(q) /\ Grows(p, q)
    BY <1>1, <1>9, SilentSound DEF Op, ExitSeen
  <2> QED BY <1>9, <2>1 DEF ExitSeen
<1>10. CASE ReaderCancelled(o)
  <2>1. CASE p.reader \in {"read", "wait"}
    <3> DEFINE q == [p EXCEPT !.reader = "drain"]
    <3>1. OpSound(q) /\ Grows(p, q)
      BY <1>1, <2>1, SilentSound DEF Op
    <3> QED BY <1>10, <2>1, <3>1 DEF ReaderCancelled
  <2>2. CASE p.reader = "drain"
    <3> DEFINE q == [p EXCEPT !.reader = "done", !.stderr = "done", !.final = "none"]
    <3>1. q \in Op /\ q.reader = "done" /\ q.status = p.status /\ q.total = p.total
          /\ q.lines = p.lines /\ q.tail = p.tail /\ q.watchdog = p.watchdog
      BY <1>1 DEF Op
    <3> HIDE DEF q
    <3>2. OpSound(q) /\ Grows(p, q)
      BY <1>1, <2>2, <3>1, BoundsAssumption DEF OpSound, Op, Grows, Messages
    <3> QED BY <1>10, <2>2, <3>2 DEF ReaderCancelled, q
  <2> QED BY <1>10, <2>1, <2>2 DEF ReaderCancelled
<1>11. CASE ReaderDone(o)
  BY <1>1, <1>11, ReaderDoneSound DEF ReaderDone
<1>12. ASSUME p.watchdog # "off", NEW q, q = [p EXCEPT !.watchdog = "off"]
       PROVE  OpSound(q) /\ Grows(p, q)
  BY <1>1, <1>12, SilentSound DEF Op
<1>13. CASE Timeout(o)
  <2>1. CASE p.status = "running" /\ ~Exited(p)
    <3>1. Messages(p.watchdog) < Messages("grace")
      BY <1>13 DEF Timeout, Messages
    <3> QED BY <1>1, <1>13, <2>1, <3>1, WatchdogSound DEF Timeout
  <2>2. CASE ~ (p.status = "running" /\ ~Exited(p))
    BY <1>12, <1>13, <2>2 DEF Timeout
  <2> QED BY <2>1, <2>2
<1>14. CASE GraceOver(o)
  <2>1. CASE ~Exited(p)
    <3>1. Messages(p.watchdog) < Messages("off")
      BY <1>14 DEF GraceOver, Messages
    <3> QED BY <1>1, <1>14, <2>1, <3>1, WatchdogSound DEF GraceOver
  <2>2. CASE Exited(p)
    BY <1>12, <1>14, <2>2 DEF GraceOver
  <2> QED BY <2>1, <2>2
<1> QED
  BY <1>2, <1>3, <1>4, <1>5, <1>6, <1>7, <1>8, <1>9, <1>10, <1>11, <1>13, <1>14
     DEF Process, Stderr, Reader, Watchdog

-----------------------------------------------------------------------------
\* What the tasks do to an operation keeps sound the clients that follow it.
LEMMA FollowSound ==
  ASSUME NEW w \in View, NEW p, NEW q, p.total \in Nat, q.total \in Nat,
         ViewSound(w, p), Grows(p, q)
  PROVE  ViewSound(w, q)
<1>1. p.total <= q.total /\ 1..p.total \subseteq 1..q.total
  BY DEF Grows
<1>2. Coverage(w, q)
  BY <1>1 DEF ViewSound, Coverage, Connected, Grows, View
<1>3. LastId(w, q)
  BY <1>1 DEF ViewSound, LastId, Grows, View
<1> QED BY <1>2, <1>3 DEF ViewSound

\* A client that is not connected to anything is sound whatever runs.
LEMMA AwaySound ==
  ASSUME NEW w \in View, w.op = 0, NEW p, NEW q, ViewSound(w, p)
  PROVE  ViewSound(w, q)
  BY DEF ViewSound, Coverage, LastId, Connected

\* The ids received after one more.
LEMMA AppendIds ==
  ASSUME NEW s \in Seq(Nat), NEW n \in Nat
  PROVE  /\ Append(s, n) \in Seq(Nat)
         /\ ToSet(Append(s, n)) = ToSet(s) \cup {n}
         /\ Increasing(s) /\ (\A m \in ToSet(s) : m < n) => Increasing(Append(s, n))
<1>1. Append(s, n) \in Seq(Nat) /\ Len(Append(s, n)) = Len(s) + 1
  OBVIOUS
<1>2. ToSet(Append(s, n)) = ToSet(s) \cup {n}
  BY DEF ToSet
<1>3. ASSUME Increasing(s), \A m \in ToSet(s) : m < n,
             NEW i \in DOMAIN Append(s, n), NEW j \in DOMAIN Append(s, n), i < j
      PROVE  Append(s, n)[i] < Append(s, n)[j]
  BY <1>3 DEF ToSet, Increasing
<1> QED BY <1>1, <1>2, <1>3 DEF Increasing

\* A client resumes behind the last id it has.
LEMMA ConnectSound ==
  ASSUME NEW w \in View, NEW p, p.total \in Nat, ViewSound(w, p), w.pc \in {"off", "done"},
         NEW c \in Nat \ {0}
  PROVE  LET u == [w EXCEPT !.pc = "loop", !.op = c, !.cursor = w.last]
         IN  u \in View /\ ViewSound(u, p)
<1> DEFINE u == [w EXCEPT !.pc = "loop", !.op = c, !.cursor = w.last]
<1>1. /\ w.got \in Seq(Nat) /\ w.missed \subseteq Nat /\ w.pending = {} /\ w.last \in Nat
      /\ w.ended \in BOOLEAN
  BY DEF View, ViewSound, Delivery
<1>2. Known(w) \subseteq 1..p.total
  BY <1>1 DEF ViewSound, Coverage, Known, ToSet
<1>3. \A n \in ToSet(w.got) : n <= w.last
  BY <1>1, <1>2 DEF ViewSound, LastId, Known
<1>4. ~w.ended => 1..w.last \subseteq ToSet(w.got) \cup w.missed /\ w.last <= p.total
  BY <1>1, <1>2 DEF ViewSound, Coverage, LastId, Known
<1>5. /\ u \in View /\ u.pc = "loop" /\ u.op = c /\ u.cursor = w.last
      /\ u.got = w.got /\ u.pending = {} /\ u.missed = w.missed
      /\ u.last = w.last /\ u.ended = w.ended
  BY <1>1 DEF View, ViewPc
<1> HIDE DEF u
<1>6. Delivery(u)
  BY <1>3, <1>5 DEF ViewSound, Delivery
<1>7. Known(u) = Known(w)
  BY <1>1, <1>5 DEF Known
<1>8. Coverage(u, p)
  BY <1>1, <1>2, <1>4, <1>5, <1>7 DEF ViewSound, Coverage, Known
<1>9. LastId(u, p)
  BY <1>1, <1>5 DEF ViewSound, LastId
<1> QED BY <1>5, <1>6, <1>8, <1>9 DEF ViewSound, u

\* A client that goes loses what was pending, and nothing it has received.
LEMMA DisconnectSound ==
  ASSUME NEW w \in View, NEW p, p.total \in Nat, ViewSound(w, p), Connected(w)
  PROVE  LET u == [w EXCEPT !.pc = "off", !.pending = {}, !.cursor = 0]
         IN  u \in View /\ ViewSound(u, p)
<1> DEFINE u == [w EXCEPT !.pc = "off", !.pending = {}, !.cursor = 0]
<1>1. /\ u \in View /\ u.pc = "off" /\ u.pending = {} /\ u.op = w.op
      /\ u.got = w.got /\ u.missed = w.missed /\ u.last = w.last /\ u.ended = w.ended
  BY DEF View, ViewPc
<1> HIDE DEF u
<1>2. Delivery(u)
  BY <1>1 DEF ViewSound, Delivery, Connected
<1>3. Coverage(u, p)
  BY <1>1 DEF ViewSound, Coverage, Connected, Known
<1>4. LastId(u, p)
  BY <1>1 DEF ViewSound, LastId, Connected
<1> QED BY <1>1, <1>2, <1>3, <1>4 DEF ViewSound, u

\* A snapshot, once nothing is pending: what is behind the cursor is either
\* in the buffer and pending, or gone and missed.
LEMMA SnapshotSound ==
  ASSUME NEW w \in View, ViewSound(w, ops[w.op]), Connected(w), w.pending = {},
         ops[w.op].total \in Nat, NEW pc \in {"emit", "final"},
         pc = "final" => ops[w.op].status # "running"
  PROVE  Snapshot(w, pc) \in View /\ ViewSound(Snapshot(w, pc), ops[w.op])
<1> DEFINE p == ops[w.op]
           u == Snapshot(w, pc)
           gone == {n \in (w.cursor + 1) .. p.total : n <= DequeStart(p)}
<1>1. /\ w.got \in Seq(Nat) /\ w.missed \subseteq Nat /\ w.cursor \in Nat
      /\ (~w.ended => w.cursor <= p.total) /\ w.op # 0 /\ w.ended \in BOOLEAN
      /\ (w.ended => w.cursor >= p.total) /\ p.total \in Nat
  BY DEF View, ViewSound, Coverage, LastId
<1>2. DequeStart(p) \in Int
  BY BoundsAssumption DEF DequeStart
<1>3. /\ Behind(w) \cup gone = (w.cursor + 1) .. p.total
      /\ Behind(w) \subseteq Nat /\ gone \subseteq Nat
  BY <1>1, <1>2 DEF Behind
<1>4. /\ u.pc = pc /\ u.op = w.op /\ u.cursor = p.total /\ u.pending = Behind(w)
      /\ u.got = w.got /\ u.missed = w.missed \cup gone /\ u \in View
      /\ u.last = w.last /\ u.ended = w.ended
  BY <1>1, <1>3 DEF Snapshot, View, ViewPc
<1> HIDE DEF u, gone, p
<1>5. ToSet(w.got) \subseteq 1..p.total /\ \A n \in ToSet(w.got) : n \in Nat /\ n <= w.cursor
  BY <1>1 DEF ViewSound, Delivery, Coverage, Known, ToSet, p
<1>6. Delivery(u)
  <2>1. \A n \in Behind(w) : n \in Nat /\ n > w.cursor /\ n <= p.total
    BY <1>1, <1>3
  <2> QED BY <1>1, <1>4, <1>5, <2>1 DEF ViewSound, Delivery, p
<1>7. Known(u) = Known(w) \cup ((w.cursor + 1) .. p.total)
  BY <1>3, <1>4 DEF Known
<1>8. Known(u) \subseteq 1..p.total /\ 1..p.total \subseteq Known(u)
  <2>1. CASE w.ended
    BY <1>1, <1>7, <2>1 DEF ViewSound, Coverage, LastId, Known, p
  <2>2. CASE ~w.ended
    BY <1>1, <1>7, <2>2 DEF ViewSound, Coverage, p
  <2> QED BY <2>1, <2>2
<1>9. Coverage(u, p)
  BY <1>1, <1>4, <1>8 DEF ViewSound, Coverage, Connected, p
<1>10. LastId(u, p)
  <2>1. w.ended => (w.cursor + 1) .. p.total = {}
    BY <1>1
  <2> QED BY <1>1, <1>3, <1>4, <2>1 DEF ViewSound, LastId, p
<1> QED BY <1>4, <1>6, <1>9, <1>10 DEF ViewSound, u, p

\* The least pending id is sent next.
LEMMA YieldSound ==
  ASSUME NEW w \in View, NEW p, p.total \in Nat, ViewSound(w, p),
         w.pc \in {"emit", "final"}, w.pending # {}
  PROVE  LET n == Least(w.pending)
             u == [w EXCEPT !.pending = @ \ {n}, !.last = n, !.got = Append(@, n)]
         IN  u \in View /\ ViewSound(u, p)
<1> DEFINE n == Least(w.pending)
           u == [w EXCEPT !.pending = w.pending \ {n}, !.last = n, !.got = Append(w.got, n)]
<1>1. /\ w.got \in Seq(Nat) /\ w.missed \subseteq Nat /\ w.pending \subseteq Nat
      /\ w.cursor \in Nat /\ Connected(w) /\ w.op # 0 /\ w.ended = FALSE
  BY DEF View, ViewSound, Coverage, LastId, Connected
<1>2. n \in w.pending /\ n \in Nat /\ \A m \in w.pending : n <= m
  BY <1>1, LeastExists
<1> HIDE DEF n
<1>3. /\ Append(w.got, n) \in Seq(Nat) /\ ToSet(Append(w.got, n)) = ToSet(w.got) \cup {n}
      /\ Increasing(Append(w.got, n))
  BY <1>1, <1>2, AppendIds DEF ViewSound, Delivery
<1>4. /\ u \in View /\ u.pc = w.pc /\ u.op = w.op /\ u.cursor = w.cursor
      /\ u.pending = w.pending \ {n} /\ u.got = Append(w.got, n) /\ u.missed = w.missed
      /\ u.last = n /\ u.ended = FALSE
  BY <1>1, <1>2, <1>3 DEF View
<1> HIDE DEF u
<1>5. Delivery(u)
  <2>1. \A k \in w.pending \ {n} : n < k
    BY <1>1, <1>2
  <2> QED BY <1>1, <1>2, <1>3, <1>4, <2>1 DEF ViewSound, Delivery, Connected
<1>6. Known(u) = Known(w)
  BY <1>2, <1>3, <1>4 DEF Known
<1>7. 1..n \subseteq ToSet(u.got) \cup u.missed
  <2>1. 1..n \subseteq Known(w)
    BY <1>1, <1>2 DEF ViewSound, Delivery, Coverage
  <2> QED BY <1>1, <1>2, <1>3, <1>4, <2>1 DEF Known
<1>8. Coverage(u, p)
  BY <1>1, <1>3, <1>4, <1>6, <1>7 DEF ViewSound, Coverage, Connected
<1>9. LastId(u, p)
  <2>1. \A m \in ToSet(w.got) : m \in Nat
    BY <1>1 DEF ToSet
  <2>2. \A m \in ToSet(w.got) : m <= n
    BY <1>2, <2>1 DEF ViewSound, Delivery
  <2> QED BY <1>2, <1>3, <1>4, <2>2 DEF LastId
<1> QED BY <1>4, <1>5, <1>8, <1>9 DEF ViewSound, u, n

\* Nothing is pending, and the stream goes on.
LEMMA TurnSound ==
  ASSUME NEW w \in View, NEW p, ViewSound(w, p), w.pending = {}, Connected(w)
  PROVE  [w EXCEPT !.pc = "loop"] \in View /\ ViewSound([w EXCEPT !.pc = "loop"], p)
<1> DEFINE u == [w EXCEPT !.pc = "loop"]
<1>1. /\ u \in View /\ u.pc = "loop" /\ u.op = w.op /\ u.cursor = w.cursor
      /\ u.pending = w.pending /\ u.got = w.got /\ u.missed = w.missed
      /\ u.last = w.last /\ u.ended = w.ended
  BY DEF View, ViewPc
<1> HIDE DEF u
<1>2. Delivery(u)
  BY <1>1 DEF ViewSound, Delivery, Connected
<1>3. Coverage(u, p)
  BY <1>1 DEF ViewSound, Coverage, Connected, Known
<1>4. LastId(u, p)
  BY <1>1 DEF ViewSound, LastId, Connected
<1> QED BY <1>1, <1>2, <1>3, <1>4 DEF ViewSound, u

\* The terminal event comes when everything is sent, under the next id.
LEMMA TerminalSound ==
  ASSUME NEW w \in View, NEW p, p.total \in Nat, ViewSound(w, p), w.pending = {},
         w.pc = "final"
  PROVE  LET u == [w EXCEPT !.pc = "done", !.last = p.total + 1, !.ended = TRUE]
         IN  u \in View /\ ViewSound(u, p)
<1> DEFINE u == [w EXCEPT !.pc = "done", !.last = p.total + 1, !.ended = TRUE]
<1>1. /\ u \in View /\ u.pc = "done" /\ u.op = w.op /\ u.cursor = w.cursor
      /\ u.pending = w.pending /\ u.got = w.got /\ u.missed = w.missed
      /\ u.last = p.total + 1 /\ u.ended = TRUE
  <2>1. p.total + 1 \in Nat /\ "done" \in ViewPc /\ TRUE \in BOOLEAN
    BY DEF ViewPc
  <2> HIDE DEF ViewPc
  <2>2. ASSUME NEW l \in Nat, NEW b \in BOOLEAN
        PROVE  LET x == [w EXCEPT !.pc = "done", !.last = l, !.ended = b]
               IN  /\ x \in View /\ x.pc = "done" /\ x.op = w.op /\ x.cursor = w.cursor
                   /\ x.pending = w.pending /\ x.got = w.got /\ x.missed = w.missed
                   /\ x.last = l /\ x.ended = b
    BY <2>1 DEF View
  <2> QED BY <2>1, <2>2
<1>2. p.status # "running" /\ w.cursor = p.total /\ Connected(w) /\ w.ended \in BOOLEAN
  BY DEF View, ViewSound, Coverage, Connected
<1> HIDE DEF u
<1>3. Delivery(u)
  BY <1>1, <1>2 DEF ViewSound, Delivery, Connected
<1>4. Coverage(u, p)
  BY <1>1, <1>2 DEF ViewSound, Coverage, Connected, Known
<1>5. 1..p.total \subseteq ToSet(w.got) \cup w.missed
  BY <1>2 DEF ViewSound, Coverage, LastId, Known
<1>6. LastId(u, p)
  BY <1>1, <1>2, <1>5 DEF LastId
<1> QED BY <1>1, <1>3, <1>4, <1>6 DEF ViewSound, u

\* One step of a client keeps it sound.
LEMMA StreamSound ==
  ASSUME DeployInv, NEW v \in Viewer, Connect(v) \/ Disconnect(v) \/ Stream(v)
  PROVE  \E u \in View : /\ u.op \in 0..Len(ops) /\ ViewSound(u, ops[u.op])
                         /\ Look(v, u)
<1> DEFINE w == view[v]
           p == ops[w.op]
<1>1. w \in View /\ w.op \in 0..Len(ops) /\ ViewSound(w, p)
  BY DEF DeployInv, ViewsInv
<1>2. \A o \in 1..Len(ops) : ops[o].total \in Nat
  <2>1. ASSUME NEW q \in Op PROVE q.total \in Nat
    BY BoundsAssumption DEF Op
  <2> QED BY <2>1 DEF DeployInv, OpsInv
<1>3. Connected(w) => w.op \in 1..Len(ops) /\ p.total \in Nat
  BY <1>1, <1>2 DEF ViewSound, Coverage
<1>4. CASE Connect(v)
  <2> DEFINE u == [w EXCEPT !.pc = "loop", !.op = current, !.cursor = w.last]
  <2>1. w.pc \in {"off", "done"} /\ current # 0 /\ w.op \in {0, current} /\ Look(v, u)
    BY <1>4 DEF Connect
  <2>2. current \in 1..Len(ops) /\ current \in Nat \ {0} /\ ops[current].total \in Nat
    BY <1>2, <2>1 DEF DeployInv, OpsInv
  <2>3. ViewSound(w, ops[current])
    BY <1>1, <2>1, AwaySound
  <2>4. u \in View /\ ViewSound(u, ops[current])
    BY <1>1, <2>1, <2>2, <2>3, ConnectSound
  <2>5. u.op = current /\ current \in 0..Len(ops)
    BY <1>1, <2>2 DEF View
  <2> HIDE DEF u
  <2> QED BY <2>1, <2>4, <2>5
<1>5. CASE Disconnect(v)
  <2> DEFINE u == [w EXCEPT !.pc = "off", !.pending = {}, !.cursor = 0]
  <2>1. Connected(w) /\ Look(v, u)
    BY <1>5 DEF Disconnect, Connected
  <2>2. u \in View /\ ViewSound(u, p) /\ u.op = w.op
    BY <1>1, <1>3, <2>1, DisconnectSound DEF View
  <2> QED BY <1>1, <2>1, <2>2
<1>6. CASE LoopTop(v)
  <2>1. w.pc = "loop" /\ w.pending = {} /\ Connected(w) /\ Look(v, Snapshot(w, "emit"))
    BY <1>1, <1>6 DEF LoopTop, Connected, ViewSound, Delivery
  <2>2. Snapshot(w, "emit") \in View /\ ViewSound(Snapshot(w, "emit"), p)
    BY <1>1, <1>3, <2>1, SnapshotSound
  <2>3. Snapshot(w, "emit").op = w.op
    BY <1>1 DEF Snapshot, View
  <2> QED BY <1>1, <2>1, <2>2, <2>3
<1>7. CASE Yield(v)
  <2> DEFINE n == Least(w.pending)
             u == [w EXCEPT !.pending = @ \ {n}, !.last = n, !.got = Append(@, n)]
  <2>1. w.pc \in {"emit", "final"} /\ w.pending # {} /\ Look(v, u)
    BY <1>7 DEF Yield
  <2>2. u \in View /\ ViewSound(u, p)
    BY <1>1, <1>3, <2>1, YieldSound DEF Connected
  <2>3. u.op = w.op
    BY <1>1 DEF View
  <2> QED BY <1>1, <2>1, <2>2, <2>3
<1>8. CASE StatusCheck(v)
  <2>1. w.pc = "emit" /\ w.pending = {} /\ Connected(w)
    BY <1>8 DEF StatusCheck, Connected
  <2>2. CASE p.status = "running"
    <3> DEFINE u == [w EXCEPT !.pc = "loop"]
    <3>1. u \in View /\ ViewSound(u, p) /\ u.op = w.op
      BY <1>1, <2>1, TurnSound DEF View
    <3> QED BY <1>1, <1>8, <2>2, <3>1 DEF StatusCheck
  <2>3. CASE p.status # "running"
    <3>1. Snapshot(w, "final") \in View /\ ViewSound(Snapshot(w, "final"), p)
      BY <1>1, <1>3, <2>1, <2>3, SnapshotSound
    <3>2. Snapshot(w, "final").op = w.op
      BY <1>1 DEF Snapshot, View
    <3> QED BY <1>1, <1>8, <2>3, <3>1, <3>2 DEF StatusCheck
  <2> QED BY <2>2, <2>3
<1>9. CASE YieldTerminal(v)
  <2> DEFINE u == [w EXCEPT !.pc = "done", !.last = p.total + 1, !.ended = TRUE]
  <2>1. w.pc = "final" /\ w.pending = {} /\ Connected(w) /\ Look(v, u)
    BY <1>9 DEF YieldTerminal, Connected
  <2>2. u \in View /\ ViewSound(u, p) /\ u.op = w.op
    BY <1>1, <1>3, <2>1, TerminalSound DEF View
  <2> QED BY <1>1, <2>1, <2>2
<1> QED BY <1>4, <1>5, <1>6, <1>7, <1>8, <1>9 DEF Stream

-----------------------------------------------------------------------------
\* Nothing runs and nobody follows at the start.
LEMMA DeployInit == Init => DeployInv
<1> SUFFICES ASSUME Init PROVE DeployInv
  OBVIOUS
<1>1. OpsInv
  BY DEF Init, OpsInv
<1>2. NoView \in View /\ NoView.op = 0
  BY DEF NoView, View, ViewPc
<1>3. ViewSound(NoView, ops[0])
  BY DEF NoView, ViewSound, Delivery, Coverage, LastId, Increasing, Connected, Known, ToSet
<1>4. ViewsInv
  BY <1>1, <1>2, <1>3 DEF Init, ViewsInv, OpsInv
<1> QED BY <1>1, <1>4 DEF DeployInv

\* A request that starts a deploy, or fails to.
LEMMA StartSound ==
  ASSUME DeployInv, NEW c \in Client, StartDeploy(c) \/ Spawn(c) \/ SpawnFail(c)
  PROVE  DeployInv'
<1>1. CASE StartDeploy(c) \/ SpawnFail(c)
  BY <1>1 DEF StartDeploy, SpawnFail, DeployInv, OpsInv, ViewsInv
<1>2. CASE Spawn(c)
  <2>1. NewOp \in Op /\ OpSound(NewOp)
    BY BoundsAssumption DEF NewOp, Op, OpSound, Messages
  <2>2. /\ ops' \in Seq(Op) /\ Len(ops') = Len(ops) + 1
        /\ \A o \in 1..Len(ops) : ops'[o] = ops[o]
        /\ ops'[Len(ops) + 1] = NewOp
    BY <1>2, <2>1 DEF Spawn, DeployInv, OpsInv
  <2>3. OpsInv'
    BY <1>2, <2>1, <2>2 DEF Spawn, DeployInv, OpsInv
  <2>4. ASSUME NEW v \in Viewer
        PROVE  view[v].op \in 0..Len(ops') /\ ViewSound(view[v], ops'[view[v].op])
    BY <2>2, AwaySound DEF DeployInv, OpsInv, ViewsInv
  <2> QED BY <1>2, <2>3, <2>4 DEF Spawn, DeployInv, ViewsInv
<1> QED BY <1>1, <1>2

\* Every step keeps the invariant.
LEMMA DeployNext == DeployInv /\ [Next]_vars => DeployInv'
<1> SUFFICES ASSUME DeployInv, [Next]_vars PROVE DeployInv'
  OBVIOUS
<1>1. CASE UNCHANGED vars
  BY <1>1 DEF vars, DeployInv, OpsInv, ViewsInv
<1>2. ASSUME NEW c \in Client, StartDeploy(c) \/ Spawn(c) \/ SpawnFail(c) PROVE DeployInv'
  BY <1>2, StartSound
<1>3. ASSUME NEW o \in 1..Len(ops),
             Process(o) \/ Stderr(o) \/ Reader(o) \/ ReadError(o) \/ ReaderCancelled(o) \/ Watchdog(o)
      PROVE  DeployInv'
  <2>1. PICK q : OpSound(q) /\ Grows(ops[o], q) /\ Update(o, q)
    BY <1>3, TasksSound DEF DeployInv
  <2>2. /\ ops' \in Seq(Op) /\ Len(ops') = Len(ops)
        /\ \A i \in 1..Len(ops) : ops'[i] = IF i = o THEN q ELSE ops[i]
    BY <2>1 DEF Update, DeployInv, OpsInv, OpSound
  <2>3. OpsInv'
    BY <2>1, <2>2 DEF Update, DeployInv, OpsInv
  <2>4. ASSUME NEW v \in Viewer
        PROVE  view[v].op \in 0..Len(ops') /\ ViewSound(view[v], ops'[view[v].op])
    <3>1. view[v] \in View /\ view[v].op \in 0..Len(ops) /\ ViewSound(view[v], ops[view[v].op])
      BY DEF DeployInv, ViewsInv
    <3>2. ops[o].total \in Nat /\ q.total \in Nat
      BY <2>1, BoundsAssumption DEF DeployInv, OpsInv, OpSound, Op
    <3>3. CASE view[v].op = 0
      BY <2>2, <3>1, <3>3, AwaySound
    <3>4. CASE view[v].op = o
      BY <2>1, <2>2, <3>1, <3>2, <3>4, FollowSound
    <3>5. CASE view[v].op # 0 /\ view[v].op # o
      BY <2>2, <3>1, <3>5
    <3> QED BY <3>3, <3>4, <3>5
  <2> QED BY <2>1, <2>3, <2>4 DEF Update, DeployInv, ViewsInv
<1>4. ASSUME NEW v \in Viewer, Connect(v) \/ Disconnect(v) \/ Stream(v) PROVE DeployInv'
  <2>1. PICK u \in View : u.op \in 0..Len(ops) /\ ViewSound(u, ops[u.op]) /\ Look(v, u)
    BY <1>4, StreamSound
  <2> QED BY <2>1 DEF Look, DeployInv, OpsInv, ViewsInv
<1> QED BY <1>1, <1>2, <1>3, <1>4 DEF Next

\* The invariant of every behaviour.
LEMMA DeployInvariant == Spec => []DeployInv
  BY DeployInit, DeployNext, PTL DEF Spec

\* Every client gets each event at most once and in the order of the ids,
\* whatever the reader, the watchdog and other clients do, over any number of
\* reconnections.
THEOREM DeliveredInOrder == Spec => []InOrder
<1>1. DeployInv => InOrder
  <2> SUFFICES ASSUME DeployInv PROVE InOrder
    OBVIOUS
  <2>1. TypeOK
    BY DEF DeployInv, OpsInv, ViewsInv, View, TypeOK
  <2>2. ASSUME NEW v \in Viewer, view[v].ended, NEW n \in ToSet(view[v].got)
        PROVE  n < view[v].last
    <3>1. view[v] \in View /\ view[v].op \in 0..Len(ops)
          /\ ViewSound(view[v], ops[view[v].op])
      BY DEF DeployInv, ViewsInv
    <3>2. view[v].op \in 1..Len(ops) /\ n \in 1..ops[view[v].op].total
      BY <2>2, <3>1 DEF ViewSound, Coverage, Known
    <3>3. ops[view[v].op].total \in Nat
      BY <3>2, BoundsAssumption DEF DeployInv, OpsInv, OpSound, Op
    <3> QED BY <2>2, <3>1, <3>2, <3>3 DEF ViewSound, LastId
  <2> QED BY <2>1, <2>2 DEF DeployInv, ViewsInv, ViewSound, Delivery, Increasing, InOrder
<1> QED BY <1>1, DeployInvariant, PTL

\* A client that got the terminal event has every event of the deploy but
\* those the ring buffer had dropped when it looked: the status is assigned
\* after the last event was appended.
THEOREM CompleteAtTerminal == Spec => []TerminalComplete
<1>1. DeployInv => TerminalComplete
  <2> SUFFICES ASSUME DeployInv, NEW v \in Viewer, view[v].ended
               PROVE  1..ops[view[v].op].total = ToSet(view[v].got) \cup view[v].missed
    BY DEF TerminalComplete
  <2> QED BY DEF DeployInv, ViewsInv, ViewSound, Coverage, LastId, Known
<1> QED BY <1>1, DeployInvariant, PTL
=============================================================================
