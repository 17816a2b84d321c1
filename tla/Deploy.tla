------------------------------- MODULE Deploy -------------------------------
(***************************************************************************)
(* The deploy routes (routes.py): a subprocess whose output a reader task  *)
(* puts into a ring buffer, a task that drains stderr, a watchdog, and SSE *)
(* streams that read the buffer behind a cursor and may reconnect.         *)
(***************************************************************************)
EXTENDS Integers, Sequences, SequencesExt

CONSTANTS
  Client,        \* requests to start a deploy
  Viewer,        \* browsers that follow a deploy
  MaxOp,         \* bound on the deploys started
  MaxLine,       \* bound on the lines of stdout, and of stderr, of a deploy
  Cap            \* maxlen of the ring buffer

ASSUME BoundsAssumption == MaxOp \in Nat /\ MaxLine \in Nat /\ Cap \in Nat \ {0}

VARIABLES
  ops,        \* the operations started, in order
  current,    \* _current_op, 0 for None
  starting,   \* the requests between the check and the new operation
  view        \* the stream of each viewer, with what it has received

vars == <<ops, current, starting, view>>

Op == [status : {"running", "succeeded", "failed"},
       proc : {"running", "terminated", "killed", "ok", "bad"},
       stdout : BOOLEAN,               \* open?
       lines : 0..MaxLine,             \* read from stdout
       reader : {"read", "wait", "drain", "done"},
       final : {"none", "succeeded", "failed"},
       stderr : {"open", "done"},
       tail : 0..MaxLine,              \* _stderr_tail
       watchdog : {"sleep", "grace", "off"},
       total : 0..(2 * MaxLine + 2)]   \* _total_appended

NewOp == [status |-> "running", proc |-> "running", stdout |-> TRUE, lines |-> 0,
          reader |-> "read", final |-> "none", stderr |-> "open", tail |-> 0,
          watchdog |-> "sleep", total |-> 0]

Exited(p) == p.proc \in {"ok", "bad"}

\* The stream, the last id that the browser has received, and the history of
\* what reached it: the ids of the events in order, those that had left the
\* buffer when it looked, and whether it got the terminal event.
ViewPc == {"off", "loop", "emit", "final", "done"}
NoView == [pc |-> "off", op |-> 0, cursor |-> 0, pending |-> {}, last |-> 0,
           got |-> <<>>, missed |-> {}, ended |-> FALSE]

-----------------------------------------------------------------------------
(***************************************************************************)
(* POST /deploy.  The check for a running deploy comes before the awaits.  *)
(***************************************************************************)
Busy == current # 0 /\ ops[current].status = "running"

StartDeploy(c) ==
  /\ c \notin starting /\ ~ Busy
  /\ starting' = starting \cup {c}
  /\ UNCHANGED <<ops, current, view>>

Spawn(c) ==
  /\ c \in starting /\ Len(ops) < MaxOp
  /\ starting' = starting \ {c}
  /\ ops' = Append(ops, NewOp)
  /\ current' = Len(ops) + 1
  /\ UNCHANGED view

SpawnFail(c) ==
  /\ c \in starting
  /\ starting' = starting \ {c}
  /\ UNCHANGED <<ops, current, view>>

-----------------------------------------------------------------------------
(***************************************************************************)
(* The subprocess and the tasks of operation o.                            *)
(***************************************************************************)
Update(o, p) == ops' = [ops EXCEPT ![o] = p] /\ UNCHANGED <<current, starting, view>>

\* The process, and the children that inherit its pipes: it may exit at any
\* time, and what it leaves open may be closed later.
Exit(o) ==
  /\ ~ Exited(ops[o])
  /\ \E code \in IF ops[o].proc = "killed" THEN {"bad"} ELSE {"ok", "bad"} :
       Update(o, [ops[o] EXCEPT !.proc = code])

CloseStdout(o) == ops[o].stdout /\ Update(o, [ops[o] EXCEPT !.stdout = FALSE])

\* _drain_stderr
StderrLine(o) ==
  /\ ops[o].stderr = "open" /\ ops[o].tail < MaxLine
  /\ Update(o, [ops[o] EXCEPT !.tail = @ + 1])

StderrEnd(o) == ops[o].stderr = "open" /\ Exited(ops[o]) /\ Update(o, [ops[o] EXCEPT !.stderr = "done"])

\* _read_subprocess: a line with something to show
ReadLine(o) ==
  /\ ops[o].reader = "read" /\ ops[o].stdout /\ ops[o].lines < MaxLine
  /\ Update(o, [ops[o] EXCEPT !.lines = @ + 1, !.total = @ + 1])

\* A line that is JSON but no object, or longer than the stream's limit
ReadError(o) ==
  /\ ops[o].reader = "read" /\ ops[o].stdout
  /\ Update(o, [ops[o] EXCEPT !.reader = "drain", !.final = "failed"])

ReadEnd(o) ==
  /\ ops[o].reader = "read" /\ ~ ops[o].stdout
  /\ Update(o, [ops[o] EXCEPT !.reader = "wait"])

ExitSeen(o) ==
  /\ ops[o].reader = "wait" /\ Exited(ops[o])
  /\ Update(o, [ops[o] EXCEPT !.reader = "drain", !.final = IF ops[o].proc = "ok" THEN "succeeded" ELSE "failed"])

\* The task is cancelled when the loop shuts down.  A cancel that comes while
\* the finally block waits for stderr leaves it there: neither the status nor
\* the watchdog is touched.
ReaderCancelled(o) ==
  \/ /\ ops[o].reader \in {"read", "wait"}
     /\ Update(o, [ops[o] EXCEPT !.reader = "drain"])
  \/ /\ ops[o].reader = "drain" /\ ops[o].stderr = "open"
     /\ Update(o, [ops[o] EXCEPT !.reader = "done", !.stderr = "done", !.final = "none"])

\* The finally block, after stderr ended or two seconds: stderr lines of a
\* failure, then the status, then the watchdog is cancelled.
MutReaderDone(o) ==
  /\ ops[o].reader = "drain"
  /\ LET p == ops[o]
     IN IF p.status = "running" /\ p.final # "none"
        THEN Update(o, [p EXCEPT !.status = p.final])
        ELSE Update(o, [p EXCEPT !.reader = "done", !.stderr = "done", !.watchdog = "off",
                          !.total = IF p.final = "failed" THEN @ + p.tail ELSE @])
ReaderDone(o) ==
  /\ ops[o].reader = "drain"
  /\ LET p == ops[o]
     IN Update(o, [p EXCEPT !.reader = "done", !.stderr = "done",
                     !.total = IF p.final = "failed" THEN @ + p.tail ELSE @,
                     !.status = IF p.final = "none" THEN @ ELSE p.final,
                     !.watchdog = "off"])

\* _timeout_watchdog
MutTimeout(o) ==
  /\ ops[o].watchdog = "sleep"
  /\ LET p == ops[o]
     IN IF Exited(p)
        THEN Update(o, [p EXCEPT !.watchdog = "off"])
        ELSE Update(o, [p EXCEPT !.watchdog = "off", !.total = @ + 1, !.proc = "terminated"])
Timeout(o) ==
  /\ ops[o].watchdog = "sleep"
  /\ LET p == ops[o]
     IN IF p.status = "running" /\ ~ Exited(p)
        THEN Update(o, [p EXCEPT !.watchdog = "grace", !.total = @ + 1, !.proc = "terminated"])
        ELSE Update(o, [p EXCEPT !.watchdog = "off"])

GraceOver(o) ==
  /\ ops[o].watchdog = "grace"
  /\ LET p == ops[o]
     IN IF Exited(p)
        THEN Update(o, [p EXCEPT !.watchdog = "off"])
        ELSE Update(o, [p EXCEPT !.watchdog = "off", !.total = @ + 1, !.proc = "killed"])

-----------------------------------------------------------------------------
(***************************************************************************)
(* GET /deploy/{operation_id}/stream.                                      *)
(***************************************************************************)
Look(v, w) == view' = [view EXCEPT ![v] = w] /\ UNCHANGED <<ops, current, starting>>

\* The client resumes behind the last id it has received (Last-Event-ID), also
\* after the terminal event, when the server has closed the stream.
Connect(v) ==
  LET w == view[v]
  IN /\ w.pc \in {"off", "done"} /\ current # 0 /\ w.op \in {0, current}
     /\ Look(v, [w EXCEPT !.pc = "loop", !.op = current, !.cursor = w.last])

Disconnect(v) ==
  /\ view[v].pc \in {"loop", "emit", "final"}
  /\ Look(v, [view[v] EXCEPT !.pc = "off", !.pending = {}, !.cursor = 0])

\* The snapshot behind the cursor: the ids to send, and those already gone
DequeStart(p) == IF p.total > Cap THEN p.total - Cap ELSE 0
MutBehind(w) == {n \in 1 .. ops[w.op].total : n > DequeStart(ops[w.op])}
Behind(w) == {n \in (w.cursor + 1) .. ops[w.op].total : n > DequeStart(ops[w.op])}
Snapshot(w, pc) ==
  LET total == ops[w.op].total
  IN [w EXCEPT !.pc = pc, !.pending = Behind(w), !.cursor = total,
        !.missed = @ \cup {n \in (w.cursor + 1) .. total : n <= DequeStart(ops[w.op])}]

LoopTop(v) == view[v].pc = "loop" /\ Look(v, Snapshot(view[v], "emit"))

Least(S) == CHOOSE n \in S : \A m \in S : n <= m

Yield(v) ==
  LET n == Least(view[v].pending)
  IN /\ view[v].pc \in {"emit", "final"} /\ view[v].pending # {}
     /\ Look(v, [view[v] EXCEPT !.pending = @ \ {n}, !.last = n, !.got = Append(@, n)])

\* Once the snapshot is sent: sleep and look again, or send what came since
\* and the terminal event
MutStatusCheck(v) ==
  /\ view[v].pc = "emit" /\ view[v].pending = {}
  /\ IF ops[view[v].op].status # "succeeded"
     THEN Look(v, [view[v] EXCEPT !.pc = "loop"])
     ELSE Look(v, Snapshot(view[v], "final"))
StatusCheck(v) ==
  /\ view[v].pc = "emit" /\ view[v].pending = {}
  /\ IF ops[view[v].op].status = "running"
     THEN Look(v, [view[v] EXCEPT !.pc = "loop"])
     ELSE Look(v, Snapshot(view[v], "final"))

YieldTerminal(v) ==
  /\ view[v].pc = "final" /\ view[v].pending = {}
  /\ Look(v, [view[v] EXCEPT !.pc = "done", !.last = ops[view[v].op].total + 1, !.ended = TRUE])

-----------------------------------------------------------------------------
Init ==
  /\ ops = <<>> /\ current = 0 /\ starting = {}
  /\ view = [v \in Viewer |-> NoView]

Process(o) == Exit(o) \/ CloseStdout(o)
Stderr(o) == StderrLine(o) \/ StderrEnd(o)
Reader(o) == ReadLine(o) \/ ReadEnd(o) \/ ExitSeen(o) \/ ReaderDone(o)
Watchdog(o) == Timeout(o) \/ GraceOver(o)
Stream(v) == LoopTop(v) \/ Yield(v) \/ StatusCheck(v) \/ YieldTerminal(v)

Next ==
  \/ \E c \in Client : StartDeploy(c) \/ Spawn(c) \/ SpawnFail(c)
  \/ \E o \in 1..Len(ops) :
       Process(o) \/ Stderr(o) \/ Reader(o) \/ ReadError(o) \/ ReaderCancelled(o) \/ Watchdog(o)
  \/ \E v \in Viewer : Connect(v) \/ Disconnect(v) \/ Stream(v)

Spec == Init /\ [][Next]_vars

\* The tasks run; a killed process exits, and the pipe of a process that has
\* exited is closed.  Nothing makes a process exit that was not killed.
FairSpec ==
  /\ Spec
  /\ \A o \in 1..MaxOp :
       /\ WF_vars(o <= Len(ops) /\ Reader(o)) /\ WF_vars(o <= Len(ops) /\ Watchdog(o))
       /\ WF_vars(o <= Len(ops) /\ ops[o].proc = "killed" /\ Exit(o))
       /\ WF_vars(o <= Len(ops) /\ Exited(ops[o]) /\ CloseStdout(o))
  /\ \A v \in Viewer : WF_vars(Stream(v))

-----------------------------------------------------------------------------
(***************************************************************************)
(* Properties.                                                             *)
(***************************************************************************)
\* Types of the operations and of what the clients of the log stream hold.
TypeOK ==
  /\ \A o \in 1..Len(ops) : ops[o] \in Op
  /\ current \in 0..Len(ops) /\ starting \subseteq Client
  /\ \A v \in Viewer : /\ view[v].pc \in ViewPc /\ view[v].op \in 0..Len(ops)
                        /\ view[v].pending \cup view[v].missed \subseteq Nat

\* A client gets the events in the order of their ids, each once, over any
\* number of reconnections, and the terminal event under a later id (and the
\* types hold).
InOrder ==
  /\ TypeOK
  /\ \A v \in Viewer :
       /\ \A i, j \in DOMAIN view[v].got : i < j => view[v].got[i] < view[v].got[j]
       /\ view[v].ended => \A n \in ToSet(view[v].got) : n < view[v].last

\* "Assign terminal status LAST": a client that got the terminal event has
\* every event of the deploy, the stderr lines and the watchdog's messages
\* included, except what the ring buffer had dropped when it looked, and so it
\* stays when it reconnects.
TerminalComplete ==
  \A v \in Viewer : view[v].ended =>
     1..ops[view[v].op].total = ToSet(view[v].got) \cup view[v].missed

\* The reader was cancelled, or has given up a process that goes on.
Cancelled(o) == ops[o].reader \in {"drain", "done"} /\ ops[o].final = "none"
Abandoned(o) == ops[o].final = "failed" /\ ~ Exited(ops[o])

\* A deploy whose process never exits by itself is terminated and ends, and
\* frees the next one, unless its reader is cancelled or breaks.
DeployEnds ==
  \A o \in 1..MaxOp : o <= Len(ops) ~>
     /\ o <= Len(ops)
     /\ (ops[o].status # "running" /\ Exited(ops[o])) \/ Cancelled(o) \/ Abandoned(o)

\* "Terminate the subprocess if it exceeds timeout_seconds", as the watchdog
\* says: no process outlives it, but for a reader that is cancelled when the
\* server stops.
TimeoutTerminates ==
  \A o \in 1..MaxOp : o <= Len(ops) ~> (o <= Len(ops) /\ (Exited(ops[o]) \/ Cancelled(o)))

\* A stream that stays connected ends with the terminal event.
StreamEnds ==
  \A v \in Viewer : view[v].pc \in {"loop", "emit", "final"} ~>
     (view[v].pc \in {"off", "done"} \/ Cancelled(view[v].op))
=============================================================================
