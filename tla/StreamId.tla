----------------------------- MODULE StreamId -----------------------------
(***************************************************************************)
(* _generate_ms_seq_id (inmem_stream.py), called by threads at once.  A    *)
(* caller reads the wall clock before it takes _stream_id_lock, so callers *)
(* may get the lock in another order than they read the clock, and the     *)
(* clock may be set back meanwhile.                                        *)
(***************************************************************************)
EXTENDS Integers

CONSTANTS
  Caller,   (* threads that issue ids *)
  MaxMs,    (* bound: the wall clock, in milliseconds *)
  MaxSeq    (* bound: ids issued in one millisecond *)

ASSUME StreamIdAssumption == MaxMs \in Nat /\ MaxSeq \in Nat

VARIABLES
  clock,    (* time.time() * 1000 *)
  read,     (* current_ms of a caller, -1 when it has none *)
  last      (* _last_stream_ms and _last_stream_seq *)

vars == <<clock, read, last>>

First == [ms |-> -1, seq |-> -1]

----------------------------------------------------------------------------
\* Time passes, or the clock is set, also back.
SetClock(ms) ==
  /\ clock' = ms
  /\ UNCHANGED <<read, last>>

ReadClock(c) ==
  /\ read[c] = -1
  /\ read' = [read EXCEPT ![c] = clock]
  /\ UNCHANGED <<clock, last>>

\* max(current_ms, _last_stream_ms)
MutPinned(ms) == ms
Pinned(ms) == IF ms > last.ms THEN ms ELSE last.ms

\* The id issued under the lock.
NextId(ms) ==
  IF Pinned(ms) = last.ms THEN [last EXCEPT !.seq = @ + 1]
  ELSE [ms |-> Pinned(ms), seq |-> 0]

IssueId(c) ==
  /\ read[c] # -1
  /\ NextId(read[c]).seq <= MaxSeq
  /\ last' = NextId(read[c])
  /\ read' = [read EXCEPT ![c] = -1]
  /\ UNCHANGED clock

Init ==
  /\ clock \in 0..MaxMs
  /\ read = [c \in Caller |-> -1]
  /\ last = First

Next ==
  \/ \E ms \in 0..MaxMs : SetClock(ms)
  \/ \E c \in Caller : ReadClock(c) \/ IssueId(c)

Spec == Init /\ [][Next]_vars

----------------------------------------------------------------------------
\* Types of the clock, of what callers read, and of the last id.
TypeOK ==
  /\ clock \in 0..MaxMs
  /\ read \in [Caller -> -1..MaxMs]
  /\ last \in [ms : -1..MaxMs, seq : -1..MaxSeq]

\* The generator implements IdSource: ids only grow, whatever the clock does
\* and in whatever order callers get the lock.
Ids == INSTANCE IdSource WITH First <- First, last <- last
IdsGrow == Ids!Spec

============================================================================
