----------------------------- MODULE IdSource -----------------------------
(***************************************************************************)
(* What the generator of stream ids promises: every id it issues is        *)
(* greater than all it issued before, by milliseconds, then by sequence.   *)
(* A resume cursor therefore splits the messages of a run in two.          *)
(***************************************************************************)
EXTENDS Integers

CONSTANT First       (* the id before the first one *)

VARIABLE last        (* the last id issued *)

\* The comparison of restore_messages, on parsed ids.
Less(a, b) == a.ms < b.ms \/ (a.ms = b.ms /\ a.seq < b.seq)

Init == last = First

Issue == Less(last, last')

Spec == Init /\ [][Issue]_last

============================================================================
