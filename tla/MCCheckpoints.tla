---------------------------- MODULE MCCheckpoints ----------------------------
(* What a small graph writes in a step. *)
EXTENDS Checkpoints

\* A delta alone, the plain channel keeping its version; a snapshot with a
\* plain value; the plain channel cleared, the delta channel keeping its version.
MCPutInput ==
  {[written |-> {"d"}, full |-> {}],
   [written |-> {"d", "v"}, full |-> {"d", "v"}],
   [written |-> {"v"}, full |-> {}]}

\* gaveUp is written by every step and read by none.
HistoryView == <<storage, blobs, writes, sizes, total, nid, loop, over>>
=============================================================================
