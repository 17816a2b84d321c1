--------------------------- MODULE MCThreadRuns ---------------------------
(* Values of the constants of ThreadRuns for TLC. *)
EXTENDS ThreadRuns, TLC

DeleteAfter1 == [strategy |-> "delete", minutes |-> 1]
KeepAfter1 == [strategy |-> "keep_latest", minutes |-> 1]

MCNoTTL == NoTTL

NoTTLInput == {NoTTL}
MixedTTLInput == {ClearTTL, BadTTL, KeepAfter1}
EitherTTLInput == {DeleteAfter1, KeepAfter1}
KeepTTLInput == {KeepAfter1}
DeleteTTLInput == {NoTTL, DeleteAfter1}

\* Requests are interchangeable.
ClientSymmetry == Permutations(Client)

============================================================================
