-------------------------- MODULE CheckpointHistory --------------------------
(***************************************************************************)
(* What a checkpointer promises about history, whatever it stores: the     *)
(* child of a restorable checkpoint is restorable, and a checkpoint stays  *)
(* restorable until the caller gives it up, by naming its run, by pruning  *)
(* its thread when it is not the newest, or by deleting its thread.        *)
(* Nothing is promised of a checkpoint that was given up and is still      *)
(* stored as the ancestor of another one.                                  *)
(***************************************************************************)
EXTENDS FiniteSets, Functions, Integers

CONSTANTS Thread, Ns, RunId, MaxId

VARIABLES entries,   \* the stored checkpoints: <<thread, ns, id>> -> [parent, run]
          live,      \* the restorable ones
          gaveUp     \* what the caller gave up in the last step

Key == Thread \X Ns \X (1..MaxId)

Init == entries = [k \in {} |-> 0] /\ live = {} /\ gaveUp = {}

Put(k) ==
  /\ k \notin DOMAIN entries
  /\ DOMAIN entries' = DOMAIN entries \cup {k}
  /\ Restrict(entries', DOMAIN entries) = entries
  /\ live \subseteq live' /\ live' \subseteq live \cup {k}
  /\ LET p == entries'[k].parent
     IN (p = 0 \/ <<k[1], k[2], p>> \in live) => k \in live'

\* Only what the caller gave up may be lost, from the store or as a state
\* that can be restored.
GiveUp(ks) ==
  /\ DOMAIN entries \ ks \subseteq DOMAIN entries' /\ DOMAIN entries' \subseteq DOMAIN entries
  /\ entries' = Restrict(entries, DOMAIN entries')
  /\ live \ ks \subseteq live' /\ live' \subseteq live

OfRuns(rs) == {k \in DOMAIN entries : entries[k].run \in rs}

Older(t) == {k \in DOMAIN entries :
               k[1] = t /\ \E j \in DOMAIN entries : j[1] = t /\ j[2] = k[2] /\ j[3] > k[3]}

Of(t) == {k \in DOMAIN entries : k[1] = t}

\* A copy is restorable when its original is.
Copy(t, u) ==
  LET original(k) == <<t, k[2], k[3]>>
      copies(ks) == {k \in Key : k[1] = u /\ original(k) \in ks}
  IN /\ entries' = [k \in DOMAIN entries \cup copies(DOMAIN entries) |->
                      IF k[1] = u THEN entries[original(k)] ELSE entries[k]]
     /\ live' = live \cup copies(live)

Removal ==
  /\ \/ \E rs \in SUBSET RunId : gaveUp' = OfRuns(rs)
     \/ \E t \in Thread : gaveUp' \in {Older(t), Of(t)}
     \/ gaveUp' = DOMAIN entries
  /\ GiveUp(gaveUp')

Addition ==
  /\ gaveUp' = {}
  /\ \/ \E k \in Key : Put(k)
     \/ \E t, u \in Thread : Of(u) = {} /\ Copy(t, u)

Next == Removal \/ Addition \/ (gaveUp' = {} /\ UNCHANGED <<entries, live>>)

Spec == Init /\ [][Next]_<<entries, live, gaveUp>>
=============================================================================
