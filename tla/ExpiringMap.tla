----------------------------- MODULE ExpiringMap -----------------------------
(***************************************************************************)
(* What a store with TTLs promises: an item leaves it only by a request or *)
(* because its deadline has passed, a read may put a deadline off but      *)
(* never gives one to an item without, and all expired items leave at      *)
(* once.  A crash may bring back older items and deadlines, but loses      *)
(* nothing when everything was on disk.                                    *)
(***************************************************************************)
EXTENDS Integers, Functions

CONSTANTS Key, Batch

VARIABLES now,
          deadline,   \* item -> {time}, or {} for an item that never expires
          sweeping,   \* is a sweep under way?
          epoch,      \* the crashes so far
          saved       \* is everything on disk?

Init == now = 0 /\ deadline = [k \in {} |-> {}] /\ ~ sweeping /\ epoch = 0

Same(k) ==
  /\ k \in DOMAIN deadline <=> k \in DOMAIN deadline'
  /\ k \in DOMAIN deadline => deadline'[k] = deadline[k]

PutOff(k) ==
  /\ k \in DOMAIN deadline /\ k \in DOMAIN deadline'
  /\ \E d \in deadline[k] : \E e \in deadline'[k] : e >= d /\ deadline'[k] = {e}

\* A put without a TTL makes the item permanent, also over one with a TTL.
Written(k, put) ==
  IF put.del
  THEN k \notin DOMAIN deadline'
  ELSE k \in DOMAIN deadline' /\ deadline'[k] = {now + m : m \in put.ttl}

Request(puts) ==
  /\ \A k \in DOMAIN puts : Written(k, puts[k])
  /\ \A k \in Key \ DOMAIN puts : Same(k) \/ PutOff(k)

Expire == deadline' = Restrict(deadline, {k \in DOMAIN deadline : \A d \in deadline[k] : d > now})

Read == \A k \in Key : Same(k) \/ PutOff(k)

\* Only the end of a sweep may take expired items away.
Step ==
  \/ now' > now /\ deadline' = deadline
  \/ now' = now /\ sweeping /\ ~ sweeping' /\ (Expire \/ deadline' = deadline)
  \/ now' = now /\ sweeping' = sweeping /\ (Read \/ \E b \in Batch : Request(b.puts))
  \/ now' = now /\ deadline' = deadline /\ ~ sweeping /\ sweeping'

Recover == now' = now /\ (saved => deadline' = deadline)

Next == (epoch' = epoch /\ Step) \/ (epoch' # epoch /\ Recover)

Spec == Init /\ [][Next]_<<now, deadline, sweeping, epoch>>
=============================================================================
