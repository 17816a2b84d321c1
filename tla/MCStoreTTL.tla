------------------------------ MODULE MCStoreTTL ------------------------------
(* The batches of a few requests. *)
EXTENDS StoreTTL

Item(ttl, index) == [del |-> FALSE, ttl |-> ttl, index |-> index]

Puts(puts) == [gets |-> {}, search |-> FALSE, puts |-> puts, bad |-> FALSE]

\* A put that waits for its embedding, and one whose TTL is bad; a put
\* without TTL beside one that expires at once; a read and a search that
\* refresh, with a deletion.
MCBatch ==
  {Puts("k1" :> Item({1}, TRUE)),
   [Puts("k1" :> Item({}, TRUE)) EXCEPT !.bad = TRUE],
   Puts("k1" :> Item({}, FALSE) @@ "k2" :> Item({0}, FALSE)),
   [Puts("k2" :> [del |-> TRUE, ttl |-> {}, index |-> FALSE]) EXCEPT !.gets = {"k1"}, !.search = TRUE]}
=============================================================================
