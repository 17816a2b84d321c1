-------------------------- MODULE StreamIdProofs --------------------------
(* Proof that the generator of stream ids implements IdSource. *)
EXTENDS StreamId, TLAPS

\* The types hold in every reachable state.
LEMMA TypeInvariant == Spec => []TypeOK
<1>1. Init => TypeOK
  BY StreamIdAssumption DEF Init, TypeOK, First
<1>2. TypeOK /\ [Next]_vars => TypeOK'
  <2> SUFFICES ASSUME TypeOK, [Next]_vars PROVE TypeOK'
    OBVIOUS
  <2> USE StreamIdAssumption DEF TypeOK
  <2>1. ASSUME NEW ms \in 0..MaxMs, SetClock(ms) PROVE TypeOK'
    BY <2>1 DEF SetClock
  <2>2. ASSUME NEW c \in Caller, ReadClock(c) PROVE TypeOK'
    BY <2>2 DEF ReadClock
  <2>3. ASSUME NEW c \in Caller, IssueId(c) PROVE TypeOK'
    BY <2>3 DEF IssueId, NextId, Pinned
  <2>4. CASE UNCHANGED vars
    BY <2>4 DEF vars
  <2> QED BY <2>1, <2>2, <2>3, <2>4 DEF Next
<1> QED BY <1>1, <1>2, PTL DEF Spec

\* The id issued for any clock value is greater than the last one.
LEMMA NextIdGreater ==
  ASSUME TypeOK, NEW ms \in 0..MaxMs
  PROVE  Ids!Less(last, NextId(ms))
  BY StreamIdAssumption DEF TypeOK, NextId, Pinned, Ids!Less

\* The generator implements IdSource for every number of threads and every
\* behaviour of the clock: ids are unique and grow in the order of issue.
THEOREM IdsRefine == Spec => IdsGrow
<1>1. Init => Ids!Init
  BY DEF Init, Ids!Init
<1>2. TypeOK /\ [Next]_vars => [Ids!Issue]_last
  <2> SUFFICES ASSUME TypeOK, [Next]_vars PROVE [Ids!Issue]_last
    OBVIOUS
  <2>1. ASSUME NEW c \in Caller, IssueId(c) PROVE Ids!Issue
    <3>1. read[c] \in 0..MaxMs
      BY <2>1, StreamIdAssumption DEF TypeOK, IssueId
    <3> QED BY <2>1, <3>1, NextIdGreater DEF IssueId, Ids!Issue, Ids!Less
  <2>2. ASSUME NEW ms \in 0..MaxMs, SetClock(ms) PROVE UNCHANGED last
    BY <2>2 DEF SetClock
  <2>3. ASSUME NEW c \in Caller, ReadClock(c) PROVE UNCHANGED last
    BY <2>3 DEF ReadClock
  <2>4. CASE UNCHANGED vars
    BY <2>4 DEF vars
  <2> QED BY <2>1, <2>2, <2>3, <2>4 DEF Next
<1> QED BY <1>1, <1>2, TypeInvariant, PTL DEF Spec, IdsGrow, Ids!Spec

============================================================================
