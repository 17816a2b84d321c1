------------------------- MODULE PersistenceProofs -------------------------
(***************************************************************************)
(* Proofs about Persistence: a file has one owner, only the owner writes   *)
(* it, and what it writes is not older than the file, for any number of    *)
(* instances, writes and crashes.                                          *)
(***************************************************************************)
EXTENDS Persistence, TLAPS

\* What is invariant: the types, one owner, and that an instance in use was
\* registered.
OwnerInv == TypeOK /\ OneOwner /\ InUseRegistered

\* The initial state has no owner.
LEMMA OwnerInit == Init => OwnerInv
<1> SUFFICES ASSUME Init PROVE OwnerInv
  OBVIOUS
<1>1. flusher \in BOOLEAN /\ stopping \in BOOLEAN
  BY DEF Init
<1>2. TypeOK
  BY <1>1, PersistenceAssumption DEF Init, TypeOK
<1>3. OneOwner /\ InUseRegistered
  BY PersistenceAssumption DEF Init, OneOwner, InUseRegistered, LoadFirst
<1> QED BY <1>2, <1>3 DEF OwnerInv

\* Every step keeps the types.
LEMMA TypeNext == TypeOK /\ [Next]_vars => TypeOK'
<1> SUFFICES ASSUME TypeOK, [Next]_vars PROVE TypeOK'
  OBVIOUS
<1> USE PersistenceAssumption DEF TypeOK, counters
<1>1. CASE UNCHANGED vars
  BY <1>1 DEF vars
<1>2. ASSUME NEW i \in Inst, Make(i) \/ Load(i) PROVE TypeOK'
  BY <1>2 DEF Make, Load, Opened, LoadFirst
<1>3. ASSUME NEW i \in Inst, Register(i) PROVE TypeOK'
  BY <1>3 DEF Register, Opened, LoadFirst, OtherOwner, Starts
<1>4. ASSUME NEW i \in Inst, Write(i) PROVE TypeOK'
  BY <1>4 DEF Write
<1>5. ASSUME NEW i \in Inst, Close(i) \/ CloseFail(i) PROVE TypeOK'
  BY <1>5 DEF Close, CloseFail, Synced, Unregistered
<1>6. ASSUME NEW i \in Inst, Collect(i) PROVE TypeOK'
  BY <1>6 DEF Collect
<1>7. CASE Flush \/ StopPool \/ StartPool \/ OtherRegister
  BY <1>7 DEF Flush, StopPool, StartPool, OtherRegister
<1>8. CASE Crash
  <2>1. flusher' \in BOOLEAN /\ stopping' \in BOOLEAN
    BY <1>8 DEF Crash
  <2> QED BY <1>8, <2>1 DEF Crash
<1> QED BY <1>1, <1>2, <1>3, <1>4, <1>5, <1>6, <1>7, <1>8 DEF Next

\* Every step keeps one owner, and keeps instances in use registered.
LEMMA OwnerNext == OwnerInv /\ [Next]_vars => OwnerInv'
<1> SUFFICES ASSUME OwnerInv, [Next]_vars PROVE OneOwner' /\ InUseRegistered'
  BY TypeNext DEF OwnerInv
<1> USE PersistenceAssumption DEF OwnerInv, TypeOK, OneOwner, InUseRegistered, LoadFirst, counters
<1>1. CASE UNCHANGED vars
  BY <1>1 DEF vars
<1>2. ASSUME NEW i \in Inst, Make(i) \/ Load(i) PROVE OneOwner' /\ InUseRegistered'
  BY <1>2 DEF Make, Load, Opened, LoadFirst
<1>3. ASSUME NEW i \in Inst, Register(i) PROVE OneOwner' /\ InUseRegistered'
  BY <1>3 DEF Register, Opened, LoadFirst, OtherOwner, Starts
<1>4. ASSUME NEW i \in Inst, Write(i) PROVE OneOwner' /\ InUseRegistered'
  BY <1>4 DEF Write
<1>5. ASSUME NEW i \in Inst, Close(i) \/ CloseFail(i) PROVE OneOwner' /\ InUseRegistered'
  BY <1>5 DEF Close, CloseFail, Synced, Unregistered, MayNotSync, OtherOwner
<1>6. ASSUME NEW i \in Inst, Collect(i) PROVE OneOwner' /\ InUseRegistered'
  BY <1>6 DEF Collect
<1>7. CASE Flush \/ StopPool \/ StartPool \/ OtherRegister
  BY <1>7 DEF Flush, StopPool, StartPool, OtherRegister
<1>8. CASE Crash
  BY <1>8 DEF Crash
<1> QED BY <1>1, <1>2, <1>3, <1>4, <1>5, <1>6, <1>7, <1>8 DEF Next

\* A step that changes the file writes the contents of the registered owner.
LEMMA OwnerStep ==
  ASSUME OwnerInv, [Next]_vars, disk' # disk
  PROVE  \E i \in Inst : own[i] = "owner" /\ reg = i /\ disk' = mem[i]
<1> USE DEF OwnerInv, TypeOK, OneOwner, InUseRegistered
<1>1. CASE Flush
  BY <1>1 DEF Flush
<1>2. ASSUME NEW i \in Inst, Close(i)
      PROVE  own[i] = "owner" /\ reg = i /\ disk' = mem[i]
  BY <1>2 DEF Close, Synced, MayNotSync, OtherOwner
<1>3. CASE ~Flush /\ ~ \E i \in Inst : Close(i)
  BY <1>3 DEF Next, vars, Make, Load, Register, Write, CloseFail, Collect, StopPool,
              StartPool, OtherRegister, Crash
<1> QED BY <1>1, <1>2, <1>3

\* The invariant of every behaviour.
LEMMA OwnerInvariant == Spec => []OwnerInv
  BY OwnerInit, OwnerNext, PTL DEF Spec

\* A file has one owner, which is the registered instance, however many
\* instances are made, registered, closed and collected.
THEOREM OwnerUnique == Spec => []OneOwner
<1>1. OwnerInv => OneOwner
  BY DEF OwnerInv
<1> QED BY <1>1, OwnerInvariant, PTL

\* Only the live owner writes the file: no denied, late or closed instance
\* replaces what its owner wrote.
THEOREM OwnerWrites == Spec => OnlyOwnerWrites
<1>1. OwnerInv /\ [Next]_vars =>
        [disk' # disk => \E i \in Inst : own[i] = "owner" /\ reg = i /\ disk' = mem[i]]_vars
  BY OwnerStep
<1> QED BY <1>1, OwnerInvariant, PTL DEF Spec, OnlyOwnerWrites

----------------------------------------------------------------------------
\* Nothing is newer than the last write.
Numbered == disk <= Persisted + nwrite /\ \A i \in Inst : mem[i] <= Persisted + nwrite

\* The registered instance is not older than the file, but for the one that
\* is registered and not yet loaded.
OwnerFresh == \A i \in Inst : reg = i => disk <= mem[i] \/ (life[i] = "half" /\ ~LoadFirst)

\* The store of the pool is the only instance of its file: it is never denied,
\* and after its load nothing changes the file before it registers.
PoolAlone ==
  file = "ops" =>
    /\ \A i, j \in Inst : life[i] # "none" /\ life[j] # "none" => i = j
    /\ \A i \in Inst : /\ own[i] # "denied" /\ (reg = i => life[i] # "none")
                       /\ life[i] = "half" => disk <= mem[i]

\* The invariant behind NoStaleOverwrite.
FreshInv == Numbered /\ OwnerFresh /\ PoolAlone

\* The initial state has no owner, and nothing was written.
LEMMA FreshInit == Init => FreshInv
<1> SUFFICES ASSUME Init PROVE FreshInv
  OBVIOUS
<1>1. Numbered
  BY PersistenceAssumption DEF Init, Numbered
<1> QED BY <1>1, PersistenceAssumption DEF Init, FreshInv, OwnerFresh, PoolAlone

\* Every step keeps it.
LEMMA FreshNext == OwnerInv /\ FreshInv /\ [Next]_vars => FreshInv'
<1> SUFFICES ASSUME OwnerInv, FreshInv, [Next]_vars PROVE FreshInv'
  OBVIOUS
<1> USE PersistenceAssumption DEF OwnerInv, TypeOK, OneOwner, InUseRegistered, FreshInv,
        Numbered, OwnerFresh, PoolAlone, LoadFirst, counters
<1>1. CASE UNCHANGED vars
  BY <1>1 DEF vars
<1>2. ASSUME NEW i \in Inst, Make(i) PROVE FreshInv'
  BY <1>2 DEF Make
<1>3. ASSUME NEW i \in Inst, Load(i) PROVE FreshInv'
  BY <1>3 DEF Load, Opened
<1>4. ASSUME NEW i \in Inst, Register(i) PROVE FreshInv'
  BY <1>4 DEF Register, Opened, OtherOwner, Starts
<1>5. ASSUME NEW i \in Inst, Write(i) PROVE FreshInv'
  BY <1>5 DEF Write
<1>6. ASSUME NEW i \in Inst, Close(i) PROVE FreshInv'
  BY <1>6 DEF Close, Synced, Unregistered, MayNotSync, OtherOwner
<1>7. ASSUME NEW i \in Inst, CloseFail(i) \/ Collect(i) PROVE FreshInv'
  BY <1>7 DEF CloseFail, Collect
<1>8. CASE Flush
  BY <1>8 DEF Flush
<1>9. CASE StopPool \/ StartPool \/ OtherRegister
  BY <1>9 DEF StopPool, StartPool, OtherRegister
<1>10. CASE Crash
  BY <1>10 DEF Crash
<1> QED BY <1>1, <1>2, <1>3, <1>4, <1>5, <1>6, <1>7, <1>8, <1>9, <1>10 DEF Next

\* A step that writes the file writes the contents of the owner, which are not
\* older, unless the owner is registered and not yet loaded.
LEMMA FreshStep ==
  ASSUME OwnerInv, FreshInv, [Next]_vars
  PROVE  disk' >= disk \/ \E i \in Inst : reg = i /\ life[i] = "half" /\ ~LoadFirst
<1>1. CASE disk' = disk
  BY <1>1 DEF OwnerInv, TypeOK
<1>2. CASE disk' # disk
  <2>1. PICK i \in Inst : own[i] = "owner" /\ reg = i /\ disk' = mem[i]
    BY <1>2, OwnerStep
  <2> QED BY <2>1 DEF OwnerInv, TypeOK, FreshInv, OwnerFresh
<1> QED BY <1>1, <1>2

\* No flush, shutdown, restart in one process or crash replaces a snapshot by
\* an older one, but for the flush of an instance of store.py or checkpoint.py
\* that is registered and not yet loaded.
THEOREM SnapshotsGrow == Spec => NoStaleOverwrite
<1>1. Spec => []FreshInv
  BY FreshInit, FreshNext, OwnerInvariant, PTL DEF Spec
<1>2. OwnerInv /\ FreshInv /\ [Next]_vars =>
        [disk' >= disk \/ \E i \in Inst : reg = i /\ life[i] = "half" /\ ~LoadFirst]_vars
  BY FreshStep
<1> QED BY <1>1, <1>2, OwnerInvariant, PTL DEF Spec, NoStaleOverwrite

============================================================================
