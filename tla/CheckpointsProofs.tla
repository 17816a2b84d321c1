--------------------------- MODULE CheckpointsProofs ---------------------------
(***************************************************************************)
(* Proofs about Checkpoints, for any threads, namespaces, runs, channels   *)
(* and steps of a graph: sizes are exact, removals leave nothing behind    *)
(* and take nothing of what is kept, the two savers agree, and history     *)
(* stays restorable.                                                       *)
(***************************************************************************)
EXTENDS Checkpoints, FiniteSetTheorems, WellFoundedInduction, TLAPS

(* Sums over finite sets.                                                  *)

\* Every non-empty set of numbers has a least element.
LEMMA LeastExists ==
  ASSUME NEW S, S \subseteq Nat, S # {}
  PROVE  \E n \in S : \A m \in S : n <= m
<1> DEFINE R == {p \in Nat \X Nat : p[1] < p[2]}
<1>1. IsWellFoundedOn(R, Nat)
  BY NatLessThanWellFounded DEF OpToRel
<1>2. ASSUME NEW m \in Nat, NEW n \in Nat, <<m, n>> \notin R PROVE n <= m
  BY <1>2
<1> HIDE DEF R
<1>3. \E n \in S : \A m \in S : <<m, n>> \notin R
  BY <1>1, WFMin
<1> QED BY <1>2, <1>3

\* Induction on the subsets of a finite set: every subset is in G when it is
\* as soon as it is with any one element less.
LEMMA SubsetInduction ==
  ASSUME NEW S, IsFiniteSet(S), NEW G,
         \A T \in SUBSET S : (\A x \in T : T \ {x} \in G) => T \in G
  PROVE  \A T \in SUBSET S : T \in G
<1> DEFINE bad == {T \in SUBSET S : T \notin G}
           N == {Cardinality(T) : T \in bad}
<1>1. \A T \in SUBSET S : IsFiniteSet(T) /\ Cardinality(T) \in Nat
  BY FS_Subset, FS_CardinalityType
<1> SUFFICES ASSUME bad # {} PROVE FALSE
  OBVIOUS
<1>2. N \subseteq Nat /\ N # {}
  BY <1>1
<1>3. PICK n \in N : \A m \in N : n <= m
  BY <1>2, LeastExists
<1>4. PICK T \in bad : Cardinality(T) = n
  BY <1>3
<1>5. PICK x \in T : T \ {x} \in bad
  BY <1>4
<1>6. Cardinality(T \ {x}) = n - 1
  BY <1>1, <1>4, FS_RemoveElement
<1>7. n - 1 \in N /\ n \in Nat
  BY <1>2, <1>5, <1>6
<1> QED BY <1>3, <1>7

\* The recursion behind SumFunctionOnSet.
Pick(s) == CHOOSE x \in s : TRUE
Iterates(it, g, D) ==
  it = [s \in D |-> IF s = {} THEN 0 ELSE g[Pick(s)] + it[s \ {Pick(s)}]]

LEMMA SumForm ==
  ASSUME NEW g, NEW S
  PROVE SumFunctionOnSet(g, S) = (CHOOSE it : Iterates(it, g, SUBSET S))[S]
  BY DEF SumFunctionOnSet, FoldFunctionOnSet, MapThenFoldSet, Iterates, Pick

LEMMA Induction ==
  ASSUME NEW S, 0 \in S, \A n \in Nat : n \in S => n + 1 \in S
  PROVE  Nat \subseteq S
<1> DEFINE T == Nat \ S
<1>1. SUFFICES ASSUME T # {} PROVE FALSE
  OBVIOUS
<1>2. PICK n \in T : \A m \in T : n <= m
  <2> HIDE DEF T
  <2>1. T \subseteq Nat
    BY DEF T
  <2> QED BY <1>1, <2>1, LeastExists
<1>3. n # 0 /\ n - 1 \in Nat /\ n - 1 \in S
  BY <1>2
<1> QED BY <1>2, <1>3

LEMMA IterationExists ==
  ASSUME NEW g, NEW S, IsFiniteSet(S)
  PROVE  \E it : Iterates(it, g, SUBSET S)
<1> DEFINE U(n) == {s \in SUBSET S : Cardinality(s) <= n}
           B == {n \in Nat : \E it : Iterates(it, g, U(n))}
           Step(it, s) == IF s = {} THEN 0 ELSE g[Pick(s)] + it[s \ {Pick(s)}]
<1>1. \A s \in SUBSET S : IsFiniteSet(s) /\ Cardinality(s) \in Nat
  BY FS_Subset, FS_CardinalityType
<1>2. ASSUME NEW s \in SUBSET S, s # {}
      PROVE  Pick(s) \in s /\ Cardinality(s \ {Pick(s)}) = Cardinality(s) - 1 /\ s \ {Pick(s)} \in SUBSET S
  <2>1. Pick(s) \in s
    BY <1>2 DEF Pick
  <2> QED BY <1>1, <2>1, FS_RemoveElement
<1>3. 0 \in B
  <2>1. ASSUME NEW s \in U(0) PROVE s = {}
    <3>1. Cardinality(s) = 0
      BY <1>1
    <3> QED BY <1>1, <3>1, FS_EmptySet
  <2> HIDE DEF U
  <2>2. Iterates([s \in U(0) |-> 0], g, U(0))
    BY <2>1 DEF Iterates
  <2> QED BY <2>2
<1>4. ASSUME NEW n \in Nat, n \in B PROVE n + 1 \in B
  <2>1. PICK it : Iterates(it, g, U(n))
    BY <1>4
  <2> DEFINE next == [s \in U(n + 1) |-> Step(it, s)]
  <2>2. ASSUME NEW s \in U(n + 1), s # {} PROVE s \ {Pick(s)} \in U(n)
    BY <1>1, <1>2, <2>2
  <2>3. \A s \in U(n) : s \in U(n + 1)
    BY <1>1
  <2> HIDE DEF U
  <2>4. \A s \in U(n) : next[s] = it[s]
    BY <2>1, <2>3 DEF Iterates
  <2>5. \A s \in U(n + 1) : Step(it, s) = Step(next, s)
    BY <2>2, <2>4
  <2>6. next = [s \in U(n + 1) |-> Step(next, s)]
    <3> DEFINE nx == next
    <3>1. nx = [s \in U(n + 1) |-> Step(it, s)]
      OBVIOUS
    <3> HIDE DEF nx
    <3>2. \A s \in U(n + 1) : Step(it, s) = Step(nx, s)
      BY <2>5 DEF nx
    <3> HIDE DEF Step
    <3>3. nx = [s \in U(n + 1) |-> Step(nx, s)]
      BY <3>1, <3>2
    <3> QED BY <3>3 DEF nx
  <2> HIDE DEF next
  <2>7. Iterates(next, g, U(n + 1))
    BY <2>6 DEF Iterates
  <2> QED BY <2>7
<1>5. Cardinality(S) \in B
  <2> HIDE DEF B
  <2> QED BY <1>1, <1>3, <1>4, Induction
<1>6. U(Cardinality(S)) = SUBSET S
  BY FS_Subset
<1> HIDE DEF U
<1> QED BY <1>5, <1>6

LEMMA SumIterates ==
  ASSUME NEW g, NEW S, IsFiniteSet(S)
  PROVE  \E it : Iterates(it, g, SUBSET S) /\ SumFunctionOnSet(g, S) = it[S]
  BY IterationExists, SumForm

\* The values of the recursion do not depend on the set it is meant for.
LEMMA IterationsAgree ==
  ASSUME NEW g, NEW S, NEW T, IsFiniteSet(T), T \subseteq S,
         NEW i, NEW j, Iterates(i, g, SUBSET S), Iterates(j, g, SUBSET T)
  PROVE  i[T] = j[T]
<1> DEFINE G == {s \in SUBSET T : i[s] = j[s]}
<1>1. ASSUME NEW s \in SUBSET T, \A x \in s : s \ {x} \in G PROVE s \in G
  <2>0. i[s] = (IF s = {} THEN 0 ELSE g[Pick(s)] + i[s \ {Pick(s)}]) /\ j[s] = IF s = {} THEN 0 ELSE g[Pick(s)] + j[s \ {Pick(s)}]
    <3>1. s \in SUBSET S
      OBVIOUS
    <3> QED BY <3>1 DEF Iterates
  <2>1. CASE s = {}
    BY <2>0, <2>1
  <2>2. CASE s # {}
    <3>1. Pick(s) \in s
      BY <2>2 DEF Pick
    <3>2. i[s \ {Pick(s)}] = j[s \ {Pick(s)}]
      BY <1>1, <3>1
    <3> QED BY <2>0, <3>2
  <2> QED BY <2>1, <2>2
<1> HIDE DEF G
<1>2. T \in G
  BY <1>1, SubsetInduction
<1> QED BY <1>2 DEF G

LEMMA SumStep ==
  ASSUME NEW g, NEW S, IsFiniteSet(S), S # {}
  PROVE  Pick(S) \in S /\ SumFunctionOnSet(g, S) = g[Pick(S)] + SumFunctionOnSet(g, S \ {Pick(S)})
<1> DEFINE T == S \ {Pick(S)}
<1>1. Pick(S) \in S
  BY DEF Pick
<1>2. IsFiniteSet(T) /\ T \subseteq S
  BY FS_Subset
<1>3. PICK i : Iterates(i, g, SUBSET S) /\ SumFunctionOnSet(g, S) = i[S]
  BY SumIterates
<1>4. PICK j : Iterates(j, g, SUBSET T) /\ SumFunctionOnSet(g, T) = j[T]
  BY <1>2, SumIterates
<1>5. i[S] = g[Pick(S)] + i[T]
  BY <1>3 DEF Iterates
<1>6. i[T] = j[T]
  <2> HIDE DEF T
  <2> QED BY <1>2, <1>3, <1>4, IterationsAgree
<1> QED BY <1>1, <1>3, <1>4, <1>5, <1>6

LEMMA SumEmpty == ASSUME NEW g PROVE SumFunctionOnSet(g, {}) = 0
<1>1. PICK i : Iterates(i, g, SUBSET {}) /\ SumFunctionOnSet(g, {}) = i[{}]
  BY FS_EmptySet, SumIterates
<1> QED BY <1>1 DEF Iterates

LEMMA SumInt ==
  ASSUME NEW g, NEW S, IsFiniteSet(S), \A x \in S : g[x] \in Int
  PROVE  SumFunctionOnSet(g, S) \in Int
<1> DEFINE G == {s \in SUBSET S : SumFunctionOnSet(g, s) \in Int}
<1>1. ASSUME NEW s \in SUBSET S, \A x \in s : s \ {x} \in G PROVE s \in G
  <2>1. CASE s = {}
    BY <2>1, SumEmpty
  <2>2. CASE s # {}
    <3>1. Pick(s) \in s /\ SumFunctionOnSet(g, s) = g[Pick(s)] + SumFunctionOnSet(g, s \ {Pick(s)})
      BY <2>2, FS_Subset, SumStep
    <3>2. SumFunctionOnSet(g, s \ {Pick(s)}) \in Int
      BY <1>1, <3>1
    <3> QED BY <3>1, <3>2
  <2> QED BY <2>1, <2>2
<1> HIDE DEF G
<1>2. \A T \in SUBSET S : T \in G
  BY <1>1, SubsetInduction
<1> QED BY <1>2 DEF G

\* Any element can be taken out of a sum.
LEMMA SumOut ==
  ASSUME NEW g, NEW S, IsFiniteSet(S), \A x \in S : g[x] \in Int, NEW y \in S
  PROVE  SumFunctionOnSet(g, S) = g[y] + SumFunctionOnSet(g, S \ {y})
<1> DEFINE Sm(s) == SumFunctionOnSet(g, s)
           G == {s \in SUBSET S : \A x \in s : Sm(s) = g[x] + Sm(s \ {x})}
<1>0. \A s \in SUBSET S : Sm(s) \in Int
  BY FS_Subset, SumInt
<1>1. ASSUME NEW s \in SUBSET S, \A x \in s : s \ {x} \in G PROVE s \in G
  <2>1. CASE s = {}
    BY <2>1
  <2>2. CASE s # {}
    <3> DEFINE p == Pick(s)
    <3>1. p \in s /\ Sm(s) = g[p] + Sm(s \ {p})
      BY <2>2, FS_Subset, SumStep
    <3> HIDE DEF Sm, p
    <3>2. ASSUME NEW x \in s, x # p PROVE Sm(s) = g[x] + Sm(s \ {x})
      <4> DEFINE r == (s \ {p}) \ {x}
      <4>1. Sm(s \ {p}) = g[x] + Sm(r)
        BY <1>1, <3>1, <3>2
      <4>2. Sm(s \ {x}) = g[p] + Sm((s \ {x}) \ {p})
        BY <1>1, <3>1, <3>2
      <4>3. (s \ {x}) \ {p} = r
        OBVIOUS
      <4>4. Sm(r) \in Int /\ g[p] \in Int /\ g[x] \in Int
        BY <1>0, <3>1
      <4>5. Sm(s \ {x}) = g[p] + Sm(r)
        BY <4>2, <4>3
      <4> HIDE DEF r
      <4> QED BY <3>1, <4>1, <4>4, <4>5
    <3> QED BY <3>1, <3>2
  <2> QED BY <2>1, <2>2
<1> HIDE DEF G, Sm
<1>2. \A T \in SUBSET S : T \in G
  BY <1>1, SubsetInduction
<1> QED BY <1>2 DEF G, Sm

\* A sum depends on the values at the elements only.
LEMMA SumEqual ==
  ASSUME NEW g, NEW h, NEW S, IsFiniteSet(S), \A x \in S : g[x] = h[x]
  PROVE  SumFunctionOnSet(g, S) = SumFunctionOnSet(h, S)
<1> DEFINE G == {s \in SUBSET S : SumFunctionOnSet(g, s) = SumFunctionOnSet(h, s)}
<1>1. ASSUME NEW s \in SUBSET S, \A x \in s : s \ {x} \in G PROVE s \in G
  <2>1. CASE s = {}
    BY <2>1, SumEmpty
  <2>2. CASE s # {}
    <3>1. Pick(s) \in s /\ SumFunctionOnSet(g, s) = g[Pick(s)] + SumFunctionOnSet(g, s \ {Pick(s)})
          /\ SumFunctionOnSet(h, s) = h[Pick(s)] + SumFunctionOnSet(h, s \ {Pick(s)})
      BY <2>2, FS_Subset, SumStep
    <3>2. SumFunctionOnSet(g, s \ {Pick(s)}) = SumFunctionOnSet(h, s \ {Pick(s)}) /\ g[Pick(s)] = h[Pick(s)]
      BY <1>1, <3>1
    <3> QED BY <3>1, <3>2
  <2> QED BY <2>1, <2>2
<1> HIDE DEF G
<1>2. \A T \in SUBSET S : T \in G
  BY <1>1, SubsetInduction
<1> QED BY <1>2 DEF G

\* The sum over two disjoint sets.
LEMMA SumUnion ==
  ASSUME NEW g, NEW A, NEW B, IsFiniteSet(A), IsFiniteSet(B), A \cap B = {},
         \A x \in A \cup B : g[x] \in Int
  PROVE  SumFunctionOnSet(g, A \cup B) = SumFunctionOnSet(g, A) + SumFunctionOnSet(g, B)
<1> DEFINE Sm(s) == SumFunctionOnSet(g, s)
           G == {s \in SUBSET B : Sm(A \cup s) = Sm(A) + Sm(s)}
<1>0. \A s \in SUBSET B : IsFiniteSet(s) /\ IsFiniteSet(A \cup s) /\ Sm(A \cup s) \in Int /\ Sm(s) \in Int
  <2>1. ASSUME NEW s \in SUBSET B PROVE IsFiniteSet(s) /\ IsFiniteSet(A \cup s)
    BY FS_Subset, FS_Union
  <2> QED BY <2>1, SumInt
<1>a. Sm(A) \in Int
  BY SumInt
<1>1. ASSUME NEW s \in SUBSET B, \A x \in s : s \ {x} \in G PROVE s \in G
  <2>1. CASE s = {}
    <3>1. Sm(s) = 0 /\ A \cup s = A
      BY <2>1, SumEmpty
    <3> HIDE DEF Sm
    <3>2. Sm(A) = Sm(A) + 0
      BY <1>a
    <3>3. Sm(A \cup s) = Sm(A) + Sm(s)
      BY <3>1, <3>2
    <3> QED BY <3>3
  <2>2. CASE s # {}
    <3>1. PICK x \in s : TRUE
      BY <2>2
    <3>2. Sm(s) = g[x] + Sm(s \ {x})
      <4>1. IsFiniteSet(s) /\ \A z \in s : g[z] \in Int
        BY <1>0
      <4> QED BY <4>1, SumOut
    <3>3. Sm(A \cup s) = g[x] + Sm((A \cup s) \ {x})
      <4> DEFINE As == A \cup s
      <4>1. IsFiniteSet(As) /\ (\A z \in As : g[z] \in Int) /\ x \in As
        BY <1>0
      <4> HIDE DEF As
      <4>2. Sm(As) = g[x] + Sm(As \ {x})
        BY <4>1, SumOut
      <4> QED BY <4>2 DEF As
    <3>4. (A \cup s) \ {x} = A \cup (s \ {x})
      OBVIOUS
    <3> HIDE DEF Sm
    <3>5. Sm(A \cup (s \ {x})) = Sm(A) + Sm(s \ {x})
      BY <1>1
    <3>6. g[x] \in Int /\ Sm(A) \in Int /\ Sm(s \ {x}) \in Int
      BY <1>0, <1>a
    <3>7. Sm(A \cup s) = g[x] + Sm(A \cup (s \ {x}))
      BY <3>3, <3>4
    <3>8. Sm(A \cup s) = Sm(A) + Sm(s)
      BY <3>2, <3>5, <3>6, <3>7
    <3> QED BY <3>8
  <2> QED BY <2>1, <2>2
<1> HIDE DEF G, Sm
<1>2. \A T \in SUBSET B : T \in G
  BY <1>1, SubsetInduction
<1> QED BY <1>2 DEF G, Sm

-----------------------------------------------------------------------------
(* The invariant of the dictionaries.                                      *)

Dict(f) == f = [x \in DOMAIN f |-> f[x]]

\* The types, and that the dictionaries are finite.
Shape ==
  /\ Dict(storage) /\ IsFiniteSet(DOMAIN storage)
  /\ DOMAIN storage \subseteq Key /\ \A k \in DOMAIN storage : storage[k] \in Entry /\ storage[k].parent < k[3]
  /\ Dict(blobs) /\ IsFiniteSet(DOMAIN blobs)
  /\ DOMAIN blobs \subseteq BlobKey /\ \A b \in DOMAIN blobs : blobs[b] \in {"value", "empty"}
  /\ Dict(writes) /\ IsFiniteSet(DOMAIN writes)
  /\ DOMAIN writes \subseteq Key /\ \A k \in DOMAIN writes : writes[k] \in 1..MaxWrites
  /\ nid \in 0..MaxId
  /\ DOMAIN loop \subseteq RunId \ over /\ \A r \in DOMAIN loop : loop[r] \in Loop
  /\ over \subseteq RunId /\ gaveUp \subseteq Key

\* No id is greater than the last one issued.
Aged ==
  /\ \A k \in DOMAIN storage :
        /\ k[3] <= nid
        /\ storage[k].counters = Delta \cap DOMAIN storage[k].versions
        /\ \A ch \in DOMAIN storage[k].versions : storage[k].versions[ch] <= nid
  /\ \A b \in DOMAIN blobs : b[4] <= nid

\* What a loop holds of the checkpoint it is at.
LoopFits(l, ns) ==
  LET k == <<l.thread, ns, l.at[ns]>>
  IN /\ l.at[ns] <= nid
     /\ \A ch \in DOMAIN l.versions[ns] : l.versions[ns][ch] <= nid
     /\ l.at[ns] = 0 => l.versions[ns] = NoVersions
     /\ k \in DOMAIN storage => storage[k].versions = l.versions[ns]
Loops == \A r \in DOMAIN loop : \A ns \in Ns : LoopFits(loop[r], ns)

HistInv == Shape /\ Aged /\ Loops

LEMMA KeyParts ==
  ASSUME NEW k \in Key
  PROVE  k = <<k[1], k[2], k[3]>> /\ k[1] \in Thread /\ k[2] \in Ns /\ k[3] \in Id /\ k[3] \in Nat /\ k[3] # 0
  BY BoundsAssumption DEF Key, Id

LEMMA BlobParts ==
  ASSUME NEW b \in BlobKey
  PROVE  b = <<b[1], b[2], b[3], b[4]>> /\ b[1] \in Thread /\ b[2] \in Ns /\ b[3] \in Channel /\ b[4] \in Id
  BY DEF BlobKey

LEMMA VersionsType ==
  ASSUME NEW f
  PROVE  /\ f \in Versions => DOMAIN f \subseteq Channel /\ f \in [DOMAIN f -> Id]
         /\ \A cs \in SUBSET Channel : f \in [cs -> Id] => f \in Versions
  BY DEF Versions

\* Dictionaries that lose items.
Shrunk(g, f) == Dict(g) /\ DOMAIN g \subseteq DOMAIN f /\ \A x \in DOMAIN g : g[x] = f[x]
Shrinks == Shrunk(storage', storage) /\ Shrunk(blobs', blobs) /\ Shrunk(writes', writes) /\ UNCHANGED <<nid, loop, over>>

LEMMA RestrictShrinks ==
  ASSUME NEW f, NEW S
  PROVE  Shrunk(Restrict(f, DOMAIN f \ S), f) /\ DOMAIN Restrict(f, DOMAIN f \ S) = DOMAIN f \ S
  BY DEF Shrunk, Dict, Restrict

ShrinksBy(ks, ws, bs) ==
  /\ Shrinks
  /\ DOMAIN storage' = DOMAIN storage \ ks
  /\ DOMAIN writes' = DOMAIN writes \ ws
  /\ DOMAIN blobs' = DOMAIN blobs \ bs

LEMMA WithoutShrinks ==
  ASSUME NEW ks, NEW ws, NEW bs, Keep(Without(ks, ws, bs)), UNCHANGED <<nid, loop, over>>
  PROVE  ShrinksBy(ks, ws, bs)
<1>1. /\ storage' = Restrict(storage, DOMAIN storage \ ks)
      /\ writes' = Restrict(writes, DOMAIN writes \ ws)
      /\ blobs' = Restrict(blobs, DOMAIN blobs \ bs)
  BY DEF Keep, Without
<1> QED BY <1>1, RestrictShrinks DEF Shrinks, ShrinksBy

LEMMA ShrinksKeep ==
  ASSUME HistInv, Shrinks, gaveUp' \subseteq Key
  PROVE  HistInv'
<1>1. Shape'
  <2>1. IsFiniteSet(DOMAIN storage') /\ IsFiniteSet(DOMAIN blobs') /\ IsFiniteSet(DOMAIN writes')
    BY FS_Subset DEF HistInv, Shape, Shrinks, Shrunk
  <2>2. /\ DOMAIN storage' \subseteq Key
        /\ \A k \in DOMAIN storage' : storage'[k] \in Entry /\ storage'[k].parent < k[3]
    BY DEF HistInv, Shape, Shrinks, Shrunk
  <2>3. DOMAIN blobs' \subseteq BlobKey /\ \A b \in DOMAIN blobs' : blobs'[b] \in {"value", "empty"}
    BY DEF HistInv, Shape, Shrinks, Shrunk
  <2>4. DOMAIN writes' \subseteq Key /\ \A k \in DOMAIN writes' : writes'[k] \in 1..MaxWrites
    BY DEF HistInv, Shape, Shrinks, Shrunk
  <2>5. Dict(storage') /\ Dict(blobs') /\ Dict(writes')
    BY DEF Shrinks, Shrunk
  <2> QED BY <2>1, <2>2, <2>3, <2>4, <2>5 DEF HistInv, Shape, Shrinks, Dict
<1>2. Aged'
  BY DEF HistInv, Aged, Shrinks, Shrunk
<1>3. Loops'
  BY DEF HistInv, Loops, LoopFits, Shrinks, Shrunk
<1> QED BY <1>1, <1>2, <1>3 DEF HistInv

\* dict.update and the assignment of an item.
LEMMA WithFacts ==
  ASSUME NEW f, NEW k, NEW v
  PROVE  /\ Dict(With(f, k, v)) /\ DOMAIN With(f, k, v) = DOMAIN f \cup {k} /\ With(f, k, v)[k] = v
         /\ \A x \in DOMAIN f : x # k => With(f, k, v)[x] = f[x]
  BY DEF With, Dict

LEMMA UpdatedFacts ==
  ASSUME NEW f, NEW g
  PROVE  /\ Dict(Updated(f, g)) /\ DOMAIN Updated(f, g) = DOMAIN f \cup DOMAIN g
         /\ \A x \in DOMAIN g : Updated(f, g)[x] = g[x]
         /\ \A x \in DOMAIN f : x \notin DOMAIN g => Updated(f, g)[x] = f[x]
  BY DEF Updated, Dict

\* What put does to the loop, and to the dictionaries.
NewBlobs(k, in) == {<<k[1], k[2], ch, k[3]>> : ch \in in.written}

Grown(r, ns, in, k, vs) ==
  /\ r \in DOMAIN loop /\ k = <<loop[r].thread, ns, nid + 1>> /\ k \in Key /\ nid' = nid + 1
  /\ vs \in Versions /\ DOMAIN vs = DOMAIN loop[r].versions[ns] \cup in.written
  /\ \A ch \in in.written : vs[ch] = nid + 1
  /\ \A ch \in DOMAIN vs \ in.written : vs[ch] = loop[r].versions[ns][ch]
  /\ Dict(storage') /\ DOMAIN storage' = DOMAIN storage \cup {k} /\ k \notin DOMAIN storage
  /\ \A j \in DOMAIN storage : storage'[j] = storage[j]
  /\ storage'[k] = [parent |-> loop[r].at[ns], versions |-> vs, counters |-> Delta \cap DOMAIN vs, run |-> r]
  /\ Dict(blobs') /\ DOMAIN blobs' = DOMAIN blobs \cup NewBlobs(k, in) /\ DOMAIN blobs \cap NewBlobs(k, in) = {}
  /\ \A b \in DOMAIN blobs : blobs'[b] = blobs[b]
  /\ \A b \in NewBlobs(k, in) : blobs'[b] = IF b[3] \in in.full THEN "value" ELSE "empty"
  /\ UNCHANGED <<writes, over>> /\ gaveUp' = {}

NextLoop(l, ns, c, vs) == [l EXCEPT !.at = [l.at EXCEPT ![ns] = c], !.versions = [l.versions EXCEPT ![ns] = vs]]

LEMMA PutFacts ==
  ASSUME HistInv, NEW r \in RunId, NEW ns \in Ns, NEW in \in PutInput, Put(r, ns, in)
  PROVE  \E k, vs : /\ Grown(r, ns, in, k, vs)
                    /\ loop' = [loop EXCEPT ![r] = NextLoop(loop[r], ns, nid + 1, vs)]
<1> DEFINE l == loop[r]
           c == nid + 1
           k == <<l.thread, ns, c>>
           new == [ch \in in.written |-> c]
           vs == Updated(l.versions[ns], new)
           B == {<<l.thread, ns, ch, c>> : ch \in in.written}
           nb == [b \in B |-> IF b[3] \in in.full THEN "value" ELSE "empty"]
           e == [parent |-> l.at[ns], versions |-> vs, counters |-> Delta \cap DOMAIN vs, run |-> r]
<1>1. r \in DOMAIN loop /\ nid \in Nat /\ nid < MaxId /\ MaxId \in Nat
  BY BoundsAssumption DEF Put, HistInv, Shape
<1>2. l \in Loop /\ l.thread \in Thread /\ l.at \in [Ns -> 0..MaxId] /\ l.versions \in [Ns -> Versions]
  BY <1>1 DEF HistInv, Shape, Loop
<1>3. c \in Id /\ k \in Key
  BY <1>1, <1>2 DEF Id, Key
<1>4. in.written \subseteq Channel
  BY InputAssumption
<1>5. /\ nid' = c /\ storage' = With(storage, k, e) /\ blobs' = Updated(blobs, nb)
      /\ loop' = [loop EXCEPT ![r].at[ns] = c, ![r].versions[ns] = vs]
      /\ UNCHANGED <<writes, over>> /\ gaveUp' = {}
  BY DEF Put, ParentOf
<1>6. /\ DOMAIN vs = DOMAIN l.versions[ns] \cup in.written
      /\ \A ch \in in.written : vs[ch] = c
      /\ \A ch \in DOMAIN vs \ in.written : vs[ch] = l.versions[ns][ch]
  BY DEF Updated
<1>7. vs \in Versions
  <2>1. l.versions[ns] \in Versions
    BY <1>2
  <2>2. DOMAIN l.versions[ns] \subseteq Channel /\ l.versions[ns] \in [DOMAIN l.versions[ns] -> Id]
    BY <2>1, VersionsType
  <2>3. DOMAIN vs \in SUBSET Channel
    BY <1>4, <1>6, <2>2
  <2>4. \A ch \in DOMAIN vs : vs[ch] \in Id
    BY <1>3, <1>6, <2>2
  <2>5. Dict(vs)
    BY UpdatedFacts
  <2> HIDE DEF vs
  <2>6. vs \in [DOMAIN vs -> Id]
    BY <2>4, <2>5 DEF Dict
  <2> QED BY <2>3, <2>6, VersionsType
<1>8. k \notin DOMAIN storage /\ DOMAIN blobs \cap B = {}
  <2>1. k[3] = c /\ \A b \in B : b[4] = c
    OBVIOUS
  <2>2. ~ (c <= nid)
    BY <1>1
  <2> QED BY <2>1, <2>2 DEF HistInv, Aged
<1>9. B = NewBlobs(k, in) /\ DOMAIN nb = B
  BY DEF NewBlobs
<1> HIDE DEF vs, B, e, k
<1>10. /\ Dict(storage') /\ DOMAIN storage' = DOMAIN storage \cup {k} /\ storage'[k] = e
       /\ \A j \in DOMAIN storage : storage'[j] = storage[j]
  <2>1. storage' = With(storage, k, e)
    BY <1>5
  <2>2. /\ Dict(With(storage, k, e)) /\ DOMAIN With(storage, k, e) = DOMAIN storage \cup {k}
        /\ With(storage, k, e)[k] = e
        /\ \A j \in DOMAIN storage : j # k => With(storage, k, e)[j] = storage[j]
    BY DEF With, Dict
  <2> QED BY <1>8, <2>1, <2>2
<1>11. /\ Dict(blobs') /\ DOMAIN blobs' = DOMAIN blobs \cup B
       /\ \A b \in DOMAIN blobs : blobs'[b] = blobs[b]
       /\ \A b \in B : blobs'[b] = IF b[3] \in in.full THEN "value" ELSE "empty"
  <2>1. blobs' = Updated(blobs, nb) /\ \A b \in B : nb[b] = IF b[3] \in in.full THEN "value" ELSE "empty"
    BY <1>5
  <2> HIDE DEF nb
  <2>2. /\ Dict(Updated(blobs, nb)) /\ DOMAIN Updated(blobs, nb) = DOMAIN blobs \cup DOMAIN nb
        /\ \A x \in DOMAIN nb : Updated(blobs, nb)[x] = nb[x]
        /\ \A x \in DOMAIN blobs : x \notin DOMAIN nb => Updated(blobs, nb)[x] = blobs[x]
    BY UpdatedFacts
  <2> QED BY <1>8, <1>9, <2>1, <2>2
<1>12. Grown(r, ns, in, k, vs)
  <2>1. k = <<loop[r].thread, ns, nid + 1>>
    BY DEF k
  <2>2. e = [parent |-> loop[r].at[ns], versions |-> vs, counters |-> Delta \cap DOMAIN vs, run |-> r]
    BY DEF e
  <2> QED BY <1>1, <1>3, <1>5, <1>6, <1>7, <1>8, <1>9, <1>10, <1>11, <2>1, <2>2 DEF Grown
<1>13. loop' = [loop EXCEPT ![r] = NextLoop(loop[r], ns, nid + 1, vs)]
  BY <1>5 DEF NextLoop
<1> QED BY <1>12, <1>13

LEMMA PutKeeps ==
  ASSUME HistInv, NEW r \in RunId, NEW ns \in Ns, NEW in \in PutInput, Put(r, ns, in)
  PROVE  HistInv'
<1>1. PICK k, vs : Grown(r, ns, in, k, vs) /\ loop' = [loop EXCEPT ![r] = NextLoop(loop[r], ns, nid + 1, vs)]
  BY PutFacts
<1> DEFINE l == loop[r]
           c == nid + 1
           n == NextLoop(l, ns, c, vs)
<1>2. r \in DOMAIN loop /\ nid \in Nat /\ nid < MaxId /\ MaxId \in Nat /\ nid' = c
  BY <1>1, BoundsAssumption DEF Put, HistInv, Shape, Grown
<1>3. l \in Loop /\ l.thread \in Thread /\ l.at \in [Ns -> 0..MaxId] /\ l.versions \in [Ns -> Versions]
  BY <1>2 DEF HistInv, Shape, Loop
<1>4. k \in Key /\ k[1] = l.thread /\ k[2] = ns /\ k[3] = c /\ vs \in Versions /\ c \in Id
  <2>1. k \in Key /\ k = <<l.thread, ns, c>> /\ vs \in Versions
    BY <1>1 DEF Grown
  <2> QED BY <2>1, <1>2 DEF Id
<1>5. /\ n \in Loop /\ n.thread = l.thread
      /\ n.at \in [Ns -> 0..MaxId] /\ n.at[ns] = c /\ n.versions[ns] = vs
      /\ \A m \in Ns \ {ns} : n.at[m] = l.at[m] /\ n.versions[m] = l.versions[m]
  <2>1. c \in 0..MaxId
    BY <1>2
  <2>2. n = [thread |-> l.thread, at |-> [l.at EXCEPT ![ns] = c], versions |-> [l.versions EXCEPT ![ns] = vs]]
    <3>1. l = [thread |-> l.thread, at |-> l.at, versions |-> l.versions]
      BY <1>3 DEF Loop
    <3> DEFINE A == [l.at EXCEPT ![ns] = c]
               V == [l.versions EXCEPT ![ns] = vs]
    <3>2. n = [l EXCEPT !.at = A, !.versions = V]
      BY DEF NextLoop
    <3> HIDE DEF A, V, n, l
    <3>3. n = [thread |-> l.thread, at |-> A, versions |-> V]
      BY <3>1, <3>2
    <3> QED BY <3>3 DEF A, V
  <2>3. [l.at EXCEPT ![ns] = c] \in [Ns -> 0..MaxId] /\ [l.versions EXCEPT ![ns] = vs] \in [Ns -> Versions]
    BY <1>3, <1>4, <2>1
  <2> QED BY <1>3, <2>2, <2>3 DEF Loop
<1>6. DOMAIN loop' = DOMAIN loop /\ \A q \in DOMAIN loop : loop'[q] = IF q = r THEN n ELSE loop[q]
  BY <1>1, <1>2
<1> HIDE DEF n
<1>7. \A ch \in DOMAIN vs : vs[ch] <= c
  <2>1. vs \in [DOMAIN vs -> Id]
    BY <1>4, VersionsType
  <2>2. \A ch \in DOMAIN l.versions[ns] : l.versions[ns][ch] <= nid
    BY <1>2 DEF HistInv, Loops, LoopFits
  <2>3. ASSUME NEW ch \in DOMAIN vs PROVE vs[ch] <= c
    <3>1. vs[ch] = c \/ vs[ch] <= nid
      BY <1>1, <2>2 DEF Grown
    <3>2. vs[ch] \in Nat
      BY <2>1, <1>2 DEF Id
    <3> QED BY <1>2, <3>1, <3>2
  <2> QED BY <2>3
<1>8. l.at[ns] <= nid /\ l.at[ns] \in 0..MaxId
  BY <1>2, <1>3 DEF HistInv, Loops, LoopFits
<1>9. storage'[k] \in Entry /\ storage'[k].parent < k[3] /\ storage'[k].versions = vs
      /\ storage'[k].counters = Delta \cap DOMAIN vs
  <2>1. storage'[k] = [parent |-> l.at[ns], versions |-> vs, counters |-> Delta \cap DOMAIN vs, run |-> r]
    BY <1>1 DEF Grown
  <2>2. l.at[ns] < c
    BY <1>2, <1>8
  <2> QED BY <1>4, <1>8, <2>1, <2>2, DeltaAssumption DEF Entry
<1>10. NewBlobs(k, in) \subseteq BlobKey /\ IsFiniteSet(NewBlobs(k, in)) /\ \A b \in NewBlobs(k, in) : b[4] = c
  <2>1. IsFiniteSet(in.written) /\ in.written \subseteq Channel
    BY InputAssumption
  <2>2. NewBlobs(k, in) = {<<l.thread, ns, ch, c>> : ch \in in.written}
    BY <1>4 DEF NewBlobs
  <2>3. IsFiniteSet(NewBlobs(k, in))
    <3> DEFINE g == [ch \in in.written |-> <<k[1], k[2], ch, k[3]>>]
    <3>1. g \in Surjection(in.written, NewBlobs(k, in))
      BY DEF NewBlobs, Surjection
    <3> HIDE DEF g
    <3> QED BY <2>1, <3>1, FS_Surjection
  <2> QED BY <1>3, <1>4, <2>1, <2>2, <2>3 DEF BlobKey
<1>11. Shape'
  <2>1. IsFiniteSet(DOMAIN storage')
    BY <1>1, FS_AddElement DEF HistInv, Shape, Grown
  <2>2. DOMAIN storage' \subseteq Key /\ \A j \in DOMAIN storage' : storage'[j] \in Entry /\ storage'[j].parent < j[3]
    BY <1>1, <1>4, <1>9 DEF HistInv, Shape, Grown
  <2>3. IsFiniteSet(DOMAIN blobs') /\ DOMAIN blobs' \subseteq BlobKey
    <3>1. DOMAIN blobs' = DOMAIN blobs \cup NewBlobs(k, in)
      BY <1>1 DEF Grown
    <3>2. IsFiniteSet(DOMAIN blobs) /\ DOMAIN blobs \subseteq BlobKey
      BY DEF HistInv, Shape
    <3> QED BY <1>10, <3>1, <3>2, FS_Union
  <2>4. \A b \in DOMAIN blobs' : blobs'[b] \in {"value", "empty"}
    BY <1>1 DEF HistInv, Shape, Grown
  <2>5. nid' \in 0..MaxId
    BY <1>2
  <2>6. DOMAIN loop' \subseteq RunId \ over' /\ \A q \in DOMAIN loop' : loop'[q] \in Loop
    BY <1>1, <1>5, <1>6 DEF HistInv, Shape, Grown
  <2>7. Dict(storage') /\ Dict(blobs') /\ UNCHANGED <<writes, over>> /\ gaveUp' = {}
    BY <1>1 DEF Grown
  <2> QED BY <2>1, <2>2, <2>3, <2>4, <2>5, <2>6, <2>7 DEF HistInv, Shape, Dict
<1>12. Aged'
  <2>1. ASSUME NEW j \in DOMAIN storage'
        PROVE /\ j[3] <= nid' /\ storage'[j].counters = Delta \cap DOMAIN storage'[j].versions
              /\ \A ch \in DOMAIN storage'[j].versions : storage'[j].versions[ch] <= nid'
    <3>1. CASE j = k
      BY <1>2, <1>4, <1>7, <1>9, <3>1
    <3>2. CASE j \in DOMAIN storage
      <4>1. storage'[j] = storage[j] /\ j \in Key /\ storage[j] \in Entry
        BY <1>1, <3>2 DEF Grown, HistInv, Shape
      <4>2. storage[j].versions \in Versions
        BY <4>1 DEF Entry
      <4>3. storage[j].versions \in [DOMAIN storage[j].versions -> Id] /\ j[3] \in Nat
        BY <4>1, <4>2, VersionsType, KeyParts
      <4>4. j[3] <= nid /\ storage[j].counters = Delta \cap DOMAIN storage[j].versions
            /\ \A ch \in DOMAIN storage[j].versions : storage[j].versions[ch] <= nid
        BY <3>2 DEF HistInv, Aged
      <4>5. \A ch \in DOMAIN storage[j].versions : storage[j].versions[ch] \in Nat
        BY <4>3 DEF Id
      <4> QED BY <1>2, <4>1, <4>3, <4>4, <4>5
    <3> QED BY <1>1, <3>1, <3>2 DEF Grown
  <2>2. ASSUME NEW b \in DOMAIN blobs' PROVE b[4] <= nid'
    <3>1. CASE b \in NewBlobs(k, in)
      BY <1>2, <1>10, <3>1
    <3>2. CASE b \in DOMAIN blobs
      <4>1. b[4] <= nid /\ b[4] \in Id
        BY <3>2, BlobParts DEF HistInv, Aged, Shape
      <4> QED BY <1>2, <4>1 DEF Id
    <3> QED BY <1>1, <3>1, <3>2 DEF Grown
  <2> QED BY <2>1, <2>2 DEF Aged
<1>13. Loops'
  <2>1. ASSUME NEW q \in DOMAIN loop', NEW m \in Ns PROVE LoopFits(loop[q], m)'
    <3>1. CASE q = r /\ m = ns
      <4>1. loop'[q].thread = l.thread /\ loop'[q].at[m] = c /\ loop'[q].versions[m] = vs
        BY <1>5, <1>6, <3>1
      <4>2. <<l.thread, m, c>> = k /\ c # 0
        BY <1>1, <1>2, <3>1 DEF Grown
      <4> QED BY <1>2, <1>7, <1>9, <4>1, <4>2 DEF LoopFits
    <3>2. CASE ~ (q = r /\ m = ns)
      <4>1. q \in DOMAIN loop /\ loop[q] \in Loop
        BY <1>6 DEF HistInv, Shape
      <4>2. loop'[q].thread = loop[q].thread /\ loop'[q].at[m] = loop[q].at[m] /\ loop'[q].versions[m] = loop[q].versions[m]
        BY <1>5, <1>6, <3>2
      <4>3. LoopFits(loop[q], m)
        BY <4>1 DEF HistInv, Loops
      <4>4. loop[q].at[m] \in Nat /\ loop[q].versions[m] \in Versions
        BY <1>2, <4>1 DEF Loop
      <4>5. loop[q].versions[m] \in [DOMAIN loop[q].versions[m] -> Id]
        BY <4>4, VersionsType
      <4>6. \A ch \in DOMAIN loop[q].versions[m] : loop[q].versions[m][ch] \in Nat
        BY <4>5 DEF Id
      <4>7. loop[q].at[m] <= nid' /\ \A ch \in DOMAIN loop[q].versions[m] : loop[q].versions[m][ch] <= nid'
        BY <1>2, <4>3, <4>4, <4>6 DEF LoopFits
      <4> DEFINE j == <<loop[q].thread, m, loop[q].at[m]>>
      <4>8. j # k
        <5>1. j[3] = loop[q].at[m] /\ ~ (loop[q].at[m] = c)
          BY <1>2, <4>3, <4>4 DEF LoopFits
        <5> QED BY <1>4, <5>1
      <4>9. j \in DOMAIN storage' => j \in DOMAIN storage /\ storage'[j] = storage[j]
        BY <1>1, <4>8 DEF Grown
      <4> QED BY <4>2, <4>3, <4>7, <4>9 DEF LoopFits
    <3> QED BY <3>1, <3>2
  <2> QED BY <2>1 DEF Loops
<1> QED BY <1>11, <1>12, <1>13 DEF HistInv

LEMMA PutWritesKeeps ==
  ASSUME HistInv, NEW r \in RunId, NEW ns \in Ns, PutWrites(r, ns)
  PROVE  HistInv'
<1> DEFINE l == loop[r]
           k == <<l.thread, ns, l.at[ns]>>
           n == IF k \in DOMAIN writes THEN writes[k] ELSE 0
<1>1. r \in DOMAIN loop /\ l.at[ns] # 0 /\ n < MaxWrites /\ writes' = With(writes, k, n + 1)
      /\ UNCHANGED <<storage, blobs, nid, loop, over>> /\ gaveUp' = {}
  BY DEF PutWrites
<1>2. l \in Loop
  BY <1>1 DEF HistInv, Shape
<1>3. l.thread \in Thread /\ l.at[ns] \in 0..MaxId
  BY <1>2 DEF Loop
<1>4. k \in Key
  BY <1>1, <1>3, BoundsAssumption DEF Key, Id
<1>5. n + 1 \in 1..MaxWrites
  <2>1. n \in 0..MaxWrites
    BY BoundsAssumption DEF HistInv, Shape
  <2> HIDE DEF n
  <2> QED BY <1>1, <2>1, BoundsAssumption
<1> HIDE DEF k, n
<1>6. /\ Dict(writes') /\ DOMAIN writes' = DOMAIN writes \cup {k}
      /\ \A j \in DOMAIN writes' : writes'[j] = IF j = k THEN n + 1 ELSE writes[j]
  BY <1>1 DEF With, Dict
<1>7. IsFiniteSet(DOMAIN writes')
  BY <1>6, FS_AddElement DEF HistInv, Shape
<1>8. DOMAIN writes' \subseteq Key /\ \A j \in DOMAIN writes' : writes'[j] \in 1..MaxWrites
  BY <1>4, <1>5, <1>6 DEF HistInv, Shape
<1>9. Shape'
  BY <1>1, <1>6, <1>7, <1>8 DEF HistInv, Shape, Dict
<1>10. Aged' /\ Loops'
  BY <1>1 DEF HistInv, Aged, Loops, LoopFits
<1> QED BY <1>9, <1>10 DEF HistInv

LEMMA LoadKeeps ==
  ASSUME HistInv, NEW r \in RunId, NEW t \in Thread, Load(r, t)
  PROVE  HistInv'
<1> DEFINE before == {q \in DOMAIN loop : loop[q].thread = t}
           vs(at) == [ns \in Ns |-> IF at[ns] = 0 THEN NoVersions ELSE storage[<<t, ns, at[ns]>>].versions]
           new(at) == [thread |-> t, at |-> at, versions |-> vs(at)]
<1>1. /\ r \notin DOMAIN loop \cup over /\ over' = over \cup before /\ gaveUp' = {}
      /\ UNCHANGED <<storage, blobs, writes, nid>>
  BY DEF Load
<1>2. PICK at \in [Ns -> 0..MaxId] :
        /\ \A ns \in Ns : IF Stored(t, ns) = {} THEN at[ns] = 0 ELSE <<t, ns, at[ns]>> \in Stored(t, ns)
        /\ loop' = With(Restrict(loop, DOMAIN loop \ before), r, new(at))
  BY DEF Load
<1> DEFINE V == vs(at)
           l == [thread |-> t, at |-> at, versions |-> V]
<1>3. /\ DOMAIN loop' = (DOMAIN loop \ before) \cup {r} /\ loop'[r] = l
      /\ \A q \in DOMAIN loop' : q # r => q \in DOMAIN loop /\ loop'[q] = loop[q]
  <2> DEFINE f == Restrict(loop, DOMAIN loop \ before)
  <2>1. DOMAIN f = DOMAIN loop \ before /\ \A q \in DOMAIN f : f[q] = loop[q]
    BY DEF Restrict
  <2>2. loop' = With(f, r, l)
    BY <1>2
  <2> HIDE DEF f, l, before
  <2>3. /\ DOMAIN loop' = DOMAIN f \cup {r} /\ loop'[r] = l
        /\ \A q \in DOMAIN f : q # r => loop'[q] = f[q]
    BY <2>2 DEF With
  <2> QED BY <2>1, <2>3
<1>4. ASSUME NEW ns \in Ns
      PROVE  \/ at[ns] = 0 /\ V[ns] = NoVersions
             \/ /\ at[ns] # 0 /\ <<t, ns, at[ns]>> \in DOMAIN storage /\ V[ns] = storage[<<t, ns, at[ns]>>].versions
  <2>1. CASE at[ns] = 0
    BY <2>1
  <2>2. CASE at[ns] # 0
    <3>1. <<t, ns, at[ns]>> \in DOMAIN storage
      BY <1>2, <2>2 DEF Stored
    <3> QED BY <2>2, <3>1
  <2> QED BY <2>1, <2>2
<1>5. NoVersions \in Versions /\ DOMAIN NoVersions = {}
  <2>1. NoVersions \in [{} -> Id] /\ {} \in SUBSET Channel
    BY DEF NoVersions
  <2> QED BY <2>1, VersionsType
<1>6. \A k \in DOMAIN storage : storage[k].versions \in Versions
  BY DEF HistInv, Shape, Entry
<1>7. V \in [Ns -> Versions]
  BY <1>4, <1>5, <1>6
<1> HIDE DEF V
<1>8. l \in Loop
  BY <1>2, <1>7 DEF Loop
<1>9. ASSUME NEW ns \in Ns PROVE LoopFits(l, ns)
  <2>1. l.thread = t /\ l.at[ns] = at[ns] /\ l.versions[ns] = V[ns]
    OBVIOUS
  <2>2. CASE at[ns] = 0 /\ V[ns] = NoVersions
    <3>1. <<t, ns, 0>> \notin Key /\ 0 <= nid
      BY BoundsAssumption DEF Key, Id, HistInv, Shape
    <3>2. <<t, ns, 0>> \notin DOMAIN storage
      BY <3>1 DEF HistInv, Shape
    <3> QED BY <1>5, <2>1, <2>2, <3>1, <3>2 DEF LoopFits
  <2>3. CASE at[ns] # 0 /\ <<t, ns, at[ns]>> \in DOMAIN storage /\ V[ns] = storage[<<t, ns, at[ns]>>].versions
    <3>1. at[ns] <= nid /\ \A ch \in DOMAIN V[ns] : V[ns][ch] <= nid
      BY <2>3 DEF HistInv, Aged
    <3> QED BY <2>1, <2>3, <3>1 DEF LoopFits
  <2> QED BY <1>4, <2>2, <2>3
<1> HIDE DEF l
<1>10. Loops'
  <2>1. ASSUME NEW q \in DOMAIN loop', NEW ns \in Ns PROVE LoopFits(loop'[q], ns)
    <3>1. CASE q = r
      BY <1>3, <1>9, <3>1
    <3>2. CASE q # r
      BY <1>3, <3>2 DEF HistInv, Loops
    <3> QED BY <3>1, <3>2
  <2>2. (\A q \in DOMAIN loop : \A ns \in Ns : LoopFits(loop[q], ns))'
    BY <1>1, <2>1 DEF LoopFits
  <2> QED BY <2>2 DEF Loops
<1>11. DOMAIN loop' \subseteq RunId \ over' /\ \A q \in DOMAIN loop' : loop'[q] \in Loop
  <2>1. DOMAIN loop \subseteq RunId \ over /\ \A q \in DOMAIN loop : loop[q] \in Loop
    BY DEF HistInv, Shape
  <2>2. r \notin before
    BY <1>1
  <2> HIDE DEF before
  <2> QED BY <1>1, <1>3, <1>8, <2>1, <2>2
<1>12. over' \subseteq RunId
  BY <1>1 DEF HistInv, Shape
<1>13. Shape'
  BY <1>1, <1>11, <1>12 DEF HistInv, Shape, Dict
<1>14. Aged'
  BY <1>1 DEF HistInv, Aged
<1> QED BY <1>10, <1>13, <1>14 DEF HistInv

\* The copy of a thread under another id.
Moved(k, u) == [k EXCEPT ![1] = u]
Copies(f, t, u) == {Moved(k, u) : k \in Mine(f, t)}
IsCopy(g, f, t, u) ==
  /\ Dict(g) /\ DOMAIN g = DOMAIN f \cup Copies(f, t, u)
  /\ \A k \in DOMAIN f : g[k] = f[k]
  /\ \A k \in Mine(f, t) : g[Moved(k, u)] = f[k]

LEMMA MovedKey ==
  ASSUME NEW k \in Key, NEW u \in Thread
  PROVE  /\ Moved(k, u) = <<u, k[2], k[3]>> /\ Moved(k, u) \in Key
         /\ Moved(k, u)[1] = u /\ Moved(k, u)[2] = k[2] /\ Moved(k, u)[3] = k[3]
         /\ Moved(Moved(k, u), k[1]) = k
<1>1. \A v \in Thread : Moved(k, v) = <<v, k[2], k[3]>>
  BY DEF Moved, Key
<1>2. k = <<k[1], k[2], k[3]>> /\ k[1] \in Thread /\ k[2] \in Ns /\ k[3] \in Id
  BY KeyParts
<1>3. <<u, k[2], k[3]>> \in Key
  BY <1>2 DEF Key
<1>4. Moved(<<u, k[2], k[3]>>, k[1]) = <<k[1], k[2], k[3]>>
  BY <1>2 DEF Moved
<1> QED BY <1>1, <1>2, <1>3, <1>4

LEMMA MovedBlob ==
  ASSUME NEW b \in BlobKey, NEW u \in Thread
  PROVE  /\ Moved(b, u) = <<u, b[2], b[3], b[4]>> /\ Moved(b, u) \in BlobKey
         /\ Moved(b, u)[1] = u /\ Moved(b, u)[4] = b[4]
         /\ Moved(Moved(b, u), b[1]) = b
<1>1. \A v \in Thread : Moved(b, v) = <<v, b[2], b[3], b[4]>>
  BY DEF Moved, BlobKey
<1>2. b = <<b[1], b[2], b[3], b[4]>> /\ b[1] \in Thread /\ b[2] \in Ns /\ b[3] \in Channel /\ b[4] \in Id
  BY BlobParts
<1>3. <<u, b[2], b[3], b[4]>> \in BlobKey
  BY <1>2 DEF BlobKey
<1>4. Moved(<<u, b[2], b[3], b[4]>>, b[1]) = <<b[1], b[2], b[3], b[4]>>
  BY <1>2 DEF Moved
<1> QED BY <1>1, <1>2, <1>3, <1>4

LEMMA CopiedFacts ==
  ASSUME NEW f, NEW t, NEW u, Mine(f, u) = {},
         \A k \in Mine(f, t) : Moved(k, u)[1] = u /\ Moved(Moved(k, u), t) = k
  PROVE  IsCopy(Copied(f, t, u), f, t, u)
<1> DEFINE h == [j \in Copies(f, t, u) |-> f[Moved(j, t)]]
<1>1. Copied(f, t, u) = Updated(f, h)
  BY DEF Copied, Copies, Moved
<1>2. DOMAIN h = Copies(f, t, u) /\ \A k \in Mine(f, t) : Moved(k, u) \in Copies(f, t, u) /\ h[Moved(k, u)] = f[k]
  BY DEF Copies
<1>3. \A j \in Copies(f, t, u) : j \notin DOMAIN f
  BY DEF Copies, Mine
<1> HIDE DEF h
<1>4. /\ Dict(Updated(f, h)) /\ DOMAIN Updated(f, h) = DOMAIN f \cup DOMAIN h
      /\ \A x \in DOMAIN h : Updated(f, h)[x] = h[x]
      /\ \A x \in DOMAIN f : x \notin DOMAIN h => Updated(f, h)[x] = f[x]
  BY UpdatedFacts
<1> QED BY <1>1, <1>2, <1>3, <1>4 DEF IsCopy

LEMMA CopiesFinite ==
  ASSUME NEW f, IsFiniteSet(DOMAIN f), NEW t, NEW u
  PROVE  IsFiniteSet(Copies(f, t, u)) /\ IsFiniteSet(Mine(f, t))
<1> DEFINE g == [k \in Mine(f, t) |-> Moved(k, u)]
<1>1. IsFiniteSet(Mine(f, t))
  BY FS_Subset DEF Mine
<1>2. g \in Surjection(Mine(f, t), Copies(f, t, u))
  BY DEF Surjection, Copies
<1> HIDE DEF g
<1> QED BY <1>1, <1>2, FS_Surjection

LEMMA CopyFacts ==
  ASSUME HistInv, NEW t \in Thread, NEW u \in Thread, CopyThread(t, u)
  PROVE  /\ t # u /\ IsCopy(storage', storage, t, u) /\ IsCopy(writes', writes, t, u) /\ IsCopy(blobs', blobs, t, u)
         /\ UNCHANGED <<nid, loop, over>> /\ gaveUp' = {}
         /\ \A r \in DOMAIN loop : loop[r].thread # u
<1>1. t # u /\ Mine(storage, u) = {} /\ Mine(writes, u) = {} /\ Mine(blobs, u) = {}
      /\ \A r \in DOMAIN loop : loop[r].thread # u
  BY DEF CopyThread
<1>2. DOMAIN storage \subseteq Key /\ DOMAIN writes \subseteq Key /\ DOMAIN blobs \subseteq BlobKey
  BY DEF HistInv, Shape
<1>3. \A k \in Mine(storage, t) : Moved(k, u)[1] = u /\ Moved(Moved(k, u), t) = k
  BY <1>2, MovedKey DEF Mine
<1>4. \A k \in Mine(writes, t) : Moved(k, u)[1] = u /\ Moved(Moved(k, u), t) = k
  BY <1>2, MovedKey DEF Mine
<1>5. \A k \in Mine(blobs, t) : Moved(k, u)[1] = u /\ Moved(Moved(k, u), t) = k
  BY <1>2, MovedBlob DEF Mine
<1>6. storage' = Copied(storage, t, u) /\ writes' = Copied(writes, t, u) /\ blobs' = Copied(blobs, t, u)
      /\ UNCHANGED <<nid, loop, over>> /\ gaveUp' = {}
  BY DEF CopyThread
<1>7. IsCopy(Copied(storage, t, u), storage, t, u) /\ IsCopy(Copied(writes, t, u), writes, t, u)
  BY <1>1, <1>3, <1>4, CopiedFacts
<1>8. IsCopy(Copied(blobs, t, u), blobs, t, u)
  BY <1>1, <1>5, CopiedFacts
<1> QED BY <1>1, <1>6, <1>7, <1>8

LEMMA CopyKeeps ==
  ASSUME HistInv, NEW t \in Thread, NEW u \in Thread, CopyThread(t, u)
  PROVE  HistInv'
<1>1. /\ t # u /\ IsCopy(storage', storage, t, u) /\ IsCopy(writes', writes, t, u) /\ IsCopy(blobs', blobs, t, u)
      /\ UNCHANGED <<nid, loop, over>> /\ gaveUp' = {}
      /\ \A r \in DOMAIN loop : loop[r].thread # u
  BY CopyFacts
<1>2. DOMAIN storage \subseteq Key /\ DOMAIN writes \subseteq Key /\ DOMAIN blobs \subseteq BlobKey
      /\ IsFiniteSet(DOMAIN storage) /\ IsFiniteSet(DOMAIN writes) /\ IsFiniteSet(DOMAIN blobs)
  BY DEF HistInv, Shape
<1>3. \A k \in Mine(storage, t) : k \in DOMAIN storage /\ Moved(k, u) \in Key /\ Moved(k, u)[3] = k[3] /\ Moved(k, u)[1] = u
  BY <1>2, MovedKey DEF Mine
<1>4. \A k \in Mine(writes, t) : k \in DOMAIN writes /\ Moved(k, u) \in Key
  BY <1>2, MovedKey DEF Mine
<1>5. \A b \in Mine(blobs, t) : b \in DOMAIN blobs /\ Moved(b, u) \in BlobKey /\ Moved(b, u)[4] = b[4]
  BY <1>2, MovedBlob DEF Mine
<1>6. ASSUME NEW j \in DOMAIN storage'
      PROVE  \E k \in DOMAIN storage : storage'[j] = storage[k] /\ j[3] = k[3] /\ j \in Key /\ (j = k \/ j[1] = u)
  BY <1>1, <1>2, <1>3, <1>6 DEF IsCopy, Copies
<1>7. ASSUME NEW j \in DOMAIN writes' PROVE j \in Key /\ \E k \in DOMAIN writes : writes'[j] = writes[k]
  BY <1>1, <1>2, <1>4, <1>7 DEF IsCopy, Copies
<1>8. ASSUME NEW j \in DOMAIN blobs' PROVE j \in BlobKey /\ \E b \in DOMAIN blobs : blobs'[j] = blobs[b] /\ j[4] = b[4]
  BY <1>1, <1>2, <1>5, <1>8 DEF IsCopy, Copies
<1>9. IsFiniteSet(DOMAIN storage') /\ IsFiniteSet(DOMAIN writes') /\ IsFiniteSet(DOMAIN blobs')
  <2>1. IsFiniteSet(Copies(storage, t, u)) /\ IsFiniteSet(Copies(writes, t, u)) /\ IsFiniteSet(Copies(blobs, t, u))
    BY <1>2, CopiesFinite
  <2>2. DOMAIN storage' = DOMAIN storage \cup Copies(storage, t, u)
        /\ DOMAIN writes' = DOMAIN writes \cup Copies(writes, t, u)
        /\ DOMAIN blobs' = DOMAIN blobs \cup Copies(blobs, t, u)
    BY <1>1 DEF IsCopy
  <2>3. \A A, B : IsFiniteSet(A) /\ IsFiniteSet(B) => IsFiniteSet(A \cup B)
    BY FS_Union
  <2> QED BY <1>2, <2>1, <2>2, <2>3
<1>10. Shape'
  <2>1. DOMAIN storage' \subseteq Key /\ \A k \in DOMAIN storage' : storage'[k] \in Entry /\ storage'[k].parent < k[3]
    BY <1>6 DEF HistInv, Shape
  <2>2. DOMAIN blobs' \subseteq BlobKey /\ \A b \in DOMAIN blobs' : blobs'[b] \in {"value", "empty"}
    BY <1>8 DEF HistInv, Shape
  <2>3. DOMAIN writes' \subseteq Key /\ \A k \in DOMAIN writes' : writes'[k] \in 1..MaxWrites
    BY <1>7 DEF HistInv, Shape
  <2>4. Dict(storage') /\ Dict(blobs') /\ Dict(writes')
    BY <1>1 DEF IsCopy
  <2> QED BY <1>1, <1>9, <2>1, <2>2, <2>3, <2>4 DEF HistInv, Shape, Dict
<1>11. Aged'
  BY <1>1, <1>6, <1>8 DEF HistInv, Aged
<1>12. Loops'
  <2>1. ASSUME NEW r \in DOMAIN loop, NEW ns \in Ns PROVE LoopFits(loop[r], ns)'
    <3> DEFINE k == <<loop[r].thread, ns, loop[r].at[ns]>>
    <3>1. LoopFits(loop[r], ns) /\ loop[r].thread # u
      BY <1>1 DEF HistInv, Loops
    <3>2. k \in DOMAIN storage' => k \in DOMAIN storage /\ storage'[k] = storage[k]
      <4>1. k[1] # u
        BY <3>1
      <4> HIDE DEF k
      <4> QED BY <1>1, <1>6, <4>1 DEF IsCopy
    <3> QED BY <1>1, <3>1, <3>2 DEF LoopFits
  <2> QED BY <1>1, <2>1 DEF Loops
<1> QED BY <1>10, <1>11, <1>12 DEF HistInv

\* The operations that remove history.
Removes == (\E rs \in SUBSET RunId : DeleteForRuns(rs)) \/ (\E t \in Thread : Prune(t) \/ DeleteThread(t)) \/ Clear

LEMMA RemovesShrinks ==
  ASSUME HistInv, Removes
  PROVE  Shrinks /\ gaveUp' \subseteq Key
<1>0. DOMAIN storage \subseteq Key
  BY DEF HistInv, Shape
<1>1. ASSUME NEW rs \in SUBSET RunId, DeleteForRuns(rs) PROVE Shrinks /\ gaveUp' \subseteq Key
  <2>1. Shrinks
    BY <1>1, WithoutShrinks DEF ShrinksBy, DeleteForRuns, AfterDelete
  <2> QED BY <1>0, <1>1, <2>1 DEF DeleteForRuns, Candidates
<1>2. ASSUME NEW t \in Thread, Prune(t) PROVE Shrinks /\ gaveUp' \subseteq Key
  <2>1. Shrinks
    BY <1>2, WithoutShrinks DEF ShrinksBy, Prune, AfterPrune
  <2> QED BY <1>0, <1>2, <2>1 DEF Prune, Mine
<1>3. ASSUME NEW t \in Thread, DeleteThread(t) PROVE Shrinks /\ gaveUp' \subseteq Key
  <2>1. Shrinks
    BY <1>3, WithoutShrinks DEF ShrinksBy, DeleteThread
  <2> QED BY <1>0, <1>3, <2>1 DEF DeleteThread, Mine
<1>4. CASE Clear
  <2>1. Shrinks
    BY <1>4, WithoutShrinks DEF ShrinksBy, Clear
  <2> QED BY <1>0, <1>4, <2>1 DEF Clear
<1> QED BY <1>1, <1>2, <1>3, <1>4 DEF Removes

LEMMA NextCases ==
  ASSUME Next
  PROVE  \/ \E r \in RunId, t \in Thread : Load(r, t)
         \/ \E r \in RunId, ns \in Ns, in \in PutInput : Put(r, ns, in)
         \/ \E r \in RunId, ns \in Ns : PutWrites(r, ns)
         \/ \E t, u \in Thread : CopyThread(t, u)
         \/ Removes
  BY DEF Next, Removes

LEMMA HistInvariant == Spec => []HistInv
<1>1. Init => HistInv
  <2> SUFFICES ASSUME Init PROVE HistInv
    OBVIOUS
  <2>1. DOMAIN storage = {} /\ DOMAIN blobs = {} /\ DOMAIN writes = {} /\ DOMAIN loop = {}
        /\ Dict(storage) /\ Dict(blobs) /\ Dict(writes)
    BY DEF Init, Dict
  <2>2. nid \in 0..MaxId /\ over = {} /\ gaveUp = {}
    BY BoundsAssumption DEF Init
  <2> QED BY <2>1, <2>2, FS_EmptySet DEF HistInv, Shape, Aged, Loops
<1>2. HistInv /\ [Next]_vars => HistInv'
  <2> SUFFICES ASSUME HistInv, [Next]_vars PROVE HistInv'
    OBVIOUS
  <2>1. CASE Removes
    BY <2>1, RemovesShrinks, ShrinksKeep
  <2>2. CASE UNCHANGED vars
    BY <2>2 DEF vars, HistInv, Shape, Dict, Aged, Loops, LoopFits
  <2> QED BY <2>1, <2>2, NextCases, LoadKeeps, PutKeeps, PutWritesKeeps, CopyKeeps
<1> QED BY <1>1, <1>2, PTL DEF Spec

-----------------------------------------------------------------------------
(* Recursion along the parents of checkpoints.                             *)

LEMMA StrongInduction ==
  ASSUME NEW N \in Nat, NEW S, \A p \in 0..N : (\A q \in 0..N : q < p => q \in S) => p \in S
  PROVE  \A p \in 0..N : p \in S
<1> DEFINE T == (0..N) \ S
<1> SUFFICES ASSUME T # {} PROVE FALSE
  OBVIOUS
<1>1. PICK n \in T : \A m \in T : n <= m
  <2>1. T \subseteq Nat
    OBVIOUS
  <2> HIDE DEF T
  <2> QED BY <2>1, LeastExists
<1>2. \A q \in 0..N : q < n => q \in S
  BY <1>1
<1> QED BY <1>1, <1>2

Recursive(f, N, A, par, H, base) == \A p \in 0..N : f[p] = IF p \in A THEN H[p][f[par[p]]] ELSE base[p]

\* A function whose value at p depends on that at a smaller number exists.
LEMMA RecursionExists ==
  ASSUME NEW N \in Nat, NEW V, NEW A, A \subseteq 1..N, NEW par, \A p \in A : par[p] \in 0..N /\ par[p] < p,
         NEW H, \A p \in A : \A v \in V : H[p][v] \in V, NEW base, \A p \in 0..N : base[p] \in V
  PROVE  \E f \in [0..N -> V] : Recursive(f, N, A, par, H, base)
<1> DEFINE B == {n \in Nat : n > N \/ \E f \in [0..n -> V] : Recursive(f, n, A, par, H, base)}
<1>1. 0 \in B
  <2> DEFINE f == [p \in 0..0 |-> base[0]]
  <2>1. f \in [0..0 -> V] /\ 0 \notin A
    OBVIOUS
  <2>2. Recursive(f, 0, A, par, H, base)
    BY <2>1 DEF Recursive
  <2> QED BY <2>1, <2>2
<1>2. ASSUME NEW n \in Nat, n \in B PROVE n + 1 \in B
  <2>1. CASE n + 1 > N
    BY <2>1
  <2>2. CASE n + 1 <= N
    <3>1. PICK f \in [0..n -> V] : Recursive(f, n, A, par, H, base)
      BY <1>2, <2>2
    <3> DEFINE v == IF n + 1 \in A THEN H[n + 1][f[par[n + 1]]] ELSE base[n + 1]
               g == [p \in 0..(n + 1) |-> IF p = n + 1 THEN v ELSE f[p]]
    <3>2. n + 1 \in A => par[n + 1] \in 0..n
      BY <2>2
    <3>3. v \in V
      BY <2>2, <3>1, <3>2
    <3> HIDE DEF v
    <3>4. \A p \in 0..(n + 1) : p = n + 1 \/ p \in 0..n
      OBVIOUS
    <3>5. g \in [0..(n + 1) -> V]
      BY <3>1, <3>3, <3>4
    <3>6. g[n + 1] = v /\ \A p \in 0..n : g[p] = f[p]
      OBVIOUS
    <3> HIDE DEF g
    <3>7. ASSUME NEW p \in 0..(n + 1) PROVE g[p] = IF p \in A THEN H[p][g[par[p]]] ELSE base[p]
      <4>1. CASE p = n + 1
        BY <3>2, <3>6, <4>1 DEF v
      <4>2. CASE p \in 0..n
        <5>1. p \in A => par[p] \in 0..n
          BY <2>2, <4>2
        <5>2. g[p] = IF p \in A THEN H[p][f[par[p]]] ELSE base[p]
          BY <3>1, <3>6, <4>2 DEF Recursive
        <5> QED BY <3>6, <5>1, <5>2
      <4> QED BY <3>4, <4>1, <4>2
    <3>8. Recursive(g, n + 1, A, par, H, base)
      BY <3>7 DEF Recursive
    <3> QED BY <3>5, <3>8
  <2> QED BY <2>1, <2>2
<1>3. N \in B
  <2> HIDE DEF B
  <2> QED BY <1>1, <1>2, Induction
<1> QED BY <1>3

\* The chain of parents: one step, and that it stays in the namespace.
WalkStep(w, t, ns, p, need) ==
  LET j == <<t, ns, p>>
  IN IF p = 0 \/ need = {} \/ j \notin DOMAIN storage
     THEN {}
     ELSE {j} \cup w[storage[j].parent][need \ Snapshots(j)]
IsWalk(w, t, ns) == w = [p \in 0..MaxId |-> [need \in SUBSET Channel |-> WalkStep(w, t, ns, p, need)]]

LEMMA WalkForm ==
  ASSUME NEW t, NEW ns
  PROVE  Walk(t, ns) = CHOOSE w : IsWalk(w, t, ns)
  BY DEF Walk, IsWalk, WalkStep

\* The parent of a stored checkpoint is older.
LEMMA ParentOlder ==
  ASSUME HistInv, NEW t \in Thread, NEW ns \in Ns, NEW p, <<t, ns, p>> \in DOMAIN storage
  PROVE  /\ p \in 1..MaxId /\ storage[<<t, ns, p>>].parent \in 0..MaxId /\ storage[<<t, ns, p>>].parent < p
         /\ <<t, ns, p>> \in Stored(t, ns)
<1> DEFINE j == <<t, ns, p>>
<1>1. j \in Key /\ storage[j] \in Entry /\ storage[j].parent < j[3] /\ j[3] = p /\ j[1] = t /\ j[2] = ns
  BY DEF HistInv, Shape
<1>2. p \in 1..MaxId
  BY <1>1, KeyParts DEF Id
<1>3. storage[j].parent \in 0..MaxId
  BY <1>1 DEF Entry
<1> QED BY <1>1, <1>2, <1>3 DEF Stored

LEMMA WalkExists ==
  ASSUME HistInv, NEW t \in Thread, NEW ns \in Ns
  PROVE  \E w : IsWalk(w, t, ns)
<1> DEFINE V == [SUBSET Channel -> SUBSET Stored(t, ns)]
           A == {p \in 1..MaxId : <<t, ns, p>> \in DOMAIN storage}
           par == [p \in A |-> storage[<<t, ns, p>>].parent]
           step(p, v) == [need \in SUBSET Channel |->
                            IF need = {} THEN {} ELSE {<<t, ns, p>>} \cup v[need \ Snapshots(<<t, ns, p>>)]]
           H == [p \in A |-> [v \in V |-> step(p, v)]]
           none == [need \in SUBSET Channel |-> {}]
           base == [p \in 0..MaxId |-> none]
<1>1. MaxId \in Nat /\ A \subseteq 1..MaxId
  BY BoundsAssumption
<1>2. \A p \in A : par[p] \in 0..MaxId /\ par[p] < p /\ par[p] = storage[<<t, ns, p>>].parent
  BY ParentOlder
<1>3. ASSUME NEW p \in A, NEW v \in V PROVE H[p][v] \in V /\ H[p][v] = step(p, v)
  <2>1. <<t, ns, p>> \in Stored(t, ns)
    BY ParentOlder
  <2>2. step(p, v) \in V
    BY <2>1
  <2> QED BY <2>2
<1>4. none \in V /\ \A p \in 0..MaxId : base[p] = none
  OBVIOUS
<1> HIDE DEF V, A, par, H, base
<1>5. PICK f \in [0..MaxId -> V] : Recursive(f, MaxId, A, par, H, base)
  <2> HIDE DEF step, none
  <2>1. (\A p \in A : \A v \in V : H[p][v] \in V) /\ \A p \in 0..MaxId : base[p] \in V
    BY <1>3, <1>4
  <2>2. \A p \in A : par[p] \in 0..MaxId /\ par[p] < p
    BY <1>2
  <2> QED BY <1>1, <2>1, <2>2, RecursionExists
<1>6. ASSUME NEW p \in 0..MaxId PROVE f[p] = [need \in SUBSET Channel |-> WalkStep(f, t, ns, p, need)]
  <2>1. CASE p \in A
    <3>1. f[p] = step(p, f[par[p]])
      <4> DEFINE v == f[par[p]]
      <4>1. v \in V
        BY <1>2, <1>5, <2>1
      <4>2. f[p] = H[p][v]
        BY <1>5, <2>1 DEF Recursive
      <4> HIDE DEF v
      <4>3. H[p][v] = step(p, v)
        BY <1>3, <2>1, <4>1
      <4>4. f[p] = step(p, v)
        BY <4>2, <4>3
      <4> QED BY <4>4 DEF v
    <3>2. par[p] = storage[<<t, ns, p>>].parent /\ p # 0 /\ <<t, ns, p>> \in DOMAIN storage
      BY <1>1, <1>2, <2>1 DEF A
    <3> QED BY <3>1, <3>2 DEF WalkStep
  <2>2. CASE p \notin A
    <3>1. f[p] = none
      BY <1>4, <1>5, <2>2 DEF Recursive
    <3>2. p = 0 \/ <<t, ns, p>> \notin DOMAIN storage
      BY <1>1, <2>2 DEF A
    <3> QED BY <3>1, <3>2 DEF WalkStep
  <2> QED BY <2>1, <2>2
<1>7. f = [p \in 0..MaxId |-> f[p]]
  BY <1>5
<1>8. f = [p \in 0..MaxId |-> [need \in SUBSET Channel |-> WalkStep(f, t, ns, p, need)]]
  BY <1>6, <1>7
<1>9. IsWalk(f, t, ns)
  BY <1>8 DEF IsWalk
<1> QED BY <1>9

LEMMA WalkSteps ==
  ASSUME HistInv, NEW t \in Thread, NEW ns \in Ns, NEW p \in 0..MaxId, NEW need \in SUBSET Channel
  PROVE  Walk(t, ns)[p][need] = WalkStep(Walk(t, ns), t, ns, p, need)
<1>1. IsWalk(Walk(t, ns), t, ns)
  BY WalkForm, WalkExists
<1> DEFINE w == Walk(t, ns)
<1> HIDE DEF w
<1>2. w = [q \in 0..MaxId |-> [nd \in SUBSET Channel |-> WalkStep(w, t, ns, q, nd)]]
  BY <1>1 DEF IsWalk, w
<1>3. w[p] = [nd \in SUBSET Channel |-> WalkStep(w, t, ns, p, nd)]
  BY <1>2
<1>4. w[p][need] = WalkStep(w, t, ns, p, need)
  BY <1>3
<1> QED BY <1>4 DEF w

LEMMA WalkStored ==
  ASSUME HistInv, NEW t \in Thread, NEW ns \in Ns
  PROVE  \A p \in 0..MaxId : \A need \in SUBSET Channel : Walk(t, ns)[p][need] \subseteq Stored(t, ns)
<1> DEFINE w == Walk(t, ns)
           S == {p \in 0..MaxId : \A need \in SUBSET Channel : w[p][need] \subseteq Stored(t, ns)}
<1>1. ASSUME NEW p \in 0..MaxId, \A q \in 0..MaxId : q < p => q \in S PROVE p \in S
  <2>1. ASSUME NEW need \in SUBSET Channel PROVE w[p][need] \subseteq Stored(t, ns)
    <3>1. w[p][need] = WalkStep(w, t, ns, p, need)
      BY WalkSteps
    <3>2. CASE p = 0 \/ need = {} \/ <<t, ns, p>> \notin DOMAIN storage
      BY <3>1, <3>2 DEF WalkStep
    <3>3. CASE ~ (p = 0 \/ need = {} \/ <<t, ns, p>> \notin DOMAIN storage)
      <4> DEFINE j == <<t, ns, p>>
                 q == storage[j].parent
                 nd == need \ Snapshots(j)
      <4>1. q \in 0..MaxId /\ q < p /\ j \in Stored(t, ns)
        BY <3>3, ParentOlder
      <4>2. nd \in SUBSET Channel
        OBVIOUS
      <4>3. w[p][need] = {j} \cup w[q][nd]
        BY <3>1, <3>3 DEF WalkStep
      <4> HIDE DEF w, j, q, nd
      <4>4. w[q][nd] \subseteq Stored(t, ns)
        BY <1>1, <4>1, <4>2
      <4> QED BY <4>1, <4>3, <4>4
    <3> QED BY <3>2, <3>3
  <2> QED BY <2>1
<1> HIDE DEF S
<1>2. \A p \in 0..MaxId : p \in S
  BY <1>1, BoundsAssumption, StrongInduction
<1> QED BY <1>2 DEF S

LEMMA ChainStored ==
  ASSUME HistInv, NEW k \in DOMAIN storage
  PROVE  /\ Chain(k) \subseteq Stored(k[1], k[2]) /\ NeededChannels(k) \in SUBSET Channel
         /\ storage[k].parent \in 0..MaxId
<1>1. k \in Key /\ storage[k] \in Entry
  BY DEF HistInv, Shape
<1>2. k[1] \in Thread /\ k[2] \in Ns
  BY <1>1, KeyParts
<1>3. storage[k].parent \in 0..MaxId /\ storage[k].counters \subseteq Channel
  BY <1>1 DEF Entry
<1>4. NeededChannels(k) \in SUBSET Channel
  BY <1>3 DEF NeededChannels
<1> QED BY <1>2, <1>3, <1>4, WalkStored DEF Chain

-----------------------------------------------------------------------------
(* Removals.                                                               *)

LEMMA BlobKeysFacts ==
  /\ \A ks, b : b \in BlobKeysOf(ks) <=> \E k \in ks : b \in BlobKeysOf({k})
  /\ \A k : \A b \in BlobKeysOf({k}) : b[1] = k[1]
<1>1. ASSUME NEW ks, NEW b PROVE b \in BlobKeysOf(ks) <=> \E k \in ks : b \in BlobKeysOf({k})
  BY DEF BlobKeysOf
<1>2. ASSUME NEW k, NEW b \in BlobKeysOf({k}) PROVE b[1] = k[1]
  <2>1. PICK ch \in DOMAIN storage[k].versions : b = <<k[1], k[2], ch, storage[k].versions[ch]>>
    BY DEF BlobKeysOf
  <2> QED BY <2>1
<1> QED BY <1>1, <1>2

\* The writes and blobs that a removal takes along are those of the
\* checkpoints it removes.
WholeRemoval ==
  /\ \A k \in DOMAIN storage \ DOMAIN storage' : k \notin DOMAIN writes'
  /\ \A k \in DOMAIN storage' \cap DOMAIN writes : k \in DOMAIN writes'
  /\ BlobKeysOf(DOMAIN storage) \cap DOMAIN blobs' \subseteq BlobKeysOf(DOMAIN storage')
  /\ BlobKeysOf(DOMAIN storage') \cap DOMAIN blobs \subseteq DOMAIN blobs'

LEMMA DeleteForRunsWhole ==
  ASSUME HistInv, NEW rs \in SUBSET RunId, DeleteForRuns(rs)
  PROVE  /\ WholeRemoval
         /\ \A k \in DOMAIN storage' : k \in DOMAIN storage
         /\ \A k \in DOMAIN storage \ Candidates(rs) : {k} \cup Chain(k) \subseteq DOMAIN storage'
<1> DEFINE ks == Removed(rs)
           rest == DOMAIN storage \ ks
           bs == BlobKeysOf(ks) \ BlobKeysOf(rest)
<1>1. DOMAIN storage' = rest /\ DOMAIN writes' = DOMAIN writes \ ks /\ DOMAIN blobs' = DOMAIN blobs \ bs
  <2>1. Keep(Without(ks, ks, bs)) /\ UNCHANGED <<nid, loop, over>>
    BY DEF DeleteForRuns, AfterDelete
  <2> HIDE DEF ks, bs
  <2>2. ShrinksBy(ks, ks, bs)
    BY <2>1, WithoutShrinks
  <2> QED BY <2>2 DEF ShrinksBy
<1>2. ks \subseteq Candidates(rs) /\ ks \subseteq DOMAIN storage
      /\ \A k \in DOMAIN storage \ Candidates(rs) : Chain(k) \cap ks = {}
  BY DEF Removed, Protected, Candidates
<1>3. \A k \in DOMAIN storage : Chain(k) \subseteq DOMAIN storage
  BY ChainStored DEF Stored
<1> HIDE DEF ks
<1>4. \A b : b \in BlobKeysOf(DOMAIN storage) <=> b \in BlobKeysOf(ks) \/ b \in BlobKeysOf(rest)
  <2>1. \A k : k \in DOMAIN storage <=> k \in ks \/ k \in rest
    BY <1>2
  <2> HIDE DEF rest
  <2> QED BY <2>1, BlobKeysFacts
<1> HIDE DEF rest
<1>5. WholeRemoval
  <2>1. \A k \in DOMAIN storage : k \in rest <=> k \notin ks
    BY DEF rest
  <2>2. rest \subseteq DOMAIN storage
    BY DEF rest
  <2> QED BY <1>1, <1>4, <2>1, <2>2 DEF WholeRemoval
<1> QED BY <1>1, <1>2, <1>3, <1>5 DEF rest

LEMMA PruneWhole ==
  ASSUME HistInv, NEW t \in Thread, Prune(t)
  PROVE  /\ WholeRemoval
         /\ \A k \in DOMAIN storage' : k \in DOMAIN storage
         /\ \A k \in DOMAIN storage \ (Mine(storage, t) \ Latest(t)) : {k} \cup Chain(k) \subseteq DOMAIN storage'
<1> DEFINE kept == Latest(t) \cup UNION {Chain(k) : k \in Latest(t)}
           ks == Mine(storage, t) \ kept
           ws == Mine(writes, t) \ kept
           bs == Mine(blobs, t) \ BlobKeysOf(kept)
<1>1. DOMAIN storage' = DOMAIN storage \ ks /\ DOMAIN writes' = DOMAIN writes \ ws /\ DOMAIN blobs' = DOMAIN blobs \ bs
  <2>1. Keep(Without(ks, ws, bs)) /\ UNCHANGED <<nid, loop, over>>
    BY DEF Prune, AfterPrune
  <2> HIDE DEF ks, ws, bs
  <2>2. ShrinksBy(ks, ws, bs)
    BY <2>1, WithoutShrinks
  <2> QED BY <2>2 DEF ShrinksBy
<1>2. \A k \in DOMAIN storage : Chain(k) \subseteq DOMAIN storage /\ \A j \in Chain(k) : j[1] = k[1]
  BY ChainStored DEF Stored
<1>3. kept \subseteq DOMAIN storage /\ \A k \in kept : k[1] = t
  BY <1>2 DEF Latest
<1>4. Latest(t) \subseteq kept /\ \A k \in Latest(t) : Chain(k) \subseteq kept
  OBVIOUS
<1> HIDE DEF kept
<1>5. \A k : k \in ks <=> k \in DOMAIN storage /\ k[1] = t /\ k \notin kept
  BY DEF Mine
<1>6. \A k : k \in ws <=> k \in DOMAIN writes /\ k[1] = t /\ k \notin kept
  BY DEF Mine
<1>7. \A b : b \in bs <=> b \in DOMAIN blobs /\ b[1] = t /\ b \notin BlobKeysOf(kept)
  BY DEF Mine
<1> HIDE DEF ks, ws, bs
<1>8. BlobKeysOf(DOMAIN storage) \cap DOMAIN blobs' \subseteq BlobKeysOf(DOMAIN storage')
  <2>1. ASSUME NEW b \in BlobKeysOf(DOMAIN storage), b \in DOMAIN blobs' PROVE b \in BlobKeysOf(DOMAIN storage')
    <3>1. PICK k \in DOMAIN storage : b \in BlobKeysOf({k})
      BY BlobKeysFacts
    <3>2. CASE k \notin ks
      BY <1>1, <3>1, <3>2, BlobKeysFacts
    <3>3. CASE k \in ks
      <4>1. b[1] = t
        BY <1>5, <3>1, <3>3, BlobKeysFacts
      <4>2. b \in BlobKeysOf(kept)
        BY <1>1, <1>7, <2>1, <4>1
      <4>3. PICK j \in kept : b \in BlobKeysOf({j})
        BY <4>2, BlobKeysFacts
      <4>4. j \in DOMAIN storage'
        BY <1>1, <1>3, <1>5
      <4> QED BY <4>3, <4>4, BlobKeysFacts
    <3> QED BY <3>2, <3>3
  <2> QED BY <2>1
<1>9. BlobKeysOf(DOMAIN storage') \cap DOMAIN blobs \subseteq DOMAIN blobs'
  <2>1. ASSUME NEW b \in BlobKeysOf(DOMAIN storage'), b \in DOMAIN blobs PROVE b \notin bs
    <3>1. PICK k \in DOMAIN storage' : b \in BlobKeysOf({k})
      BY BlobKeysFacts
    <3>2. b[1] = k[1]
      BY <3>1, BlobKeysFacts
    <3>3. CASE k[1] # t
      BY <1>7, <3>2, <3>3
    <3>4. CASE k \in kept
      <4>1. b \in BlobKeysOf(kept)
        BY <3>1, <3>4, BlobKeysFacts
      <4> QED BY <1>7, <4>1
    <3> QED BY <1>1, <1>5, <3>3, <3>4
  <2> QED BY <1>1, <2>1
<1>10. WholeRemoval
  BY <1>1, <1>5, <1>6, <1>8, <1>9 DEF WholeRemoval
<1>11. ASSUME NEW k \in DOMAIN storage \ (Mine(storage, t) \ Latest(t)) PROVE {k} \cup Chain(k) \subseteq DOMAIN storage'
  <2>1. CASE k[1] = t
    <3>1. k \in Latest(t)
      BY <2>1 DEF Mine
    <3> QED BY <1>1, <1>2, <1>4, <1>5, <3>1
  <2>2. CASE k[1] # t
    BY <1>1, <1>2, <1>5, <2>2
  <2> QED BY <2>1, <2>2
<1> QED BY <1>1, <1>10, <1>11

LEMMA DeleteThreadWhole ==
  ASSUME HistInv, NEW t \in Thread, DeleteThread(t)
  PROVE  /\ WholeRemoval
         /\ \A k \in DOMAIN storage' : k \in DOMAIN storage
         /\ \A k \in DOMAIN storage \ Mine(storage, t) : {k} \cup Chain(k) \subseteq DOMAIN storage'
<1>1. DOMAIN storage' = DOMAIN storage \ Mine(storage, t) /\ DOMAIN writes' = DOMAIN writes \ Mine(writes, t)
      /\ DOMAIN blobs' = DOMAIN blobs \ Mine(blobs, t)
  <2>1. Keep(Without(Mine(storage, t), Mine(writes, t), Mine(blobs, t))) /\ UNCHANGED <<nid, loop, over>>
    BY DEF DeleteThread
  <2>2. ShrinksBy(Mine(storage, t), Mine(writes, t), Mine(blobs, t))
    BY <2>1, WithoutShrinks
  <2> QED BY <2>2 DEF ShrinksBy
<1>2. \A k \in DOMAIN storage : Chain(k) \subseteq DOMAIN storage /\ \A j \in Chain(k) : j[1] = k[1]
  BY ChainStored DEF Stored
<1>3. BlobKeysOf(DOMAIN storage) \cap DOMAIN blobs' \subseteq BlobKeysOf(DOMAIN storage')
  <2>1. ASSUME NEW b \in BlobKeysOf(DOMAIN storage), b \in DOMAIN blobs' PROVE b \in BlobKeysOf(DOMAIN storage')
    <3>1. PICK k \in DOMAIN storage : b \in BlobKeysOf({k})
      BY BlobKeysFacts
    <3>2. k[1] # t
      BY <1>1, <2>1, <3>1, BlobKeysFacts DEF Mine
    <3> QED BY <1>1, <3>1, <3>2, BlobKeysFacts DEF Mine
  <2> QED BY <2>1
<1>4. BlobKeysOf(DOMAIN storage') \cap DOMAIN blobs \subseteq DOMAIN blobs'
  <2>1. ASSUME NEW b \in BlobKeysOf(DOMAIN storage'), b \in DOMAIN blobs PROVE b \in DOMAIN blobs'
    <3>1. PICK k \in DOMAIN storage' : b \in BlobKeysOf({k})
      BY BlobKeysFacts
    <3>2. k[1] # t /\ b[1] = k[1]
      BY <1>1, <3>1, BlobKeysFacts DEF Mine
    <3> QED BY <1>1, <2>1, <3>2 DEF Mine
  <2> QED BY <2>1
<1>5. WholeRemoval
  BY <1>1, <1>3, <1>4 DEF WholeRemoval, Mine
<1> QED BY <1>1, <1>2, <1>5 DEF Mine

LEMMA ClearWhole ==
  ASSUME Clear
  PROVE  WholeRemoval /\ DOMAIN storage' = {}
<1>1. DOMAIN storage' = {} /\ DOMAIN writes' = {} /\ DOMAIN blobs' = {}
  <2>1. Keep(Without(DOMAIN storage, DOMAIN writes, DOMAIN blobs)) /\ UNCHANGED <<nid, loop, over>>
    BY DEF Clear
  <2>2. /\ DOMAIN storage' = DOMAIN storage \ DOMAIN storage
        /\ DOMAIN writes' = DOMAIN writes \ DOMAIN writes
        /\ DOMAIN blobs' = DOMAIN blobs \ DOMAIN blobs
    <3>1. ShrinksBy(DOMAIN storage, DOMAIN writes, DOMAIN blobs)
      BY <2>1, WithoutShrinks
    <3> QED BY <3>1 DEF ShrinksBy
  <2> QED BY <2>2
<1>2. BlobKeysOf(DOMAIN storage') = {}
  BY <1>1, BlobKeysFacts
<1> QED BY <1>1, <1>2 DEF WholeRemoval

LEMMA RemovesWholly ==
  ASSUME HistInv, Removes
  PROVE  WholeRemoval
  BY DeleteForRunsWhole, PruneWhole, DeleteThreadWhole, ClearWhole DEF Removes

\* In what is left, the checkpoints refer to the same blobs.
LEMMA SameBlobKeys ==
  ASSUME Shrinks
  PROVE  BlobKeysOf(DOMAIN storage)' = BlobKeysOf(DOMAIN storage')
<1>1. \A k \in DOMAIN storage' : storage'[k] = storage[k]
  BY DEF Shrinks, Shrunk
<1> QED BY <1>1 DEF BlobKeysOf

\* A removal takes the writes and blobs of the checkpoints it removes along,
\* and no write of a checkpoint that it keeps (checkpoint.py, delete_for_runs,
\* prune, delete_thread and clear), also where another thread or namespace
\* has a checkpoint of the same id.
THEOREM RemovalsWhole == Spec => RemovesWhole
<1> DEFINE Step == DOMAIN storage \ DOMAIN storage' # {} =>
                     /\ Orphans' \subseteq Orphans
                     /\ \A k \in DOMAIN storage' \cap DOMAIN writes : k \in DOMAIN writes' /\ writes'[k] = writes[k]
<1>1. HistInv /\ [Next]_vars => Step
  <2> SUFFICES ASSUME HistInv, [Next]_vars, DOMAIN storage \ DOMAIN storage' # {} PROVE
                     /\ Orphans' \subseteq Orphans
                     /\ \A k \in DOMAIN storage' \cap DOMAIN writes : k \in DOMAIN writes' /\ writes'[k] = writes[k]
    OBVIOUS
  <2>1. Removes
    <3>1. ASSUME NEW r \in RunId, NEW ns \in Ns, NEW in \in PutInput, Put(r, ns, in) PROVE FALSE
      BY <3>1, PutFacts DEF Grown
    <3>2. ASSUME NEW t \in Thread, NEW u \in Thread, CopyThread(t, u) PROVE FALSE
      BY <3>2, CopyFacts DEF IsCopy
    <3>3. CASE \/ UNCHANGED vars
               \/ \E r \in RunId, t \in Thread : Load(r, t)
               \/ \E r \in RunId, ns \in Ns : PutWrites(r, ns)
      BY <3>3 DEF vars, Load, PutWrites
    <3> QED BY <3>1, <3>2, <3>3, NextCases
  <2>2. WholeRemoval /\ Shrinks
    BY <2>1, RemovesWholly, RemovesShrinks
  <2>3. Orphans' = (DOMAIN writes' \ DOMAIN storage') \cup (DOMAIN blobs' \ BlobKeysOf(DOMAIN storage'))
    BY <2>2, SameBlobKeys DEF Orphans
  <2>4. DOMAIN writes' \subseteq DOMAIN writes /\ DOMAIN blobs' \subseteq DOMAIN blobs
        /\ \A k \in DOMAIN writes' : writes'[k] = writes[k]
    BY <2>2 DEF Shrinks, Shrunk
  <2>5. Orphans' \subseteq Orphans
    BY <2>2, <2>3, <2>4 DEF WholeRemoval, Orphans
  <2> QED BY <2>2, <2>4, <2>5 DEF WholeRemoval
<1> QED BY <1>1, HistInvariant, PTL DEF Spec, RemovesWhole

-----------------------------------------------------------------------------
(* The two savers.                                                         *)

PgStep(w, t, ns, p, need) ==
  LET j == <<t, ns, p>>
  IN IF p = 0 \/ need = {} \/ j \notin Mine(storage, t)
     THEN {}
     ELSE {j} \cup w[storage[j].parent][PgLacking(j, need)]
IsPgWalk(w, t, ns) == w = [p \in 0..MaxId |-> [need \in SUBSET Channel |-> PgStep(w, t, ns, p, need)]]

LEMMA PgWalkForm ==
  ASSUME NEW t, NEW ns
  PROVE  PgWalk(Mine(storage, t), t, ns) = CHOOSE w : IsPgWalk(w, t, ns)
  BY DEF PgWalk, IsPgWalk, PgStep

\* A row's materialized channels are the snapshots of its checkpoint.
LEMMA LackingSame ==
  ASSUME HistInv, NEW k \in DOMAIN storage, NEW need
  PROVE  PgLacking(k, need) = need \ Snapshots(k)
<1> DEFINE t == k[1]
           ns == k[2]
           vs == storage[k].versions
<1>1. DOMAIN blobs \subseteq BlobKey
  BY DEF HistInv, Shape
<1>2. ASSUME NEW ch, NEW v PROVE <<ns, ch, v>> \in PgMaterialized(t) <=> Materialized(<<t, ns, ch, v>>)
  <2>1. ASSUME Materialized(<<t, ns, ch, v>>) PROVE <<ns, ch, v>> \in PgMaterialized(t)
    <3> DEFINE b == <<t, ns, ch, v>>
    <3>1. b \in Mine(blobs, t) /\ blobs[b] # "empty"
      BY <2>1 DEF Materialized, Mine
    <3>2. <<b[2], b[3], b[4]>> = <<ns, ch, v>>
      OBVIOUS
    <3> HIDE DEF b
    <3> QED BY <3>1, <3>2 DEF PgMaterialized
  <2>2. ASSUME <<ns, ch, v>> \in PgMaterialized(t) PROVE Materialized(<<t, ns, ch, v>>)
    <3>1. PICK b \in Mine(blobs, t) : blobs[b] # "empty" /\ <<ns, ch, v>> = <<b[2], b[3], b[4]>>
      BY <2>2 DEF PgMaterialized
    <3>2. b \in DOMAIN blobs /\ b[1] = t /\ b = <<b[1], b[2], b[3], b[4]>>
      BY <1>1, <3>1, BlobParts DEF Mine
    <3>3. b = <<t, ns, ch, v>>
      BY <3>1, <3>2
    <3> QED BY <3>1, <3>2, <3>3 DEF Materialized
  <2> QED BY <2>1, <2>2
<1>3. ASSUME NEW ch PROVE <<ns, ch, PgVersion(k, ch)>> \in PgMaterialized(t) <=> ch \in Snapshots(k)
  <2>1. CASE ch \in DOMAIN vs
    <3>1. PgVersion(k, ch) = vs[ch]
      BY <2>1 DEF PgVersion
    <3> QED BY <1>2, <2>1, <3>1 DEF Snapshots
  <2>2. CASE ch \notin DOMAIN vs
    <3>1. PgVersion(k, ch) = 0 /\ ch \notin Snapshots(k)
      BY <2>2 DEF PgVersion, Snapshots
    <3>2. <<t, ns, ch, 0>> \notin BlobKey
      BY BoundsAssumption DEF BlobKey, Id
    <3>3. ~ Materialized(<<t, ns, ch, 0>>)
      BY <1>1, <3>2 DEF Materialized
    <3> QED BY <1>2, <3>1, <3>3
  <2> QED BY <2>1, <2>2
<1> QED BY <1>3 DEF PgLacking

LEMMA PgStepSame ==
  ASSUME HistInv, NEW w, NEW t \in Thread, NEW ns \in Ns, NEW p, NEW need
  PROVE  PgStep(w, t, ns, p, need) = WalkStep(w, t, ns, p, need)
<1> DEFINE j == <<t, ns, p>>
<1>1. j \in Mine(storage, t) <=> j \in DOMAIN storage
  BY DEF Mine
<1>2. j \in DOMAIN storage => PgLacking(j, need) = need \ Snapshots(j)
  BY LackingSame
<1> QED BY <1>1, <1>2 DEF PgStep, WalkStep

LEMMA PgWalkSteps ==
  ASSUME HistInv, NEW t \in Thread, NEW ns \in Ns, NEW p \in 0..MaxId, NEW need \in SUBSET Channel
  PROVE  PgWalk(Mine(storage, t), t, ns)[p][need] = WalkStep(PgWalk(Mine(storage, t), t, ns), t, ns, p, need)
<1> DEFINE w == PgWalk(Mine(storage, t), t, ns)
<1>1. \E v : IsPgWalk(v, t, ns)
  <2>1. PICK v : IsWalk(v, t, ns)
    BY WalkExists
  <2>2. \A q \in 0..MaxId : \A nd \in SUBSET Channel : PgStep(v, t, ns, q, nd) = WalkStep(v, t, ns, q, nd)
    BY PgStepSame
  <2>3. IsPgWalk(v, t, ns)
    BY <2>1, <2>2 DEF IsWalk, IsPgWalk
  <2> QED BY <2>3
<1>2. IsPgWalk(w, t, ns)
  BY <1>1, PgWalkForm
<1> HIDE DEF w
<1>3. w = [q \in 0..MaxId |-> [nd \in SUBSET Channel |-> PgStep(w, t, ns, q, nd)]]
  BY <1>2 DEF IsPgWalk
<1>4. w[p] = [nd \in SUBSET Channel |-> PgStep(w, t, ns, p, nd)]
  BY <1>3
<1>5. w[p][need] = PgStep(w, t, ns, p, need)
  BY <1>4
<1>6. w[p][need] = WalkStep(w, t, ns, p, need)
  BY <1>5, PgStepSame
<1> QED BY <1>6 DEF w

\* The rows _remove_history visits are the chain of the checkpoint.
LEMMA WalksAgree ==
  ASSUME HistInv, NEW t \in Thread, NEW ns \in Ns
  PROVE  \A p \in 0..MaxId : \A need \in SUBSET Channel :
            PgWalk(Mine(storage, t), t, ns)[p][need] = Walk(t, ns)[p][need]
<1> DEFINE v == PgWalk(Mine(storage, t), t, ns)
           w == Walk(t, ns)
           S == {p \in 0..MaxId : \A need \in SUBSET Channel : v[p][need] = w[p][need]}
<1>1. ASSUME NEW p \in 0..MaxId, \A q \in 0..MaxId : q < p => q \in S PROVE p \in S
  <2>1. ASSUME NEW need \in SUBSET Channel PROVE v[p][need] = w[p][need]
    <3>1. v[p][need] = WalkStep(v, t, ns, p, need) /\ w[p][need] = WalkStep(w, t, ns, p, need)
      BY WalkSteps, PgWalkSteps
    <3>2. CASE p = 0 \/ need = {} \/ <<t, ns, p>> \notin DOMAIN storage
      BY <3>1, <3>2 DEF WalkStep
    <3>3. CASE ~ (p = 0 \/ need = {} \/ <<t, ns, p>> \notin DOMAIN storage)
      <4> DEFINE j == <<t, ns, p>>
                 q == storage[j].parent
                 nd == need \ Snapshots(j)
      <4>1. q \in 0..MaxId /\ q < p
        BY <3>3, ParentOlder
      <4>2. nd \in SUBSET Channel
        OBVIOUS
      <4>3. w[p][need] = {j} \cup w[q][nd] /\ v[p][need] = {j} \cup v[q][nd]
        BY <3>1, <3>3 DEF WalkStep
      <4> HIDE DEF v, w, j, q, nd
      <4>4. v[q][nd] = w[q][nd]
        BY <1>1, <4>1, <4>2
      <4> QED BY <4>3, <4>4
    <3> QED BY <3>2, <3>3
  <2> QED BY <2>1
<1> HIDE DEF S
<1>2. \A p \in 0..MaxId : p \in S
  BY <1>1, BoundsAssumption, StrongInduction
<1> QED BY <1>2 DEF S

LEMMA PgProtects ==
  ASSUME HistInv, NEW t \in Thread, NEW ks
  PROVE  PgProtected(Mine(storage, t), ks) = UNION {Chain(k) : k \in Mine(storage, t) \ ks}
<1> DEFINE rows == Mine(storage, t)
           needed(k) == PgLacking(k, storage[k].counters \cap DOMAIN storage[k].versions)
           visited(k) == PgWalk(rows, k[1], k[2])[storage[k].parent][needed(k)]
<1>1. ASSUME NEW k \in rows PROVE visited(k) = Chain(k)
  <2>1. k \in DOMAIN storage /\ k[1] = t /\ k \in Key
    BY DEF Mine, HistInv, Shape
  <2>2. needed(k) = NeededChannels(k)
    <3>1. needed(k) = (storage[k].counters \cap DOMAIN storage[k].versions) \ Snapshots(k)
      BY <2>1, LackingSame
    <3> QED BY <3>1 DEF NeededChannels
  <2>3. NeededChannels(k) \in SUBSET Channel /\ storage[k].parent \in 0..MaxId
    BY <2>1, ChainStored
  <2>4. k[2] \in Ns
    BY <2>1, KeyParts
  <2> HIDE DEF needed
  <2>5. PgWalk(rows, t, k[2])[storage[k].parent][NeededChannels(k)] = Walk(t, k[2])[storage[k].parent][NeededChannels(k)]
    BY <2>3, <2>4, WalksAgree
  <2> QED BY <2>1, <2>2, <2>5 DEF Chain
<1>2. PgProtected(rows, ks) = UNION {visited(k) : k \in rows \ ks}
  BY DEF PgProtected
<1> HIDE DEF visited
<1> QED BY <1>1, <1>2

LEMMA WithoutEqual ==
  ASSUME NEW ks, NEW ws, NEW bs, NEW ks2, NEW ws2, NEW bs2
  PROVE  /\ DOMAIN storage \ ks = DOMAIN storage \ ks2 => Without(ks, ws, bs).storage = Without(ks2, ws2, bs2).storage
         /\ (/\ DOMAIN storage \ ks = DOMAIN storage \ ks2
             /\ DOMAIN writes \ ws = DOMAIN writes \ ws2
             /\ DOMAIN blobs \ bs = DOMAIN blobs \ bs2) => Without(ks, ws, bs) = Without(ks2, ws2, bs2)
  BY DEF Without

\* The part of a thread in what a removal leaves.
LEMMA PartOfWithout ==
  ASSUME NEW ks, NEW ws, NEW bs, NEW t
  PROVE  PartOf(Without(ks, ws, bs), t) =
           [storage |-> Restrict(storage, Mine(storage, t) \ ks),
            writes |-> Restrict(writes, Mine(writes, t) \ ws),
            blobs |-> Restrict(blobs, Mine(blobs, t) \ bs)]
<1>1. ASSUME NEW f, NEW S
      PROVE  Restrict(Restrict(f, DOMAIN f \ S), Mine(Restrict(f, DOMAIN f \ S), t)) = Restrict(f, Mine(f, t) \ S)
  <2> DEFINE g == Restrict(f, DOMAIN f \ S)
  <2>1. DOMAIN g = DOMAIN f \ S /\ \A x \in DOMAIN g : g[x] = f[x]
    BY DEF Restrict
  <2> HIDE DEF g
  <2>2. Mine(g, t) = Mine(f, t) \ S /\ \A x \in Mine(g, t) : g[x] = f[x]
    BY <2>1 DEF Mine
  <2>3. Restrict(g, Mine(g, t)) = Restrict(f, Mine(f, t) \ S)
    BY <2>2 DEF Restrict
  <2> QED BY <2>3 DEF g
<1> DEFINE a == Without(ks, ws, bs)
<1>2. /\ a.storage = Restrict(storage, DOMAIN storage \ ks)
      /\ a.writes = Restrict(writes, DOMAIN writes \ ws)
      /\ a.blobs = Restrict(blobs, DOMAIN blobs \ bs)
  BY DEF Without
<1> HIDE DEF a
<1>3. /\ Restrict(a.storage, Mine(a.storage, t)) = Restrict(storage, Mine(storage, t) \ ks)
      /\ Restrict(a.writes, Mine(a.writes, t)) = Restrict(writes, Mine(writes, t) \ ws)
      /\ Restrict(a.blobs, Mine(a.blobs, t)) = Restrict(blobs, Mine(blobs, t) \ bs)
  BY <1>1, <1>2
<1>4. PartOf(a, t) = [storage |-> Restrict(storage, Mine(storage, t) \ ks),
                      writes |-> Restrict(writes, Mine(writes, t) \ ws),
                      blobs |-> Restrict(blobs, Mine(blobs, t) \ bs)]
  BY <1>3 DEF PartOf
<1> QED BY <1>4 DEF a

LEMMA PruneAgrees ==
  ASSUME HistInv, NEW t \in Thread
  PROVE  /\ AfterPrune(t).storage = PgAfterPrune(t).storage
         /\ Orphans = {} => AfterPrune(t) = PgAfterPrune(t)
<1> DEFINE rows == Mine(storage, t)
           kept == Latest(t) \cup UNION {Chain(k) : k \in Latest(t)}
           removed == (rows \ Latest(t)) \ PgProtected(rows, rows \ Latest(t))
           gone == IF removed = {} THEN {} ELSE Mine(blobs, t) \ BlobKeysOf(rows \ removed)
<1>1. AfterPrune(t) = Without(rows \ kept, Mine(writes, t) \ kept, Mine(blobs, t) \ BlobKeysOf(kept))
  BY DEF AfterPrune
<1>2. PgAfterPrune(t) = Without(removed, removed, gone)
  BY DEF PgAfterPrune, PgAfter
<1>3. Latest(t) \subseteq rows
  BY DEF Latest, Mine
<1>4. \A k \in rows : Chain(k) \subseteq rows
  BY ChainStored DEF Stored, Mine
<1>5. PgProtected(rows, rows \ Latest(t)) = UNION {Chain(k) : k \in Latest(t)}
  <2>1. rows \ (rows \ Latest(t)) = Latest(t)
    BY <1>3
  <2>2. PgProtected(rows, rows \ Latest(t)) = UNION {Chain(k) : k \in rows \ (rows \ Latest(t))}
    BY PgProtects
  <2> QED BY <2>1, <2>2
<1>6. removed = rows \ kept /\ kept \subseteq rows
  BY <1>3, <1>4, <1>5
<1> HIDE DEF removed, kept
<1>7. rows \ removed = kept
  BY <1>6
<1>8. ASSUME Orphans = {}
      PROVE  /\ DOMAIN writes \ (Mine(writes, t) \ kept) = DOMAIN writes \ removed
             /\ Mine(blobs, t) \ BlobKeysOf(kept) = gone
  <2>1. DOMAIN writes \subseteq DOMAIN storage /\ DOMAIN blobs \subseteq BlobKeysOf(DOMAIN storage)
    BY <1>8 DEF Orphans
  <2>2. DOMAIN writes \ (Mine(writes, t) \ kept) = DOMAIN writes \ removed
    BY <1>6, <2>1 DEF Mine
  <2>3. CASE removed # {}
    BY <1>7, <2>2, <2>3
  <2>4. CASE removed = {}
    <3>1. kept = rows
      BY <1>7, <2>4
    <3>2. ASSUME NEW b \in Mine(blobs, t) PROVE b \in BlobKeysOf(rows)
      <4>1. PICK k \in DOMAIN storage : b \in BlobKeysOf({k})
        BY <2>1, BlobKeysFacts DEF Mine
      <4>2. k \in rows
        BY <4>1, BlobKeysFacts DEF Mine
      <4> HIDE DEF rows
      <4> QED BY <4>1, <4>2, BlobKeysFacts
    <3> QED BY <2>2, <2>4, <3>1, <3>2
  <2> QED BY <2>3, <2>4
<1> HIDE DEF gone
<1> QED BY <1>1, <1>2, <1>6, <1>8, WithoutEqual

LEMMA DeletesAgree ==
  ASSUME HistInv, NEW t \in Thread, NEW rs
  PROVE  /\ PartOf(AfterDelete(rs), t).storage = PartOf(PgAfterDelete(rs, t), t).storage
         /\ Orphans = {} => PartOf(AfterDelete(rs), t) = PartOf(PgAfterDelete(rs, t), t)
<1> DEFINE rows == Mine(storage, t)
           ks == Removed(rs)
           bs == BlobKeysOf(ks) \ BlobKeysOf(DOMAIN storage \ ks)
           C == Candidates(rs) \cap rows
           removed == C \ PgProtected(rows, C)
           gone == IF removed = {} THEN {} ELSE Mine(blobs, t) \ BlobKeysOf(rows \ removed)
<1>1. AfterDelete(rs) = Without(ks, ks, bs)
  BY DEF AfterDelete
<1>2. PgAfterDelete(rs, t) = Without(removed, removed, gone)
  BY DEF PgAfterDelete, PgAfter
<1>3. \A k \in DOMAIN storage : Chain(k) \subseteq DOMAIN storage /\ \A j \in Chain(k) : j[1] = k[1]
  BY ChainStored DEF Stored
<1>4. Candidates(rs) \subseteq DOMAIN storage
  BY DEF Candidates
<1>5. ASSUME NEW k \in rows PROVE k \in ks <=> k \in removed
  <2>1. k \in DOMAIN storage /\ k[1] = t
    BY DEF Mine
  <2>2. k \in ks <=> k \in Candidates(rs) /\ ~ \E j \in DOMAIN storage \ Candidates(rs) : k \in Chain(j)
    BY DEF Removed, Protected
  <2>3. PgProtected(rows, C) = UNION {Chain(j) : j \in rows \ C}
    BY PgProtects
  <2>4. k \in removed <=> k \in C /\ ~ \E j \in rows \ C : k \in Chain(j)
    BY <2>3
  <2>5. \A j \in DOMAIN storage : k \in Chain(j) => j \in rows
    BY <1>3, <2>1 DEF Mine
  <2>6. \A j \in rows : j \in DOMAIN storage
    BY DEF Mine
  <2> HIDE DEF rows, ks, removed
  <2> QED BY <2>2, <2>4, <2>5, <2>6
<1>6. removed \subseteq rows
  OBVIOUS
<1> HIDE DEF ks, removed
<1>7. rows \ ks = rows \ removed
  BY <1>5
<1>8. ASSUME Orphans = {}
      PROVE  Mine(writes, t) \ ks = Mine(writes, t) \ removed /\ Mine(blobs, t) \ bs = Mine(blobs, t) \ gone
  <2>1. DOMAIN writes \subseteq DOMAIN storage /\ DOMAIN blobs \subseteq BlobKeysOf(DOMAIN storage)
    BY <1>8 DEF Orphans
  <2>2. Mine(writes, t) \subseteq rows
    BY <2>1 DEF Mine
  <2>3. ASSUME NEW b \in Mine(blobs, t) PROVE b \in bs <=> b \in gone
    <3>1. PICK k \in DOMAIN storage : b \in BlobKeysOf({k})
      BY <2>1, BlobKeysFacts DEF Mine
    <3>2. b[1] = t /\ k \in rows
      BY <3>1, BlobKeysFacts DEF Mine
    <3>3. b \in bs <=> b \notin BlobKeysOf(DOMAIN storage \ ks)
      <4>1. b \in BlobKeysOf(ks) \/ b \in BlobKeysOf(DOMAIN storage \ ks)
        BY <3>1, BlobKeysFacts
      <4> QED BY <4>1
    <3>4. b \in BlobKeysOf(DOMAIN storage \ ks) <=> b \in BlobKeysOf(rows \ removed)
      <4>1. b \in BlobKeysOf(DOMAIN storage \ ks) <=> \E j \in DOMAIN storage \ ks : b \in BlobKeysOf({j})
        BY BlobKeysFacts
      <4>2. b \in BlobKeysOf(rows \ removed) <=> \E j \in rows \ removed : b \in BlobKeysOf({j})
        BY BlobKeysFacts
      <4>3. \A j \in DOMAIN storage : b \in BlobKeysOf({j}) => j \in rows
        BY <3>2, BlobKeysFacts DEF Mine
      <4>4. \A j \in rows : j \in DOMAIN storage
        BY DEF Mine
      <4> HIDE DEF rows
      <4> QED BY <1>5, <4>1, <4>2, <4>3, <4>4
    <3>5. removed = {} => b \in BlobKeysOf(rows \ removed)
      <4>1. removed = {} => k \in rows \ removed
        BY <3>2
      <4> QED BY <3>1, <4>1, BlobKeysFacts
    <3> HIDE DEF bs
    <3> QED BY <3>3, <3>4, <3>5
  <2> HIDE DEF bs, gone
  <2> QED BY <1>5, <2>2, <2>3
<1> HIDE DEF bs, gone, rows
<1>9. PartOf(Without(ks, ks, bs), t) =
        [storage |-> Restrict(storage, rows \ ks), writes |-> Restrict(writes, Mine(writes, t) \ ks),
         blobs |-> Restrict(blobs, Mine(blobs, t) \ bs)]
  BY PartOfWithout DEF rows
<1>10. PartOf(Without(removed, removed, gone), t) =
        [storage |-> Restrict(storage, rows \ removed), writes |-> Restrict(writes, Mine(writes, t) \ removed),
         blobs |-> Restrict(blobs, Mine(blobs, t) \ gone)]
  BY PartOfWithout DEF rows
<1> DEFINE a == PartOf(AfterDelete(rs), t)
           b == PartOf(PgAfterDelete(rs, t), t)
<1>11. a = [storage |-> Restrict(storage, rows \ ks), writes |-> Restrict(writes, Mine(writes, t) \ ks),
            blobs |-> Restrict(blobs, Mine(blobs, t) \ bs)]
  BY <1>1, <1>9
<1>12. b = [storage |-> Restrict(storage, rows \ removed), writes |-> Restrict(writes, Mine(writes, t) \ removed),
            blobs |-> Restrict(blobs, Mine(blobs, t) \ gone)]
  BY <1>2, <1>10
<1> HIDE DEF a, b
<1>13. a.storage = b.storage
  <2>1. a.storage = Restrict(storage, rows \ ks)
    BY <1>11
  <2>2. b.storage = Restrict(storage, rows \ removed)
    BY <1>12
  <2> QED BY <1>7, <2>1, <2>2
<1>14. Orphans = {} => a = b
  BY <1>7, <1>8, <1>11, <1>12
<1> QED BY <1>13, <1>14 DEF a, b

\* In every state the Postgres checkpointer (postgres.py, _remove_history)
\* would keep the same checkpoints as the built-in one (checkpoint.py,
\* delete_for_runs and prune), and the same writes and blobs unless a late
\* write left orphans.
THEOREM SaversAgreeAlways == Spec => []SaversAgree
<1>1. HistInv => SaversAgree
  BY PruneAgrees, DeletesAgree DEF SaversAgree
<1> QED BY <1>1, HistInvariant, PTL

-----------------------------------------------------------------------------
(* Sizes.                                                                  *)

LEMMA SumNat ==
  ASSUME NEW g, NEW S, IsFiniteSet(S), \A x \in S : g[x] \in Nat
  PROVE  SumFunctionOnSet(g, S) \in Nat
<1> DEFINE G == {s \in SUBSET S : SumFunctionOnSet(g, s) \in Nat}
<1>1. ASSUME NEW s \in SUBSET S, \A x \in s : s \ {x} \in G PROVE s \in G
  <2>1. CASE s = {}
    BY <2>1, SumEmpty
  <2>2. CASE s # {}
    <3>1. Pick(s) \in s /\ SumFunctionOnSet(g, s) = g[Pick(s)] + SumFunctionOnSet(g, s \ {Pick(s)})
      BY <2>2, FS_Subset, SumStep
    <3>2. SumFunctionOnSet(g, s \ {Pick(s)}) \in Nat
      BY <1>1, <3>1
    <3> QED BY <3>1, <3>2
  <2> QED BY <2>1, <2>2
<1> HIDE DEF G
<1>2. \A T \in SUBSET S : T \in G
  BY <1>1, SubsetInduction
<1> QED BY <1>2 DEF G

LEMMA SumZero ==
  ASSUME NEW g, NEW S, IsFiniteSet(S), \A x \in S : g[x] = 0
  PROVE  SumFunctionOnSet(g, S) = 0
<1> DEFINE G == {s \in SUBSET S : SumFunctionOnSet(g, s) = 0}
<1>1. ASSUME NEW s \in SUBSET S, \A x \in s : s \ {x} \in G PROVE s \in G
  <2>1. CASE s = {}
    BY <2>1, SumEmpty
  <2>2. CASE s # {}
    <3>1. Pick(s) \in s /\ SumFunctionOnSet(g, s) = g[Pick(s)] + SumFunctionOnSet(g, s \ {Pick(s)})
      BY <2>2, FS_Subset, SumStep
    <3>2. SumFunctionOnSet(g, s \ {Pick(s)}) = 0
      BY <1>1, <3>1
    <3> QED BY <3>1, <3>2
  <2> QED BY <2>1, <2>2
<1> HIDE DEF G
<1>2. \A T \in SUBSET S : T \in G
  BY <1>1, SubsetInduction
<1> QED BY <1>2 DEF G

\* A sum in which one value changed.
LEMMA SumChange ==
  ASSUME NEW g, NEW h, NEW S, IsFiniteSet(S), NEW y \in S, \A x \in S : g[x] \in Int /\ h[x] \in Int,
         \A x \in S : x # y => h[x] = g[x]
  PROVE  SumFunctionOnSet(h, S) = SumFunctionOnSet(g, S) + h[y] - g[y]
<1>1. IsFiniteSet(S \ {y})
  BY FS_Subset
<1>2. SumFunctionOnSet(h, S) = h[y] + SumFunctionOnSet(h, S \ {y})
  BY SumOut
<1>3. SumFunctionOnSet(g, S) = g[y] + SumFunctionOnSet(g, S \ {y})
  BY SumOut
<1>4. SumFunctionOnSet(h, S \ {y}) = SumFunctionOnSet(g, S \ {y})
  BY <1>1, SumEqual
<1>5. SumFunctionOnSet(g, S \ {y}) \in Int
  BY <1>1, SumInt
<1> QED BY <1>2, <1>3, <1>4, <1>5

\* A sum to which the values of another function were added.
LEMMA SumExtend ==
  ASSUME NEW g, NEW n, NEW h, NEW A, NEW B, IsFiniteSet(A), IsFiniteSet(B), A \cap B = {},
         \A x \in A : h[x] = g[x] /\ g[x] \in Int, \A x \in B : h[x] = n[x] /\ n[x] \in Int
  PROVE  SumFunctionOnSet(h, A \cup B) = SumFunctionOnSet(g, A) + SumFunctionOnSet(n, B)
<1>1. SumFunctionOnSet(h, A \cup B) = SumFunctionOnSet(h, A) + SumFunctionOnSet(h, B)
  BY SumUnion
<1>2. SumFunctionOnSet(h, A) = SumFunctionOnSet(g, A) /\ SumFunctionOnSet(h, B) = SumFunctionOnSet(n, B)
  BY SumEqual
<1> QED BY <1>1, <1>2

\* A sum does not depend on the names of the elements.
LEMMA SumRenamed ==
  ASSUME NEW g, NEW h, NEW m, NEW S, IsFiniteSet(S), \A x \in S : g[x] \in Int /\ h[m[x]] = g[x],
         \A x, y \in S : m[x] = m[y] => x = y
  PROVE  SumFunctionOnSet(h, {m[x] : x \in S}) = SumFunctionOnSet(g, S)
<1> DEFINE Im(T) == {m[x] : x \in T}
           G == {T \in SUBSET S : SumFunctionOnSet(h, Im(T)) = SumFunctionOnSet(g, T)}
<1>0. \A T \in SUBSET S : IsFiniteSet(T) /\ IsFiniteSet(Im(T))
  <2>1. ASSUME NEW T \in SUBSET S PROVE IsFiniteSet(T) /\ IsFiniteSet(Im(T))
    <3> DEFINE f == [x \in T |-> m[x]]
    <3>1. IsFiniteSet(T)
      BY FS_Subset
    <3>2. f \in Surjection(T, Im(T))
      BY DEF Surjection
    <3> HIDE DEF f, Im
    <3> QED BY <3>1, <3>2, FS_Surjection
  <2> QED BY <2>1
<1>1. ASSUME NEW T \in SUBSET S, \A x \in T : T \ {x} \in G PROVE T \in G
  <2>1. CASE T = {}
    <3>1. Im(T) = {}
      BY <2>1
    <3> HIDE DEF Im
    <3> QED BY <2>1, <3>1, SumEmpty DEF G
  <2>2. CASE T # {}
    <3>1. PICK x \in T : TRUE
      BY <2>2
    <3>2. Im(T) \ {m[x]} = Im(T \ {x}) /\ m[x] \in Im(T) /\ \A z \in Im(T) : h[z] \in Int
      <4>1. \A z : z \in Im(T) <=> \E y \in T : z = m[y]
        OBVIOUS
      <4>2. \A z : z \in Im(T \ {x}) <=> \E y \in T : y # x /\ z = m[y]
        OBVIOUS
      <4> HIDE DEF Im
      <4>3. \A z : z \in Im(T) /\ z # m[x] <=> z \in Im(T \ {x})
        BY <4>1, <4>2
      <4> QED BY <4>1, <4>3
    <3> HIDE DEF Im
    <3>3. SumFunctionOnSet(h, Im(T)) = h[m[x]] + SumFunctionOnSet(h, Im(T \ {x}))
      <4> DEFINE I == Im(T)
                 e == m[x]
      <4>1. IsFiniteSet(I) /\ e \in I /\ \A z \in I : h[z] \in Int
        BY <1>0, <3>2
      <4> HIDE DEF I, e
      <4>2. SumFunctionOnSet(h, I) = h[e] + SumFunctionOnSet(h, I \ {e})
        BY <4>1, SumOut
      <4> QED BY <3>2, <4>2 DEF I, e
    <3>4. SumFunctionOnSet(g, T) = g[x] + SumFunctionOnSet(g, T \ {x})
      BY <1>0, SumOut
    <3>5. SumFunctionOnSet(h, Im(T \ {x})) = SumFunctionOnSet(g, T \ {x})
      BY <1>1
    <3>6. h[m[x]] = g[x]
      OBVIOUS
    <3>7. SumFunctionOnSet(h, Im(T)) = SumFunctionOnSet(g, T)
      BY <3>3, <3>4, <3>5, <3>6
    <3> QED BY <3>7
  <2> QED BY <2>1, <2>2
<1> HIDE DEF G, Im
<1>2. \A T \in SUBSET S : T \in G
  BY <1>1, SubsetInduction
<1>3. SumFunctionOnSet(h, Im(S)) = SumFunctionOnSet(g, S)
  BY <1>2 DEF G
<1> QED BY <1>3 DEF Im

\* The totals when the size of one thread changed.
LEMMA SummedChange ==
  ASSUME NEW sz \in [Thread -> Size], NEW t \in Thread, NEW v \in Size
  PROVE  Summed([sz EXCEPT ![t] = v]) = [bytes |-> Summed(sz).bytes + v.bytes - sz[t].bytes,
                                         count |-> Summed(sz).count + v.count - sz[t].count]
<1> DEFINE nz == [sz EXCEPT ![t] = v]
           gb == [x \in Thread |-> sz[x].bytes]
           gc == [x \in Thread |-> sz[x].count]
           hb == [x \in Thread |-> nz[x].bytes]
           hc == [x \in Thread |-> nz[x].count]
<1>1. /\ \A x \in Thread : gb[x] \in Int /\ hb[x] \in Int /\ (x # t => hb[x] = gb[x])
      /\ \A x \in Thread : gc[x] \in Int /\ hc[x] \in Int /\ (x # t => hc[x] = gc[x])
      /\ hb[t] = v.bytes /\ hc[t] = v.count /\ gb[t] = sz[t].bytes /\ gc[t] = sz[t].count
  BY DEF Size
<1>2. Summed(sz) = [bytes |-> SumFunctionOnSet(gb, Thread), count |-> SumFunctionOnSet(gc, Thread)]
  BY DEF Summed
<1>3. Summed(nz) = [bytes |-> SumFunctionOnSet(hb, Thread), count |-> SumFunctionOnSet(hc, Thread)]
  BY DEF Summed
<1> HIDE DEF gb, gc, hb, hc, nz
<1>4. SumFunctionOnSet(hb, Thread) = SumFunctionOnSet(gb, Thread) + hb[t] - gb[t]
  BY <1>1, BoundsAssumption, SumChange
<1>5. SumFunctionOnSet(hc, Thread) = SumFunctionOnSet(gc, Thread) + hc[t] - gc[t]
  BY <1>1, BoundsAssumption, SumChange
<1>6. Summed(nz) = [bytes |-> Summed(sz).bytes + v.bytes - sz[t].bytes,
                    count |-> Summed(sz).count + v.count - sz[t].count]
  BY <1>1, <1>2, <1>3, <1>4, <1>5
<1> QED BY <1>6 DEF nz

\* The three parts of the size of a thread.
BlobBytes(bl, t) == SumFunctionOnSet(BlobSizes(bl), Mine(bl, t))
WriteBytes(wr, t) == SumFunctionOnSet(WriteSizes(wr), Mine(wr, t))

Measurable(st, bl, wr) ==
  /\ IsFiniteSet(DOMAIN st) /\ IsFiniteSet(DOMAIN bl) /\ IsFiniteSet(DOMAIN wr)
  /\ \A k \in DOMAIN wr : wr[k] \in 1..MaxWrites

LEMMA SizesAreNumbers ==
  /\ \A bl : \A b \in DOMAIN bl : BlobSizes(bl)[b] \in Nat
  /\ \A wr : \A k \in DOMAIN wr : wr[k] \in 1..MaxWrites => WriteSizes(wr)[k] \in Nat
<1>1. ASSUME NEW bl, NEW b \in DOMAIN bl PROVE BlobSizes(bl)[b] \in Nat
  BY DEF BlobSizes, BlobSize
<1>2. ASSUME NEW wr, NEW k \in DOMAIN wr, wr[k] \in 1..MaxWrites PROVE WriteSizes(wr)[k] \in Nat
  <2>1. WriteSizes(wr)[k] = WriteGroupSize(wr[k]) /\ wr[k] \in Nat
    BY <1>2, BoundsAssumption DEF WriteSizes
  <2> QED BY <2>1 DEF WriteGroupSize
<1> QED BY <1>1, <1>2

LEMMA MeasuredForm ==
  ASSUME NEW st, NEW bl, NEW wr, Measurable(st, bl, wr), NEW t
  PROVE  /\ Measured(st, bl, wr, t) = [bytes |-> Cardinality(Mine(st, t)) + BlobBytes(bl, t) + WriteBytes(wr, t),
                                       count |-> Cardinality(Mine(st, t))]
         /\ IsFiniteSet(Mine(st, t)) /\ IsFiniteSet(Mine(bl, t)) /\ IsFiniteSet(Mine(wr, t))
         /\ Cardinality(Mine(st, t)) \in Nat /\ BlobBytes(bl, t) \in Nat /\ WriteBytes(wr, t) \in Nat
         /\ Measured(st, bl, wr, t) \in Size
<1>1. IsFiniteSet(Mine(st, t)) /\ IsFiniteSet(Mine(bl, t)) /\ IsFiniteSet(Mine(wr, t))
  BY FS_Subset DEF Measurable, Mine
<1>2. Cardinality(Mine(st, t)) \in Nat
  BY <1>1, FS_CardinalityType
<1>3. BlobBytes(bl, t) \in Nat
  <2>1. \A b \in Mine(bl, t) : BlobSizes(bl)[b] \in Nat
    BY SizesAreNumbers DEF Mine
  <2> QED BY <1>1, <2>1, SumNat DEF BlobBytes
<1>4. WriteBytes(wr, t) \in Nat
  <2>1. \A k \in Mine(wr, t) : WriteSizes(wr)[k] \in Nat
    BY SizesAreNumbers DEF Mine, Measurable
  <2> QED BY <1>1, <2>1, SumNat DEF WriteBytes
<1>5. Measured(st, bl, wr, t) = [bytes |-> EntrySize * Cardinality(Mine(st, t)) + BlobBytes(bl, t) + WriteBytes(wr, t),
                                 count |-> Cardinality(Mine(st, t))]
  BY DEF Measured, BlobBytes, WriteBytes
<1>6. EntrySize * Cardinality(Mine(st, t)) = Cardinality(Mine(st, t))
  BY <1>2 DEF EntrySize
<1>7. Cardinality(Mine(st, t)) + BlobBytes(bl, t) + WriteBytes(wr, t) \in Int
  BY <1>2, <1>3, <1>4
<1> QED BY <1>1, <1>2, <1>3, <1>4, <1>5, <1>6, <1>7 DEF Size

\* Dictionaries that are the same for a thread.
SameFor(g, f, u) == Mine(g, u) = Mine(f, u) /\ \A x \in Mine(f, u) : g[x] = f[x]

LEMMA SameBytes ==
  ASSUME NEW f, NEW g, NEW u, IsFiniteSet(DOMAIN f), SameFor(g, f, u)
  PROVE  BlobBytes(g, u) = BlobBytes(f, u) /\ WriteBytes(g, u) = WriteBytes(f, u)
<1>1. IsFiniteSet(Mine(f, u))
  BY FS_Subset DEF Mine
<1>2. \A x \in Mine(f, u) : x \in DOMAIN f /\ x \in DOMAIN g /\ g[x] = f[x]
  BY DEF SameFor, Mine
<1>3. \A x \in Mine(f, u) : BlobSizes(g)[x] = BlobSizes(f)[x] /\ WriteSizes(g)[x] = WriteSizes(f)[x]
  BY <1>2 DEF BlobSizes, WriteSizes
<1>4. Mine(g, u) = Mine(f, u)
  BY DEF SameFor
<1>5. SumFunctionOnSet(BlobSizes(g), Mine(f, u)) = SumFunctionOnSet(BlobSizes(f), Mine(f, u))
  BY <1>1, <1>3, SumEqual
<1>6. SumFunctionOnSet(WriteSizes(g), Mine(f, u)) = SumFunctionOnSet(WriteSizes(f), Mine(f, u))
  BY <1>1, <1>3, SumEqual
<1> QED BY <1>4, <1>5, <1>6 DEF BlobBytes, WriteBytes

\* What the steps have to establish.
SizesInv ==
  /\ HistInv
  /\ sizes \in [Thread -> Size]
  /\ \A t \in Thread : sizes[t] = Measured(storage, blobs, writes, t)
  /\ total = Summed(sizes)

CardOf(t) == Cardinality(Mine(storage, t))
BlobsOf(t) == BlobBytes(blobs, t)
WritesOf(t) == WriteBytes(writes, t)

LEMMA SizesForm ==
  ASSUME SizesInv, NEW t \in Thread
  PROVE  /\ sizes[t] = [bytes |-> CardOf(t) + BlobsOf(t) + WritesOf(t), count |-> CardOf(t)]
         /\ CardOf(t) \in Nat /\ BlobsOf(t) \in Nat /\ WritesOf(t) \in Nat
         /\ IsFiniteSet(Mine(storage, t)) /\ IsFiniteSet(Mine(blobs, t)) /\ IsFiniteSet(Mine(writes, t))
<1>1. Measurable(storage, blobs, writes)
  BY DEF SizesInv, HistInv, Shape, Measurable
<1>2. sizes[t] = Measured(storage, blobs, writes, t)
  BY DEF SizesInv
<1> QED BY <1>1, <1>2, MeasuredForm DEF CardOf, BlobsOf, WritesOf

LEMMA SizesPrime ==
  ASSUME HistInv', NEW t \in Thread
  PROVE  Measured(storage', blobs', writes', t) =
           [bytes |-> CardOf(t)' + BlobsOf(t)' + WritesOf(t)', count |-> CardOf(t)']
         /\ Measured(storage', blobs', writes', t) \in Size
         /\ CardOf(t)' \in Nat /\ BlobsOf(t)' \in Nat /\ WritesOf(t)' \in Nat
<1>1. Measurable(storage', blobs', writes')
  BY DEF HistInv, Shape, Measurable
<1>2. CardOf(t)' = Cardinality(Mine(storage', t)) /\ BlobsOf(t)' = BlobBytes(blobs', t) /\ WritesOf(t)' = WriteBytes(writes', t)
  BY DEF CardOf, BlobsOf, WritesOf, BlobBytes, WriteBytes
<1> QED BY <1>1, <1>2, MeasuredForm

\* A step after which the size of one thread is the measured one.
LEMMA OneThread ==
  ASSUME SizesInv, HistInv', NEW t \in Thread, NEW v \in Size,
         sizes' = [sizes EXCEPT ![t] = v],
         total' = [bytes |-> total.bytes + v.bytes - sizes[t].bytes, count |-> total.count + v.count - sizes[t].count],
         v = [bytes |-> CardOf(t)' + BlobsOf(t)' + WritesOf(t)', count |-> CardOf(t)'],
         \A u \in Thread : u # t => CardOf(u)' = CardOf(u) /\ BlobsOf(u)' = BlobsOf(u) /\ WritesOf(u)' = WritesOf(u)
  PROVE  SizesInv'
<1>1. sizes \in [Thread -> Size] /\ total = Summed(sizes)
  BY DEF SizesInv
<1>2. sizes' \in [Thread -> Size]
  BY <1>1
<1>3. total' = Summed([sizes EXCEPT ![t] = v])
  BY <1>1, SummedChange
<1>4. Summed([sizes EXCEPT ![t] = v]) = Summed(sizes')
  OBVIOUS
<1>5. ASSUME NEW u \in Thread PROVE sizes'[u] = Measured(storage', blobs', writes', u)
  <2>1. CASE u = t
    BY <1>1, <2>1, SizesPrime
  <2>2. CASE u # t
    <3>1. sizes'[u] = sizes[u]
      BY <1>1, <2>2
    <3>2. sizes[u] = [bytes |-> CardOf(u) + BlobsOf(u) + WritesOf(u), count |-> CardOf(u)]
      BY SizesForm
    <3>3. CardOf(u)' = CardOf(u) /\ BlobsOf(u)' = BlobsOf(u) /\ WritesOf(u)' = WritesOf(u)
      BY <2>2
    <3>4. Measured(storage', blobs', writes', u) = [bytes |-> CardOf(u)' + BlobsOf(u)' + WritesOf(u)', count |-> CardOf(u)']
      BY SizesPrime
    <3> QED BY <3>1, <3>2, <3>3, <3>4
  <2> QED BY <2>1, <2>2
<1>6. (\A u \in Thread : sizes[u] = Measured(storage, blobs, writes, u))'
  BY <1>5 DEF Measured, Mine, BlobSizes, WriteSizes
<1>7. Summed(sizes)' = Summed(sizes')
  BY DEF Summed
<1>8. (total = Summed(sizes))'
  BY <1>3, <1>4, <1>7
<1> QED BY <1>2, <1>6, <1>8 DEF SizesInv

\* _CheckpointSizeState.adjust, where no clamp at zero hides anything.
LEMMA AdjustExact ==
  ASSUME SizesInv, HistInv', NEW t \in Thread, NEW b \in Int, NEW c \in Int, Adjust(t, b, c),
         CardOf(t)' + BlobsOf(t)' + WritesOf(t)' = CardOf(t) + BlobsOf(t) + WritesOf(t) + b,
         CardOf(t)' = CardOf(t) + c,
         \A u \in Thread : u # t => CardOf(u)' = CardOf(u) /\ BlobsOf(u)' = BlobsOf(u) /\ WritesOf(u)' = WritesOf(u)
  PROVE  SizesInv'
<1> DEFINE o == sizes[t]
           v == [bytes |-> NonNeg(o.bytes + b), count |-> NonNeg(o.count + c)]
<1>1. /\ sizes' = [sizes EXCEPT ![t] = v]
      /\ total' = [bytes |-> total.bytes + v.bytes - o.bytes, count |-> total.count + v.count - o.count]
  BY DEF Adjust
<1>2. o.bytes = CardOf(t) + BlobsOf(t) + WritesOf(t) /\ o.count = CardOf(t)
      /\ CardOf(t) \in Nat /\ BlobsOf(t) \in Nat /\ WritesOf(t) \in Nat
  <2>1. o = [bytes |-> CardOf(t) + BlobsOf(t) + WritesOf(t), count |-> CardOf(t)]
        /\ CardOf(t) \in Nat /\ BlobsOf(t) \in Nat /\ WritesOf(t) \in Nat
    BY SizesForm
  <2> HIDE DEF o
  <2> QED BY <2>1
<1>3. CardOf(t)' \in Nat /\ BlobsOf(t)' \in Nat /\ WritesOf(t)' \in Nat
  BY SizesPrime
<1>4. ASSUME NEW n \in Nat PROVE NonNeg(n) = n
  BY DEF NonNeg
<1> HIDE DEF o
<1>5. o.bytes + b = CardOf(t)' + BlobsOf(t)' + WritesOf(t)' /\ o.count + c = CardOf(t)'
  BY <1>2
<1>6. v = [bytes |-> CardOf(t)' + BlobsOf(t)' + WritesOf(t)', count |-> CardOf(t)']
  <2>1. CardOf(t)' + BlobsOf(t)' + WritesOf(t)' \in Nat
    BY <1>3
  <2> QED BY <1>3, <1>4, <1>5, <2>1
<1>7. v \in Size
  BY <1>3, <1>6 DEF Size
<1> HIDE DEF v
<1> QED BY <1>1, <1>6, <1>7, OneThread DEF o

\* A thread that a step leaves alone.
LEMMA OtherThread ==
  ASSUME HistInv, NEW u,
         SameFor(storage', storage, u), SameFor(blobs', blobs, u), SameFor(writes', writes, u)
  PROVE  CardOf(u)' = CardOf(u) /\ BlobsOf(u)' = BlobsOf(u) /\ WritesOf(u)' = WritesOf(u)
<1>1. CardOf(u)' = Cardinality(Mine(storage', u)) /\ BlobsOf(u)' = BlobBytes(blobs', u) /\ WritesOf(u)' = WriteBytes(writes', u)
  BY DEF CardOf, BlobsOf, WritesOf, BlobBytes, WriteBytes
<1>2. Cardinality(Mine(storage', u)) = CardOf(u)
  BY DEF SameFor, CardOf
<1>3. IsFiniteSet(DOMAIN blobs) /\ IsFiniteSet(DOMAIN writes)
  BY DEF HistInv, Shape
<1>4. BlobBytes(blobs', u) = BlobBytes(blobs, u) /\ WriteBytes(writes', u) = WriteBytes(writes, u)
  BY <1>3, SameBytes
<1> QED BY <1>1, <1>2, <1>4 DEF BlobsOf, WritesOf

LEMMA PutSizes ==
  ASSUME SizesInv, NEW r \in RunId, NEW ns \in Ns, NEW in \in PutInput, Put(r, ns, in)
  PROVE  SizesInv'
<1>0. HistInv /\ HistInv'
  BY PutKeeps DEF SizesInv
<1>1. PICK k, vs : Grown(r, ns, in, k, vs)
  BY <1>0, PutFacts
<1>t. PICK t \in Thread : t = loop[r].thread
  <2>1. k \in Key /\ k = <<loop[r].thread, ns, nid + 1>>
    BY <1>1 DEF Grown
  <2> QED BY <2>1, KeyParts
<1> DEFINE B == {<<t, ns, ch, nid + 1>> : ch \in in.written}
           nb == [b \in B |-> IF b[3] \in in.full THEN "value" ELSE "empty"]
           N == SumFunctionOnSet(BlobSizes(nb), B)
<1>2. Adjust(t, EntrySize + SumFunctionOnSet(BlobSizes(nb), DOMAIN nb), 1)
  BY <1>t DEF Put
<1>3. DOMAIN nb = B
  OBVIOUS
<1>4. k = <<t, ns, nid + 1>> /\ k \in Key /\ k[1] = t /\ B = NewBlobs(k, in)
  <2>1. k = <<t, ns, nid + 1>> /\ k \in Key
    BY <1>1, <1>t DEF Grown
  <2> QED BY <2>1 DEF NewBlobs
<1>6. \A b \in B : b[1] = t
  OBVIOUS
<1>7. \A b \in B : nb[b] = IF b[3] \in in.full THEN "value" ELSE "empty"
  OBVIOUS
<1> HIDE DEF nb, B
<1>8. IsFiniteSet(B)
  <2>1. IsFiniteSet(DOMAIN blobs') /\ DOMAIN blobs' = DOMAIN blobs \cup B
    BY <1>0, <1>1, <1>4 DEF HistInv, Shape, Grown
  <2> QED BY <2>1, FS_Subset
<1>9. /\ DOMAIN storage' = DOMAIN storage \cup {k} /\ k \notin DOMAIN storage
      /\ DOMAIN blobs' = DOMAIN blobs \cup B /\ DOMAIN blobs \cap B = {}
      /\ \A j \in DOMAIN storage : storage'[j] = storage[j]
      /\ \A b \in DOMAIN blobs : blobs'[b] = blobs[b]
      /\ \A b \in B : blobs'[b] = nb[b]
      /\ writes' = writes
  BY <1>1, <1>4, <1>7 DEF Grown
<1>10. ASSUME NEW u \in Thread, u # t
       PROVE  CardOf(u)' = CardOf(u) /\ BlobsOf(u)' = BlobsOf(u) /\ WritesOf(u)' = WritesOf(u)
  <2>1. SameFor(storage', storage, u)
    BY <1>4, <1>9, <1>10 DEF SameFor, Mine
  <2>2. SameFor(blobs', blobs, u)
    BY <1>6, <1>9, <1>10 DEF SameFor, Mine
  <2>3. SameFor(writes', writes, u)
    BY <1>9 DEF SameFor
  <2> QED BY <1>0, <2>1, <2>2, <2>3, OtherThread
<1>11. CardOf(t) \in Nat /\ BlobsOf(t) \in Nat /\ WritesOf(t) \in Nat /\ IsFiniteSet(Mine(storage, t)) /\ IsFiniteSet(Mine(blobs, t))
  BY SizesForm
<1>12. CardOf(t)' = CardOf(t) + 1
  <2>1. Mine(storage', t) = Mine(storage, t) \cup {k} /\ k \notin Mine(storage, t)
    BY <1>4, <1>9 DEF Mine
  <2>2. Cardinality(Mine(storage, t) \cup {k}) = Cardinality(Mine(storage, t)) + 1
    BY <1>11, <2>1, FS_AddElement
  <2>3. CardOf(t)' = Cardinality(Mine(storage', t))
    BY DEF CardOf, Mine
  <2> QED BY <2>1, <2>2, <2>3 DEF CardOf
<1>13. N \in Nat
  <2>1. \A b \in B : BlobSizes(nb)[b] \in Nat
    BY <1>3, SizesAreNumbers
  <2> QED BY <1>8, <2>1, SumNat
<1>14. BlobsOf(t)' = BlobsOf(t) + N
  <2>1. Mine(blobs', t) = Mine(blobs, t) \cup B /\ Mine(blobs, t) \cap B = {}
    BY <1>6, <1>9 DEF Mine
  <2>2. \A b \in Mine(blobs, t) : BlobSizes(blobs')[b] = BlobSizes(blobs)[b] /\ BlobSizes(blobs)[b] \in Int
    <3>1. \A b \in Mine(blobs, t) : b \in DOMAIN blobs /\ b \in DOMAIN blobs' /\ blobs'[b] = blobs[b]
      BY <1>9 DEF Mine
    <3> QED BY <3>1 DEF BlobSizes, BlobSize
  <2>3. \A b \in B : BlobSizes(blobs')[b] = BlobSizes(nb)[b] /\ BlobSizes(nb)[b] \in Int
    <3>1. \A b \in B : b \in DOMAIN nb /\ b \in DOMAIN blobs' /\ blobs'[b] = nb[b]
      BY <1>3, <1>9
    <3> QED BY <3>1 DEF BlobSizes, BlobSize
  <2> DEFINE g == BlobSizes(blobs)
             n == BlobSizes(nb)
             h == BlobSizes(blobs')
             A == Mine(blobs, t)
  <2>4. SumFunctionOnSet(h, A \cup B) = SumFunctionOnSet(g, A) + SumFunctionOnSet(n, B)
    <3> HIDE DEF g, n, h, A
    <3> QED BY <1>8, <1>11, <2>1, <2>2, <2>3, SumExtend DEF g, n, h, A
  <2>5. BlobsOf(t)' = SumFunctionOnSet(h, Mine(blobs', t))
    BY DEF BlobsOf, BlobBytes, BlobSizes
  <2> QED BY <2>1, <2>4, <2>5 DEF BlobsOf, BlobBytes
<1>15. WritesOf(t)' = WritesOf(t)
  BY <1>9 DEF WritesOf, WriteBytes, WriteSizes, Mine
<1>16. Adjust(t, 1 + N, 1)
  BY <1>2, <1>3 DEF EntrySize
<1>17. CardOf(t)' + BlobsOf(t)' + WritesOf(t)' = CardOf(t) + BlobsOf(t) + WritesOf(t) + (1 + N)
  BY <1>11, <1>12, <1>13, <1>14, <1>15
<1>18. 1 + N \in Int
  BY <1>13
<1> HIDE DEF N
<1> QED BY <1>0, <1>10, <1>12, <1>16, <1>17, <1>18, AdjustExact

LEMMA PutWritesSizes ==
  ASSUME SizesInv, NEW r \in RunId, NEW ns \in Ns, PutWrites(r, ns)
  PROVE  SizesInv'
<1>0. HistInv /\ HistInv'
  BY PutWritesKeeps DEF SizesInv
<1>1. PICK k, n : /\ k = <<loop[r].thread, ns, loop[r].at[ns]>> /\ n = (IF k \in DOMAIN writes THEN writes[k] ELSE 0)
                  /\ r \in DOMAIN loop /\ loop[r].at[ns] # 0 /\ n < MaxWrites
                  /\ writes' = With(writes, k, n + 1)
                  /\ Adjust(k[1], WriteGroupSize(n + 1) - WriteGroupSize(n), 0)
                  /\ UNCHANGED <<storage, blobs>>
  BY DEF PutWrites
<1>2. PICK t \in Thread : t = k[1]
  <2>1. loop[r] \in Loop
    BY <1>0, <1>1 DEF HistInv, Shape
  <2> QED BY <1>1, <2>1 DEF Loop
<1>3. n \in Nat /\ (k \in DOMAIN writes => n \in 1..MaxWrites)
  BY <1>0, <1>1, BoundsAssumption DEF HistInv, Shape
<1>4. /\ DOMAIN writes' = DOMAIN writes \cup {k} /\ writes'[k] = n + 1
      /\ \A j \in DOMAIN writes : j # k => writes'[j] = writes[j]
  <2>1. writes' = With(writes, k, n + 1)
    BY <1>1
  <2> QED BY <2>1 DEF With
<1> DEFINE d == WriteGroupSize(n + 1) - WriteGroupSize(n)
           A == Mine(writes, t)
           g == WriteSizes(writes)
           h == WriteSizes(writes')
<1>5. WriteGroupSize(n) \in Int /\ WriteGroupSize(n + 1) \in Int /\ WriteGroupSize(0) = 0
  BY <1>3 DEF WriteGroupSize
<1>6. ASSUME NEW u \in Thread, u # t
      PROVE  CardOf(u)' = CardOf(u) /\ BlobsOf(u)' = BlobsOf(u) /\ WritesOf(u)' = WritesOf(u)
  <2>1. SameFor(storage', storage, u) /\ SameFor(blobs', blobs, u)
    BY <1>1 DEF SameFor
  <2>2. SameFor(writes', writes, u)
    BY <1>2, <1>4, <1>6 DEF SameFor, Mine
  <2> QED BY <1>0, <2>1, <2>2, OtherThread
<1>7. CardOf(t) \in Nat /\ BlobsOf(t) \in Nat /\ WritesOf(t) \in Nat /\ IsFiniteSet(A)
  BY SizesForm
<1>8. CardOf(t)' = CardOf(t) /\ BlobsOf(t)' = BlobsOf(t)
  BY <1>1 DEF CardOf, BlobsOf, BlobBytes, BlobSizes, Mine
<1>9. Mine(writes', t) = A \cup {k}
  BY <1>2, <1>4 DEF Mine
<1>10. /\ \A j \in A : g[j] \in Int
       /\ \A j \in A : j # k => h[j] = g[j]
       /\ h[k] = WriteGroupSize(n + 1)
       /\ k \in A => g[k] = WriteGroupSize(n)
  <2>1. \A j \in A : j \in DOMAIN writes /\ j \in DOMAIN writes' /\ writes[j] \in 1..MaxWrites
    BY <1>0, <1>4 DEF Mine, HistInv, Shape
  <2>2. \A j \in A : g[j] \in Int
    BY <2>1, SizesAreNumbers
  <2>3. \A j \in A : j # k => h[j] = g[j]
    BY <1>4, <2>1 DEF WriteSizes
  <2>4. h[k] = WriteGroupSize(n + 1)
    BY <1>4 DEF WriteSizes
  <2>5. k \in A => g[k] = WriteGroupSize(n)
    BY <1>1, <2>1 DEF WriteSizes
  <2> QED BY <2>2, <2>3, <2>4, <2>5
<1>11. WritesOf(t)' = SumFunctionOnSet(h, A \cup {k}) /\ WritesOf(t) = SumFunctionOnSet(g, A)
  <2>1. WritesOf(t)' = SumFunctionOnSet(h, Mine(writes', t))
    BY DEF WritesOf, WriteBytes, WriteSizes, Mine
  <2> QED BY <1>9, <2>1 DEF WritesOf, WriteBytes
<1> HIDE DEF g, h, A
<1>12. SumFunctionOnSet(h, A \cup {k}) = SumFunctionOnSet(g, A) + d
  <2>1. CASE k \in A
    <3>1. A \cup {k} = A
      BY <2>1
    <3>2. \A j \in A : h[j] \in Int
      BY <1>5, <1>10
    <3>3. SumFunctionOnSet(h, A) = SumFunctionOnSet(g, A) + h[k] - g[k]
      BY <1>7, <1>10, <2>1, <3>2, SumChange
    <3>4. SumFunctionOnSet(g, A) \in Int
      BY <1>7, <1>10, SumInt
    <3>5. SumFunctionOnSet(h, A) = SumFunctionOnSet(g, A) + d
      BY <1>5, <1>10, <2>1, <3>3, <3>4
    <3> QED BY <3>1, <3>5
  <2>2. CASE k \notin A
    <3>1. k \notin DOMAIN writes /\ n = 0
      BY <1>1, <1>2, <2>2 DEF A, Mine
    <3> DEFINE B == {k}
               m == [x \in B |-> WriteGroupSize(n + 1)]
    <3>2. IsFiniteSet(B) /\ A \cap B = {} /\ \A x \in B : h[x] = m[x] /\ m[x] \in Int
      BY <1>5, <1>10, <2>2, FS_Singleton
    <3>3. m[k] = WriteGroupSize(n + 1) /\ k \in B /\ B \ {k} = {}
      OBVIOUS
    <3> HIDE DEF m
    <3>4. \A x \in A : h[x] = g[x] /\ g[x] \in Int
      BY <1>10, <2>2
    <3>5. SumFunctionOnSet(m, B) = m[k] + SumFunctionOnSet(m, B \ {k})
      BY <3>2, <3>3, SumOut
    <3>6. SumFunctionOnSet(m, B) = WriteGroupSize(n + 1)
      BY <1>5, <3>3, <3>5, SumEmpty
    <3> HIDE DEF B
    <3>7. SumFunctionOnSet(h, A \cup B) = SumFunctionOnSet(g, A) + SumFunctionOnSet(m, B)
      BY <1>7, <3>2, <3>4, SumExtend
    <3>8. d = WriteGroupSize(n + 1)
      BY <1>5, <3>1
    <3> QED BY <3>6, <3>7, <3>8 DEF B
  <2> QED BY <2>1, <2>2
<1>13. Adjust(t, d, 0) /\ d \in Int
  BY <1>1, <1>2, <1>5
<1> HIDE DEF d
<1>14. CardOf(t)' + BlobsOf(t)' + WritesOf(t)' = CardOf(t) + BlobsOf(t) + WritesOf(t) + d
  BY <1>7, <1>8, <1>11, <1>12, <1>13
<1>15. CardOf(t)' = CardOf(t) + 0
  BY <1>7, <1>8
<1> QED BY <1>0, <1>6, <1>13, <1>14, <1>15, AdjustExact

\* The parts of the size of a thread that a removal leaves.
LEMMA LeftBytes ==
  ASSUME NEW f, NEW g, NEW t, IsFiniteSet(DOMAIN f), Shrunk(g, f), DOMAIN f \ DOMAIN g \subseteq Mine(f, t)
  PROVE  /\ (\A x \in DOMAIN f : WriteSizes(f)[x] \in Int)
              => WriteBytes(f, t) = WriteBytes(g, t) + SumFunctionOnSet(WriteSizes(f), DOMAIN f \ DOMAIN g)
         /\ BlobBytes(f, t) = BlobBytes(g, t) + SumFunctionOnSet(BlobSizes(f), DOMAIN f \ DOMAIN g)
         /\ Cardinality(Mine(f, t)) = Cardinality(Mine(g, t)) + Cardinality(DOMAIN f \ DOMAIN g)
<1> DEFINE A == Mine(g, t)
           B == DOMAIN f \ DOMAIN g
<1>1. Mine(f, t) = A \cup B /\ A \cap B = {} /\ A \subseteq DOMAIN f /\ B \subseteq DOMAIN f
      /\ \A x \in A : x \in DOMAIN g /\ g[x] = f[x]
  BY DEF Mine, Shrunk
<1>2. IsFiniteSet(A) /\ IsFiniteSet(B)
  BY <1>1, FS_Subset
<1>3. \A x \in A : WriteSizes(g)[x] = WriteSizes(f)[x] /\ BlobSizes(g)[x] = BlobSizes(f)[x]
  BY <1>1 DEF WriteSizes, BlobSizes
<1>4. \A x \in DOMAIN f : BlobSizes(f)[x] \in Int
  BY DEF BlobSizes, BlobSize
<1> HIDE DEF A, B
<1>5. SumFunctionOnSet(WriteSizes(g), A) = SumFunctionOnSet(WriteSizes(f), A)
      /\ SumFunctionOnSet(BlobSizes(g), A) = SumFunctionOnSet(BlobSizes(f), A)
  BY <1>2, <1>3, SumEqual
<1>6. SumFunctionOnSet(BlobSizes(f), A \cup B) = SumFunctionOnSet(BlobSizes(f), A) + SumFunctionOnSet(BlobSizes(f), B)
  <2>1. \A x \in A \cup B : BlobSizes(f)[x] \in Int
    BY <1>1, <1>4
  <2> QED BY <1>1, <1>2, <2>1, SumUnion
<1>7. ASSUME \A x \in DOMAIN f : WriteSizes(f)[x] \in Int
      PROVE  SumFunctionOnSet(WriteSizes(f), A \cup B) = SumFunctionOnSet(WriteSizes(f), A) + SumFunctionOnSet(WriteSizes(f), B)
  <2>1. \A x \in A \cup B : WriteSizes(f)[x] \in Int
    BY <1>1, <1>7
  <2> QED BY <1>1, <1>2, <2>1, SumUnion
<1>8. Cardinality(A \cup B) = Cardinality(A) + Cardinality(B)
  <2>1. Cardinality(A \cup B) = Cardinality(A) + Cardinality(B) - Cardinality(A \cap B)
    BY <1>2, FS_Union
  <2>2. Cardinality(A \cap B) = 0
    BY <1>1, FS_EmptySet
  <2>3. Cardinality(A) \in Nat /\ Cardinality(B) \in Nat
    BY <1>2, FS_CardinalityType
  <2> QED BY <2>1, <2>2, <2>3
<1> QED BY <1>1, <1>5, <1>6, <1>7, <1>8 DEF WriteBytes, BlobBytes, A, B

LEMMA ShrinksOther ==
  ASSUME HistInv, Shrinks, NEW t \in Thread, NEW u \in Thread, u # t,
         DOMAIN storage \ DOMAIN storage' \subseteq Mine(storage, t),
         DOMAIN blobs \ DOMAIN blobs' \subseteq Mine(blobs, t),
         DOMAIN writes \ DOMAIN writes' \subseteq Mine(writes, t)
  PROVE  CardOf(u)' = CardOf(u) /\ BlobsOf(u)' = BlobsOf(u) /\ WritesOf(u)' = WritesOf(u)
<1>1. ASSUME NEW f, NEW g, Shrunk(g, f), DOMAIN f \ DOMAIN g \subseteq Mine(f, t) PROVE SameFor(g, f, u)
  BY <1>1 DEF SameFor, Mine, Shrunk
<1>2. SameFor(storage', storage, u) /\ SameFor(blobs', blobs, u) /\ SameFor(writes', writes, u)
  BY <1>1 DEF Shrinks
<1> QED BY <1>2, OtherThread

LEMMA PruneSizes ==
  ASSUME SizesInv, NEW t \in Thread, Prune(t)
  PROVE  SizesInv'
<1>1. HistInv /\ Shrinks /\ HistInv'
  <2>1. Removes /\ HistInv
    BY DEF Removes, SizesInv
  <2> QED BY <2>1, RemovesShrinks, ShrinksKeep
<1> DEFINE kept == Latest(t) \cup UNION {Chain(k) : k \in Latest(t)}
           after == AfterPrune(t)
<1>2. /\ after.storage = storage' /\ after.writes = writes' /\ after.blobs = blobs'
      /\ Adjust(t, - FreedByPrune(after), - Cardinality(DOMAIN storage \ DOMAIN after.storage))
  BY DEF Prune, Keep
<1>3. /\ DOMAIN storage \ DOMAIN storage' \subseteq Mine(storage, t)
      /\ DOMAIN blobs \ DOMAIN blobs' \subseteq Mine(blobs, t)
      /\ DOMAIN writes \ DOMAIN writes' \subseteq Mine(writes, t)
  <2> DEFINE ks == Mine(storage, t) \ kept
             ws == Mine(writes, t) \ kept
             bs == Mine(blobs, t) \ BlobKeysOf(kept)
  <2>1. Keep(Without(ks, ws, bs)) /\ UNCHANGED <<nid, loop, over>>
    BY DEF Prune, AfterPrune
  <2>2. ks \subseteq Mine(storage, t) /\ ws \subseteq Mine(writes, t) /\ bs \subseteq Mine(blobs, t)
    OBVIOUS
  <2> HIDE DEF ks, ws, bs
  <2>3. ShrinksBy(ks, ws, bs)
    BY <2>1, WithoutShrinks
  <2> QED BY <2>2, <2>3 DEF ShrinksBy
<1> HIDE DEF after
<1> DEFINE C == Cardinality(DOMAIN storage \ DOMAIN storage')
           W == SumFunctionOnSet(WriteSizes(writes), DOMAIN writes \ DOMAIN writes')
           B == SumFunctionOnSet(BlobSizes(blobs), DOMAIN blobs \ DOMAIN blobs')
<1>4. /\ CardOf(t)' = Cardinality(Mine(storage', t)) /\ BlobsOf(t)' = BlobBytes(blobs', t)
      /\ WritesOf(t)' = WriteBytes(writes', t)
  BY DEF CardOf, BlobsOf, WritesOf, BlobBytes, WriteBytes
<1>5. IsFiniteSet(DOMAIN storage) /\ IsFiniteSet(DOMAIN writes) /\ IsFiniteSet(DOMAIN blobs)
      /\ Shrunk(storage', storage) /\ Shrunk(writes', writes) /\ Shrunk(blobs', blobs)
  BY <1>1 DEF HistInv, Shape, Shrinks
<1>6. CardOf(t) = CardOf(t)' + C
  BY <1>3, <1>4, <1>5, LeftBytes DEF CardOf
<1>7. BlobsOf(t) = BlobsOf(t)' + B
  BY <1>3, <1>4, <1>5, LeftBytes DEF BlobsOf
<1>w. \A k \in DOMAIN writes : WriteSizes(writes)[k] \in Int
  BY <1>1, SizesAreNumbers DEF HistInv, Shape
<1>8. WritesOf(t) = WritesOf(t)' + W
  BY <1>3, <1>4, <1>5, <1>w, LeftBytes DEF WritesOf
<1>9. C \in Int /\ B \in Int /\ W \in Int
  <2>1. IsFiniteSet(DOMAIN storage \ DOMAIN storage') /\ IsFiniteSet(DOMAIN writes \ DOMAIN writes')
        /\ IsFiniteSet(DOMAIN blobs \ DOMAIN blobs')
    BY <1>5, FS_Subset
  <2>2. \A b \in DOMAIN blobs : BlobSizes(blobs)[b] \in Int
    BY SizesAreNumbers
  <2>3. C \in Int
    BY <2>1, FS_CardinalityType
  <2>4. B \in Int
    BY <2>1, <2>2, SumInt
  <2>5. W \in Int
    BY <1>w, <2>1, SumInt
  <2> QED BY <2>3, <2>4, <2>5
<1>10. FreedByPrune(after) = EntrySize * C + W + B
  BY <1>2 DEF FreedByPrune
<1>11. Adjust(t, - FreedByPrune(after), - C)
  BY <1>2
<1> HIDE DEF C, B, W
<1>12. FreedByPrune(after) = C + W + B
  BY <1>9, <1>10 DEF EntrySize
<1>13. CardOf(t) \in Nat /\ BlobsOf(t) \in Nat /\ WritesOf(t) \in Nat
       /\ CardOf(t)' \in Nat /\ BlobsOf(t)' \in Nat /\ WritesOf(t)' \in Nat
  BY <1>1, SizesForm, SizesPrime
<1> DEFINE F == FreedByPrune(after)
           b == - F
           c == - C
<1>14. b \in Int /\ c \in Int /\ Adjust(t, b, c)
  BY <1>9, <1>11, <1>12
<1>15. CardOf(t)' + BlobsOf(t)' + WritesOf(t)' = CardOf(t) + BlobsOf(t) + WritesOf(t) + b
  BY <1>6, <1>7, <1>8, <1>9, <1>12, <1>13
<1>16. CardOf(t)' = CardOf(t) + c
  BY <1>6, <1>9, <1>13
<1>17. \A u \in Thread : u # t => CardOf(u)' = CardOf(u) /\ BlobsOf(u)' = BlobsOf(u) /\ WritesOf(u)' = WritesOf(u)
  BY <1>1, <1>3, ShrinksOther
<1> HIDE DEF b, c
<1> QED BY <1>1, <1>14, <1>15, <1>16, <1>17, AdjustExact

\* A thread without checkpoints, blobs and writes.
LEMMA EmptySizes ==
  ASSUME NEW st, NEW bl, NEW wr, NEW t, Mine(st, t) = {}, Mine(bl, t) = {}, Mine(wr, t) = {}
  PROVE  Cardinality(Mine(st, t)) = 0 /\ BlobBytes(bl, t) = 0 /\ WriteBytes(wr, t) = 0
  BY FS_EmptySet, SumEmpty DEF BlobBytes, WriteBytes

LEMMA DeleteThreadSizes ==
  ASSUME SizesInv, NEW t \in Thread, DeleteThread(t)
  PROVE  SizesInv'
<1>1. HistInv /\ Shrinks /\ HistInv'
  <2>1. Removes /\ HistInv
    BY DEF Removes, SizesInv
  <2> QED BY <2>1, RemovesShrinks, ShrinksKeep
<1>2. ShrinksBy(Mine(storage, t), Mine(writes, t), Mine(blobs, t))
  BY WithoutShrinks DEF DeleteThread
<1>3. /\ DOMAIN storage \ DOMAIN storage' \subseteq Mine(storage, t)
      /\ DOMAIN blobs \ DOMAIN blobs' \subseteq Mine(blobs, t)
      /\ DOMAIN writes \ DOMAIN writes' \subseteq Mine(writes, t)
  BY <1>2 DEF ShrinksBy
<1>4. Mine(storage', t) = {} /\ Mine(blobs', t) = {} /\ Mine(writes', t) = {}
  BY <1>2 DEF ShrinksBy, Mine
<1>5. /\ CardOf(t)' = Cardinality(Mine(storage', t)) /\ BlobsOf(t)' = BlobBytes(blobs', t)
      /\ WritesOf(t)' = WriteBytes(writes', t)
  BY DEF CardOf, BlobsOf, WritesOf, BlobBytes, WriteBytes
<1>6. CardOf(t)' = 0 /\ BlobsOf(t)' = 0 /\ WritesOf(t)' = 0
  BY <1>4, <1>5, EmptySizes
<1>7. NoSize \in Size /\ NoSize = [bytes |-> CardOf(t)' + BlobsOf(t)' + WritesOf(t)', count |-> CardOf(t)']
  BY <1>6 DEF NoSize, Size
<1>8. sizes' = [sizes EXCEPT ![t] = NoSize]
  BY DEF DeleteThread
<1>9. total' = [bytes |-> total.bytes + NoSize.bytes - sizes[t].bytes, count |-> total.count + NoSize.count - sizes[t].count]
  <2>1. total' = [bytes |-> total.bytes - sizes[t].bytes, count |-> total.count - sizes[t].count]
    BY DEF DeleteThread
  <2>2. total.bytes \in Int /\ total.count \in Int
    <3>1. total = Summed(sizes) /\ sizes \in [Thread -> Size]
      BY DEF SizesInv
    <3>2. /\ SumFunctionOnSet([x \in Thread |-> sizes[x].bytes], Thread) \in Int
          /\ SumFunctionOnSet([x \in Thread |-> sizes[x].count], Thread) \in Int
      <4>1. \A x \in Thread : [y \in Thread |-> sizes[y].bytes][x] \in Int /\ [y \in Thread |-> sizes[y].count][x] \in Int
        BY <3>1 DEF Size
      <4> DEFINE gb == [y \in Thread |-> sizes[y].bytes]
                 gc == [y \in Thread |-> sizes[y].count]
      <4> HIDE DEF gb, gc
      <4>2. SumFunctionOnSet(gb, Thread) \in Int /\ SumFunctionOnSet(gc, Thread) \in Int
        BY <4>1, BoundsAssumption, SumInt DEF gb, gc
      <4> QED BY <4>2 DEF gb, gc
    <3> QED BY <3>1, <3>2 DEF Summed
  <2>3. NoSize.bytes = 0 /\ NoSize.count = 0
    BY DEF NoSize
  <2>4. sizes[t].bytes \in Int /\ sizes[t].count \in Int
    BY DEF SizesInv, Size
  <2>5. /\ total.bytes + NoSize.bytes - sizes[t].bytes = total.bytes - sizes[t].bytes
        /\ total.count + NoSize.count - sizes[t].count = total.count - sizes[t].count
    BY <2>2, <2>3, <2>4
  <2> QED BY <2>1, <2>5, Zenon
<1>10. \A u \in Thread : u # t => CardOf(u)' = CardOf(u) /\ BlobsOf(u)' = BlobsOf(u) /\ WritesOf(u)' = WritesOf(u)
  BY <1>1, <1>3, ShrinksOther
<1> QED BY <1>1, <1>7, <1>8, <1>9, <1>10, OneThread

\* Where everything is measured anew.
LEMMA Rebuilds ==
  ASSUME HistInv', sizes' = [t \in Thread |-> Measured(storage', blobs', writes', t)], total' = Summed(sizes')
  PROVE  SizesInv'
<1>1. \A t \in Thread : sizes'[t] = Measured(storage', blobs', writes', t) /\ sizes'[t] \in Size
  BY SizesPrime
<1>2. sizes' \in [Thread -> Size]
  BY <1>1
<1>3. (\A t \in Thread : sizes[t] = Measured(storage, blobs, writes, t))'
  BY <1>1 DEF Measured, Mine, BlobSizes, WriteSizes
<1>4. (total = Summed(sizes))'
  BY DEF Summed
<1> QED BY <1>2, <1>3, <1>4 DEF SizesInv

LEMMA NothingMeasured ==
  ASSUME NEW sz, sz = [t \in Thread |-> NoSize]
  PROVE  Summed(sz) = NoSize
<1> DEFINE gb == [t \in Thread |-> sz[t].bytes]
           gc == [t \in Thread |-> sz[t].count]
<1>1. (\A t \in Thread : gb[t] = 0) /\ \A t \in Thread : gc[t] = 0
  BY DEF NoSize
<1>2. Summed(sz) = [bytes |-> SumFunctionOnSet(gb, Thread), count |-> SumFunctionOnSet(gc, Thread)]
  BY DEF Summed
<1> HIDE DEF gb, gc
<1> QED BY <1>1, <1>2, BoundsAssumption, SumZero DEF NoSize

LEMMA ClearSizes ==
  ASSUME SizesInv, Clear
  PROVE  SizesInv'
<1>1. HistInv'
  <2>1. Removes /\ HistInv
    BY DEF Removes, SizesInv
  <2> QED BY <2>1, RemovesShrinks, ShrinksKeep
<1>2. DOMAIN storage' = {} /\ DOMAIN writes' = {} /\ DOMAIN blobs' = {}
  <2>1. ShrinksBy(DOMAIN storage, DOMAIN writes, DOMAIN blobs)
    BY WithoutShrinks DEF Clear
  <2> QED BY <2>1 DEF ShrinksBy
<1>3. sizes' = [t \in Thread |-> NoSize] /\ total' = NoSize
  BY DEF Clear
<1>4. ASSUME NEW t \in Thread PROVE Measured(storage', blobs', writes', t) = NoSize
  <2>1. Mine(storage', t) = {} /\ Mine(blobs', t) = {} /\ Mine(writes', t) = {}
    BY <1>2 DEF Mine
  <2>2. CardOf(t)' = 0 /\ BlobsOf(t)' = 0 /\ WritesOf(t)' = 0
    <3>1. /\ CardOf(t)' = Cardinality(Mine(storage', t)) /\ BlobsOf(t)' = BlobBytes(blobs', t)
          /\ WritesOf(t)' = WriteBytes(writes', t)
      BY DEF CardOf, BlobsOf, WritesOf, BlobBytes, WriteBytes
    <3> QED BY <2>1, <3>1, EmptySizes
  <2>3. Measured(storage', blobs', writes', t) = [bytes |-> CardOf(t)' + BlobsOf(t)' + WritesOf(t)', count |-> CardOf(t)']
    BY <1>1, SizesPrime
  <2> QED BY <2>2, <2>3 DEF NoSize
<1>5. total' = Summed(sizes')
  BY <1>3, NothingMeasured
<1> QED BY <1>1, <1>3, <1>4, <1>5, Rebuilds

LEMMA DeleteForRunsSizes ==
  ASSUME SizesInv, NEW rs \in SUBSET RunId, DeleteForRuns(rs)
  PROVE  SizesInv'
<1>1. HistInv'
  <2>1. Removes /\ HistInv
    BY DEF Removes, SizesInv
  <2> QED BY <2>1, RemovesShrinks, ShrinksKeep
<1>2. sizes' = [t \in Thread |-> Measured(storage', blobs', writes', t)] /\ total' = Summed(sizes')
  BY DEF DeleteForRuns
<1> QED BY <1>1, <1>2, Rebuilds

\* The size of the copy of a thread is that of the original.
LEMMA CopySum ==
  ASSUME NEW f, NEW g, NEW t, NEW u, IsFiniteSet(DOMAIN f), Mine(f, u) = {}, IsCopy(g, f, t, u), t # u,
         \A k \in Mine(f, t) : Moved(k, u)[1] = u /\ Moved(Moved(k, u), t) = k
  PROVE  /\ Cardinality(Mine(g, u)) = Cardinality(Mine(f, t))
         /\ BlobBytes(g, u) = BlobBytes(f, t)
         /\ (\A x \in DOMAIN f : WriteSizes(f)[x] \in Int) => WriteBytes(g, u) = WriteBytes(f, t)
         /\ \A v : v # u => SameFor(g, f, v)
<1> DEFINE S == Mine(f, t)
           m == [k \in S |-> Moved(k, u)]
           T == {m[k] : k \in S}
<1>1. IsFiniteSet(S)
  BY FS_Subset DEF Mine
<1>2. \A j \in Copies(f, t, u) : j[1] = u
  BY DEF Copies
<1>3. DOMAIN g = DOMAIN f \cup Copies(f, t, u) /\ (\A k \in DOMAIN f : g[k] = f[k]) /\ \A k \in S : g[Moved(k, u)] = f[k]
  BY DEF IsCopy
<1>4. T = Copies(f, t, u)
  BY DEF Copies
<1>5. Mine(g, u) = Copies(f, t, u)
  BY <1>2, <1>3 DEF Mine
<1>6. \A v : v # u => SameFor(g, f, v)
  <2>1. ASSUME NEW v, v # u PROVE SameFor(g, f, v)
    BY <1>2, <1>3, <2>1 DEF SameFor, Mine
  <2> QED BY <2>1
<1>7. \A x, y \in S : m[x] = m[y] => x = y
  <2>1. \A x \in S : Moved(m[x], t) = x
    OBVIOUS
  <2> HIDE DEF m, S
  <2> QED BY <2>1
<1>8. \A x \in S : m[x] \in DOMAIN g /\ g[m[x]] = f[x] /\ x \in DOMAIN f
  BY <1>3, <1>4 DEF Mine
<1>9. \A x \in S : BlobSizes(g)[m[x]] = BlobSizes(f)[x] /\ WriteSizes(g)[m[x]] = WriteSizes(f)[x] /\ BlobSizes(f)[x] \in Int
  <2> HIDE DEF m, S
  <2> QED BY <1>8 DEF BlobSizes, WriteSizes, BlobSize
<1>10. Cardinality(T) = Cardinality(S)
  <2>1. m \in Bijection(S, T)
    <3>1. m \in [S -> T] /\ \A y \in T : \E x \in S : m[x] = y
      OBVIOUS
    <3> HIDE DEF m, S, T
    <3> QED BY <1>7, <3>1 DEF Bijection, Injection, Surjection, IsInjective
  <2>2. ExistsBijection(S, T)
    BY <2>1 DEF ExistsBijection
  <2> HIDE DEF S, T
  <2> QED BY <1>1, <2>2, FS_Bijection
<1> HIDE DEF m, S
<1>11. SumFunctionOnSet(BlobSizes(g), T) = SumFunctionOnSet(BlobSizes(f), S)
  BY <1>1, <1>7, <1>9, SumRenamed
<1>12. (\A x \in DOMAIN f : WriteSizes(f)[x] \in Int) => SumFunctionOnSet(WriteSizes(g), T) = SumFunctionOnSet(WriteSizes(f), S)
  BY <1>1, <1>7, <1>8, <1>9, SumRenamed
<1> HIDE DEF T
<1> QED BY <1>4, <1>5, <1>6, <1>10, <1>11, <1>12 DEF BlobBytes, WriteBytes, S

LEMMA CopySizes ==
  ASSUME SizesInv, NEW t \in Thread, NEW u \in Thread, CopyThread(t, u)
  PROVE  SizesInv'
<1>1. HistInv /\ HistInv'
  BY CopyKeeps DEF SizesInv
<1>2. t # u /\ IsCopy(storage', storage, t, u) /\ IsCopy(writes', writes, t, u) /\ IsCopy(blobs', blobs, t, u)
  BY <1>1, CopyFacts
<1>3. Mine(storage, u) = {} /\ Mine(writes, u) = {} /\ Mine(blobs, u) = {}
  BY DEF CopyThread
<1>4. IsFiniteSet(DOMAIN storage) /\ IsFiniteSet(DOMAIN writes) /\ IsFiniteSet(DOMAIN blobs)
      /\ DOMAIN storage \subseteq Key /\ DOMAIN writes \subseteq Key /\ DOMAIN blobs \subseteq BlobKey
  BY <1>1 DEF HistInv, Shape
<1>5. \A k \in Mine(storage, t) : Moved(k, u)[1] = u /\ Moved(Moved(k, u), t) = k
  BY <1>4, MovedKey DEF Mine
<1>6. \A k \in Mine(writes, t) : Moved(k, u)[1] = u /\ Moved(Moved(k, u), t) = k
  BY <1>4, MovedKey DEF Mine
<1>7. \A k \in Mine(blobs, t) : Moved(k, u)[1] = u /\ Moved(Moved(k, u), t) = k
  BY <1>4, MovedBlob DEF Mine
<1>w. \A k \in DOMAIN writes : WriteSizes(writes)[k] \in Int
  BY <1>1, SizesAreNumbers DEF HistInv, Shape
<1>8. Cardinality(Mine(storage', u)) = Cardinality(Mine(storage, t)) /\ \A v : v # u => SameFor(storage', storage, v)
  BY <1>2, <1>3, <1>4, <1>5, CopySum
<1>9. BlobBytes(blobs', u) = BlobBytes(blobs, t) /\ \A v : v # u => SameFor(blobs', blobs, v)
  BY <1>2, <1>3, <1>4, <1>7, CopySum
<1>10. WriteBytes(writes', u) = WriteBytes(writes, t) /\ \A v : v # u => SameFor(writes', writes, v)
  BY <1>2, <1>3, <1>4, <1>6, <1>w, CopySum
<1>11. \A v \in Thread : v # u => CardOf(v)' = CardOf(v) /\ BlobsOf(v)' = BlobsOf(v) /\ WritesOf(v)' = WritesOf(v)
  BY <1>1, <1>8, <1>9, <1>10, OtherThread
<1>12. CardOf(u)' = CardOf(t) /\ BlobsOf(u)' = BlobsOf(t) /\ WritesOf(u)' = WritesOf(t)
  <2>1. /\ CardOf(u)' = Cardinality(Mine(storage', u)) /\ BlobsOf(u)' = BlobBytes(blobs', u)
        /\ WritesOf(u)' = WriteBytes(writes', u)
    BY DEF CardOf, BlobsOf, WritesOf, BlobBytes, WriteBytes
  <2> QED BY <1>8, <1>9, <1>10, <2>1 DEF CardOf, BlobsOf, WritesOf
<1> DEFINE v == sizes[t]
<1>13. v = [bytes |-> CardOf(u)' + BlobsOf(u)' + WritesOf(u)', count |-> CardOf(u)']
  <2>1. v = [bytes |-> CardOf(t) + BlobsOf(t) + WritesOf(t), count |-> CardOf(t)]
    BY SizesForm
  <2> HIDE DEF v
  <2> QED BY <1>12, <2>1
<1>14. v \in Size
  BY DEF SizesInv
<1>15. /\ sizes' = [sizes EXCEPT ![u] = v]
       /\ total' = [bytes |-> total.bytes + v.bytes - sizes[u].bytes, count |-> total.count + v.count - sizes[u].count]
  BY DEF CopyThread
<1>16. PICK x : x = v
  OBVIOUS
<1>17. /\ x \in Size /\ sizes' = [sizes EXCEPT ![u] = x]
       /\ total' = [bytes |-> total.bytes + x.bytes - sizes[u].bytes, count |-> total.count + x.count - sizes[u].count]
       /\ x = [bytes |-> CardOf(u)' + BlobsOf(u)' + WritesOf(u)', count |-> CardOf(u)']
  BY <1>13, <1>14, <1>15, <1>16
<1> QED BY <1>1, <1>11, <1>17, OneThread

\* The sizes that every operation adjusts are those _rebuild_size_tracking
\* (checkpoint.py) would find, per thread and in total: no operation forgets
\* a blob or a write, and no clamp at zero in _CheckpointSizeState.adjust
\* hides a miscount.
THEOREM SizesAlwaysExact == Spec => []SizesExact
<1>1. Init => SizesInv
  <2> SUFFICES ASSUME Init PROVE SizesInv
    OBVIOUS
  <2>1. DOMAIN storage = {} /\ DOMAIN blobs = {} /\ DOMAIN writes = {} /\ DOMAIN loop = {}
        /\ Dict(storage) /\ Dict(blobs) /\ Dict(writes)
    BY DEF Init, Dict
  <2>2. nid \in 0..MaxId /\ over = {} /\ gaveUp = {}
    BY BoundsAssumption DEF Init
  <2>3. HistInv
    BY <2>1, <2>2, FS_EmptySet DEF HistInv, Shape, Aged, Loops
  <2>4. sizes = [t \in Thread |-> NoSize] /\ total = NoSize
    BY DEF Init
  <2>5. sizes \in [Thread -> Size]
    BY <2>4 DEF NoSize, Size
  <2>6. ASSUME NEW t \in Thread PROVE sizes[t] = Measured(storage, blobs, writes, t)
    <3>1. Mine(storage, t) = {} /\ Mine(blobs, t) = {} /\ Mine(writes, t) = {}
      BY <2>1 DEF Mine
    <3>2. Cardinality(Mine(storage, t)) = 0 /\ BlobBytes(blobs, t) = 0 /\ WriteBytes(writes, t) = 0
      BY <3>1, EmptySizes
    <3>3. Measurable(storage, blobs, writes)
      BY <2>3 DEF HistInv, Shape, Measurable
    <3>4. Measured(storage, blobs, writes, t) =
            [bytes |-> Cardinality(Mine(storage, t)) + BlobBytes(blobs, t) + WriteBytes(writes, t),
             count |-> Cardinality(Mine(storage, t))]
      BY <3>3, MeasuredForm
    <3> QED BY <2>4, <3>2, <3>4 DEF NoSize
  <2>7. total = Summed(sizes)
    BY <2>4, NothingMeasured
  <2> QED BY <2>3, <2>5, <2>6, <2>7 DEF SizesInv
<1>2. SizesInv /\ [Next]_vars => SizesInv'
  <2> SUFFICES ASSUME SizesInv, [Next]_vars PROVE SizesInv'
    OBVIOUS
  <2>0. HistInv
    BY DEF SizesInv
  <2>1. CASE Removes
    BY <2>1, DeleteForRunsSizes, PruneSizes, DeleteThreadSizes, ClearSizes DEF Removes
  <2>2. ASSUME HistInv', UNCHANGED <<storage, blobs, writes, sizes, total>> PROVE SizesInv'
    BY <2>2 DEF SizesInv, Measured, Mine, BlobSizes, WriteSizes, Summed
  <2>3. CASE UNCHANGED vars
    <3>1. HistInv'
      BY <2>0, <2>3 DEF vars, HistInv, Shape, Dict, Aged, Loops, LoopFits
    <3> QED BY <2>2, <2>3, <3>1 DEF vars
  <2>4. ASSUME NEW r \in RunId, NEW t \in Thread, Load(r, t) PROVE SizesInv'
    <3>1. HistInv'
      BY <2>0, <2>4, LoadKeeps
    <3> QED BY <2>2, <2>4, <3>1 DEF Load
  <2> QED BY <2>1, <2>3, <2>4, NextCases, PutSizes, PutWritesSizes, CopySizes
<1>3. SizesInv => SizesExact
  <2> SUFFICES ASSUME SizesInv PROVE SizesExact
    OBVIOUS
  <2>1. HistInv /\ sizes \in [Thread -> Size] /\ total = Summed(sizes)
    BY DEF SizesInv
  <2>2. total \in Size
    <3> DEFINE gb == [x \in Thread |-> sizes[x].bytes]
               gc == [x \in Thread |-> sizes[x].count]
    <3>1. \A x \in Thread : gb[x] \in Int /\ gc[x] \in Int
      BY <2>1 DEF Size
    <3>2. total = [bytes |-> SumFunctionOnSet(gb, Thread), count |-> SumFunctionOnSet(gc, Thread)]
      BY <2>1 DEF Summed
    <3> HIDE DEF gb, gc
    <3>3. SumFunctionOnSet(gb, Thread) \in Int /\ SumFunctionOnSet(gc, Thread) \in Int
      BY <3>1, BoundsAssumption, SumInt
    <3> QED BY <3>2, <3>3 DEF Size
  <2>3. TypeOK
    BY <2>1, <2>2 DEF HistInv, Shape, TypeOK
  <2> QED BY <2>1, <2>3 DEF SizesInv, SizesExact
<1> QED BY <1>1, <1>2, <1>3, PTL DEF Spec

-----------------------------------------------------------------------------
(* History.                                                                *)

LostStep(l, t, ns, p) ==
  LET j == <<t, ns, p>>
  IN IF p = 0 THEN {}
     ELSE IF j \notin DOMAIN storage THEN Channel
     ELSE (l[storage[j].parent] \cap DOMAIN storage[j].versions) \ Snapshots(j)
IsLost(l, t, ns) == l = [p \in 0..MaxId |-> LostStep(l, t, ns, p)]

LEMMA LostForm ==
  ASSUME NEW t, NEW ns
  PROVE  Lost(t, ns) = CHOOSE l : IsLost(l, t, ns)
  BY DEF Lost, IsLost, LostStep

LEMMA LostExists ==
  ASSUME HistInv, NEW t \in Thread, NEW ns \in Ns
  PROVE  \E l \in [0..MaxId -> SUBSET Channel] : IsLost(l, t, ns)
<1> DEFINE V == SUBSET Channel
           A == {p \in 1..MaxId : <<t, ns, p>> \in DOMAIN storage}
           par == [p \in A |-> storage[<<t, ns, p>>].parent]
           step(p, v) == (v \cap DOMAIN storage[<<t, ns, p>>].versions) \ Snapshots(<<t, ns, p>>)
           H == [p \in A |-> [v \in V |-> step(p, v)]]
           base == [p \in 0..MaxId |-> IF p = 0 THEN {} ELSE Channel]
<1>1. MaxId \in Nat /\ A \subseteq 1..MaxId
  BY BoundsAssumption
<1>2. \A p \in A : par[p] \in 0..MaxId /\ par[p] < p /\ par[p] = storage[<<t, ns, p>>].parent
  BY ParentOlder
<1>3. ASSUME NEW p \in A, NEW v \in V PROVE H[p][v] \in V /\ H[p][v] = step(p, v)
  OBVIOUS
<1>4. \A p \in 0..MaxId : base[p] \in V /\ base[p] = IF p = 0 THEN {} ELSE Channel
  OBVIOUS
<1> HIDE DEF V, A, par, H, base
<1>5. PICK f \in [0..MaxId -> V] : Recursive(f, MaxId, A, par, H, base)
  <2> HIDE DEF step
  <2>1. (\A p \in A : \A v \in V : H[p][v] \in V) /\ \A p \in 0..MaxId : base[p] \in V
    BY <1>3, <1>4
  <2>2. \A p \in A : par[p] \in 0..MaxId /\ par[p] < p
    BY <1>2
  <2> QED BY <1>1, <2>1, <2>2, RecursionExists
<1>6. ASSUME NEW p \in 0..MaxId PROVE f[p] = LostStep(f, t, ns, p)
  <2>1. CASE p \in A
    <3>1. f[p] = step(p, f[par[p]])
      <4> DEFINE v == f[par[p]]
      <4>1. v \in V
        BY <1>2, <1>5, <2>1
      <4>2. f[p] = H[p][v]
        BY <1>5, <2>1 DEF Recursive
      <4> HIDE DEF v
      <4>3. H[p][v] = step(p, v)
        BY <1>3, <2>1, <4>1
      <4>4. f[p] = step(p, v)
        BY <4>2, <4>3
      <4> QED BY <4>4 DEF v
    <3>2. par[p] = storage[<<t, ns, p>>].parent /\ p # 0 /\ <<t, ns, p>> \in DOMAIN storage
      BY <1>1, <1>2, <2>1 DEF A
    <3> QED BY <3>1, <3>2 DEF LostStep
  <2>2. CASE p \notin A
    <3>1. f[p] = IF p = 0 THEN {} ELSE Channel
      BY <1>4, <1>5, <2>2 DEF Recursive
    <3>2. p = 0 \/ <<t, ns, p>> \notin DOMAIN storage
      BY <1>1, <2>2 DEF A
    <3> QED BY <3>1, <3>2 DEF LostStep
  <2> QED BY <2>1, <2>2
<1>7. f = [p \in 0..MaxId |-> f[p]]
  BY <1>5
<1>8. IsLost(f, t, ns)
  BY <1>6, <1>7 DEF IsLost
<1> QED BY <1>5, <1>8 DEF V

\* What Lost is in a state, and so in the next one.
LostDef ==
  \A t \in Thread, ns \in Ns : \A p \in 0..MaxId :
     Lost(t, ns)[p] = LostStep(Lost(t, ns), t, ns, p) /\ Lost(t, ns)[p] \subseteq Channel

LEMMA LostSteps == HistInv => LostDef
<1> SUFFICES ASSUME HistInv, NEW t \in Thread, NEW ns \in Ns, NEW p \in 0..MaxId
             PROVE  Lost(t, ns)[p] = LostStep(Lost(t, ns), t, ns, p) /\ Lost(t, ns)[p] \subseteq Channel
  BY DEF LostDef
<1> DEFINE l == Lost(t, ns)
<1>1. IsLost(l, t, ns)
  BY LostForm, LostExists
<1> HIDE DEF l
<1>2. l = [q \in 0..MaxId |-> LostStep(l, t, ns, q)]
  BY <1>1 DEF IsLost
<1>3. \A q \in 0..MaxId : l[q] = LostStep(l, t, ns, q)
  BY <1>2
<1> DEFINE S == {q \in 0..MaxId : l[q] \subseteq Channel}
<1>4. ASSUME NEW q \in 0..MaxId, \A x \in 0..MaxId : x < q => x \in S PROVE q \in S
  <2>1. CASE <<t, ns, q>> \in DOMAIN storage
    <3>1. storage[<<t, ns, q>>].parent \in 0..MaxId /\ storage[<<t, ns, q>>].parent < q
      BY <2>1, ParentOlder
    <3>2. l[storage[<<t, ns, q>>].parent] \subseteq Channel
      BY <1>4, <3>1
    <3> QED BY <1>3, <3>2 DEF LostStep
  <2>2. CASE <<t, ns, q>> \notin DOMAIN storage
    BY <1>3, <2>2 DEF LostStep
  <2> QED BY <2>1, <2>2
<1>5. \A q \in 0..MaxId : q \in S
  <2> HIDE DEF S
  <2> QED BY <1>4, BoundsAssumption, StrongInduction
<1> QED BY <1>3, <1>5 DEF l

LEMMA LostStepsNext == HistInv' => LostDef'
  BY LostSteps, PTL

\* The blobs of the channels that are not rebuilt from ancestors.
HasBlobs(k) ==
  \A ch \in DOMAIN storage[k].versions \ NeededChannels(k) :
     <<k[1], k[2], ch, storage[k].versions[ch]>> \in DOMAIN blobs

LEMMA RestorableForm ==
  ASSUME NEW k
  PROVE  /\ Restorable(k) <=> NeededChannels(k) \cap Lost(k[1], k[2])[storage[k].parent] = {} /\ HasBlobs(k)
         /\ Restorable(k)' <=> NeededChannels(k)' \cap Lost(k[1], k[2])'[storage'[k].parent] = {} /\ HasBlobs(k)'
  BY DEF Restorable, HasBlobs

\* A checkpoint of the next state that is stored as another one is now, with
\* blobs of the same kind.
SameBlob(d, b) == (d \in DOMAIN blobs' <=> b \in DOMAIN blobs) /\ (b \in DOMAIN blobs => blobs'[d] = blobs[b])
Alike(j, i) ==
  /\ storage'[j] = storage[i]
  /\ \A ch \in DOMAIN storage[i].versions :
        SameBlob(<<j[1], j[2], ch, storage[i].versions[ch]>>, <<i[1], i[2], ch, storage[i].versions[ch]>>)

LEMMA AlikeSame ==
  ASSUME NEW i, NEW j, Alike(j, i)
  PROVE  /\ Snapshots(j)' = Snapshots(i) /\ NeededChannels(j)' = NeededChannels(i)
         /\ HasBlobs(j)' <=> HasBlobs(i)
<1> DEFINE e == storage[i]
<1>1. storage'[j] = e
  BY DEF Alike
<1>2. \A ch \in DOMAIN e.versions : SameBlob(<<j[1], j[2], ch, e.versions[ch]>>, <<i[1], i[2], ch, e.versions[ch]>>)
  BY DEF Alike
<1>3. Snapshots(j)' = {ch \in DOMAIN e.versions : <<j[1], j[2], ch, e.versions[ch]>> \in DOMAIN blobs'
                                                 /\ blobs'[<<j[1], j[2], ch, e.versions[ch]>>] # "empty"}
  BY <1>1 DEF Snapshots, Materialized
<1>4. Snapshots(i) = {ch \in DOMAIN e.versions : <<i[1], i[2], ch, e.versions[ch]>> \in DOMAIN blobs
                                                 /\ blobs[<<i[1], i[2], ch, e.versions[ch]>>] # "empty"}
  BY DEF Snapshots, Materialized
<1>5. Snapshots(j)' = Snapshots(i)
  BY <1>2, <1>3, <1>4 DEF SameBlob
<1>6. NeededChannels(j)' = (DOMAIN e.versions \cap e.counters) \ Snapshots(j)'
  BY <1>1 DEF NeededChannels
<1>7. NeededChannels(i) = (DOMAIN e.versions \cap e.counters) \ Snapshots(i)
  BY DEF NeededChannels
<1>8. NeededChannels(j)' = NeededChannels(i)
  BY <1>5, <1>6, <1>7
<1>9. HasBlobs(j)' <=> \A ch \in DOMAIN e.versions \ NeededChannels(j)' : <<j[1], j[2], ch, e.versions[ch]>> \in DOMAIN blobs'
  BY <1>1 DEF HasBlobs
<1>10. HasBlobs(i) <=> \A ch \in DOMAIN e.versions \ NeededChannels(i) : <<i[1], i[2], ch, e.versions[ch]>> \in DOMAIN blobs
  BY DEF HasBlobs
<1> HIDE DEF e
<1>11. HasBlobs(j)' <=> HasBlobs(i)
  BY <1>2, <1>8, <1>9, <1>10 DEF SameBlob
<1> QED BY <1>5, <1>8, <1>11

\* Where the checkpoints up to N are stored alike, the same is lost.
LEMMA LostAlike ==
  ASSUME HistInv, HistInv', NEW t \in Thread, NEW u \in Thread, NEW ns \in Ns, NEW N \in 0..MaxId,
         \A p \in 1..MaxId : p <= N =>
            /\ <<u, ns, p>> \in DOMAIN storage' <=> <<t, ns, p>> \in DOMAIN storage
            /\ <<t, ns, p>> \in DOMAIN storage => Alike(<<u, ns, p>>, <<t, ns, p>>)
  PROVE  \A p \in 0..MaxId : p <= N => Lost(u, ns)'[p] = Lost(t, ns)[p]
<1>0. LostDef /\ LostDef'
  BY LostSteps, LostStepsNext
<1> DEFINE l == Lost(t, ns)
           m == Lost(u, ns)'
<1>1. ASSUME NEW p \in 0..MaxId PROVE l[p] = LostStep(l, t, ns, p)
  BY <1>0 DEF LostDef
<1>2. ASSUME NEW p \in 0..MaxId
      PROVE  m[p] = IF p = 0 THEN {}
                    ELSE IF <<u, ns, p>> \notin DOMAIN storage' THEN Channel
                    ELSE (m[storage'[<<u, ns, p>>].parent] \cap DOMAIN storage'[<<u, ns, p>>].versions) \ Snapshots(<<u, ns, p>>)'
  <2>1. (Lost(u, ns)[p] = LostStep(Lost(u, ns), u, ns, p))'
    BY <1>0 DEF LostDef
  <2> QED BY <2>1 DEF LostStep
<1> HIDE DEF l, m
<1> DEFINE S == {p \in 0..MaxId : p <= N => m[p] = l[p]}
<1>3. ASSUME NEW p \in 0..MaxId, \A q \in 0..MaxId : q < p => q \in S PROVE p \in S
  <2> SUFFICES ASSUME p <= N PROVE m[p] = l[p]
    OBVIOUS
  <2> DEFINE i == <<t, ns, p>>
             j == <<u, ns, p>>
  <2>1. CASE p = 0
    BY <1>1, <1>2, <2>1 DEF LostStep
  <2>2. CASE p # 0 /\ i \notin DOMAIN storage
    <3>1. j \notin DOMAIN storage'
      BY <2>2
    <3>2. m[p] = Channel
      BY <1>2, <2>2, <3>1
    <3>3. l[p] = Channel
      BY <1>1, <2>2 DEF LostStep
    <3> QED BY <3>2, <3>3
  <2>3. CASE p # 0 /\ i \in DOMAIN storage
    <3>1. j \in DOMAIN storage' /\ Alike(j, i)
      BY <2>3
    <3>2. storage[i].parent \in 0..MaxId /\ storage[i].parent < p
      BY <2>3, ParentOlder
    <3>3. storage'[j] = storage[i] /\ Snapshots(j)' = Snapshots(i)
      BY <3>1, AlikeSame DEF Alike
    <3>4. l[p] = (l[storage[i].parent] \cap DOMAIN storage[i].versions) \ Snapshots(i)
      BY <1>1, <2>3 DEF LostStep
    <3>5. m[p] = (m[storage'[j].parent] \cap DOMAIN storage'[j].versions) \ Snapshots(j)'
      BY <1>2, <2>3, <3>1
    <3>6. storage[i].parent <= N
      BY <3>2, BoundsAssumption
    <3> HIDE DEF i, j
    <3>7. m[storage[i].parent] = l[storage[i].parent]
      BY <1>3, <3>2, <3>6
    <3> QED BY <3>3, <3>4, <3>5, <3>7
  <2> QED BY <2>1, <2>2, <2>3
<1>4. \A p \in 0..MaxId : p \in S
  <2> HIDE DEF S
  <2> QED BY <1>3, BoundsAssumption, StrongInduction
<1> QED BY <1>4 DEF l, m

\* A checkpoint with such a history is restorable when the other one is.
LEMMA AlikeRestorable ==
  ASSUME HistInv, NEW i \in DOMAIN storage, NEW j, Alike(j, i),
         Lost(j[1], j[2])'[storage[i].parent] = Lost(i[1], i[2])[storage[i].parent]
  PROVE  Restorable(j)' <=> Restorable(i)
<1>1. storage'[j] = storage[i]
  BY DEF Alike
<1>2. NeededChannels(j)' = NeededChannels(i) /\ (HasBlobs(j)' <=> HasBlobs(i))
  BY AlikeSame
<1>3. Restorable(i) <=> NeededChannels(i) \cap Lost(i[1], i[2])[storage[i].parent] = {} /\ HasBlobs(i)
  BY RestorableForm
<1>4. Restorable(j)' <=> NeededChannels(j)' \cap Lost(j[1], j[2])'[storage'[j].parent] = {} /\ HasBlobs(j)'
  BY RestorableForm
<1> QED BY <1>1, <1>2, <1>3, <1>4

\* put: the child of a restorable checkpoint is restorable.
LEMMA PutHistory ==
  ASSUME HistInv, NEW r \in RunId, NEW ns \in Ns, NEW in \in PutInput, Put(r, ns, in)
  PROVE  \E k \in Key :
           /\ k \notin DOMAIN storage /\ DOMAIN storage' = DOMAIN storage \cup {k}
           /\ \A j \in DOMAIN storage : storage'[j] = storage[j] /\ (Restorable(j)' <=> Restorable(j))
           /\ LET p == storage'[k].parent
                  m == <<k[1], k[2], p>>
              IN (p = 0 \/ (m \in DOMAIN storage /\ Restorable(m))) => Restorable(k)'
<1>0. HistInv'
  BY PutKeeps
<1>1. PICK k, vs : Grown(r, ns, in, k, vs)
  BY PutFacts
<1>2. k \in Key /\ k \notin DOMAIN storage /\ DOMAIN storage' = DOMAIN storage \cup {k}
      /\ (\A j \in DOMAIN storage : storage'[j] = storage[j])
  BY <1>1 DEF Grown
<1>3. nid \in 0..MaxId /\ k[3] = nid + 1 /\ \A b \in NewBlobs(k, in) : b[4] = nid + 1
  <2>1. k = <<loop[r].thread, ns, nid + 1>> /\ nid \in 0..MaxId
    BY <1>1 DEF Grown, HistInv, Shape
  <2> QED BY <2>1 DEF NewBlobs
<1>4. ASSUME NEW j \in DOMAIN storage PROVE Alike(j, j)
  <2>1. storage'[j] = storage[j]
    BY <1>2
  <2>2. ASSUME NEW b, b \notin NewBlobs(k, in) PROVE SameBlob(b, b)
    BY <1>1, <2>2 DEF Grown, SameBlob
  <2>3. ASSUME NEW ch \in DOMAIN storage[j].versions
        PROVE  <<j[1], j[2], ch, storage[j].versions[ch]>> \notin NewBlobs(k, in)
    <3>1. storage[j].versions[ch] <= nid
      BY DEF HistInv, Aged
    <3>2. ~ (nid + 1 <= nid)
      BY <1>3
    <3>3. storage[j].versions[ch] # nid + 1
      BY <3>1, <3>2
    <3> QED BY <1>3, <3>3
  <2> QED BY <2>1, <2>2, <2>3 DEF Alike
<1>5. ASSUME NEW u \in Thread, NEW n \in Ns
      PROVE  \A p \in 0..MaxId : p <= nid => Lost(u, n)'[p] = Lost(u, n)[p]
  <2>1. ASSUME NEW p \in 1..MaxId, p <= nid
        PROVE  /\ <<u, n, p>> \in DOMAIN storage' <=> <<u, n, p>> \in DOMAIN storage
               /\ <<u, n, p>> \in DOMAIN storage => Alike(<<u, n, p>>, <<u, n, p>>)
    <3>1. <<u, n, p>> # k
      <4>1. p # nid + 1
        BY <1>3, <2>1, BoundsAssumption
      <4> QED BY <1>3, <4>1
    <3> QED BY <1>2, <1>4, <3>1
  <2> QED BY <1>0, <1>3, <2>1, LostAlike
<1>6. ASSUME NEW j \in DOMAIN storage
      PROVE  /\ Restorable(j)' <=> Restorable(j)
             /\ storage[j].parent \in 0..MaxId /\ storage[j].parent <= nid /\ j[1] \in Thread /\ j[2] \in Ns
  <2>1. j \in Key /\ storage[j] \in Entry /\ storage[j].parent < j[3] /\ j[3] <= nid
    BY DEF HistInv, Shape, Aged
  <2>2. j[1] \in Thread /\ j[2] \in Ns /\ j[3] \in Nat
    BY <2>1, KeyParts
  <2>3. storage[j].parent \in 0..MaxId
    BY <2>1 DEF Entry
  <2>4. storage[j].parent <= nid
    BY <1>3, <2>1, <2>2, <2>3, BoundsAssumption
  <2>5. Lost(j[1], j[2])'[storage[j].parent] = Lost(j[1], j[2])[storage[j].parent]
    BY <1>5, <2>2, <2>3, <2>4
  <2> QED BY <1>4, <2>2, <2>3, <2>4, <2>5, AlikeRestorable
<1> DEFINE p == loop[r].at[ns]
           t == loop[r].thread
           m == <<k[1], k[2], p>>
<1>7. storage'[k] = [parent |-> p, versions |-> vs, counters |-> Delta \cap DOMAIN vs, run |-> r] /\ k[1] = t /\ k[2] = ns /\ r \in DOMAIN loop
  <2>1. k = <<t, ns, nid + 1>>
    BY <1>1 DEF Grown
  <2> QED BY <1>1, <2>1 DEF Grown
<1>8. t \in Thread /\ p \in 0..MaxId
  <2>1. loop[r] \in Loop
    BY <1>7 DEF HistInv, Shape
  <2> QED BY <2>1 DEF Loop
<1>9. LoopFits(loop[r], ns)
  BY <1>7 DEF HistInv, Loops
<1>10. p <= nid /\ (p = 0 => loop[r].versions[ns] = NoVersions) /\ (m \in DOMAIN storage => storage[m].versions = loop[r].versions[ns])
  BY <1>7, <1>9 DEF LoopFits
<1>11. /\ DOMAIN vs = DOMAIN loop[r].versions[ns] \cup in.written
       /\ \A ch \in in.written : vs[ch] = nid + 1
       /\ \A ch \in DOMAIN vs \ in.written : vs[ch] = loop[r].versions[ns][ch]
       /\ DOMAIN blobs' = DOMAIN blobs \cup NewBlobs(k, in)
  BY <1>1 DEF Grown
<1>12. \A ch \in in.written : <<k[1], k[2], ch, vs[ch]>> \in DOMAIN blobs'
  BY <1>3, <1>11 DEF NewBlobs
<1>13. NeededChannels(k)' \subseteq Delta \cap DOMAIN vs
  BY <1>7 DEF NeededChannels
<1>14. \A ch \in DOMAIN vs : ch \in Delta /\ ch \notin NeededChannels(k)' => <<k[1], k[2], ch, vs[ch]>> \in DOMAIN blobs'
  <2>1. storage'[k].versions = vs /\ storage'[k].counters = Delta \cap DOMAIN vs
    BY <1>7
  <2>2. NeededChannels(k)' = (DOMAIN vs \cap (Delta \cap DOMAIN vs)) \ Snapshots(k)'
    BY <2>1 DEF NeededChannels
  <2>3. \A ch \in Snapshots(k)' : <<k[1], k[2], ch, vs[ch]>> \in DOMAIN blobs'
    BY <2>1 DEF Snapshots, Materialized
  <2> QED BY <2>2, <2>3
<1>15. HasBlobs(k)' <=> \A ch \in DOMAIN vs \ NeededChannels(k)' : <<k[1], k[2], ch, vs[ch]>> \in DOMAIN blobs'
  <2>1. storage'[k].versions = vs
    BY <1>7
  <2> QED BY <2>1 DEF HasBlobs
<1>16. Lost(k[1], k[2])'[p] = Lost(k[1], k[2])[p]
  BY <1>5, <1>7, <1>8, <1>10
<1>17. Restorable(k)' <=> NeededChannels(k)' \cap Lost(k[1], k[2])[p] = {} /\ HasBlobs(k)'
  <2>1. storage'[k].parent = p
    BY <1>7
  <2>2. Restorable(k)' <=> NeededChannels(k)' \cap Lost(k[1], k[2])'[storage'[k].parent] = {} /\ HasBlobs(k)'
    BY RestorableForm
  <2> QED BY <1>16, <2>1, <2>2
<1>18. Lost(k[1], k[2])[p] = LostStep(Lost(k[1], k[2]), k[1], k[2], p)
  BY <1>7, <1>8, LostSteps DEF LostDef
<1>19. ASSUME p = 0 PROVE Restorable(k)'
  <2>1. Lost(k[1], k[2])[p] = {}
    BY <1>18, <1>19 DEF LostStep
  <2>2. DOMAIN vs = in.written
    <3>1. DOMAIN NoVersions = {}
      BY DEF NoVersions
    <3> QED BY <1>10, <1>11, <1>19, <3>1
  <2> QED BY <1>12, <1>15, <1>17, <2>1, <2>2
<1>20. ASSUME p # 0, m \in DOMAIN storage, Restorable(m) PROVE Restorable(k)'
  <2> DEFINE ms == storage[m].versions
             L == Lost(k[1], k[2])
  <2>1. m[1] = k[1] /\ m[2] = k[2] /\ ms = loop[r].versions[ns]
    BY <1>10, <1>20
  <2>2. storage[m].counters = Delta \cap DOMAIN ms
    BY <1>20 DEF HistInv, Aged
  <2>3. L[p] = (L[storage[m].parent] \cap DOMAIN ms) \ Snapshots(m)
    BY <1>18, <1>20 DEF LostStep
  <2>4. NeededChannels(m) = (DOMAIN ms \cap storage[m].counters) \ Snapshots(m)
    BY DEF NeededChannels
  <2>5. NeededChannels(m) \cap L[storage[m].parent] = {} /\ HasBlobs(m)
    <3>1. Restorable(m) <=> NeededChannels(m) \cap Lost(m[1], m[2])[storage[m].parent] = {} /\ HasBlobs(m)
      BY RestorableForm
    <3> QED BY <1>20, <2>1, <3>1
  <2>6. \A ch \in DOMAIN ms \ NeededChannels(m) : <<k[1], k[2], ch, ms[ch]>> \in DOMAIN blobs
    BY <2>1, <2>5 DEF HasBlobs
  <2> HIDE DEF L, ms, m, p
  <2>7. NeededChannels(k)' \cap L[p] = {}
    BY <1>13, <2>2, <2>3, <2>4, <2>5
  <2>8. ASSUME NEW ch \in DOMAIN vs \ NeededChannels(k)' PROVE <<k[1], k[2], ch, vs[ch]>> \in DOMAIN blobs'
    <3>1. CASE ch \in in.written
      BY <1>12, <3>1
    <3>2. CASE ch \in Delta
      BY <1>14, <2>8, <3>2
    <3>3. CASE ch \notin in.written /\ ch \notin Delta
      <4>1. ch \in DOMAIN ms /\ vs[ch] = ms[ch]
        BY <1>11, <2>1, <3>3
      <4>2. ch \notin NeededChannels(m)
        BY <2>2, <2>4, <3>3
      <4> QED BY <1>11, <2>6, <4>1, <4>2
    <3> QED BY <3>1, <3>2, <3>3
  <2> QED BY <1>15, <1>17, <2>7, <2>8 DEF L
<1>21. storage'[k].parent = p
  BY <1>7
<1> HIDE DEF p
<1> QED BY <1>2, <1>6, <1>19, <1>20, <1>21

\* A removal: nothing becomes restorable by it, and what keeps its chain
\* stays so.
LEMMA RemovalHistory ==
  ASSUME HistInv, HistInv', Shrinks, WholeRemoval, NEW k \in DOMAIN storage'
  PROVE  /\ k \in DOMAIN storage /\ storage'[k] = storage[k]
         /\ Restorable(k)' => Restorable(k)
         /\ Chain(k) \subseteq DOMAIN storage' /\ Restorable(k) => Restorable(k)'
<1>0. LostDef /\ LostDef'
  BY LostSteps, LostStepsNext
<1>1. DOMAIN storage' \subseteq DOMAIN storage /\ \A j \in DOMAIN storage' : storage'[j] = storage[j]
  BY DEF Shrinks, Shrunk
<1>2. ASSUME NEW j \in DOMAIN storage' PROVE Alike(j, j)
  <2>1. ASSUME NEW ch \in DOMAIN storage[j].versions, NEW b, b = <<j[1], j[2], ch, storage[j].versions[ch]>> PROVE SameBlob(b, b)
    <3>1. b \in BlobKeysOf({j})
      BY <2>1 DEF BlobKeysOf
    <3>2. b \in BlobKeysOf(DOMAIN storage')
      BY <3>1, BlobKeysFacts
    <3> QED BY <3>2 DEF SameBlob, WholeRemoval, Shrinks, Shrunk
  <2> QED BY <1>1, <2>1 DEF Alike
<1>3. k \in Key /\ storage[k] \in Entry
  BY <1>1 DEF HistInv, Shape
<1>4. PICK t \in Thread, ns \in Ns : t = k[1] /\ ns = k[2]
  BY <1>3, KeyParts
<1> DEFINE l == Lost(t, ns)
           m == Lost(t, ns)'
           w == Walk(t, ns)
<1>5. ASSUME NEW p \in 0..MaxId PROVE l[p] = LostStep(l, t, ns, p) /\ l[p] \subseteq Channel
  BY <1>0 DEF LostDef
<1>6. ASSUME NEW p \in 0..MaxId
      PROVE  m[p] = IF p = 0 THEN {}
                    ELSE IF <<t, ns, p>> \notin DOMAIN storage' THEN Channel
                    ELSE (m[storage'[<<t, ns, p>>].parent] \cap DOMAIN storage'[<<t, ns, p>>].versions) \ Snapshots(<<t, ns, p>>)'
  <2>1. (Lost(t, ns)[p] = LostStep(Lost(t, ns), t, ns, p))'
    BY <1>0 DEF LostDef
  <2> QED BY <2>1 DEF LostStep
<1>7. ASSUME NEW p \in 0..MaxId, NEW need \in SUBSET Channel PROVE w[p][need] = WalkStep(w, t, ns, p, need)
  BY WalkSteps
<1> HIDE DEF l, m, w
<1>8. ASSUME NEW p \in 0..MaxId, <<t, ns, p>> \in DOMAIN storage'
      PROVE  /\ p # 0 /\ <<t, ns, p>> \in DOMAIN storage
             /\ storage[<<t, ns, p>>].parent \in 0..MaxId /\ storage[<<t, ns, p>>].parent < p
             /\ m[p] = (m[storage[<<t, ns, p>>].parent] \cap DOMAIN storage[<<t, ns, p>>].versions) \ Snapshots(<<t, ns, p>>)
             /\ l[p] = (l[storage[<<t, ns, p>>].parent] \cap DOMAIN storage[<<t, ns, p>>].versions) \ Snapshots(<<t, ns, p>>)
  <2> DEFINE j == <<t, ns, p>>
  <2>1. j \in DOMAIN storage /\ storage'[j] = storage[j] /\ Snapshots(j)' = Snapshots(j)
    BY <1>1, <1>2, <1>8, AlikeSame
  <2>2. p # 0 /\ storage[j].parent \in 0..MaxId /\ storage[j].parent < p
    BY <2>1, ParentOlder
  <2>3. l[p] = (l[storage[j].parent] \cap DOMAIN storage[j].versions) \ Snapshots(j)
    BY <1>5, <2>1, <2>2 DEF LostStep
  <2>4. m[p] = (m[storage'[j].parent] \cap DOMAIN storage'[j].versions) \ Snapshots(j)'
    BY <1>6, <1>8, <2>2
  <2> QED BY <2>1, <2>2, <2>3, <2>4
<1>9. \A p \in 0..MaxId : l[p] \subseteq m[p]
  <2> DEFINE S == {p \in 0..MaxId : l[p] \subseteq m[p]}
  <2>1. ASSUME NEW p \in 0..MaxId, \A q \in 0..MaxId : q < p => q \in S PROVE p \in S
    <3>1. CASE <<t, ns, p>> \in DOMAIN storage'
      BY <1>8, <2>1, <3>1
    <3>2. CASE p = 0
      <4>1. l[p] = {}
        BY <1>5, <3>2 DEF LostStep
      <4> QED BY <4>1
    <3>3. CASE p # 0 /\ <<t, ns, p>> \notin DOMAIN storage'
      BY <1>5, <1>6, <3>3
    <3> QED BY <3>1, <3>2, <3>3
  <2>2. \A p \in 0..MaxId : p \in S
    <3> HIDE DEF S
    <3> QED BY <2>1, BoundsAssumption, StrongInduction
  <2> QED BY <2>2
<1>10. \A p \in 0..MaxId : \A need \in SUBSET Channel : w[p][need] \subseteq DOMAIN storage' => need \cap m[p] \subseteq l[p]
  <2> DEFINE G(p) == \A need \in SUBSET Channel : w[p][need] \subseteq DOMAIN storage' => need \cap m[p] \subseteq l[p]
             S == {p \in 0..MaxId : G(p)}
  <2>1. ASSUME NEW p \in 0..MaxId, \A q \in 0..MaxId : q < p => q \in S PROVE p \in S
    <3>1. ASSUME NEW need \in SUBSET Channel, w[p][need] \subseteq DOMAIN storage' PROVE need \cap m[p] \subseteq l[p]
      <4> DEFINE j == <<t, ns, p>>
      <4>1. CASE p = 0
        <5>1. m[p] = {}
          BY <1>6, <4>1
        <5> QED BY <5>1
      <4>2. CASE need = {}
        BY <4>2
      <4>3. CASE p # 0 /\ j \notin DOMAIN storage
        <5>1. l[p] = Channel
          BY <1>5, <4>3 DEF LostStep
        <5> QED BY <5>1
      <4>4. CASE p # 0 /\ need # {} /\ j \in DOMAIN storage
        <5> DEFINE q == storage[j].parent
                   nd == need \ Snapshots(j)
        <5>1. w[p][need] = {j} \cup w[q][nd]
          BY <1>7, <4>4 DEF WalkStep
        <5>2. j \in DOMAIN storage' /\ w[q][nd] \subseteq DOMAIN storage'
          BY <3>1, <5>1
        <5>3. q \in 0..MaxId /\ q < p
              /\ m[p] = (m[q] \cap DOMAIN storage[j].versions) \ Snapshots(j)
              /\ l[p] = (l[q] \cap DOMAIN storage[j].versions) \ Snapshots(j)
          BY <1>8, <5>2
        <5>4. G(q) /\ nd \in SUBSET Channel
          BY <2>1, <5>3
        <5>5. nd \cap m[q] \subseteq l[q]
          BY <5>2, <5>4
        <5> HIDE DEF q, j
        <5> QED BY <5>3, <5>5
      <4> QED BY <4>1, <4>2, <4>3, <4>4
    <3> QED BY <3>1
  <2>2. \A p \in 0..MaxId : p \in S
    <3> HIDE DEF S
    <3> QED BY <2>1, BoundsAssumption, StrongInduction
  <2> QED BY <2>2
<1>11. k \in DOMAIN storage /\ storage'[k] = storage[k] /\ NeededChannels(k)' = NeededChannels(k) /\ (HasBlobs(k)' <=> HasBlobs(k))
  BY <1>1, <1>2, AlikeSame
<1> DEFINE p == storage[k].parent
           need == NeededChannels(k)
<1>12. p \in 0..MaxId /\ need \in SUBSET Channel
  BY <1>11, ChainStored
<1>13. Restorable(k) <=> need \cap l[p] = {} /\ HasBlobs(k)
  BY <1>4, RestorableForm DEF l
<1>14. Restorable(k)' <=> need \cap m[p] = {} /\ HasBlobs(k)
  <2>1. Restorable(k)' <=> NeededChannels(k)' \cap Lost(k[1], k[2])'[storage'[k].parent] = {} /\ HasBlobs(k)'
    BY RestorableForm
  <2> QED BY <1>4, <1>11, <2>1 DEF m
<1>15. Chain(k) = w[p][need]
  BY <1>4 DEF Chain, w
<1>16. Restorable(k)' => Restorable(k)
  BY <1>9, <1>12, <1>13, <1>14
<1>17. Chain(k) \subseteq DOMAIN storage' /\ Restorable(k) => Restorable(k)'
  <2> HIDE DEF p, need
  <2> QED BY <1>10, <1>12, <1>13, <1>14, <1>15
<1> QED BY <1>11, <1>16, <1>17

\* Threads.copy: a copy is restorable when its original is.
LEMMA CopyHistory ==
  ASSUME HistInv, NEW t \in Thread, NEW u \in Thread, CopyThread(t, u)
  PROVE  /\ \A k \in DOMAIN storage : storage'[k] = storage[k] /\ k[1] # u /\ (Restorable(k)' <=> Restorable(k))
         /\ \A k \in Mine(storage, t) :
              storage'[<<u, k[2], k[3]>>] = storage[k] /\ (Restorable(<<u, k[2], k[3]>>)' <=> Restorable(k))
         /\ \A j : j \in DOMAIN storage' <=>
                     j \in DOMAIN storage \/ (j \in Key /\ j[1] = u /\ <<t, j[2], j[3]>> \in DOMAIN storage)
<1>0. HistInv'
  BY CopyKeeps
<1>1. t # u /\ IsCopy(storage', storage, t, u) /\ IsCopy(blobs', blobs, t, u)
  BY CopyFacts
<1>2. Mine(storage, u) = {} /\ Mine(blobs, u) = {}
  BY DEF CopyThread
<1>3. DOMAIN storage \subseteq Key /\ DOMAIN blobs \subseteq BlobKey
  BY DEF HistInv, Shape
<1>4. \A k \in DOMAIN storage : k[1] # u /\ k[1] \in Thread /\ k[2] \in Ns /\ k[3] \in Id /\ k = <<k[1], k[2], k[3]>>
  BY <1>2, <1>3, KeyParts DEF Mine
<1>5. \A b \in DOMAIN blobs : b[1] # u /\ b = <<b[1], b[2], b[3], b[4]>>
  BY <1>2, <1>3, BlobParts DEF Mine
<1>6. /\ \A k \in Mine(storage, t) : Moved(k, u) = <<u, k[2], k[3]>>
      /\ \A b \in Mine(blobs, t) : Moved(b, u) = <<u, b[2], b[3], b[4]>>
  BY <1>3, MovedKey, MovedBlob DEF Mine
<1>7. ASSUME NEW n, NEW p
      PROVE  /\ <<u, n, p>> \in DOMAIN storage' <=> <<t, n, p>> \in DOMAIN storage
             /\ <<t, n, p>> \in DOMAIN storage => storage'[<<u, n, p>>] = storage[<<t, n, p>>]
  <2> DEFINE j == <<u, n, p>>
             i == <<t, n, p>>
  <2>1. j \notin DOMAIN storage
    BY <1>4
  <2>2. ASSUME i \in DOMAIN storage PROVE j \in DOMAIN storage' /\ storage'[j] = storage[i]
    <3>1. i \in Mine(storage, t)
      BY <2>2 DEF Mine
    <3>2. Moved(i, u) = j
      BY <1>6, <3>1
    <3> QED BY <1>1, <3>1, <3>2 DEF IsCopy, Copies
  <2>3. ASSUME j \in DOMAIN storage' PROVE i \in DOMAIN storage
    <3>1. PICK k \in Mine(storage, t) : j = Moved(k, u)
      BY <1>1, <2>1, <2>3 DEF IsCopy, Copies
    <3>2. j = <<u, k[2], k[3]>>
      BY <1>6, <3>1
    <3>3. k = <<t, n, p>>
      BY <1>4, <3>2 DEF Mine
    <3> QED BY <3>3 DEF Mine
  <2> QED BY <2>2, <2>3
<1>8. ASSUME NEW n, NEW ch, NEW v PROVE SameBlob(<<u, n, ch, v>>, <<t, n, ch, v>>)
  <2> DEFINE d == <<u, n, ch, v>>
             b == <<t, n, ch, v>>
  <2>1. d \notin DOMAIN blobs
    BY <1>5
  <2>2. ASSUME b \in DOMAIN blobs PROVE d \in DOMAIN blobs' /\ blobs'[d] = blobs[b]
    <3>1. b \in Mine(blobs, t)
      BY <2>2 DEF Mine
    <3>2. Moved(b, u) = d
      BY <1>6, <3>1
    <3> QED BY <1>1, <3>1, <3>2 DEF IsCopy, Copies
  <2>3. ASSUME d \in DOMAIN blobs' PROVE b \in DOMAIN blobs
    <3>1. PICK c \in Mine(blobs, t) : d = Moved(c, u)
      BY <1>1, <2>1, <2>3 DEF IsCopy, Copies
    <3>2. d = <<u, c[2], c[3], c[4]>>
      BY <1>6, <3>1
    <3>3. c = <<t, n, ch, v>>
      BY <1>5, <3>2 DEF Mine
    <3> QED BY <3>3 DEF Mine
  <2> QED BY <2>2, <2>3 DEF SameBlob
<1>9. ASSUME NEW x PROVE x[1] # u => (x \in DOMAIN storage' <=> x \in DOMAIN storage) /\ SameBlob(x, x)
  <2>1. \A y \in Copies(storage, t, u) : y[1] = u
    BY <1>6 DEF Copies
  <2>2. \A y \in Copies(blobs, t, u) : y[1] = u
    BY <1>6 DEF Copies
  <2> QED BY <1>1, <2>1, <2>2 DEF IsCopy, SameBlob
<1>10. \A k \in DOMAIN storage : storage'[k] = storage[k]
  BY <1>1 DEF IsCopy
<1>11. ASSUME NEW k \in DOMAIN storage PROVE Alike(k, k)
  <2>1. ASSUME NEW ch \in DOMAIN storage[k].versions, NEW b, b = <<k[1], k[2], ch, storage[k].versions[ch]>> PROVE SameBlob(b, b)
    <3>1. b[1] # u
      BY <1>4, <2>1
    <3> QED BY <1>9, <3>1
  <2> QED BY <1>10, <2>1 DEF Alike
<1>12. ASSUME NEW k \in Mine(storage, t) PROVE Alike(<<u, k[2], k[3]>>, k)
  <2> DEFINE j == <<u, k[2], k[3]>>
  <2>1. k \in DOMAIN storage /\ k[1] = t /\ k = <<t, k[2], k[3]>>
    BY <1>4 DEF Mine
  <2>2. storage'[j] = storage[k]
    BY <1>7, <2>1
  <2>3. ASSUME NEW ch \in DOMAIN storage[k].versions
        PROVE  SameBlob(<<j[1], j[2], ch, storage[k].versions[ch]>>, <<k[1], k[2], ch, storage[k].versions[ch]>>)
    BY <1>8, <2>1
  <2> QED BY <2>2, <2>3 DEF Alike
<1>13. MaxId \in 0..MaxId
  BY BoundsAssumption
<1>14. ASSUME NEW v \in Thread, NEW n \in Ns, v # u PROVE \A p \in 0..MaxId : Lost(v, n)'[p] = Lost(v, n)[p]
  <2>1. ASSUME NEW p \in 1..MaxId
        PROVE  /\ <<v, n, p>> \in DOMAIN storage' <=> <<v, n, p>> \in DOMAIN storage
               /\ <<v, n, p>> \in DOMAIN storage => Alike(<<v, n, p>>, <<v, n, p>>)
    BY <1>9, <1>11, <1>14
  <2>2. \A p \in 0..MaxId : p <= MaxId => Lost(v, n)'[p] = Lost(v, n)[p]
    BY <1>0, <1>13, <2>1, LostAlike
  <2> QED BY <2>2, BoundsAssumption
<1>15. ASSUME NEW n \in Ns PROVE \A p \in 0..MaxId : Lost(u, n)'[p] = Lost(t, n)[p]
  <2>1. ASSUME NEW p \in 1..MaxId
        PROVE  /\ <<u, n, p>> \in DOMAIN storage' <=> <<t, n, p>> \in DOMAIN storage
               /\ <<t, n, p>> \in DOMAIN storage => Alike(<<u, n, p>>, <<t, n, p>>)
    <3>1. ASSUME <<t, n, p>> \in DOMAIN storage PROVE Alike(<<u, n, p>>, <<t, n, p>>)
      <4> DEFINE k == <<t, n, p>>
      <4>1. k \in Mine(storage, t) /\ k[2] = n /\ k[3] = p
        BY <3>1 DEF Mine
      <4> HIDE DEF k
      <4>2. Alike(<<u, n, p>>, k)
        BY <1>12, <4>1
      <4> QED BY <4>2 DEF k
    <3> QED BY <1>7, <3>1
  <2>2. \A p \in 0..MaxId : p <= MaxId => Lost(u, n)'[p] = Lost(t, n)[p]
    BY <1>0, <1>13, <2>1, LostAlike
  <2> QED BY <2>2, BoundsAssumption
<1>16. \A k \in DOMAIN storage : storage[k].parent \in 0..MaxId
  BY DEF HistInv, Shape, Entry
<1>17. ASSUME NEW k \in DOMAIN storage PROVE Restorable(k)' <=> Restorable(k)
  <2>1. Lost(k[1], k[2])'[storage[k].parent] = Lost(k[1], k[2])[storage[k].parent]
    BY <1>4, <1>14, <1>16
  <2> QED BY <1>11, <2>1, AlikeRestorable
<1>18. ASSUME NEW k \in Mine(storage, t)
       PROVE  storage'[<<u, k[2], k[3]>>] = storage[k] /\ (Restorable(<<u, k[2], k[3]>>)' <=> Restorable(k))
  <2>1. PICK j : j = <<u, k[2], k[3]>>
    OBVIOUS
  <2>2. k \in DOMAIN storage /\ k[1] = t /\ k[2] \in Ns /\ j[1] = u /\ j[2] = k[2]
    BY <1>4, <2>1 DEF Mine
  <2>3. Alike(j, k)
    BY <1>12, <2>1
  <2>4. Lost(j[1], j[2])'[storage[k].parent] = Lost(k[1], k[2])[storage[k].parent]
    BY <1>15, <1>16, <2>2
  <2>5. Restorable(j)' <=> Restorable(k)
    BY <2>2, <2>3, <2>4, AlikeRestorable
  <2> QED BY <2>1, <2>3, <2>5 DEF Alike
<1>19. ASSUME NEW j
       PROVE  j \in DOMAIN storage' <=>
                j \in DOMAIN storage \/ (j \in Key /\ j[1] = u /\ <<t, j[2], j[3]>> \in DOMAIN storage)
  <2>1. CASE j \in Key /\ j[1] = u
    <3>1. j = <<u, j[2], j[3]>>
      BY <2>1, KeyParts
    <3>2. j \in DOMAIN storage' <=> <<t, j[2], j[3]>> \in DOMAIN storage
      BY <1>7, <3>1
    <3> QED BY <1>4, <2>1, <3>2
  <2>2. CASE j \notin Key
    <3>1. DOMAIN storage' \subseteq Key
      BY <1>0 DEF HistInv, Shape
    <3> QED BY <1>3, <2>2, <3>1
  <2>3. CASE j[1] # u
    BY <1>9, <2>3
  <2> QED BY <2>1, <2>2, <2>3
<1> QED BY <1>4, <1>10, <1>17, <1>18, <1>19

-----------------------------------------------------------------------------
(* The refinement of CheckpointHistory.                                    *)

Brief(e) == [parent |-> e.parent, run |-> e.run]
Entries == [k \in DOMAIN storage |-> Brief(storage[k])]
Live == {k \in DOMAIN storage : Restorable(k)}

LEMMA EntriesFacts ==
  /\ DOMAIN Entries = DOMAIN storage /\ \A k \in DOMAIN storage : Entries[k] = Brief(storage[k])
  /\ DOMAIN Entries' = DOMAIN storage' /\ \A k \in DOMAIN storage' : Entries'[k] = Brief(storage'[k])
  /\ \A k : k \in Live <=> k \in DOMAIN storage /\ Restorable(k)
  /\ \A k : k \in Live' <=> k \in DOMAIN storage' /\ Restorable(k)'
  BY DEF Entries, Live

LEMMA PutRefines ==
  ASSUME HistInv, NEW r \in RunId, NEW ns \in Ns, NEW in \in PutInput, Put(r, ns, in)
  PROVE  Abstract!Addition
<1>1. PICK k \in Key :
        /\ k \notin DOMAIN storage /\ DOMAIN storage' = DOMAIN storage \cup {k}
        /\ \A j \in DOMAIN storage : storage'[j] = storage[j] /\ (Restorable(j)' <=> Restorable(j))
        /\ LET p == storage'[k].parent
               m == <<k[1], k[2], p>>
           IN (p = 0 \/ (m \in DOMAIN storage /\ Restorable(m))) => Restorable(k)'
  BY PutHistory
<1>2. k \notin DOMAIN Entries /\ DOMAIN Entries' = DOMAIN Entries \cup {k}
  BY <1>1, EntriesFacts
<1>3. [x \in DOMAIN Entries |-> Entries'[x]] = Entries
  <2>1. \A x \in DOMAIN storage : Entries'[x] = Brief(storage[x])
    BY <1>1, EntriesFacts
  <2>2. DOMAIN Entries = DOMAIN storage
    BY EntriesFacts
  <2> QED BY <2>1, <2>2 DEF Entries
<1>4. Live \subseteq Live' /\ Live' \subseteq Live \cup {k}
  BY <1>1, EntriesFacts
<1>5. Entries'[k].parent = storage'[k].parent
  <2>1. Entries'[k] = Brief(storage'[k])
    BY <1>1, EntriesFacts
  <2> QED BY <2>1 DEF Brief
<1>6. (Entries'[k].parent = 0 \/ <<k[1], k[2], Entries'[k].parent>> \in Live) => k \in Live'
  BY <1>1, <1>5, EntriesFacts
<1>7. k \in Thread \X Ns \X (1..MaxId)
  BY DEF Key, Id
<1>8. Abstract!Put(k)
  BY <1>2, <1>3, <1>4, <1>6 DEF Abstract!Put, Abstract!Restrict, Entries, Live, Brief
<1>9. gaveUp' = {}
  BY DEF Put
<1> QED BY <1>7, <1>8, <1>9 DEF Abstract!Addition, Abstract!Key

LEMMA CopyRefines ==
  ASSUME HistInv, NEW t \in Thread, NEW u \in Thread, CopyThread(t, u)
  PROVE  Abstract!Addition
<1>1. /\ \A k \in DOMAIN storage : storage'[k] = storage[k] /\ k[1] # u /\ (Restorable(k)' <=> Restorable(k))
      /\ \A k \in Mine(storage, t) :
           storage'[<<u, k[2], k[3]>>] = storage[k] /\ (Restorable(<<u, k[2], k[3]>>)' <=> Restorable(k))
      /\ \A j : j \in DOMAIN storage' <=>
                  j \in DOMAIN storage \/ (j \in Key /\ j[1] = u /\ <<t, j[2], j[3]>> \in DOMAIN storage)
  BY CopyHistory
<1> DEFINE orig(j) == <<t, j[2], j[3]>>
           copies(ks) == {j \in Thread \X Ns \X (1..MaxId) : j[1] = u /\ orig(j) \in ks}
           D == DOMAIN Entries \cup copies(DOMAIN Entries)
           f == [j \in D |-> IF j[1] = u THEN Entries[orig(j)] ELSE Entries[j]]
<1>2. Key = Thread \X Ns \X (1..MaxId)
  BY DEF Key, Id
<1>3. D = DOMAIN storage'
  <2>1. \A j : j \in D <=> j \in DOMAIN storage \/ (j \in Key /\ j[1] = u /\ orig(j) \in DOMAIN storage)
    BY <1>2, EntriesFacts
  <2> HIDE DEF D
  <2> QED BY <1>1, <2>1
<1>4. ASSUME NEW j \in DOMAIN storage', j[1] = u
      PROVE  /\ orig(j) \in DOMAIN storage /\ storage'[j] = storage[orig(j)]
             /\ Restorable(j)' <=> Restorable(orig(j))
  <2>1. j \in Key /\ orig(j) \in DOMAIN storage
    BY <1>1, <1>4
  <2>2. j = <<u, j[2], j[3]>>
    BY <1>4, <2>1, KeyParts
  <2>3. PICK k : k = orig(j)
    OBVIOUS
  <2>4. k \in Mine(storage, t) /\ <<u, k[2], k[3]>> = j
    BY <2>1, <2>2, <2>3 DEF Mine
  <2> QED BY <1>1, <2>1, <2>3, <2>4
<1>5. ASSUME NEW j \in DOMAIN storage', j[1] # u
      PROVE  j \in DOMAIN storage /\ storage'[j] = storage[j] /\ (Restorable(j)' <=> Restorable(j))
  BY <1>1, <1>5
<1>6. ASSUME NEW j \in DOMAIN storage'
      PROVE  Brief(storage'[j]) = IF j[1] = u THEN Entries[orig(j)] ELSE Entries[j]
  <2>1. CASE j[1] = u
    BY <1>4, <2>1, EntriesFacts
  <2>2. CASE j[1] # u
    BY <1>5, <2>2, EntriesFacts
  <2> QED BY <2>1, <2>2
<1>7. Entries' = f
  <2>1. Entries' = [j \in DOMAIN storage' |-> Brief(storage'[j])]
    BY DEF Entries
  <2> QED BY <1>3, <1>6, <2>1
<1>8. Live' = Live \cup copies(Live)
  <2>1. \A j : j \in copies(Live) <=> j \in Key /\ j[1] = u /\ orig(j) \in Live
    BY <1>2
  <2>2. ASSUME NEW j PROVE j \in Live' <=> j \in Live \/ j \in copies(Live)
    <3> HIDE DEF copies
    <3>1. CASE j \notin DOMAIN storage'
      BY <1>1, <2>1, <3>1, EntriesFacts
    <3>2. CASE j \in DOMAIN storage' /\ j[1] = u
      <4>1. j \notin DOMAIN storage /\ j \in Key
        BY <1>1, <3>2
      <4> QED BY <1>4, <2>1, <3>2, <4>1, EntriesFacts
    <3>3. CASE j \in DOMAIN storage' /\ j[1] # u
      BY <1>5, <2>1, <3>3, EntriesFacts
    <3> QED BY <3>1, <3>2, <3>3
  <2> HIDE DEF copies
  <2> QED BY <2>2
<1>9. Abstract!Copy(t, u)
  BY <1>7, <1>8 DEF Abstract!Copy, Abstract!Key, Entries, Live, Brief
<1>10. Abstract!Of(u) = {}
  <2>1. \A k \in DOMAIN storage : k[1] # u
    BY <1>1
  <2> QED BY <2>1 DEF Abstract!Of
<1>11. gaveUp' = {}
  BY DEF CopyThread
<1> QED BY <1>9, <1>10, <1>11 DEF Abstract!Addition

\* A removal that leaves what was not given up, and its chain.
LEMMA GiveUpRefines ==
  ASSUME HistInv, HistInv', Shrinks, WholeRemoval, NEW ks,
         \A k \in DOMAIN storage \ ks : {k} \cup Chain(k) \subseteq DOMAIN storage'
  PROVE  Abstract!GiveUp(ks)
<1>1. \A k \in DOMAIN storage' : k \in DOMAIN storage /\ storage'[k] = storage[k]
  BY RemovalHistory
<1>2. DOMAIN Entries \ ks \subseteq DOMAIN Entries' /\ DOMAIN Entries' \subseteq DOMAIN Entries
  BY <1>1, EntriesFacts
<1>3. Entries' = [x \in DOMAIN Entries' |-> Entries[x]]
  <2>1. Entries' = [k \in DOMAIN storage' |-> Brief(storage'[k])]
    BY DEF Entries
  <2>2. \A k \in DOMAIN storage' : Entries[k] = Brief(storage'[k])
    BY <1>1, EntriesFacts
  <2>3. DOMAIN Entries' = DOMAIN storage'
    BY EntriesFacts
  <2> QED BY <2>1, <2>2, <2>3
<1>4. Live \ ks \subseteq Live'
  <2>1. ASSUME NEW k \in Live, k \notin ks PROVE k \in Live'
    <3>1. k \in DOMAIN storage /\ Restorable(k)
      BY EntriesFacts
    <3>2. k \in DOMAIN storage' /\ Chain(k) \subseteq DOMAIN storage'
      BY <2>1, <3>1
    <3>3. Restorable(k)'
      BY <3>1, <3>2, RemovalHistory
    <3> QED BY <3>2, <3>3, EntriesFacts
  <2> QED BY <2>1
<1>5. Live' \subseteq Live
  <2>1. ASSUME NEW k \in Live' PROVE k \in Live
    <3>1. k \in DOMAIN storage' /\ Restorable(k)'
      BY EntriesFacts
    <3>2. k \in DOMAIN storage /\ Restorable(k)
      BY <3>1, RemovalHistory
    <3> QED BY <3>2, EntriesFacts
  <2> QED BY <2>1
<1> QED BY <1>2, <1>3, <1>4, <1>5 DEF Abstract!GiveUp, Abstract!Restrict, Entries, Live, Brief

LEMMA RemovesRefine ==
  ASSUME HistInv, Removes
  PROVE  Abstract!Removal
<1>1. HistInv' /\ Shrinks /\ WholeRemoval
  BY RemovesShrinks, ShrinksKeep, RemovesWholly
<1>2. ASSUME NEW rs \in SUBSET RunId, DeleteForRuns(rs) PROVE Abstract!Removal
  <2>1. gaveUp' = Candidates(rs)
    BY <1>2 DEF DeleteForRuns
  <2>2. \A k \in DOMAIN storage \ gaveUp' : {k} \cup Chain(k) \subseteq DOMAIN storage'
    BY <1>2, <2>1, DeleteForRunsWhole
  <2>3. PICK ks : ks = gaveUp'
    OBVIOUS
  <2>4. Abstract!GiveUp(ks)
    BY <1>1, <2>2, <2>3, GiveUpRefines
  <2>5. Abstract!GiveUp(gaveUp')
    BY <2>3, <2>4 DEF Abstract!GiveUp
  <2>6. Abstract!OfRuns(rs) = Candidates(rs)
    BY DEF Abstract!OfRuns, Candidates
  <2> QED BY <2>1, <2>5, <2>6 DEF Abstract!Removal
<1>3. ASSUME NEW t \in Thread, Prune(t) PROVE Abstract!Removal
  <2>1. gaveUp' = Mine(storage, t) \ Latest(t)
    BY <1>3 DEF Prune
  <2>2. \A k \in DOMAIN storage \ gaveUp' : {k} \cup Chain(k) \subseteq DOMAIN storage'
    BY <1>3, <2>1, PruneWhole
  <2>3. PICK ks : ks = gaveUp'
    OBVIOUS
  <2>4. Abstract!GiveUp(ks)
    BY <1>1, <2>2, <2>3, GiveUpRefines
  <2>5. Abstract!GiveUp(gaveUp')
    BY <2>3, <2>4 DEF Abstract!GiveUp
  <2>6. Abstract!Older(t) = Mine(storage, t) \ Latest(t)
    <3>1. \A k \in DOMAIN storage : k[3] \in Int
      BY KeyParts DEF HistInv, Shape
    <3>2. \A j, k \in DOMAIN storage : j[3] > k[3] <=> ~ (j[3] <= k[3])
      BY <3>1
    <3>3. Abstract!Older(t) = {k \in DOMAIN storage : k[1] = t /\ \E j \in DOMAIN storage : j[1] = t /\ j[2] = k[2] /\ j[3] > k[3]}
      BY DEF Abstract!Older
    <3>4. \A k : k \in Mine(storage, t) \ Latest(t) <=>
                   k \in DOMAIN storage /\ k[1] = t /\ \E j \in DOMAIN storage : j[1] = t /\ j[2] = k[2] /\ ~ (j[3] <= k[3])
      BY DEF Mine, Latest, Stored
    <3> QED BY <3>2, <3>3, <3>4
  <2> QED BY <2>1, <2>5, <2>6 DEF Abstract!Removal
<1>4. ASSUME NEW t \in Thread, DeleteThread(t) PROVE Abstract!Removal
  <2>1. gaveUp' = Mine(storage, t)
    BY <1>4 DEF DeleteThread
  <2>2. \A k \in DOMAIN storage \ gaveUp' : {k} \cup Chain(k) \subseteq DOMAIN storage'
    BY <1>4, <2>1, DeleteThreadWhole
  <2>3. PICK ks : ks = gaveUp'
    OBVIOUS
  <2>4. Abstract!GiveUp(ks)
    BY <1>1, <2>2, <2>3, GiveUpRefines
  <2>5. Abstract!GiveUp(gaveUp')
    BY <2>3, <2>4 DEF Abstract!GiveUp
  <2>6. Abstract!Of(t) = Mine(storage, t)
    BY DEF Abstract!Of, Mine
  <2> QED BY <2>1, <2>5, <2>6 DEF Abstract!Removal
<1>5. CASE Clear
  <2>1. gaveUp' = DOMAIN storage
    BY <1>5 DEF Clear
  <2>2. PICK ks : ks = gaveUp'
    OBVIOUS
  <2>3. Abstract!GiveUp(ks)
    BY <1>1, <2>1, <2>2, GiveUpRefines
  <2>4. Abstract!GiveUp(gaveUp')
    BY <2>2, <2>3 DEF Abstract!GiveUp
  <2> QED BY <2>1, <2>4 DEF Abstract!Removal
<1> QED BY <1>2, <1>3, <1>4, <1>5 DEF Removes

LEMMA HistoryRefines ==
  ASSUME HistInv, [Next]_vars
  PROVE  [Abstract!Next]_<<Entries, Live, gaveUp>>
<1>1. ASSUME UNCHANGED <<storage, blobs>> PROVE Entries' = Entries /\ Live' = Live
  <2>1. \A k : Snapshots(k)' = Snapshots(k)
    BY <1>1 DEF Snapshots, Materialized
  <2>2. \A k : NeededChannels(k)' = NeededChannels(k)
    BY <1>1, <2>1 DEF NeededChannels
  <2>3. \A t, ns : Lost(t, ns)' = Lost(t, ns)
    BY <1>1, <2>1 DEF Lost
  <2>4. \A k : Restorable(k)' <=> Restorable(k)
    BY <1>1, <2>2, <2>3 DEF Restorable
  <2> QED BY <1>1, <2>4 DEF Entries, Live
<1>2. ASSUME UNCHANGED <<storage, blobs>>, gaveUp' = {} PROVE Abstract!Next
  BY <1>1, <1>2 DEF Abstract!Next, Entries, Live, Brief
<1>3. ASSUME NEW r \in RunId, NEW t \in Thread, Load(r, t) PROVE Abstract!Next
  BY <1>2, <1>3 DEF Load
<1>4. ASSUME NEW r \in RunId, NEW ns \in Ns, PutWrites(r, ns) PROVE Abstract!Next
  BY <1>2, <1>4 DEF PutWrites
<1>5. CASE UNCHANGED vars
  BY <1>1, <1>5 DEF vars
<1>6. CASE Removes
  BY <1>6, RemovesRefine DEF Abstract!Next
<1>7. ASSUME NEW r \in RunId, NEW ns \in Ns, NEW in \in PutInput, Put(r, ns, in) PROVE Abstract!Next
  BY <1>7, PutRefines DEF Abstract!Next
<1>8. ASSUME NEW t \in Thread, NEW u \in Thread, CopyThread(t, u) PROVE Abstract!Next
  BY <1>8, CopyRefines DEF Abstract!Next
<1> QED BY <1>3, <1>4, <1>5, <1>6, <1>7, <1>8, NextCases

\* The built-in checkpointer implements CheckpointHistory (checkpoint.py, put,
\* delete_for_runs and prune; ops.py, Threads.copy): no removal for other runs,
\* no pruning, no copy and no later write makes a checkpoint the caller still
\* holds impossible to restore, and the child of a restorable checkpoint is
\* restorable.
THEOREM HistoryAlwaysKept == Spec => HistoryKept
<1>1. Init => Abstract!Init
  <2> SUFFICES ASSUME Init PROVE Abstract!Init
    OBVIOUS
  <2>1. DOMAIN storage = {} /\ gaveUp = {}
    BY DEF Init
  <2> QED BY <2>1 DEF Abstract!Init
<1>2. HistInv /\ [Next]_vars => [Abstract!Next]_<<Entries, Live, gaveUp>>
  BY HistoryRefines
<1> QED BY <1>1, <1>2, HistInvariant, PTL DEF Spec, HistoryKept, Abstract!Spec, Entries, Live, Brief
=============================================================================
