---------------------------- MODULE StoreTTLProofs ----------------------------
(***************************************************************************)
(* Proofs about StoreTTL, for any keys, clients and requests: items, TTL   *)
(* records, vectors and sizes go together, and the store implements        *)
(* ExpiringMap.                                                            *)
(***************************************************************************)
EXTENDS StoreTTL, FiniteSetTheorems, WellFoundedInduction, TLAPS

(* Sums over finite sets.                                                  *)

\* Every non-empty set of numbers has a least element.
LEMMA LeastExists ==
  ASSUME NEW S, S \subseteq Nat, S # {}
  PROVE  \E n \in S : \A m \in S : n <= m
<1> DEFINE R == {p \in Nat \X Nat : p[1] < p[2]}
<1>1. IsWellFoundedOn(R, Nat)
  BY NatLessThanWellFounded DEF OpToRel
<1>2. ASSUME NEW m \in Nat, NEW n \in Nat, <<m, n>> \notin R PROVE n <= m
  BY <1>2
<1> HIDE DEF R
<1>3. \E n \in S : \A m \in S : <<m, n>> \notin R
  BY <1>1, WFMin
<1> QED BY <1>2, <1>3

\* Induction on the subsets of a finite set: every subset is in G when it is
\* as soon as it is with any one element less.
LEMMA SubsetInduction ==
  ASSUME NEW S, IsFiniteSet(S), NEW G,
         \A T \in SUBSET S : (\A x \in T : T \ {x} \in G) => T \in G
  PROVE  \A T \in SUBSET S : T \in G
<1> DEFINE bad == {T \in SUBSET S : T \notin G}
           N == {Cardinality(T) : T \in bad}
<1>1. \A T \in SUBSET S : IsFiniteSet(T) /\ Cardinality(T) \in Nat
  BY FS_Subset, FS_CardinalityType
<1> SUFFICES ASSUME bad # {} PROVE FALSE
  OBVIOUS
<1>2. N \subseteq Nat /\ N # {}
  BY <1>1
<1>3. PICK n \in N : \A m \in N : n <= m
  BY <1>2, LeastExists
<1>4. PICK T \in bad : Cardinality(T) = n
  BY <1>3
<1>5. PICK x \in T : T \ {x} \in bad
  BY <1>4
<1>6. Cardinality(T \ {x}) = n - 1
  BY <1>1, <1>4, FS_RemoveElement
<1>7. n - 1 \in N /\ n \in Nat
  BY <1>2, <1>5, <1>6
<1> QED BY <1>3, <1>7

\* The recursion behind SumFunctionOnSet.
Pick(s) == CHOOSE x \in s : TRUE
Iterates(it, g, D) ==
  it = [s \in D |-> IF s = {} THEN 0 ELSE g[Pick(s)] + it[s \ {Pick(s)}]]

LEMMA SumForm ==
  ASSUME NEW g, NEW S
  PROVE SumFunctionOnSet(g, S) = (CHOOSE it : Iterates(it, g, SUBSET S))[S]
  BY DEF SumFunctionOnSet, FoldFunctionOnSet, MapThenFoldSet, Iterates, Pick

LEMMA Induction ==
  ASSUME NEW S, 0 \in S, \A n \in Nat : n \in S => n + 1 \in S
  PROVE  Nat \subseteq S
<1> DEFINE T == Nat \ S
<1>1. SUFFICES ASSUME T # {} PROVE FALSE
  OBVIOUS
<1>2. PICK n \in T : \A m \in T : n <= m
  <2> HIDE DEF T
  <2>1. T \subseteq Nat
    BY DEF T
  <2> QED BY <1>1, <2>1, LeastExists
<1>3. n # 0 /\ n - 1 \in Nat /\ n - 1 \in S
  BY <1>2
<1> QED BY <1>2, <1>3

LEMMA IterationExists ==
  ASSUME NEW g, NEW S, IsFiniteSet(S)
  PROVE  \E it : Iterates(it, g, SUBSET S)
<1> DEFINE U(n) == {s \in SUBSET S : Cardinality(s) <= n}
           B == {n \in Nat : \E it : Iterates(it, g, U(n))}
           Step(it, s) == IF s = {} THEN 0 ELSE g[Pick(s)] + it[s \ {Pick(s)}]
<1>1. \A s \in SUBSET S : IsFiniteSet(s) /\ Cardinality(s) \in Nat
  BY FS_Subset, FS_CardinalityType
<1>2. ASSUME NEW s \in SUBSET S, s # {}
      PROVE  Pick(s) \in s /\ Cardinality(s \ {Pick(s)}) = Cardinality(s) - 1 /\ s \ {Pick(s)} \in SUBSET S
  <2>1. Pick(s) \in s
    BY <1>2 DEF Pick
  <2> QED BY <1>1, <2>1, FS_RemoveElement
<1>3. 0 \in B
  <2>1. ASSUME NEW s \in U(0) PROVE s = {}
    <3>1. Cardinality(s) = 0
      BY <1>1
    <3> QED BY <1>1, <3>1, FS_EmptySet
  <2> HIDE DEF U
  <2>2. Iterates([s \in U(0) |-> 0], g, U(0))
    BY <2>1 DEF Iterates
  <2> QED BY <2>2
<1>4. ASSUME NEW n \in Nat, n \in B PROVE n + 1 \in B
  <2>1. PICK it : Iterates(it, g, U(n))
    BY <1>4
  <2> DEFINE next == [s \in U(n + 1) |-> Step(it, s)]
  <2>2. ASSUME NEW s \in U(n + 1), s # {} PROVE s \ {Pick(s)} \in U(n)
    BY <1>1, <1>2, <2>2
  <2>3. \A s \in U(n) : s \in U(n + 1)
    BY <1>1
  <2> HIDE DEF U
  <2>4. \A s \in U(n) : next[s] = it[s]
    BY <2>1, <2>3 DEF Iterates
  <2>5. \A s \in U(n + 1) : Step(it, s) = Step(next, s)
    BY <2>2, <2>4
  <2>6. next = [s \in U(n + 1) |-> Step(next, s)]
    <3> DEFINE nx == next
    <3>1. nx = [s \in U(n + 1) |-> Step(it, s)]
      OBVIOUS
    <3> HIDE DEF nx
    <3>2. \A s \in U(n + 1) : Step(it, s) = Step(nx, s)
      BY <2>5 DEF nx
    <3> HIDE DEF Step
    <3>3. nx = [s \in U(n + 1) |-> Step(nx, s)]
      BY <3>1, <3>2
    <3> QED BY <3>3 DEF nx
  <2> HIDE DEF next
  <2>7. Iterates(next, g, U(n + 1))
    BY <2>6 DEF Iterates
  <2> QED BY <2>7
<1>5. Cardinality(S) \in B
  <2> HIDE DEF B
  <2> QED BY <1>1, <1>3, <1>4, Induction
<1>6. U(Cardinality(S)) = SUBSET S
  BY FS_Subset
<1> HIDE DEF U
<1> QED BY <1>5, <1>6

LEMMA SumIterates ==
  ASSUME NEW g, NEW S, IsFiniteSet(S)
  PROVE  \E it : Iterates(it, g, SUBSET S) /\ SumFunctionOnSet(g, S) = it[S]
  BY IterationExists, SumForm

\* The values of the recursion do not depend on the set it is meant for.
LEMMA IterationsAgree ==
  ASSUME NEW g, NEW S, NEW T, IsFiniteSet(T), T \subseteq S,
         NEW i, NEW j, Iterates(i, g, SUBSET S), Iterates(j, g, SUBSET T)
  PROVE  i[T] = j[T]
<1> DEFINE G == {s \in SUBSET T : i[s] = j[s]}
<1>1. ASSUME NEW s \in SUBSET T, \A x \in s : s \ {x} \in G PROVE s \in G
  <2>0. i[s] = (IF s = {} THEN 0 ELSE g[Pick(s)] + i[s \ {Pick(s)}]) /\ j[s] = IF s = {} THEN 0 ELSE g[Pick(s)] + j[s \ {Pick(s)}]
    <3>1. s \in SUBSET S
      OBVIOUS
    <3> QED BY <3>1 DEF Iterates
  <2>1. CASE s = {}
    BY <2>0, <2>1
  <2>2. CASE s # {}
    <3>1. Pick(s) \in s
      BY <2>2 DEF Pick
    <3>2. i[s \ {Pick(s)}] = j[s \ {Pick(s)}]
      BY <1>1, <3>1
    <3> QED BY <2>0, <3>2
  <2> QED BY <2>1, <2>2
<1> HIDE DEF G
<1>2. T \in G
  BY <1>1, SubsetInduction
<1> QED BY <1>2 DEF G

LEMMA SumStep ==
  ASSUME NEW g, NEW S, IsFiniteSet(S), S # {}
  PROVE  Pick(S) \in S /\ SumFunctionOnSet(g, S) = g[Pick(S)] + SumFunctionOnSet(g, S \ {Pick(S)})
<1> DEFINE T == S \ {Pick(S)}
<1>1. Pick(S) \in S
  BY DEF Pick
<1>2. IsFiniteSet(T) /\ T \subseteq S
  BY FS_Subset
<1>3. PICK i : Iterates(i, g, SUBSET S) /\ SumFunctionOnSet(g, S) = i[S]
  BY SumIterates
<1>4. PICK j : Iterates(j, g, SUBSET T) /\ SumFunctionOnSet(g, T) = j[T]
  BY <1>2, SumIterates
<1>5. i[S] = g[Pick(S)] + i[T]
  BY <1>3 DEF Iterates
<1>6. i[T] = j[T]
  <2> HIDE DEF T
  <2> QED BY <1>2, <1>3, <1>4, IterationsAgree
<1> QED BY <1>1, <1>3, <1>4, <1>5, <1>6

LEMMA SumEmpty == ASSUME NEW g PROVE SumFunctionOnSet(g, {}) = 0
<1>1. PICK i : Iterates(i, g, SUBSET {}) /\ SumFunctionOnSet(g, {}) = i[{}]
  BY FS_EmptySet, SumIterates
<1> QED BY <1>1 DEF Iterates

LEMMA SumInt ==
  ASSUME NEW g, NEW S, IsFiniteSet(S), \A x \in S : g[x] \in Int
  PROVE  SumFunctionOnSet(g, S) \in Int
<1> DEFINE G == {s \in SUBSET S : SumFunctionOnSet(g, s) \in Int}
<1>1. ASSUME NEW s \in SUBSET S, \A x \in s : s \ {x} \in G PROVE s \in G
  <2>1. CASE s = {}
    BY <2>1, SumEmpty
  <2>2. CASE s # {}
    <3>1. Pick(s) \in s /\ SumFunctionOnSet(g, s) = g[Pick(s)] + SumFunctionOnSet(g, s \ {Pick(s)})
      BY <2>2, FS_Subset, SumStep
    <3>2. SumFunctionOnSet(g, s \ {Pick(s)}) \in Int
      BY <1>1, <3>1
    <3> QED BY <3>1, <3>2
  <2> QED BY <2>1, <2>2
<1> HIDE DEF G
<1>2. \A T \in SUBSET S : T \in G
  BY <1>1, SubsetInduction
<1> QED BY <1>2 DEF G

\* Any element can be taken out of a sum.
LEMMA SumOut ==
  ASSUME NEW g, NEW S, IsFiniteSet(S), \A x \in S : g[x] \in Int, NEW y \in S
  PROVE  SumFunctionOnSet(g, S) = g[y] + SumFunctionOnSet(g, S \ {y})
<1> DEFINE Sm(s) == SumFunctionOnSet(g, s)
           G == {s \in SUBSET S : \A x \in s : Sm(s) = g[x] + Sm(s \ {x})}
<1>0. \A s \in SUBSET S : Sm(s) \in Int
  BY FS_Subset, SumInt
<1>1. ASSUME NEW s \in SUBSET S, \A x \in s : s \ {x} \in G PROVE s \in G
  <2>1. CASE s = {}
    BY <2>1
  <2>2. CASE s # {}
    <3> DEFINE p == Pick(s)
    <3>1. p \in s /\ Sm(s) = g[p] + Sm(s \ {p})
      BY <2>2, FS_Subset, SumStep
    <3> HIDE DEF Sm, p
    <3>2. ASSUME NEW x \in s, x # p PROVE Sm(s) = g[x] + Sm(s \ {x})
      <4> DEFINE r == (s \ {p}) \ {x}
      <4>1. Sm(s \ {p}) = g[x] + Sm(r)
        BY <1>1, <3>1, <3>2
      <4>2. Sm(s \ {x}) = g[p] + Sm((s \ {x}) \ {p})
        BY <1>1, <3>1, <3>2
      <4>3. (s \ {x}) \ {p} = r
        OBVIOUS
      <4>4. Sm(r) \in Int /\ g[p] \in Int /\ g[x] \in Int
        BY <1>0, <3>1
      <4>5. Sm(s \ {x}) = g[p] + Sm(r)
        BY <4>2, <4>3
      <4> HIDE DEF r
      <4> QED BY <3>1, <4>1, <4>4, <4>5
    <3> QED BY <3>1, <3>2
  <2> QED BY <2>1, <2>2
<1> HIDE DEF G, Sm
<1>2. \A T \in SUBSET S : T \in G
  BY <1>1, SubsetInduction
<1> QED BY <1>2 DEF G, Sm

\* A sum depends on the values at the elements only.
LEMMA SumEqual ==
  ASSUME NEW g, NEW h, NEW S, IsFiniteSet(S), \A x \in S : g[x] = h[x]
  PROVE  SumFunctionOnSet(g, S) = SumFunctionOnSet(h, S)
<1> DEFINE G == {s \in SUBSET S : SumFunctionOnSet(g, s) = SumFunctionOnSet(h, s)}
<1>1. ASSUME NEW s \in SUBSET S, \A x \in s : s \ {x} \in G PROVE s \in G
  <2>1. CASE s = {}
    BY <2>1, SumEmpty
  <2>2. CASE s # {}
    <3>1. Pick(s) \in s /\ SumFunctionOnSet(g, s) = g[Pick(s)] + SumFunctionOnSet(g, s \ {Pick(s)})
          /\ SumFunctionOnSet(h, s) = h[Pick(s)] + SumFunctionOnSet(h, s \ {Pick(s)})
      BY <2>2, FS_Subset, SumStep
    <3>2. SumFunctionOnSet(g, s \ {Pick(s)}) = SumFunctionOnSet(h, s \ {Pick(s)}) /\ g[Pick(s)] = h[Pick(s)]
      BY <1>1, <3>1
    <3> QED BY <3>1, <3>2
  <2> QED BY <2>1, <2>2
<1> HIDE DEF G
<1>2. \A T \in SUBSET S : T \in G
  BY <1>1, SubsetInduction
<1> QED BY <1>2 DEF G

\* The sum over two disjoint sets.
LEMMA SumUnion ==
  ASSUME NEW g, NEW A, NEW B, IsFiniteSet(A), IsFiniteSet(B), A \cap B = {},
         \A x \in A \cup B : g[x] \in Int
  PROVE  SumFunctionOnSet(g, A \cup B) = SumFunctionOnSet(g, A) + SumFunctionOnSet(g, B)
<1> DEFINE Sm(s) == SumFunctionOnSet(g, s)
           G == {s \in SUBSET B : Sm(A \cup s) = Sm(A) + Sm(s)}
<1>0. \A s \in SUBSET B : IsFiniteSet(s) /\ IsFiniteSet(A \cup s) /\ Sm(A \cup s) \in Int /\ Sm(s) \in Int
  <2>1. ASSUME NEW s \in SUBSET B PROVE IsFiniteSet(s) /\ IsFiniteSet(A \cup s)
    BY FS_Subset, FS_Union
  <2> QED BY <2>1, SumInt
<1>a. Sm(A) \in Int
  BY SumInt
<1>1. ASSUME NEW s \in SUBSET B, \A x \in s : s \ {x} \in G PROVE s \in G
  <2>1. CASE s = {}
    <3>1. Sm(s) = 0 /\ A \cup s = A
      BY <2>1, SumEmpty
    <3> HIDE DEF Sm
    <3>2. Sm(A) = Sm(A) + 0
      BY <1>a
    <3>3. Sm(A \cup s) = Sm(A) + Sm(s)
      BY <3>1, <3>2
    <3> QED BY <3>3
  <2>2. CASE s # {}
    <3>1. PICK x \in s : TRUE
      BY <2>2
    <3>2. Sm(s) = g[x] + Sm(s \ {x})
      <4>1. IsFiniteSet(s) /\ \A z \in s : g[z] \in Int
        BY <1>0
      <4> QED BY <4>1, SumOut
    <3>3. Sm(A \cup s) = g[x] + Sm((A \cup s) \ {x})
      <4> DEFINE As == A \cup s
      <4>1. IsFiniteSet(As) /\ (\A z \in As : g[z] \in Int) /\ x \in As
        BY <1>0
      <4> HIDE DEF As
      <4>2. Sm(As) = g[x] + Sm(As \ {x})
        BY <4>1, SumOut
      <4> QED BY <4>2 DEF As
    <3>4. (A \cup s) \ {x} = A \cup (s \ {x})
      OBVIOUS
    <3> HIDE DEF Sm
    <3>5. Sm(A \cup (s \ {x})) = Sm(A) + Sm(s \ {x})
      BY <1>1
    <3>6. g[x] \in Int /\ Sm(A) \in Int /\ Sm(s \ {x}) \in Int
      BY <1>0, <1>a
    <3>7. Sm(A \cup s) = g[x] + Sm(A \cup (s \ {x}))
      BY <3>3, <3>4
    <3>8. Sm(A \cup s) = Sm(A) + Sm(s)
      BY <3>2, <3>5, <3>6, <3>7
    <3> QED BY <3>8
  <2> QED BY <2>1, <2>2
<1> HIDE DEF G, Sm
<1>2. \A T \in SUBSET B : T \in G
  BY <1>1, SubsetInduction
<1> QED BY <1>2 DEF G, Sm

-----------------------------------------------------------------------------
(* The dictionaries.                                                       *)

Ttl == UNION {[ks -> Record] : ks \in SUBSET Key}
Sizes == UNION {[ks -> Int] : ks \in SUBSET Key}
Memory == [data : SUBSET Key, vectors : SUBSET Key, ttl : Ttl, sizes : Sizes, total : Int,
           loose : SUBSET Key]
Files == [data : SUBSET Key, vectors : SUBSET Key, ttl : Ttl]

\* A deadline was set at most now, for the minutes of the record.
Timely(ttl, t) == \A k \in DOMAIN ttl : ttl[k].expires <= t + ttl[k].minutes

\* Items, TTL records and sizes go together.
Whole(m, t) ==
  /\ m \in Memory /\ IsFiniteSet(m.data)
  /\ DOMAIN m.ttl \subseteq m.data /\ Timely(m.ttl, t)
  /\ DOMAIN m.sizes = m.data /\ \A k \in m.data \ m.loose : m.sizes[k] = ItemSize(m, k)
  /\ m.total = SumFunctionOnSet(m.sizes, m.data)

LEMMA TtlType ==
  ASSUME NEW f
  PROVE  /\ f \in Ttl => /\ DOMAIN f \subseteq Key /\ f \in [DOMAIN f -> Record]
                         /\ \A k \in DOMAIN f : f[k].expires \in Nat /\ f[k].minutes \in Nat
         /\ \A ks \in SUBSET Key : f \in [ks -> Record] => f \in Ttl
  BY DEF Ttl, Record

LEMMA SizesType ==
  ASSUME NEW f
  PROVE  /\ f \in Sizes => DOMAIN f \subseteq Key /\ f \in [DOMAIN f -> Int]
         /\ \A ks \in SUBSET Key : f \in [ks -> Int] => f \in Sizes
  BY DEF Sizes

\* A record that was refreshed has a deadline no earlier.
Refresh(f, ks, t) ==
  [k \in DOMAIN f |-> IF k \in ks THEN [expires |-> t + f[k].minutes, minutes |-> f[k].minutes] ELSE f[k]]

LEMMA RefreshFacts ==
  ASSUME NEW f \in Ttl, NEW t \in Nat, NEW ks, Timely(f, t)
  PROVE  LET g == Refresh(f, ks, t)
         IN  /\ g \in Ttl /\ DOMAIN g = DOMAIN f /\ Timely(g, t)
             /\ \A k \in DOMAIN f : g[k].expires \in Nat /\ g[k].expires >= f[k].expires
<1> DEFINE g == Refresh(f, ks, t)
<1>1. /\ DOMAIN f \subseteq Key /\ f \in [DOMAIN f -> Record]
      /\ \A k \in DOMAIN f : f[k].expires \in Nat /\ f[k].minutes \in Nat
  BY TtlType
<1>2. DOMAIN g = DOMAIN f
  BY DEF Refresh
<1>3. ASSUME NEW k \in DOMAIN f
      PROVE /\ g[k] \in Record /\ g[k].expires \in Nat /\ g[k].minutes = f[k].minutes
            /\ g[k].expires >= f[k].expires /\ g[k].expires <= t + g[k].minutes
  <2>1. CASE k \in ks
    <3>1. g[k] = [expires |-> t + f[k].minutes, minutes |-> f[k].minutes]
      BY <2>1 DEF Refresh
    <3>2. t + f[k].minutes \in Nat /\ f[k].minutes \in Nat /\ t + f[k].minutes >= f[k].expires
      BY <1>1 DEF Timely
    <3> QED BY <3>1, <3>2 DEF Record
  <2>2. CASE k \notin ks
    <3>1. g[k] = f[k]
      BY <2>2 DEF Refresh
    <3>2. f[k] \in Record /\ f[k].expires \in Nat /\ f[k].expires >= f[k].expires
      BY <1>1
    <3> QED BY <3>1, <3>2 DEF Timely
  <2> QED BY <2>1, <2>2
<1>4. g \in [DOMAIN f -> Record]
  BY <1>2, <1>3 DEF Refresh
<1> HIDE DEF g
<1>5. g \in Ttl
  BY <1>1, <1>4, TtlType
<1> QED BY <1>2, <1>3, <1>5 DEF Timely, g

LEMMA RefreshedFacts ==
  ASSUME NEW m, now \in Nat, Whole(m, now), NEW ks
  PROVE  LET r == Refreshed(m, ks)
         IN  Whole(r, now) /\ r.data = m.data /\ r.ttl = Refresh(m.ttl, ks, now) /\ r.vectors = m.vectors
<1> DEFINE g == Refresh(m.ttl, ks, now)
           r == [m EXCEPT !.ttl = g]
<1>1. m \in Memory /\ m.ttl \in Ttl /\ Timely(m.ttl, now)
  BY DEF Whole, Memory
<1>2. Refreshed(m, ks) = r
  BY DEF Refreshed, Refresh
<1>3. g \in Ttl /\ DOMAIN g = DOMAIN m.ttl /\ Timely(g, now)
  BY <1>1, RefreshFacts
<1> HIDE DEF g
<1>4. r \in Memory /\ r.data = m.data /\ r.vectors = m.vectors /\ r.ttl = g /\ r.sizes = m.sizes /\ r.total = m.total
      /\ r.loose = m.loose
  BY <1>1, <1>3 DEF Memory
<1> HIDE DEF r
<1>5. Whole(r, now)
  BY <1>3, <1>4 DEF Whole, ItemSize
<1> QED BY <1>2, <1>4, <1>5 DEF g

\* The sizes of r are those of the items of m, and their sum is the total.
Recounted(r, m, ks) ==
  /\ r \in Memory /\ r.data = m.data /\ r.vectors = m.vectors /\ r.ttl = m.ttl
  /\ r.loose = m.loose \ ks
  /\ DOMAIN r.sizes = m.data /\ \A k \in m.data \ r.loose : r.sizes[k] = ItemSize(m, k)
  /\ r.total = SumFunctionOnSet(r.sizes, m.data)

LEMMA TrackedFacts ==
  ASSUME NEW m \in Memory, IsFiniteSet(m.data), NEW ks, ks \subseteq Key, IsFiniteSet(ks),
         IsFiniteSet(DOMAIN m.sizes), DOMAIN m.sizes \ ks = m.data \ ks,
         \A k \in m.data \ (ks \cup m.loose) : m.sizes[k] = ItemSize(m, k),
         m.total = SumFunctionOnSet(m.sizes, DOMAIN m.sizes)
  PROVE  Recounted(Tracked(m, ks), m, ks)
<1> DEFINE f == m.sizes
           D == DOMAIN f
           A == m.data \ ks
           g == [k \in (D \ ks) \cup (ks \cap m.data) |-> IF k \in ks THEN ItemSize(m, k) ELSE f[k]]
           total == m.total + SumFunctionOnSet(g, ks \cap m.data) - SumFunctionOnSet(f, ks \cap D)
           r == [m EXCEPT !.sizes = g, !.total = total, !.loose = @ \ ks]
<1>1. Tracked(m, ks) = r
  BY DEF Tracked
<1>2. f \in Sizes /\ m.data \subseteq Key
  BY DEF Memory
<1>3. f \in [D -> Int]
  <2> HIDE DEF f
  <2> QED BY <1>2, SizesType
<1>4. (D \ ks) \cup (ks \cap m.data) = m.data /\ D \ ks = A
  BY DEF A
<1> HIDE DEF f, D
<1>5. g = [k \in m.data |-> IF k \in ks THEN ItemSize(m, k) ELSE f[k]]
  BY <1>4
<1> HIDE DEF g
<1>6. /\ \A k \in m.data : ItemSize(m, k) \in Int
      /\ \A k \in m.data \ (m.loose \ ks) : g[k] = ItemSize(m, k)
  BY <1>5 DEF f, ItemSize
<1>7. g \in [m.data -> Int] /\ DOMAIN g = m.data
  <2>1. \A k \in m.data \ ks : f[k] \in Int
    BY <1>3, <1>4
  <2> QED BY <1>5, <1>6, <2>1
<1>8. g \in Sizes
  BY <1>2, <1>7, SizesType
<1>9. IsFiniteSet(D) /\ IsFiniteSet(A) /\ IsFiniteSet(ks \cap D) /\ IsFiniteSet(ks \cap m.data)
  <2>1. IsFiniteSet(D)
    BY DEF D, f
  <2> QED BY <2>1, FS_Subset
<1>10. SumFunctionOnSet(f, D) = SumFunctionOnSet(f, A) + SumFunctionOnSet(f, ks \cap D)
  <2>1. D = A \cup (ks \cap D) /\ A \cap (ks \cap D) = {}
    BY <1>4
  <2>2. \A k \in A \cup (ks \cap D) : f[k] \in Int
    BY <1>3, <2>1
  <2> DEFINE B == ks \cap D
  <2> HIDE DEF A, B
  <2>3. SumFunctionOnSet(f, A \cup B) = SumFunctionOnSet(f, A) + SumFunctionOnSet(f, B)
    BY <1>9, <2>1, <2>2, SumUnion DEF B
  <2> QED BY <2>1, <2>3 DEF B
<1>11. SumFunctionOnSet(g, m.data) = SumFunctionOnSet(g, A) + SumFunctionOnSet(g, ks \cap m.data)
  <2>1. m.data = A \cup (ks \cap m.data) /\ A \cap (ks \cap m.data) = {}
    OBVIOUS
  <2>2. \A k \in A \cup (ks \cap m.data) : g[k] \in Int
    BY <1>7, <2>1
  <2> DEFINE B == ks \cap m.data
  <2> HIDE DEF A, B
  <2>3. SumFunctionOnSet(g, A \cup B) = SumFunctionOnSet(g, A) + SumFunctionOnSet(g, B)
    BY <1>9, <2>1, <2>2, SumUnion DEF B
  <2> QED BY <2>1, <2>3 DEF B
<1>12. SumFunctionOnSet(g, A) = SumFunctionOnSet(f, A)
  <2>1. \A k \in A : g[k] = f[k]
    BY <1>5
  <2> HIDE DEF A
  <2> QED BY <1>9, <2>1, SumEqual
<1>13. SumFunctionOnSet(f, A) \in Int /\ SumFunctionOnSet(f, ks \cap D) \in Int
       /\ SumFunctionOnSet(g, ks \cap m.data) \in Int
  <2>1. (\A k \in A : f[k] \in Int) /\ (\A k \in ks \cap D : f[k] \in Int) /\ \A k \in ks \cap m.data : g[k] \in Int
    BY <1>3, <1>4, <1>7
  <2> DEFINE B == ks \cap D
             C == ks \cap m.data
  <2> HIDE DEF A, B, C
  <2>2. SumFunctionOnSet(f, A) \in Int /\ SumFunctionOnSet(f, B) \in Int /\ SumFunctionOnSet(g, C) \in Int
    BY <1>9, <2>1, SumInt DEF B, C
  <2> QED BY <2>2 DEF B, C
<1>14. m.total = SumFunctionOnSet(f, D)
  BY DEF f, D
<1>15. total = SumFunctionOnSet(g, m.data) /\ total \in Int
  <2> HIDE DEF A
  <2> QED BY <1>10, <1>11, <1>12, <1>13, <1>14
<1> HIDE DEF total
<1>16. /\ r \in Memory /\ r.data = m.data /\ r.vectors = m.vectors /\ r.ttl = m.ttl
       /\ r.sizes = g /\ r.total = total /\ r.loose = m.loose \ ks
  BY <1>8, <1>15 DEF Memory
<1> HIDE DEF r
<1> QED BY <1>1, <1>6, <1>7, <1>15, <1>16 DEF Recounted

\* The puts of a request.
IsPuts(puts) == DOMAIN puts \subseteq Key /\ IsFiniteSet(DOMAIN puts) /\ \A k \in DOMAIN puts : IsPutOp(puts[k])

Minutes(put) == CHOOSE n \in put.ttl : TRUE
Stamp(put, t) == [expires |-> t + Minutes(put), minutes |-> Minutes(put)]
Deleted(puts) == {k \in DOMAIN puts : puts[k].del}
Timed(puts) == {k \in DOMAIN puts \ Deleted(puts) : puts[k].ttl # {}}

\* The TTL records after puts.
Stamped(f, puts, t) ==
  [k \in (DOMAIN f \ DOMAIN puts) \cup Timed(puts) |-> IF k \in Timed(puts) THEN Stamp(puts[k], t) ELSE f[k]]

LEMMA StampedFacts ==
  ASSUME NEW f \in Ttl, NEW t \in Nat, NEW puts, IsPuts(puts), Timely(f, t)
  PROVE  Stamped(f, puts, t) \in Ttl /\ Timely(Stamped(f, puts, t), t)
<1> DEFINE T == Timed(puts)
           D == (DOMAIN f \ DOMAIN puts) \cup T
           g == Stamped(f, puts, t)
<1>1. /\ DOMAIN f \subseteq Key /\ f \in [DOMAIN f -> Record]
      /\ \A k \in DOMAIN f : f[k].expires \in Nat /\ f[k].minutes \in Nat
  BY TtlType
<1>2. T \subseteq DOMAIN puts /\ \A k \in T : puts[k].ttl # {}
  BY DEF Timed
<1>3. ASSUME NEW k \in T PROVE Stamp(puts[k], t) \in Record
                               /\ Stamp(puts[k], t).expires <= t + Stamp(puts[k], t).minutes
  <2>1. puts[k].ttl \subseteq Nat /\ puts[k].ttl # {}
    BY <1>2 DEF IsPuts, IsPutOp
  <2>2. Minutes(puts[k]) \in Nat
    BY <2>1 DEF Minutes
  <2> QED BY <2>2 DEF Stamp, Record
<1>4. D \in SUBSET Key
  BY <1>1, <1>2 DEF IsPuts
<1>5. g = [k \in D |-> IF k \in T THEN Stamp(puts[k], t) ELSE f[k]]
  BY DEF Stamped
<1>6. ASSUME NEW k \in D PROVE g[k] \in Record /\ g[k].expires <= t + g[k].minutes
  <2>1. CASE k \in T
    BY <1>3, <1>5, <2>1
  <2>2. CASE k \notin T
    <3>1. k \in DOMAIN f /\ g[k] = f[k]
      BY <1>5, <2>2
    <3> QED BY <1>1, <3>1 DEF Timely
  <2> QED BY <2>1, <2>2
<1> HIDE DEF T, D, g
<1>7. g \in [D -> Record] /\ DOMAIN g = D
  BY <1>5, <1>6
<1>8. g \in Ttl
  BY <1>4, <1>7, TtlType
<1> QED BY <1>6, <1>7, <1>8 DEF Timely, g

\* _apply_put_ops keeps items, records and sizes together.
AfterPuts(r, m, puts) ==
  /\ Whole(r, now)
  /\ r.data = (m.data \cup DOMAIN puts) \ Deleted(puts)
  /\ r.ttl = Stamped(m.ttl, puts, now)

LEMMA AppliedFacts ==
  ASSUME NEW m, now \in Nat, Whole(m, now), NEW puts, IsPuts(puts)
  PROVE  AfterPuts(AppliedPuts(m, puts), m, puts)
<1> DEFINE ks == DOMAIN puts
           gone == Deleted(puts)
           data == (m.data \cup ks) \ gone
           vectors == (m.vectors \cup {k \in ks : puts[k].index}) \ gone
           ttl == Stamped(m.ttl, puts, now)
           n == [m EXCEPT !.data = data, !.vectors = vectors, !.ttl = ttl]
           r == Tracked(n, ks)
<1>1. m \in Memory /\ m.ttl \in Ttl /\ Timely(m.ttl, now) /\ IsFiniteSet(m.data)
      /\ m.data \subseteq Key /\ m.vectors \subseteq Key
  BY DEF Whole, Memory
<1>2. ks \subseteq Key /\ IsFiniteSet(ks) /\ gone \subseteq ks
  BY DEF IsPuts, Deleted
<1>3. AppliedPuts(m, puts) = r
  BY DEF AppliedPuts, Stamped, Stamp, Minutes, Timed, Deleted
<1>4. ttl \in Ttl /\ Timely(ttl, now)
  BY <1>1, StampedFacts
<1>5. data \subseteq Key /\ vectors \subseteq Key
  BY <1>1, <1>2
<1>6. IsFiniteSet(data)
  <2>1. IsFiniteSet(m.data \cup ks)
    BY <1>1, <1>2, FS_Union
  <2> QED BY <2>1, FS_Subset
<1>7. DOMAIN ttl \subseteq data
  <2>1. DOMAIN ttl = (DOMAIN m.ttl \ ks) \cup Timed(puts)
    BY DEF Stamped
  <2>2. DOMAIN m.ttl \subseteq m.data /\ Timed(puts) \subseteq ks \ gone
    BY DEF Whole, Timed
  <2> QED BY <1>2, <2>1, <2>2
<1>8. data \ ks = m.data \ ks /\ \A k \in data \ ks : k \in vectors <=> k \in m.vectors
  BY <1>2
<1> HIDE DEF gone, data, vectors, ttl
<1>9. n \in Memory /\ n.data = data /\ n.vectors = vectors /\ n.ttl = ttl /\ n.sizes = m.sizes /\ n.total = m.total
      /\ n.loose = m.loose
  BY <1>1, <1>4, <1>5 DEF Memory
<1> HIDE DEF n, ks
<1>10. /\ IsFiniteSet(DOMAIN n.sizes) /\ DOMAIN n.sizes \ ks = n.data \ ks
       /\ n.total = SumFunctionOnSet(n.sizes, DOMAIN n.sizes)
  BY <1>1, <1>8, <1>9 DEF Whole
<1>11. \A k \in n.data \ (ks \cup n.loose) : n.sizes[k] = ItemSize(n, k)
  BY <1>8, <1>9 DEF Whole, ItemSize
<1>12. Recounted(r, n, ks)
  BY <1>2, <1>6, <1>9, <1>10, <1>11, TrackedFacts
<1> HIDE DEF r
<1>13. Whole(r, now)
  BY <1>4, <1>6, <1>7, <1>9, <1>12 DEF Recounted, Whole, ItemSize
<1> QED BY <1>3, <1>9, <1>12, <1>13 DEF AfterPuts, Recounted, data, ttl, ks, gone

\* A put that raises over a bad TTL leaves items, records and sizes alone.
LEMMA EmbeddedFacts ==
  ASSUME NEW m, Whole(m, now), NEW puts, IsPuts(puts)
  PROVE  LET r == Embedded(m, puts) IN Whole(r, now) /\ r.data = m.data /\ r.ttl = m.ttl
<1> DEFINE ks == {k \in DOMAIN puts : puts[k].index}
           r == [m EXCEPT !.vectors = @ \cup ks, !.loose = @ \cup ks]
<1>1. Embedded(m, puts) = r
  BY DEF Embedded
<1>2. ks \subseteq Key /\ m \in Memory
  BY DEF IsPuts, Whole
<1> HIDE DEF ks
<1>3. /\ r \in Memory /\ r.data = m.data /\ r.ttl = m.ttl /\ r.sizes = m.sizes /\ r.total = m.total
      /\ r.vectors = m.vectors \cup ks /\ r.loose = m.loose \cup ks
  BY <1>2 DEF Memory
<1> HIDE DEF r
<1>4. \A k \in r.data \ r.loose : r.sizes[k] = ItemSize(r, k)
  BY <1>3 DEF Whole, ItemSize
<1>5. Whole(r, now)
  BY <1>3, <1>4 DEF Whole
<1> QED BY <1>1, <1>3, <1>5

\* sweep_ttl drops the items whose deadline has passed, with all that is theirs.
LEMMA SweptFacts ==
  ASSUME NEW m, Whole(m, now)
  PROVE  LET r == Swept(m)
             gone == Expired(m)
         IN  /\ Whole(r, now) /\ r.data = m.data \ gone
             /\ DOMAIN r.ttl = DOMAIN m.ttl \ gone /\ \A k \in DOMAIN r.ttl : r.ttl[k] = m.ttl[k]
<1> DEFINE gone == Expired(m)
           data == m.data \ gone
           f == m.sizes
           ttl == Restrict(m.ttl, DOMAIN m.ttl \ gone)
           g == Restrict(f, DOMAIN f \ gone)
           total == m.total - SumFunctionOnSet(f, gone \cap DOMAIN f)
           r == [data |-> data, vectors |-> m.vectors \ gone, ttl |-> ttl, sizes |-> g, total |-> total,
                loose |-> m.loose \ gone]
<1>1. /\ m \in Memory /\ m.ttl \in Ttl /\ Timely(m.ttl, now) /\ IsFiniteSet(m.data)
      /\ m.data \subseteq Key /\ m.vectors \subseteq Key /\ f \in Sizes
      /\ DOMAIN f = m.data /\ DOMAIN m.ttl \subseteq m.data
  BY DEF Whole, Memory
<1>2. Swept(m) = r
  BY DEF Swept
<1>3. f \in [m.data -> Int] /\ m.total = SumFunctionOnSet(f, m.data)
  BY <1>1, SizesType DEF Whole
<1>4. m.ttl \in [DOMAIN m.ttl -> Record] /\ DOMAIN m.ttl \subseteq Key
  BY <1>1, TtlType
<1> HIDE DEF gone
<1>5. /\ DOMAIN ttl = DOMAIN m.ttl \ gone /\ \A k \in DOMAIN ttl : ttl[k] = m.ttl[k]
      /\ ttl \in [DOMAIN m.ttl \ gone -> Record]
  BY <1>4 DEF Restrict
<1>6. /\ DOMAIN g = data /\ \A k \in data : g[k] = f[k]
      /\ g \in [data -> Int]
  BY <1>1, <1>3 DEF Restrict
<1> HIDE DEF ttl, g, f
<1>7. ttl \in Ttl /\ g \in Sizes
  <2>1. DOMAIN m.ttl \ gone \in SUBSET Key /\ data \in SUBSET Key
    BY <1>1, <1>4
  <2> QED BY <1>5, <1>6, <2>1, TtlType, SizesType
<1>8. Timely(ttl, now) /\ DOMAIN ttl \subseteq data
  BY <1>1, <1>5 DEF Timely
<1>9. total = SumFunctionOnSet(g, data) /\ total \in Int
  <2> DEFINE B == gone \cap m.data
  <2>1. m.data = data \cup B /\ data \cap B = {} /\ gone \cap DOMAIN f = B
    BY <1>1
  <2>2. IsFiniteSet(data) /\ IsFiniteSet(B)
    BY <1>1, FS_Subset
  <2>3. (\A k \in data \cup B : f[k] \in Int) /\ (\A k \in data : f[k] \in Int) /\ (\A k \in B : f[k] \in Int)
    BY <1>3, <2>1
  <2> HIDE DEF B, data
  <2>4. SumFunctionOnSet(f, data \cup B) = SumFunctionOnSet(f, data) + SumFunctionOnSet(f, B)
    BY <2>1, <2>2, <2>3, SumUnion
  <2>5. SumFunctionOnSet(g, data) = SumFunctionOnSet(f, data)
    BY <1>6, <2>2, SumEqual
  <2>6. SumFunctionOnSet(f, data) \in Int /\ SumFunctionOnSet(f, B) \in Int
    BY <2>2, <2>3, SumInt
  <2>7. m.total = SumFunctionOnSet(f, data) + SumFunctionOnSet(f, B)
    BY <1>3, <2>1, <2>4
  <2>8. total = m.total - SumFunctionOnSet(f, B)
    BY <2>1
  <2> HIDE DEF total
  <2> QED BY <2>5, <2>6, <2>7, <2>8
<1>10. IsFiniteSet(data)
  BY <1>1, FS_Subset
<1>11. \A k \in data \ (m.loose \ gone) : g[k] = ItemSize(r, k)
  <2>1. \A k \in data \ (m.loose \ gone) : f[k] = ItemSize(m, k)
    BY DEF Whole, f
  <2>2. \A k \in data : k \in m.vectors \ gone <=> k \in m.vectors
    OBVIOUS
  <2> HIDE DEF data, total
  <2> QED BY <1>6, <2>1, <2>2 DEF ItemSize
<1> HIDE DEF data, total
<1>12. /\ r \in Memory /\ r.data = data /\ r.ttl = ttl /\ r.sizes = g /\ r.total = total
       /\ r.loose = m.loose \ gone
  <2>1. data \subseteq Key /\ m.vectors \ gone \subseteq Key /\ m.loose \ gone \subseteq Key
    BY <1>1 DEF data, Memory
  <2> QED BY <1>7, <1>9, <2>1 DEF Memory
<1> HIDE DEF r
<1>13. Whole(r, now)
  BY <1>6, <1>8, <1>9, <1>10, <1>11, <1>12 DEF Whole
<1> QED BY <1>2, <1>5, <1>12, <1>13 DEF data, gone

\* What a new process finds in the files, written at different times.
LEMMA LoadedFacts ==
  ASSUME NEW files \in Files, IsFiniteSet(files.data), Timely(files.ttl, now)
  PROVE  LET r == Loaded(files)
         IN  /\ Whole(r, now) /\ r.data = files.data
             /\ DOMAIN r.ttl = DOMAIN files.ttl \cap files.data /\ \A k \in DOMAIN r.ttl : r.ttl[k] = files.ttl[k]
<1> DEFINE ttl == Restrict(files.ttl, DOMAIN files.ttl \cap files.data)
           m == [data |-> files.data, vectors |-> files.vectors, ttl |-> ttl, sizes |-> Empty, total |-> 0,
                loose |-> {}]
           r == Tracked(m, files.data)
<1>1. files.data \subseteq Key /\ files.vectors \subseteq Key /\ files.ttl \in Ttl
  BY DEF Files
<1>2. files.ttl \in [DOMAIN files.ttl -> Record] /\ DOMAIN files.ttl \subseteq Key
  BY <1>1, TtlType
<1>3. /\ DOMAIN ttl = DOMAIN files.ttl \cap files.data /\ \A k \in DOMAIN ttl : ttl[k] = files.ttl[k]
      /\ ttl \in [DOMAIN files.ttl \cap files.data -> Record]
  BY <1>2 DEF Restrict
<1> HIDE DEF ttl
<1>4. ttl \in Ttl
  <2>1. DOMAIN files.ttl \cap files.data \in SUBSET Key
    BY <1>1
  <2> QED BY <1>3, <2>1, TtlType
<1>5. Empty \in Sizes /\ DOMAIN Empty = {}
  <2>1. Empty \in [{} -> Int] /\ {} \in SUBSET Key
    BY DEF Empty
  <2>2. Empty \in Sizes
    BY <2>1, SizesType
  <2> QED BY <2>1, <2>2
<1>6. m \in Memory /\ m.data = files.data /\ m.ttl = ttl /\ m.sizes = Empty /\ m.total = 0
  BY <1>1, <1>4, <1>5 DEF Memory
<1> HIDE DEF m
<1>7. IsFiniteSet(DOMAIN m.sizes) /\ m.total = SumFunctionOnSet(m.sizes, DOMAIN m.sizes)
      /\ DOMAIN m.sizes \ files.data = m.data \ files.data /\ m.data \ files.data = {}
  BY <1>5, <1>6, SumEmpty, FS_EmptySet
<1>8. Recounted(r, m, files.data)
  BY <1>1, <1>6, <1>7, TrackedFacts
<1>9. Loaded(files) = r
  BY DEF Loaded, m, ttl
<1> HIDE DEF r
<1>10. Whole(r, now)
  BY <1>3, <1>6, <1>8 DEF Recounted, Whole, ItemSize, Timely
<1> QED BY <1>3, <1>6, <1>8, <1>9, <1>10 DEF Recounted

-----------------------------------------------------------------------------
(* The operation lock.                                                     *)

Actor == Client \cup {"sweeper"}
Queue(s) == s \in Seq(Actor) /\ \A i, j \in DOMAIN s : s[i] = s[j] => i = j
In(a, s) == \E i \in DOMAIN s : s[i] = a
Leads(a, s) == s # <<>> /\ Head(s) = a

\* A task joins at the end.
Joined(t, s, a) ==
  /\ Queue(t) /\ \A b : In(b, t) <=> In(b, s) \/ b = a
  /\ \A b : Leads(b, s) => Leads(b, t)

LEMMA QueueJoin ==
  ASSUME NEW s, Queue(s), NEW a \in Actor, ~ In(a, s)
  PROVE  Joined(Append(s, a), s, a)
<1> DEFINE t == Append(s, a)
<1>1. s \in Seq(Actor) /\ Len(s) \in Nat /\ DOMAIN s = 1..Len(s)
  BY DEF Queue
<1>2. /\ t \in Seq(Actor) /\ Len(t) = Len(s) + 1 /\ DOMAIN t = 1..(Len(s) + 1)
      /\ \A i \in 1..Len(s) : t[i] = s[i]
      /\ t[Len(s) + 1] = a
  BY <1>1
<1>3. \A i \in DOMAIN t : i \in DOMAIN s \/ i = Len(s) + 1
  BY <1>1, <1>2
<1>4. Queue(t)
  BY <1>1, <1>2, <1>3 DEF Queue, In
<1>5. ASSUME NEW b, Leads(b, s) PROVE Leads(b, t)
  BY <1>1, <1>2, <1>5 DEF Leads
<1>6. ASSUME NEW b PROVE In(b, t) <=> In(b, s) \/ b = a
  BY <1>1, <1>2, <1>3 DEF In
<1> QED BY <1>4, <1>5, <1>6 DEF Joined

\* A task leaves; who leads stays there.
Left(t, s, a) ==
  /\ Queue(t) /\ \A b : In(b, t) <=> In(b, s) /\ b # a
  /\ \A b : Leads(b, s) /\ b # a => Leads(b, t)

LEMMA QueueLeave ==
  ASSUME NEW s, Queue(s), NEW a, Leads(a, s)
  PROVE  Left(Tail(s), s, a)
<1> DEFINE t == Tail(s)
<1>1. s \in Seq(Actor) /\ Len(s) \in Nat /\ DOMAIN s = 1..Len(s) /\ s # <<>> /\ s[1] = a /\ Len(s) > 0
  BY DEF Queue, Leads
<1>2. t \in Seq(Actor) /\ DOMAIN t = 1..(Len(s) - 1) /\ \A i \in 1..(Len(s) - 1) : t[i] = s[i + 1]
  BY <1>1
<1>3. \A i \in DOMAIN t : i \in Nat /\ i + 1 \in DOMAIN s /\ i + 1 # 1 /\ t[i] = s[i + 1]
  BY <1>1, <1>2
<1>4. \A i \in DOMAIN s : i = 1 \/ (i - 1 \in DOMAIN t /\ t[i - 1] = s[i])
  BY <1>1, <1>2
<1> HIDE DEF t
<1>5. ASSUME NEW i \in DOMAIN t, NEW j \in DOMAIN t, t[i] = t[j] PROVE i = j
  <2>1. i + 1 = j + 1
    BY <1>3, <1>5 DEF Queue
  <2> QED BY <1>3, <2>1
<1>6. ASSUME NEW b PROVE In(b, t) <=> In(b, s) /\ b # a
  <2>1. ASSUME In(b, t) PROVE In(b, s) /\ b # a
    <3>1. PICK i \in DOMAIN t : t[i] = b
      BY <2>1 DEF In
    <3>2. i + 1 \in DOMAIN s /\ 1 \in DOMAIN s /\ s[i + 1] = b /\ i + 1 # 1
      BY <1>1, <1>3, <3>1
    <3> QED BY <1>1, <3>2 DEF In, Queue
  <2>2. ASSUME In(b, s), b # a PROVE In(b, t)
    BY <1>1, <1>4, <2>2 DEF In
  <2> QED BY <2>1, <2>2
<1>7. ASSUME NEW b, Leads(b, s) PROVE b = a
  BY <1>7 DEF Leads
<1> QED BY <1>2, <1>5, <1>6, <1>7 DEF Left, Queue, t

LEMMA ConcatLength ==
  ASSUME NEW S, NEW u \in Seq(S), NEW v \in Seq(S), NEW t, t = u \o v
  PROVE  t \in Seq(S) /\ Len(t) = Len(u) + Len(v) /\ DOMAIN t = 1..Len(t)
  OBVIOUS

\* A task that is cancelled leaves from any place.
LEMMA QueueCancel ==
  ASSUME NEW s, Queue(s), NEW a
  PROVE  Left(RemoveFirst(s, a), s, a)
<1>1. s \in Seq(Actor) /\ Len(s) \in Nat /\ DOMAIN s = 1..Len(s)
  BY DEF Queue
<1>2. CASE ~ In(a, s)
  <2>1. RemoveFirst(s, a) = s
    BY <1>1, <1>2 DEF RemoveFirst, In
  <2> QED BY <1>2, <2>1 DEF Left, In
<1>3. CASE In(a, s)
  <2> DEFINE I == {i \in 1..Len(s) : s[i] = a}
             p == Min(I)
             t == RemoveAt(s, p)
  <2>1. PICK q \in DOMAIN s : s[q] = a
    BY <1>3 DEF In
  <2>2. I = {q}
    BY <1>1, <2>1 DEF Queue
  <2>3. p = q
    <3>1. q \in Nat
      BY <1>1, <2>1
    <3>2. Min({q}) = q
      BY <3>1 DEF Min
    <3> QED BY <2>2, <3>2
  <2>4. RemoveFirst(s, a) = t
    BY <1>1, <1>3, <2>2 DEF RemoveFirst, In, SelectInSeq
  <2> HIDE DEF I, p
  <2> DEFINE u == SubSeq(s, 1, q - 1)
             v == SubSeq(s, q + 1, Len(s))
  <2>5. t = u \o v
    BY <2>3 DEF RemoveAt
  <2>6. q \in Nat /\ q >= 1 /\ q <= Len(s)
    BY <1>1, <2>1
  <2>7. u \in Seq(Actor) /\ Len(u) = q - 1 /\ \A i \in 1..(q - 1) : u[i] = s[i]
    BY <1>1, <2>6
  <2>8. v \in Seq(Actor) /\ Len(v) = Len(s) - q /\ \A i \in 1..(Len(s) - q) : v[i] = s[q + i]
    BY <1>1, <2>6
  <2> HIDE DEF u, v, t
  <2>9. t \in Seq(Actor) /\ Len(t) = Len(s) - 1 /\ DOMAIN t = 1..(Len(s) - 1)
    <3>1. t \in Seq(Actor) /\ Len(t) = Len(u) + Len(v) /\ DOMAIN t = 1..Len(t)
      BY <2>5, <2>7, <2>8, ConcatLength
    <3>2. Len(u) + Len(v) = Len(s) - 1
      BY <1>1, <2>6, <2>7, <2>8
    <3> QED BY <3>1, <3>2
  <2>10. ASSUME NEW i \in 1..(Len(s) - 1) PROVE t[i] = IF i < q THEN s[i] ELSE s[i + 1]
    <3>1. CASE i < q
      BY <1>1, <2>5, <2>6, <2>7, <2>8, <3>1
    <3>2. CASE ~ (i < q)
      <4>1. t[i] = v[i - (q - 1)] /\ i - (q - 1) \in 1..(Len(s) - q)
        BY <1>1, <2>5, <2>6, <2>7, <2>8, <3>2
      <4>2. v[i - (q - 1)] = s[q + (i - (q - 1))] /\ q + (i - (q - 1)) = i + 1
        BY <2>6, <2>8, <4>1
      <4> QED BY <3>2, <4>1, <4>2
    <3> QED BY <3>1, <3>2
  <2> DEFINE at(i) == IF i < q THEN i ELSE i + 1
             from(i) == IF i < q THEN i ELSE i - 1
  <2>11. \A i \in DOMAIN t : i \in Nat /\ at(i) \in DOMAIN s /\ at(i) # q /\ t[i] = s[at(i)]
    BY <1>1, <2>6, <2>9, <2>10
  <2>12. \A i, j \in DOMAIN t : at(i) = at(j) => i = j
    BY <2>6, <2>9
  <2>13. \A i \in DOMAIN s : i # q => from(i) \in DOMAIN t /\ t[from(i)] = s[i]
    BY <1>1, <2>6, <2>9, <2>10
  <2> HIDE DEF at, from
  <2>14. \A i, j \in DOMAIN t : t[i] = t[j] => i = j
    BY <2>11, <2>12 DEF Queue
  <2>15. ASSUME NEW b PROVE In(b, t) <=> In(b, s) /\ b # a
    <3>1. In(b, t) => In(b, s) /\ b # a
      BY <2>1, <2>11 DEF In, Queue
    <3>2. In(b, s) /\ b # a => In(b, t)
      BY <2>1, <2>13 DEF In
    <3> QED BY <3>1, <3>2
  <2>16. ASSUME NEW b, Leads(b, s), b # a PROVE Leads(b, t)
    <3>1. s[1] = b /\ 1 \in DOMAIN s /\ q # 1
      BY <1>1, <2>1, <2>6, <2>16 DEF Leads
    <3>2. 1 < q /\ Len(s) - 1 >= 1
      BY <1>1, <2>6, <3>1
    <3>3. t[1] = b /\ t # <<>>
      BY <1>1, <2>9, <2>10, <3>1, <3>2
    <3> QED BY <2>9, <3>3 DEF Leads
  <2>17. Left(t, s, a)
    BY <2>9, <2>14, <2>15, <2>16 DEF Left, Queue
  <2> QED BY <2>4, <2>17
<1> QED BY <1>2, <1>3

Job == [pc : {"idle", "lock", "search", "embed"}, batch : Batch \cup {NoBatch}, found : SUBSET Key]

\* Who waits for the lock, and who works under it.
LockInv ==
  /\ Queue(lock) /\ job \in [Client -> Job]
  /\ \A c \in Client : In(c, lock) <=> job[c].pc # "idle"
  /\ In("sweeper", lock) <=> sweeper = "lock"
  /\ \A c \in Client : job[c].pc \in {"search", "embed"} => Leads(c, lock)
  /\ \A c \in Client : job[c].pc # "idle" => job[c].batch \in Batch

DataInv ==
  /\ now \in 0..MaxTime /\ Whole(mem, now)
  /\ disk \in Files /\ IsFiniteSet(disk.data) /\ Timely(disk.ttl, now)
  /\ sweeper \in {"off", "sleep", "lock"} /\ crashes \in Nat

\* A request that is over releases the lock it holds.
LEMMA LockReleased ==
  ASSUME LockInv, NEW c \in Client, Leads(c, lock), lock' = Tail(lock),
         job' = [job EXCEPT ![c] = Idle], UNCHANGED sweeper
  PROVE  LockInv'
<1>1. Left(lock', lock, c)
  BY QueueLeave DEF LockInv
<1>2. Idle \in Job /\ Idle.pc = "idle"
  BY DEF Idle, Job
<1>3. job' \in [Client -> Job] /\ \A d \in Client : job'[d] = IF d = c THEN Idle ELSE job[d]
  BY <1>2 DEF LockInv
<1>4. \A b : In(b, lock') <=> In(b, lock) /\ b # c
  BY <1>1 DEF Left
<1>5. \A d \in Client : In(d, lock') <=> job'[d].pc # "idle"
  BY <1>2, <1>3, <1>4 DEF LockInv
<1>6. In("sweeper", lock') <=> sweeper' = "lock"
  BY <1>4, BoundsAssumption DEF LockInv
<1>7. \A d \in Client : job'[d].pc \in {"search", "embed"} => Leads(d, lock')
  BY <1>1, <1>2, <1>3 DEF LockInv, Left
<1>8. \A d \in Client : job'[d].pc # "idle" => job'[d].batch \in Batch
  BY <1>2, <1>3 DEF LockInv
<1> QED BY <1>1, <1>3, <1>5, <1>6, <1>7, <1>8 DEF LockInv, Left

\* A request goes on under the lock.
LEMMA LockKept ==
  ASSUME LockInv, NEW c \in Client, Leads(c, lock), NEW p \in {"search", "embed"}, NEW f \in SUBSET Key,
         job[c].pc # "idle", job' = [job EXCEPT ![c].pc = p, ![c].found = f], UNCHANGED <<lock, sweeper>>
  PROVE  LockInv'
<1> DEFINE j == [job[c] EXCEPT !.pc = p, !.found = f]
<1>1. job \in [Client -> Job] /\ job[c] \in Job
  BY DEF LockInv
<1>2. j \in Job /\ j.pc = p /\ j.batch = job[c].batch
  BY <1>1 DEF Job
<1>3. job' = [job EXCEPT ![c] = j]
  BY <1>1 DEF Job
<1> HIDE DEF j
<1>4. job' \in [Client -> Job] /\ \A d \in Client : job'[d] = IF d = c THEN j ELSE job[d]
  BY <1>1, <1>2, <1>3
<1>5. \A d \in Client : job'[d].pc # "idle" <=> job[d].pc # "idle"
  BY <1>2, <1>4
<1>6. \A d \in Client : job'[d].batch = job[d].batch
  BY <1>2, <1>4
<1>7. \A d \in Client : job'[d].pc \in {"search", "embed"} => Leads(d, lock)
  BY <1>4 DEF LockInv
<1> QED BY <1>4, <1>5, <1>6, <1>7 DEF LockInv

LEMMA LockUnchanged ==
  ASSUME LockInv, UNCHANGED <<lock, job>>, sweeper' = "lock" <=> sweeper = "lock"
  PROVE  LockInv'
  BY DEF LockInv

LEMMA LockProceeds ==
  ASSUME LockInv, NEW c \in Client, Leads(c, lock), job[c].pc # "idle", NEW m, Proceed(c, m), UNCHANGED sweeper
  PROVE  LockInv'
<1>1. CASE NeedsEmbedding(job[c].batch.puts)
  <2>1. job' = [job EXCEPT ![c].pc = "embed", ![c].found = {}] /\ UNCHANGED lock
    BY <1>1 DEF Proceed
  <2>2. "embed" \in {"search", "embed"} /\ {} \in SUBSET Key
    OBVIOUS
  <2>3. UNCHANGED <<lock, sweeper>>
    BY <2>1
  <2> HIDE DEF Proceed
  <2> QED BY <2>1, <2>2, <2>3, LockKept
<1>2. CASE ~ NeedsEmbedding(job[c].batch.puts)
  <2>1. job' = [job EXCEPT ![c] = Idle] /\ lock' = Tail(lock)
    BY <1>2 DEF Proceed
  <2> QED BY <2>1, LockReleased
<1> QED BY <1>1, <1>2

LEMMA LockRequest ==
  ASSUME LockInv, DataInv, NEW c \in Client, Request(c)
  PROVE  LockInv'
<1>1. CASE Prepare(c)
  <2>1. Leads(c, lock) /\ job[c].pc # "idle" /\ UNCHANGED sweeper
    BY <1>1 DEF Prepare, Holds, Leads
  <2>2. CASE job[c].batch.search
    <3>1. job' = [job EXCEPT ![c].pc = "search", ![c].found = mem.data] /\ UNCHANGED lock
      BY <1>1, <2>2 DEF Prepare
    <3>2. mem.data \in SUBSET Key
      BY DEF DataInv, Whole, Memory
    <3> QED BY <2>1, <3>1, <3>2, LockKept
  <2>3. CASE ~ job[c].batch.search
    BY <1>1, <2>1, <2>3, LockProceeds DEF Prepare
  <2> QED BY <2>2, <2>3
<1>2. CASE SearchDone(c)
  <2>1. Leads(c, lock) /\ job[c].pc # "idle" /\ UNCHANGED sweeper
    BY <1>2 DEF SearchDone, LockInv
  <2> QED BY <1>2, <2>1, LockProceeds DEF SearchDone
<1>3. CASE EmbedDone(c) \/ EmbedFail(c)
  <2>1. Leads(c, lock) /\ UNCHANGED sweeper /\ lock' = Tail(lock) /\ job' = [job EXCEPT ![c] = Idle]
    BY <1>3 DEF EmbedDone, EmbedFail, LockInv
  <2> QED BY <2>1, LockReleased
<1> QED BY <1>1, <1>2, <1>3 DEF Request

LEMMA LockJoined ==
  ASSUME LockInv, NEW c \in Client, NEW b \in Batch, Abatch(c, b)
  PROVE  LockInv'
<1> DEFINE j == [pc |-> "lock", batch |-> b, found |-> {}]
<1>1. job \in [Client -> Job] /\ job' = [job EXCEPT ![c] = j] /\ lock' = Append(lock, c) /\ UNCHANGED sweeper
  BY DEF Abatch, LockInv
<1>2. j \in Job /\ j.pc = "lock" /\ j.batch = b
  BY DEF Job
<1> HIDE DEF j
<1>3. ~ In(c, lock)
  BY DEF LockInv, Abatch
<1>4. Joined(lock', lock, c)
  BY <1>1, <1>3, QueueJoin DEF LockInv, Actor
<1>5. job' \in [Client -> Job] /\ \A d \in Client : job'[d] = IF d = c THEN j ELSE job[d]
  BY <1>1, <1>2
<1>6. \A d \in Client : In(d, lock') <=> job'[d].pc # "idle"
  BY <1>2, <1>4, <1>5 DEF LockInv, Joined
<1>7. In("sweeper", lock') <=> sweeper' = "lock"
  BY <1>1, <1>4, BoundsAssumption DEF LockInv, Joined
<1>8. \A d \in Client : job'[d].pc \in {"search", "embed"} => Leads(d, lock')
  BY <1>2, <1>4, <1>5 DEF LockInv, Joined
<1>9. \A d \in Client : job'[d].pc # "idle" => job'[d].batch \in Batch
  BY <1>2, <1>5 DEF LockInv
<1> QED BY <1>4, <1>5, <1>6, <1>7, <1>8, <1>9 DEF LockInv, Joined

LEMMA LockSweeper ==
  ASSUME LockInv, SweeperWakes \/ SweepTTL \/ SweeperStops
  PROVE  LockInv'
<1>0. UNCHANGED job
  BY DEF SweeperWakes, SweepTTL, SweeperStops
<1>1. ASSUME Left(lock', lock, "sweeper"), sweeper' # "lock" PROVE LockInv'
  <2>1. \A b : In(b, lock') <=> In(b, lock) /\ b # "sweeper"
    BY <1>1 DEF Left
  <2>2. \A b : Leads(b, lock) /\ b # "sweeper" => Leads(b, lock')
    BY <1>1 DEF Left
  <2>3. \A c \in Client : c # "sweeper"
    BY BoundsAssumption
  <2> QED BY <1>0, <1>1, <2>1, <2>2, <2>3 DEF LockInv, Left
<1>2. CASE SweeperWakes
  <2>1. lock' = Append(lock, "sweeper") /\ sweeper' = "lock" /\ ~ In("sweeper", lock)
    BY <1>2 DEF SweeperWakes, LockInv
  <2>2. Joined(lock', lock, "sweeper")
    BY <2>1, QueueJoin DEF LockInv, Actor
  <2>3. \A c \in Client : c # "sweeper"
    BY BoundsAssumption
  <2> QED BY <1>0, <2>1, <2>2, <2>3 DEF LockInv, Joined
<1>3. CASE SweepTTL
  <2>1. Leads("sweeper", lock) /\ lock' = Tail(lock) /\ sweeper' # "lock"
    BY <1>3 DEF SweepTTL, Holds, Leads
  <2> QED BY <1>1, <2>1, QueueLeave DEF LockInv
<1>4. CASE SweeperStops
  <2>1. lock' = RemoveFirst(lock, "sweeper") /\ sweeper' # "lock"
    BY <1>4 DEF SweeperStops
  <2> QED BY <1>1, <2>1, QueueCancel DEF LockInv
<1> QED BY <1>2, <1>3, <1>4

LEMMA LockRestart ==
  ASSUME Queue(<<>>), lock' = <<>>, job' = [c \in Client |-> Idle], sweeper' = "off"
  PROVE  LockInv'
<1>1. Idle \in Job /\ Idle.pc = "idle"
  BY DEF Idle, Job
<1>2. \A b : ~ In(b, lock')
  BY DEF In
<1> QED BY <1>1, <1>2 DEF LockInv

-----------------------------------------------------------------------------
(* What a request does to the items.                                       *)

\* Reads put deadlines off and change nothing else.
Later(f, g) ==
  /\ DOMAIN g = DOMAIN f
  /\ \A k \in DOMAIN f : g[k].expires \in Nat /\ g[k].expires >= f[k].expires
ReadStep(r, m) == Whole(r, now) /\ r.data = m.data /\ Later(m.ttl, r.ttl)
PutStep(r, m, puts) == \E n : ReadStep(n, m) /\ AfterPuts(r, n, puts)

LEMMA ReadNothing ==
  ASSUME NEW m, Whole(m, now)
  PROVE  ReadStep(m, m)
<1>1. m.ttl \in Ttl
  BY DEF Whole, Memory
<1>2. \A k \in DOMAIN m.ttl : m.ttl[k].expires \in Nat
  BY <1>1, TtlType
<1> QED BY <1>2 DEF ReadStep, Later

LEMMA ReadRefreshed ==
  ASSUME NEW m, now \in Nat, Whole(m, now), NEW ks
  PROVE  ReadStep(Refreshed(m, ks), m)
<1> DEFINE r == Refreshed(m, ks)
           g == Refresh(m.ttl, ks, now)
<1>1. Whole(r, now) /\ r.data = m.data /\ r.ttl = g
  BY RefreshedFacts
<1>2. m.ttl \in Ttl /\ Timely(m.ttl, now)
  BY DEF Whole, Memory
<1>3. DOMAIN g = DOMAIN m.ttl /\ \A k \in DOMAIN m.ttl : g[k].expires \in Nat /\ g[k].expires >= m.ttl[k].expires
  BY <1>2, RefreshFacts
<1> HIDE DEF r, g
<1>4. ReadStep(r, m)
  BY <1>1, <1>3 DEF ReadStep, Later
<1> QED BY <1>4 DEF r

LEMMA ReadTwice ==
  ASSUME NEW m, NEW n, NEW r, Whole(m, now), ReadStep(n, m), ReadStep(r, n)
  PROVE  ReadStep(r, m)
<1>1. m.ttl \in Ttl
  BY DEF Whole, Memory
<1>2. \A k \in DOMAIN m.ttl : m.ttl[k].expires \in Nat
  BY <1>1, TtlType
<1>3. DOMAIN n.ttl = DOMAIN m.ttl /\ DOMAIN r.ttl = DOMAIN m.ttl /\ Whole(r, now) /\ r.data = m.data
  BY DEF ReadStep, Later
<1>4. ASSUME NEW k \in DOMAIN m.ttl PROVE r.ttl[k].expires \in Nat /\ r.ttl[k].expires >= m.ttl[k].expires
  <2>1. n.ttl[k].expires \in Nat /\ n.ttl[k].expires >= m.ttl[k].expires
    BY DEF ReadStep, Later
  <2>2. r.ttl[k].expires \in Nat /\ r.ttl[k].expires >= n.ttl[k].expires
    BY <1>3 DEF ReadStep, Later
  <2> QED BY <1>2, <2>1, <2>2
<1> QED BY <1>3, <1>4 DEF ReadStep, Later

LEMMA PutsStored ==
  ASSUME NEW m, NEW n, now \in Nat, Whole(m, now), ReadStep(n, m), NEW b \in Batch
  PROVE  ReadStep(Stored(n, b), m) \/ PutStep(Stored(n, b), m, b.puts)
<1>1. IsPuts(b.puts)
  BY BatchAssumption DEF IsPuts
<1>2. Whole(n, now)
  BY DEF ReadStep
<1>3. CASE ~ b.bad
  <2>1. AfterPuts(AppliedPuts(n, b.puts), n, b.puts)
    BY <1>1, <1>2, AppliedFacts
  <2>2. Stored(n, b) = AppliedPuts(n, b.puts)
    BY <1>3 DEF Stored
  <2> QED BY <2>1, <2>2 DEF PutStep
<1>4. CASE b.bad
  <2> DEFINE r == Embedded(n, b.puts)
  <2>1. Whole(r, now) /\ r.data = n.data /\ r.ttl = n.ttl
    BY <1>1, <1>2, EmbeddedFacts
  <2>2. Stored(n, b) = r
    BY <1>4 DEF Stored
  <2> HIDE DEF r
  <2>3. ReadStep(r, m)
    BY <2>1 DEF ReadStep
  <2> QED BY <2>2, <2>3
<1> QED BY <1>3, <1>4

\* A step of a request or of the synchronous batch.
Served ==
  /\ UNCHANGED <<now, disk, sweeper, crashes>>
  /\ ReadStep(mem', mem) \/ \E b \in Batch : PutStep(mem', mem, b.puts)

LEMMA Proceeds ==
  ASSUME NEW c \in Client, now \in Nat, Whole(mem, now), NEW n, ReadStep(n, mem), Proceed(c, n),
         job[c].batch \in Batch
  PROVE  ReadStep(mem', mem) \/ \E b \in Batch : PutStep(mem', mem, b.puts)
<1>1. CASE NeedsEmbedding(job[c].batch.puts)
  BY <1>1 DEF Proceed
<1>2. CASE ~ NeedsEmbedding(job[c].batch.puts)
  <2>1. mem' = Stored(n, job[c].batch)
    BY <1>2 DEF Proceed
  <2>2. ReadStep(Stored(n, job[c].batch), mem) \/ PutStep(Stored(n, job[c].batch), mem, job[c].batch.puts)
    BY PutsStored
  <2> QED BY <2>1, <2>2
<1> QED BY <1>1, <1>2

LEMMA RequestServed ==
  ASSUME LockInv, DataInv, NEW c \in Client, Request(c)
  PROVE  Served
<1>0. now \in Nat /\ Whole(mem, now)
  BY BoundsAssumption DEF DataInv
<1>1. UNCHANGED <<now, disk, sweeper, crashes>>
  BY DEF Request, Prepare, SearchDone, EmbedDone, EmbedFail
<1>2. job[c].batch \in Batch
  BY DEF Request, Prepare, SearchDone, EmbedDone, EmbedFail, LockInv
<1>3. CASE Prepare(c)
  <2> DEFINE n == Refreshed(mem, job[c].batch.gets \cap mem.data)
  <2>1. ReadStep(n, mem)
    BY <1>0, ReadRefreshed
  <2>2. mem' = n \/ Proceed(c, n)
    BY <1>3 DEF Prepare
  <2> HIDE DEF n
  <2>3. CASE mem' = n
    BY <1>1, <2>1, <2>3 DEF Served
  <2>4. CASE Proceed(c, n)
    BY <1>0, <1>1, <1>2, <2>1, <2>4, Proceeds DEF Served
  <2> QED BY <2>2, <2>3, <2>4
<1>4. CASE SearchDone(c)
  <2> DEFINE n == Refreshed(mem, job[c].found)
  <2>1. ReadStep(n, mem)
    BY <1>0, ReadRefreshed
  <2>2. Proceed(c, n)
    BY <1>4 DEF SearchDone
  <2> HIDE DEF n
  <2> QED BY <1>0, <1>1, <1>2, <2>1, <2>2, Proceeds DEF Served
<1>5. CASE EmbedDone(c)
  <2>1. ReadStep(mem, mem)
    BY <1>0, ReadNothing
  <2>2. ReadStep(Stored(mem, job[c].batch), mem) \/ PutStep(Stored(mem, job[c].batch), mem, job[c].batch.puts)
    BY <1>0, <1>2, <2>1, PutsStored
  <2>3. mem' = Stored(mem, job[c].batch)
    BY <1>5 DEF EmbedDone
  <2> QED BY <1>1, <1>2, <2>2, <2>3 DEF Served
<1>6. CASE EmbedFail(c)
  <2>1. ReadStep(mem, mem) /\ mem' = mem
    BY <1>0, <1>6, ReadNothing DEF EmbedFail
  <2> QED BY <1>1, <2>1 DEF Served
<1> QED BY <1>3, <1>4, <1>5, <1>6 DEF Request

LEMMA BatchServed ==
  ASSUME DataInv, NEW b \in Batch, SyncBatch(b)
  PROVE  Served
<1>0. now \in Nat /\ Whole(mem, now)
  BY BoundsAssumption DEF DataInv
<1> DEFINE m == Refreshed(mem, b.gets \cap mem.data)
           n == IF b.search THEN Refreshed(m, m.data) ELSE m
<1>1. ReadStep(m, mem)
  BY <1>0, ReadRefreshed
<1>2. mem' = Stored(n, b) /\ UNCHANGED <<now, disk, sweeper, crashes>>
  BY DEF SyncBatch
<1> HIDE DEF m
<1>3. ReadStep(n, mem)
  <2>1. ReadStep(Refreshed(m, m.data), m)
    BY <1>0, <1>1, ReadRefreshed DEF ReadStep
  <2>2. ReadStep(Refreshed(m, m.data), mem)
    BY <1>0, <1>1, <2>1, ReadTwice
  <2> QED BY <1>1, <2>2
<1> HIDE DEF n
<1>4. ReadStep(Stored(n, b), mem) \/ PutStep(Stored(n, b), mem, b.puts)
  BY <1>0, <1>3, PutsStored
<1> QED BY <1>2, <1>4 DEF Served

LEMMA ServedWhole ==
  ASSUME DataInv, Served
  PROVE  DataInv'
<1>1. Whole(mem', now)
  BY DEF Served, ReadStep, PutStep, AfterPuts
<1>2. Whole(mem', now')
  BY <1>1 DEF Served
<1> QED BY <1>2 DEF DataInv, Served

LEMMA TimelyLater ==
  ASSUME NEW f \in Ttl, NEW t \in Nat, NEW u \in Nat, u >= t, Timely(f, t)
  PROVE  Timely(f, u)
<1>1. \A k \in DOMAIN f : f[k].expires \in Nat /\ f[k].minutes \in Nat
  BY TtlType
<1> QED BY <1>1 DEF Timely

LEMMA DataInit ==
  ASSUME Init
  PROVE  DataInv
<1>1. Empty \in Ttl
  <2>1. Empty \in [{} -> Record] /\ {} \in SUBSET Key
    BY DEF Empty
  <2> QED BY <2>1, TtlType
<1>2. disk \in Files /\ disk.data = {} /\ disk.ttl = Empty
  BY <1>1 DEF Init, Files
<1>3. IsFiniteSet(disk.data) /\ Timely(disk.ttl, now)
  BY <1>2, FS_EmptySet DEF Timely, Empty
<1>4. Whole(Loaded(disk), now)
  BY <1>2, <1>3, LoadedFacts
<1> QED BY <1>2, <1>3, <1>4, BoundsAssumption DEF Init, DataInv

LEMMA DataNext ==
  ASSUME LockInv, DataInv, [Next]_vars
  PROVE  DataInv'
<1>0. now \in Nat /\ Whole(mem, now) /\ mem.ttl \in Ttl /\ disk.ttl \in Ttl
  BY BoundsAssumption DEF DataInv, Whole, Memory, Files
<1>1. ASSUME NEW c \in Client, Request(c) PROVE DataInv'
  BY <1>1, RequestServed, ServedWhole
<1>2. ASSUME NEW b \in Batch, SyncBatch(b) PROVE DataInv'
  BY <1>2, BatchServed, ServedWhole
<1>3. CASE SweepTTL
  <2>1. Whole(Swept(mem), now) /\ mem' = Swept(mem) /\ UNCHANGED <<now, disk, crashes>>
    BY <1>0, <1>3, SweptFacts DEF SweepTTL
  <2>2. sweeper' \in {"off", "sleep", "lock"}
    BY <1>3 DEF SweepTTL
  <2>3. Whole(mem', now')
    BY <2>1
  <2> QED BY <2>1, <2>2, <2>3 DEF DataInv
<1>4. ASSUME NEW f \in {"data", "vectors", "ttl"}, Flush(f) PROVE DataInv'
  <2>1. disk' = [disk EXCEPT ![f] = mem[f]] /\ UNCHANGED <<now, mem, sweeper, crashes>>
    BY <1>4 DEF Flush
  <2>2. mem \in Memory /\ IsFiniteSet(mem.data) /\ Timely(mem.ttl, now)
    BY DEF DataInv, Whole
  <2>3. disk \in Files /\ IsFiniteSet(disk.data) /\ Timely(disk.ttl, now)
    BY DEF DataInv
  <2>4. CASE f = "data"
    <3>1. disk' \in Files /\ disk'.data = mem.data /\ disk'.ttl = disk.ttl
      BY <2>1, <2>2, <2>3, <2>4 DEF Files, Memory
    <3> QED BY <2>1, <2>2, <2>3, <3>1 DEF DataInv
  <2>5. CASE f = "vectors"
    <3>1. disk' \in Files /\ disk'.data = disk.data /\ disk'.ttl = disk.ttl
      BY <2>1, <2>2, <2>3, <2>5 DEF Files, Memory
    <3> QED BY <2>1, <2>3, <3>1 DEF DataInv
  <2>6. CASE f = "ttl"
    <3>1. disk' \in Files /\ disk'.data = disk.data /\ disk'.ttl = mem.ttl
      BY <2>1, <2>2, <2>3, <2>6 DEF Files, Memory
    <3> QED BY <2>1, <2>2, <2>3, <3>1 DEF DataInv
  <2> QED BY <2>4, <2>5, <2>6
<1>5. CASE Restart
  <2>1. Whole(Loaded(disk), now)
    BY LoadedFacts DEF DataInv
  <2>2. mem' = Loaded(disk) /\ UNCHANGED <<now, disk>> /\ sweeper' = "off" /\ crashes' = crashes + 1
    BY <1>5 DEF Restart
  <2>3. Whole(mem', now')
    BY <2>1, <2>2
  <2>4. crashes' \in Nat
    BY <2>2 DEF DataInv
  <2> QED BY <2>2, <2>3, <2>4 DEF DataInv
<1>6. CASE Tick
  <2>1. now' = now + 1 /\ now < MaxTime /\ UNCHANGED <<mem, disk, sweeper, crashes>>
    BY <1>6 DEF Tick
  <2>2. now' \in 0..MaxTime /\ now' \in Nat /\ now' >= now
    BY <1>0, <2>1, BoundsAssumption
  <2>3. Timely(mem.ttl, now') /\ Timely(disk.ttl, now')
    BY <1>0, <2>2, TimelyLater DEF DataInv, Whole
  <2>4. Whole(mem, now')
    BY <1>0, <2>3 DEF Whole
  <2> QED BY <2>1, <2>2, <2>3, <2>4 DEF DataInv
<1>7. CASE StartSweeper \/ SweeperWakes \/ StopSweeper \/ SweeperStops \/ \E c \in Client, b \in Batch : Abatch(c, b)
  <2>1. UNCHANGED <<now, mem, disk, crashes>> /\ (sweeper' = sweeper \/ sweeper' \in {"off", "sleep", "lock"})
    BY <1>7 DEF StartSweeper, SweeperWakes, StopSweeper, SweeperStops, Abatch
  <2> QED BY <2>1 DEF DataInv
<1>8. CASE UNCHANGED vars
  BY <1>8 DEF vars, DataInv
<1> QED BY <1>1, <1>2, <1>3, <1>4, <1>5, <1>6, <1>7, <1>8 DEF Next

LEMMA LockNext ==
  ASSUME LockInv, DataInv, [Next]_vars
  PROVE  LockInv'
<1>1. ASSUME NEW c \in Client, NEW b \in Batch, Abatch(c, b) PROVE LockInv'
  BY <1>1, LockJoined
<1>2. ASSUME NEW c \in Client, Request(c) PROVE LockInv'
  BY <1>2, LockRequest
<1>3. CASE SweeperWakes \/ SweepTTL \/ SweeperStops
  BY <1>3, LockSweeper
<1>4. CASE Restart
  <2>1. Queue(<<>>)
    BY DEF Queue
  <2> QED BY <1>4, <2>1, LockRestart DEF Restart
<1>5. CASE StartSweeper \/ StopSweeper \/ Tick \/ (\E b \in Batch : SyncBatch(b))
           \/ (\E f \in {"data", "vectors", "ttl"} : Flush(f)) \/ UNCHANGED vars
  <2>1. UNCHANGED <<lock, job>> /\ (sweeper' = "lock" <=> sweeper = "lock")
    BY <1>5 DEF StartSweeper, StopSweeper, Tick, SyncBatch, Flush, vars
  <2> QED BY <2>1, LockUnchanged
<1> QED BY <1>1, <1>2, <1>3, <1>4, <1>5 DEF Next

\* The inductive invariant.
LEMMA StoreInvariant == Spec => [](DataInv /\ LockInv)
<1>1. Init => DataInv /\ LockInv
  <2> SUFFICES ASSUME Init PROVE DataInv /\ LockInv
    OBVIOUS
  <2>1. Idle \in Job /\ Idle.pc = "idle"
    BY DEF Idle, Job
  <2>2. Queue(lock) /\ \A a : ~ In(a, lock)
    BY DEF Init, Queue, In
  <2>3. LockInv
    BY <2>1, <2>2 DEF Init, LockInv
  <2> QED BY <2>3, DataInit
<1>2. DataInv /\ LockInv /\ [Next]_vars => (DataInv /\ LockInv)'
  BY DataNext, LockNext
<1> QED BY <1>1, <1>2, PTL DEF Spec

\* Item, vector, TTL record and size go together, whatever requests are
\* suspended over an embedding (store.py, _apply_put_ops, sweep_ttl and the
\* loading of the files; size_tracking.py): no TTL record without its item,
\* the size of every item and no other, up to date unless a put of it raised
\* over its TTL after its vector was stored, and their sum is the total.
THEOREM StoreSizesMatch == Spec => []SizesMatch
<1>1. DataInv /\ LockInv => SizesMatch
  <2> SUFFICES ASSUME DataInv, LockInv PROVE SizesMatch
    OBVIOUS
  <2>1. mem.data \subseteq Key /\ mem.vectors \subseteq Key /\ mem.loose \subseteq Key /\ mem.ttl \in Ttl
    BY DEF DataInv, Whole, Memory
  <2>2. DOMAIN mem.ttl \subseteq Key /\ \A k \in DOMAIN mem.ttl : mem.ttl[k] \in Record
    BY <2>1, TtlType
  <2>3. \A c \in Client : job[c].pc \in {"idle", "lock", "search", "embed"}
    BY DEF LockInv, Job
  <2>4. TypeOK
    BY <2>1, <2>2, <2>3 DEF TypeOK, DataInv, LockInv, Queue
  <2> QED BY <2>4 DEF SizesMatch, DataInv, Whole
<1> QED BY <1>1, StoreInvariant, PTL

-----------------------------------------------------------------------------
(* The store as a map whose items expire.                                  *)

\* The refinement mapping: the deadlines of the items.
Deadline(m) == [k \in m.data |-> IF k \in DOMAIN m.ttl THEN {m.ttl[k].expires} ELSE {}]

\* The deadline of an item that is read may be put off.
KeyKept(k, f, g) ==
  \/ /\ k \in DOMAIN f <=> k \in DOMAIN g
     /\ k \in DOMAIN f => g[k] = f[k]
  \/ /\ k \in DOMAIN f /\ k \in DOMAIN g
     /\ \E d \in f[k] : \E e \in g[k] : e >= d /\ g[k] = {e}

\* The item under a key that is put has the deadline of the put, or is gone.
KeyWritten(put, k, g) ==
  IF put.del
  THEN k \notin DOMAIN g
  ELSE k \in DOMAIN g /\ g[k] = {now + m : m \in put.ttl}

LEMMA ReadKeeps ==
  ASSUME NEW m, NEW n, ReadStep(n, m), NEW k
  PROVE  KeyKept(k, Deadline(m), Deadline(n))
<1> DEFINE f == Deadline(m)
           g == Deadline(n)
<1>1. DOMAIN f = m.data /\ DOMAIN g = m.data /\ DOMAIN n.ttl = DOMAIN m.ttl
  BY DEF Deadline, ReadStep, Later
<1>2. CASE k \in m.data /\ k \in DOMAIN m.ttl
  <2>1. f[k] = {m.ttl[k].expires} /\ g[k] = {n.ttl[k].expires}
    BY <1>1, <1>2 DEF Deadline, ReadStep
  <2>2. n.ttl[k].expires >= m.ttl[k].expires
    BY <1>2 DEF ReadStep, Later
  <2> HIDE DEF f, g
  <2>3. KeyKept(k, f, g)
    BY <1>1, <1>2, <2>1, <2>2 DEF KeyKept
  <2> QED BY <2>3 DEF f, g
<1>3. CASE k \in m.data /\ k \notin DOMAIN m.ttl
  <2>1. f[k] = {} /\ g[k] = {}
    BY <1>1, <1>3 DEF Deadline, ReadStep
  <2> HIDE DEF f, g
  <2>2. KeyKept(k, f, g)
    BY <1>1, <2>1 DEF KeyKept
  <2> QED BY <2>2 DEF f, g
<1>4. CASE k \notin m.data
  <2> HIDE DEF f, g
  <2>1. KeyKept(k, f, g)
    BY <1>1, <1>4 DEF KeyKept
  <2> QED BY <2>1 DEF f, g
<1> QED BY <1>2, <1>3, <1>4

LEMMA PutsWrite ==
  ASSUME NEW m, NEW r, NEW puts, IsPuts(puts), now \in Nat, PutStep(r, m, puts), NEW k
  PROVE  IF k \in DOMAIN puts
         THEN KeyWritten(puts[k], k, Deadline(r))
         ELSE KeyKept(k, Deadline(m), Deadline(r))
<1>1. PICK n : ReadStep(n, m) /\ AfterPuts(r, n, puts)
  BY DEF PutStep
<1>2. /\ r.data = (n.data \cup DOMAIN puts) \ Deleted(puts)
      /\ r.ttl = Stamped(n.ttl, puts, now)
  BY <1>1 DEF AfterPuts
<1>3. /\ DOMAIN r.ttl = (DOMAIN n.ttl \ DOMAIN puts) \cup Timed(puts)
      /\ \A i \in DOMAIN r.ttl : r.ttl[i] = IF i \in Timed(puts) THEN Stamp(puts[i], now) ELSE n.ttl[i]
  BY <1>2 DEF Stamped
<1>4. DOMAIN Deadline(r) = r.data
      /\ \A i \in r.data : Deadline(r)[i] = IF i \in DOMAIN r.ttl THEN {r.ttl[i].expires} ELSE {}
  BY DEF Deadline
<1>5. CASE k \notin DOMAIN puts
  <2>1. KeyKept(k, Deadline(m), Deadline(n))
    BY <1>1, ReadKeeps
  <2>2. k \notin Timed(puts) /\ k \notin Deleted(puts)
    BY <1>5 DEF Timed, Deleted
  <2>3. (k \in r.data <=> k \in n.data) /\ (k \in DOMAIN r.ttl <=> k \in DOMAIN n.ttl)
    BY <1>2, <1>3, <1>5, <2>2
  <2>4. k \in DOMAIN r.ttl => r.ttl[k] = n.ttl[k]
    BY <1>3, <2>2
  <2>5. /\ k \in DOMAIN Deadline(r) <=> k \in DOMAIN Deadline(n)
        /\ k \in DOMAIN Deadline(n) => Deadline(r)[k] = Deadline(n)[k]
    BY <2>3, <2>4 DEF Deadline
  <2>6. KeyKept(k, Deadline(m), Deadline(r))
    BY <2>1, <2>5 DEF KeyKept
  <2> QED BY <1>5, <2>6
<1>6. CASE k \in DOMAIN puts /\ puts[k].del
  <2>1. k \notin r.data
    BY <1>2, <1>6 DEF Deleted
  <2> QED BY <1>4, <1>6, <2>1 DEF KeyWritten
<1>7. CASE k \in DOMAIN puts /\ ~ puts[k].del
  <2>1. k \in r.data
    BY <1>2, <1>7 DEF Deleted
  <2>2. puts[k].ttl \subseteq Nat /\ \A i, j \in puts[k].ttl : i = j
    BY <1>7 DEF IsPuts, IsPutOp
  <2>3. CASE puts[k].ttl = {}
    <3>1. k \notin DOMAIN r.ttl
      BY <1>3, <1>7, <2>3 DEF Timed
    <3>2. Deadline(r)[k] = {}
      BY <1>4, <2>1, <3>1
    <3> QED BY <1>4, <1>7, <2>1, <2>3, <3>2 DEF KeyWritten
  <2>4. CASE puts[k].ttl # {}
    <3>1. k \in Timed(puts)
      BY <1>7, <2>4 DEF Timed, Deleted
    <3>2. Minutes(puts[k]) \in puts[k].ttl
      BY <2>4 DEF Minutes
    <3>3. puts[k].ttl = {Minutes(puts[k])}
      BY <2>2, <3>2
    <3>4. r.ttl[k].expires = now + Minutes(puts[k]) /\ k \in DOMAIN r.ttl
      <4>1. k \in DOMAIN r.ttl
        BY <1>3, <3>1
      <4>2. r.ttl[k] = Stamp(puts[k], now)
        BY <1>3, <3>1, <4>1
      <4> QED BY <4>1, <4>2 DEF Stamp
    <3>5. Deadline(r)[k] = {now + Minutes(puts[k])}
      BY <1>4, <2>1, <3>4
    <3>6. {now + i : i \in puts[k].ttl} = {now + Minutes(puts[k])}
      BY <3>3
    <3> QED BY <1>4, <1>7, <2>1, <3>5, <3>6 DEF KeyWritten
  <2> QED BY <2>3, <2>4
<1> QED BY <1>5, <1>6, <1>7

LEMMA ServedRefines ==
  ASSUME DataInv, Served
  PROVE  Abstract!Read \/ \E b \in Batch : Abstract!Request(b.puts)
<1>0. now \in Nat
  BY BoundsAssumption DEF DataInv
<1>1. CASE ReadStep(mem', mem)
  <2>1. \A k \in Key : KeyKept(k, Deadline(mem), Deadline(mem'))
    BY <1>1, ReadKeeps
  <2> QED BY <2>1 DEF KeyKept, Deadline, Abstract!Read, Abstract!Same, Abstract!PutOff
<1>2. ASSUME NEW b \in Batch, PutStep(mem', mem, b.puts) PROVE Abstract!Request(b.puts)
  <2>1. IsPuts(b.puts)
    BY BatchAssumption DEF IsPuts
  <2>2. \A k \in DOMAIN b.puts : KeyWritten(b.puts[k], k, Deadline(mem'))
    BY <1>0, <1>2, <2>1, PutsWrite
  <2>3. \A k \in Key \ DOMAIN b.puts : KeyKept(k, Deadline(mem), Deadline(mem'))
    BY <1>0, <1>2, <2>1, PutsWrite
  <2>4. \A k \in DOMAIN b.puts : Abstract!Written(k, b.puts[k])
    BY <2>2 DEF KeyWritten, Deadline, Abstract!Written
  <2>5. \A k \in Key \ DOMAIN b.puts : Abstract!Same(k) \/ Abstract!PutOff(k)
    BY <2>3 DEF KeyKept, Deadline, Abstract!Same, Abstract!PutOff
  <2> QED BY <2>4, <2>5 DEF Abstract!Request
<1> QED BY <1>1, <1>2 DEF Served

LEMMA SweepExpires ==
  ASSUME DataInv, mem' = Swept(mem)
  PROVE  Abstract!Expire
<1> DEFINE r == Swept(mem)
           gone == Expired(mem)
           D == {k \in DOMAIN Deadline(mem) : \A d \in Deadline(mem)[k] : d > now}
<1>0. now \in Nat /\ Whole(mem, now) /\ mem.ttl \in Ttl
  BY BoundsAssumption DEF DataInv, Whole, Memory
<1>1. /\ r.data = mem.data \ gone
      /\ DOMAIN r.ttl = DOMAIN mem.ttl \ gone /\ \A k \in DOMAIN r.ttl : r.ttl[k] = mem.ttl[k]
  BY <1>0, SweptFacts
<1>2. \A k \in DOMAIN mem.ttl : mem.ttl[k].expires \in Nat
  BY <1>0, TtlType
<1>3. \A k : k \in gone <=> k \in DOMAIN mem.ttl /\ ~ (mem.ttl[k].expires > now)
  BY <1>0, <1>2 DEF Expired
<1>4. D = mem.data \ gone
  BY <1>3 DEF Deadline
<1> HIDE DEF r, gone, D
<1>5. \A k \in r.data : k \in DOMAIN r.ttl <=> k \in DOMAIN mem.ttl
  BY <1>1
<1>6. Deadline(r) = [k \in D |-> Deadline(mem)[k]]
  BY <1>1, <1>4, <1>5 DEF Deadline
<1>7. Deadline(mem') = [k \in D |-> Deadline(mem)[k]]
  BY <1>6 DEF r
<1> QED BY <1>7 DEF Abstract!Expire, Abstract!Restrict, Deadline, D

\* A new process that finds complete files finds every item and deadline.
LEMMA RestartRecovers ==
  ASSUME DataInv, mem' = Loaded(disk), disk.data = mem.data, disk.ttl = mem.ttl
  PROVE  Deadline(mem') = Deadline(mem)
<1> DEFINE r == Loaded(disk)
<1>1. /\ r.data = disk.data
      /\ DOMAIN r.ttl = DOMAIN disk.ttl \cap disk.data /\ \A k \in DOMAIN r.ttl : r.ttl[k] = disk.ttl[k]
  BY LoadedFacts DEF DataInv
<1>2. DOMAIN mem.ttl \subseteq mem.data
  BY DEF DataInv, Whole
<1> HIDE DEF r
<1>3. Deadline(r) = Deadline(mem)
  BY <1>1, <1>2 DEF Deadline
<1> QED BY <1>3 DEF r

LEMMA StoreRefines ==
  ASSUME DataInv, LockInv, [Next]_vars
  PROVE  [Abstract!Next]_<<now, Deadline(mem), sweeper = "lock", crashes>>
<1> DEFINE Same == UNCHANGED <<now, Deadline(mem), sweeper = "lock", crashes>>
           Goal == [Abstract!Next]_<<now, Deadline(mem), sweeper = "lock", crashes>>
<1>0. now \in Nat /\ crashes \in Nat
  BY BoundsAssumption DEF DataInv
<1>1. ASSUME Served PROVE Abstract!Next
  <2>1. UNCHANGED <<now, sweeper, crashes>>
    BY <1>1 DEF Served
  <2>2. Abstract!Read \/ \E b \in Batch : Abstract!Request(b.puts)
    BY <1>1, ServedRefines
  <2> QED BY <2>1, <2>2 DEF Abstract!Next, Abstract!Step
<1>2. ASSUME NEW c \in Client, Request(c) PROVE Goal
  BY <1>1, <1>2, RequestServed
<1>3. ASSUME NEW b \in Batch, SyncBatch(b) PROVE Goal
  BY <1>1, <1>3, BatchServed
<1>4. CASE SweepTTL
  <2>1. UNCHANGED <<now, crashes>> /\ sweeper = "lock" /\ sweeper' # "lock" /\ mem' = Swept(mem)
    BY <1>4 DEF SweepTTL
  <2>2. Abstract!Expire
    BY <2>1, SweepExpires
  <2> QED BY <2>1, <2>2 DEF Abstract!Next, Abstract!Step
<1>5. CASE SweeperStops
  <2>1. UNCHANGED <<now, mem, crashes>> /\ sweeper' # "lock"
    BY <1>5 DEF SweeperStops
  <2>2. CASE sweeper = "lock"
    BY <2>1, <2>2 DEF Abstract!Next, Abstract!Step
  <2>3. CASE sweeper # "lock"
    BY <2>1, <2>3
  <2> QED BY <2>2, <2>3
<1>6. CASE SweeperWakes
  <2>1. UNCHANGED <<now, mem, crashes>> /\ sweeper # "lock" /\ sweeper' = "lock"
    BY <1>6 DEF SweeperWakes
  <2> QED BY <2>1 DEF Abstract!Next, Abstract!Step
<1>7. CASE Restart
  <2>1. crashes' = crashes + 1 /\ UNCHANGED now /\ mem' = Loaded(disk)
    BY <1>7 DEF Restart
  <2>2. crashes' # crashes
    BY <1>0, <2>1
  <2>3. disk.data = mem.data /\ disk.ttl = mem.ttl => Deadline(mem') = Deadline(mem)
    BY <2>1, RestartRecovers
  <2> QED BY <2>1, <2>2, <2>3 DEF Abstract!Next, Abstract!Recover, Deadline
<1>8. CASE Tick
  <2>1. now' = now + 1 /\ UNCHANGED <<mem, sweeper, crashes>>
    BY <1>8 DEF Tick
  <2>2. now' > now
    BY <1>0, <2>1
  <2> QED BY <2>1, <2>2 DEF Abstract!Next, Abstract!Step
<1>9. CASE StartSweeper \/ StopSweeper \/ (\E c \in Client, b \in Batch : Abatch(c, b))
           \/ (\E f \in {"data", "vectors", "ttl"} : Flush(f)) \/ UNCHANGED vars
  <2>1. UNCHANGED <<now, mem, crashes>> /\ (sweeper' = "lock" <=> sweeper = "lock")
    BY <1>9 DEF StartSweeper, StopSweeper, Abatch, Flush, vars
  <2> QED BY <2>1
<1> QED BY <1>2, <1>3, <1>4, <1>5, <1>6, <1>7, <1>8, <1>9 DEF Next

\* The store implements the expiring map: whatever requests are suspended
\* over an embedding and whatever the synchronous batch does meanwhile
\* (store.py, abatch, batch, sweep_ttl and the loading of the files), an item
\* leaves only on request or after its deadline, a refresh gives no deadline
\* to an item that has none, and a restart from complete files changes
\* nothing.
THEOREM StoreItemsExpire == Spec => ItemsExpire
<1>1. Init => Abstract!Init
  <2> SUFFICES ASSUME Init PROVE Abstract!Init
    OBVIOUS
  <2>1. disk \in Files /\ IsFiniteSet(disk.data) /\ Timely(disk.ttl, now) /\ disk.data = {} /\ mem = Loaded(disk)
    BY DataInit DEF Init, DataInv
  <2>2. mem.data = {}
    BY <2>1, LoadedFacts
  <2> QED BY <2>2 DEF Init, Abstract!Init
<1>2. DataInv /\ LockInv /\ [Next]_vars => [Abstract!Next]_<<now, Deadline(mem), sweeper = "lock", crashes>>
  BY StoreRefines
<1> QED BY <1>1, <1>2, StoreInvariant, PTL DEF Spec, ItemsExpire, Abstract!Spec, Deadline
=============================================================================
