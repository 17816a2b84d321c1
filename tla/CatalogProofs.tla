---------------------------- MODULE CatalogProofs ----------------------------
(***************************************************************************)
(* Proofs about Catalog: types, versions, crons and dates, for any graphs, *)
(* assistants, schedules, zones and requests.                              *)
(***************************************************************************)
EXTENDS Catalog, FiniteSetTheorems, WellFoundedInduction, TLAPS

\* Every non-empty set of numbers has a least element.
LEMMA LeastExists ==
  ASSUME NEW S, S \subseteq Nat, S # {}
  PROVE  \E n \in S : \A m \in S : n <= m
<1> DEFINE R == {p \in Nat \X Nat : p[1] < p[2]}
<1>1. IsWellFoundedOn(R, Nat)
  BY NatLessThanWellFounded DEF OpToRel
<1>2. ASSUME NEW m \in Nat, NEW n \in Nat, <<m, n>> \notin R PROVE n <= m
  BY <1>2
<1> HIDE DEF R
<1>3. \E n \in S : \A m \in S : <<m, n>> \notin R
  BY <1>1, WFMin
<1> QED BY <1>2, <1>3

LEMMA MinExists ==
  ASSUME NEW S, S \subseteq Nat, S # {}
  PROVE  Min(S) \in S /\ \A m \in S : Min(S) <= m
  BY LeastExists DEF Min

\* A set of numbers that holds 0 and the successor of each of its members.
LEMMA Induction ==
  ASSUME NEW S, 0 \in S, \A n \in Nat : n \in S => n + 1 \in S
  PROVE  Nat \subseteq S
<1> DEFINE T == Nat \ S
<1>1. SUFFICES ASSUME T # {} PROVE FALSE
  OBVIOUS
<1>2. PICK n \in T : \A m \in T : n <= m
  <2> HIDE DEF T
  <2>1. T \subseteq Nat
    BY DEF T
  <2> QED BY <1>1, <2>1, LeastExists
<1>3. n # 0 /\ n - 1 \in Nat /\ n - 1 \in S
  BY <1>2
<1> QED BY <1>2, <1>3

\* A finite set of numbers has a greatest element.
LEMMA MaxExists ==
  ASSUME NEW S, S \subseteq Nat, IsFiniteSet(S), S # {}
  PROVE  Max(S) \in S /\ \A m \in S : m <= Max(S)
<1> DEFINE B == {n \in Nat : \A T \in SUBSET S :
                    Cardinality(T) = n => \E b \in Nat : \A m \in T : m <= b}
<1>1. 0 \in B
  <2> SUFFICES ASSUME NEW T \in SUBSET S, Cardinality(T) = 0
               PROVE \A m \in T : m <= 0
    OBVIOUS
  <2>1. T = {}
    BY FS_Subset, FS_EmptySet
  <2> QED BY <2>1
<1>2. ASSUME NEW n \in Nat, n \in B PROVE n + 1 \in B
  <2>1. ASSUME NEW T \in SUBSET S, Cardinality(T) = n + 1
        PROVE \E b \in Nat : \A m \in T : m <= b
    <3>1. IsFiniteSet(T)
      BY FS_Subset
    <3>2. PICK x : x \in T
      BY <2>1, <3>1, FS_EmptySet
    <3>3. Cardinality(T \ {x}) = Cardinality(T) - 1
      BY <3>1, <3>2, FS_RemoveElement
    <3>4. PICK b \in Nat : \A m \in T \ {x} : m <= b
      <4>1. Cardinality(T \ {x}) = n
        <5> HIDE DEF B
        <5> QED BY <2>1, <3>3
      <4>2. T \ {x} \in SUBSET S
        OBVIOUS
      <4> QED BY <1>2, <4>1, <4>2
    <3>5. x \in Nat /\ b + x \in Nat
      BY <3>2
    <3>6. ASSUME NEW m \in T PROVE m <= b + x
      <4> m \in Nat
        OBVIOUS
      <4> QED BY <3>4, <3>5
    <3> QED BY <3>5, <3>6
  <2>2. n + 1 \in Nat
    OBVIOUS
  <2> QED BY <2>1, <2>2
<1> HIDE DEF B
<1>3. Cardinality(S) \in B
  BY <1>1, <1>2, Induction, FS_CardinalityType
<1> DEFINE U == {b \in Nat : \A m \in S : m <= b}
<1>4. U # {}
  BY <1>3 DEF B
<1>5. PICK u \in U : \A b \in U : u <= b
  BY <1>4, LeastExists
<1>6. u \in S
  <2> SUFFICES ASSUME u \notin S PROVE FALSE
    OBVIOUS
  <2>1. PICK x \in S : TRUE
    OBVIOUS
  <2>2. u - 1 \in U
    BY <1>5, <2>1
  <2> QED BY <1>5, <2>2
<1> QED BY <1>5, <1>6 DEF Max

\* h lists the positions ps in order, and t the entries of s there.
Lists(h, ps, t, s) ==
  LET N == Cardinality(ps)
  IN /\ N \in Nat /\ h \in [1..N -> ps]
     /\ \A i, j \in 1..N : i < j => h[i] < h[j]
     /\ \A p \in ps : \E i \in 1..N : h[i] = p
     /\ t = [i \in 1..N |-> s[h[i]]]

\* What At gives: the positions in order, none twice and none left out.
LEMMA AtPositions ==
  ASSUME NEW s, NEW n \in Nat, NEW ps, ps \subseteq 1..n
  PROVE  \E h : Lists(h, ps, At(s, ps), s)
<1> DEFINE before(p) == {q \in ps : q < p}
           N == Cardinality(ps)
           f == [p \in ps |-> Cardinality(before(p)) + 1]
<1>0. \A p \in ps : p \in Nat
  OBVIOUS
<1>1. IsFiniteSet(ps) /\ N \in Nat
  <2>1. IsFiniteSet(1..n)
    BY FS_Interval
  <2>2. IsFiniteSet(ps)
    BY <2>1, FS_Subset
  <2> QED BY <2>2, FS_CardinalityType
<1>2. \A p : IsFiniteSet(before(p)) /\ Cardinality(before(p)) \in Nat
  BY <1>1, FS_Subset, FS_CardinalityType
<1>3. ASSUME NEW p \in ps PROVE Cardinality(before(p)) < N
  <2>1. before(p) \subseteq ps /\ before(p) # ps
    BY p \notin before(p)
  <2>2. Cardinality(before(p)) <= N /\ Cardinality(before(p)) # N
    <3> HIDE DEF before
    <3> QED BY <1>1, <2>1, FS_Subset
  <2> QED BY <1>1, <1>2, <2>2
<1>4. ASSUME NEW p \in ps, NEW q \in ps, p < q
      PROVE Cardinality(before(p)) < Cardinality(before(q))
  <2>1. before(p) \in SUBSET before(q) /\ p \in before(q) /\ p \notin before(p)
    <3>1. ASSUME NEW r \in ps, r < p PROVE r < q
      BY <1>4, <3>1
    <3>2. ~ (p < p)
      OBVIOUS
    <3> QED BY <1>4, <3>1, <3>2
  <2>2. Cardinality(before(p)) <= Cardinality(before(q)) /\ Cardinality(before(p)) # Cardinality(before(q))
    <3> HIDE DEF before
    <3> QED BY <1>2, <2>1, FS_Subset
  <2> QED BY <1>2, <2>2
<1> HIDE DEF before
<1>5. f \in [ps -> 1..N]
  BY <1>1, <1>2, <1>3
<1>6. \A p, q \in ps : f[p] = f[q] => p = q
  BY <1>2, <1>4
<1>7. f \in Injection(ps, 1..N)
  BY <1>5, <1>6 DEF Injection, IsInjective
<1>8. f \in Surjection(ps, 1..N)
  BY <1>1, <1>7, FS_Injection, FS_Interval
<1>9. \A i \in 1..N : \E p \in ps : f[p] = i
  BY <1>8 DEF Surjection
<1> DEFINE h == [i \in 1..N |-> CHOOSE p \in ps : Cardinality({q \in ps : q < p}) = i - 1]
<1>10. ASSUME NEW i \in 1..N PROVE h[i] \in ps /\ f[h[i]] = i
  <2>1. \E p \in ps : Cardinality({q \in ps : q < p}) = i - 1
    <3>1. PICK p \in ps : f[p] = i
      BY <1>9
    <3>2. Cardinality(before(p)) = i - 1
      BY <1>2, <3>1
    <3> QED BY <3>2 DEF before
  <2> HIDE DEF f, N
  <2>2. h[i] \in ps /\ Cardinality({q \in ps : q < h[i]}) = i - 1
    BY <2>1
  <2> QED BY <1>2, <2>2 DEF f, before
<1> HIDE DEF f
<1>11. At(s, ps) = [i \in 1..N |-> s[h[i]]]
  BY DEF At
<1> HIDE DEF h
<1>12. \A i, j \in 1..N : i < j => h[i] < h[j]
  <2>1. ASSUME NEW i \in 1..N, NEW j \in 1..N, i < j, ~(h[i] < h[j]) PROVE FALSE
    <3>1. h[i] \in ps /\ h[j] \in ps /\ h[i] # h[j]
      BY <1>10, <2>1
    <3>a. h[i] \in Nat /\ h[j] \in Nat
      BY <1>0, <3>1
    <3>2. Cardinality(before(h[j])) < Cardinality(before(h[i]))
      BY <1>4, <2>1, <3>1, <3>a
    <3>3. f[h[j]] < f[h[i]]
      BY <1>2, <3>1, <3>2 DEF f
    <3> QED BY <1>10, <2>1, <3>3
  <2> QED BY <2>1
<1>13. \A p \in ps : \E i \in 1..N : h[i] = p
  BY <1>5, <1>6, <1>10
<1>14. h \in [1..N -> ps]
  BY <1>10 DEF h
<1> QED BY <1>1, <1>11, <1>12, <1>13, <1>14 DEF Lists

\* The list t has the entries of s at ps, each once.
Picked(t, s, S, ps) ==
  /\ t \in Seq(S) /\ ToSet(t) = {s[p] : p \in ps}
  /\ \A i, j \in DOMAIN t : i # j => \E p, q \in ps : p # q /\ t[i] = s[p] /\ t[j] = s[q]

LEMMA AtSeq ==
  ASSUME NEW S, NEW s \in Seq(S), NEW ps, ps \subseteq DOMAIN s
  PROVE  Picked(At(s, ps), s, S, ps)
<1> DEFINE N == Cardinality(ps)
           t == At(s, ps)
<1>1. Len(s) \in Nat /\ DOMAIN s = 1..Len(s) /\ ps \subseteq 1..Len(s)
  OBVIOUS
<1>2. PICK h : Lists(h, ps, At(s, ps), s)
  BY <1>1, AtPositions
<1>3. /\ N \in Nat /\ h \in [1..N -> ps]
      /\ \A i, j \in 1..N : i < j => h[i] < h[j]
      /\ \A p \in ps : \E i \in 1..N : h[i] = p
      /\ t = [i \in 1..N |-> s[h[i]]]
  BY <1>2 DEF Lists
<1> HIDE DEF t, N
<1>4. \A i \in 1..N : s[h[i]] \in S
  BY <1>1, <1>3
<1>5. t \in [1..N -> S] /\ DOMAIN t = 1..N /\ \A i \in 1..N : t[i] = s[h[i]]
  BY <1>3, <1>4
<1>6. t \in Seq(S)
  BY <1>3, <1>5
<1>7. ToSet(t) = {s[p] : p \in ps}
  <2>1. ASSUME NEW i \in 1..N PROVE h[i] \in ps /\ t[i] = s[h[i]]
    BY <1>3, <1>5
  <2>2. ASSUME NEW p \in ps PROVE \E i \in 1..N : t[i] = s[p]
    BY <1>3, <1>5
  <2> QED BY <1>5, <2>1, <2>2 DEF ToSet
<1>8. ASSUME NEW i \in 1..N, NEW j \in 1..N, i # j PROVE h[i] # h[j]
  <2>1. i < j \/ j < i
    BY <1>3, <1>8
  <2>2. h[i] \in 1..Len(s) /\ h[j] \in 1..Len(s)
    BY <1>1, <1>3
  <2> QED BY <1>1, <1>3, <2>1, <2>2
<1>9. Picked(t, s, S, ps)
  <2>1. ASSUME NEW i \in DOMAIN t, NEW j \in DOMAIN t, i # j
        PROVE \E p, q \in ps : p # q /\ t[i] = s[p] /\ t[j] = s[q]
    <3>1. h[i] \in ps /\ h[j] \in ps /\ h[i] # h[j]
      BY <1>3, <1>5, <1>8, <2>1
    <3> QED BY <1>5, <3>1
  <2> QED BY <1>6, <1>7, <2>1 DEF Picked
<1> QED BY <1>9 DEF t

\* Division with remainder, for a schedule that runs every s units.
LEMMA Remainder ==
  ASSUME NEW s \in Nat \ {0}, NEW q \in Int, NEW r \in 0..s-1, NEW d \in Int, d = s * q + r
  PROVE  d % s = r
  BY Z3

LEMMA Division ==
  ASSUME NEW s \in Nat \ {0}, NEW d \in Int
  PROVE  d = s * (d \div s) + (d % s) /\ d \div s \in Int /\ d % s \in 0..s-1
  BY Z3

\* The next date of a schedule exists: it is later, and on the schedule.
LEMMA NextDate ==
  ASSUME NEW s \in Period, NEW z \in Zone, NEW t \in Nat
  PROVE  /\ NextCronDate(s, z, t) \in Nat /\ NextCronDate(s, z, t) > t
         /\ OnSchedule(s, z, NextCronDate(s, z, t))
<1>1. s \in Nat \ {0} /\ z \in Nat
  BY CatalogAssumption
<1> DEFINE q == t \div s
           r == z % s
           rt == t % s
<1>2. t = s * q + rt /\ q \in Int /\ rt \in 0..s-1 /\ r \in 0..s-1
  BY <1>1, Division
<1> HIDE DEF q, r, rt
<1>3. \E d \in t + 1 .. t + s : d % s = r
  <2>1. CASE r > rt
    <3>1. s * q \in Int
      BY <1>1, <1>2
    <3>2. s * q + r \in t + 1 .. t + s
      BY <1>1, <1>2, <2>1, <3>1
    <3>3. s * q + r \in Int
      BY <1>1, <1>2, <3>1
    <3>4. (s * q + r) % s = r
      BY <1>1, <1>2, <3>3, Remainder
    <3> QED BY <3>2, <3>4
  <2>2. CASE ~ (r > rt)
    <3>1. s * q \in Int /\ s * (q + 1) = s * q + s /\ q + 1 \in Int
      BY <1>1, <1>2
    <3>2. s * (q + 1) + r \in t + 1 .. t + s
      BY <1>1, <1>2, <2>2, <3>1
    <3>3. s * (q + 1) + r \in Int
      BY <1>1, <1>2, <3>1
    <3>4. (s * (q + 1) + r) % s = r
      BY <1>1, <1>2, <3>1, <3>3, Remainder
    <3> QED BY <3>2, <3>4
  <2> QED BY <2>1, <2>2
<1>4. NextCronDate(s, z, t) \in t + 1 .. t + s /\ OnSchedule(s, z, NextCronDate(s, z, t))
  BY <1>3 DEF NextCronDate, OnSchedule, r
<1> QED BY <1>1, <1>4

LEMMA AppendFacts ==
  ASSUME NEW S, NEW s \in Seq(S), NEW e \in S
  PROVE  /\ Append(s, e) \in Seq(S) /\ Len(Append(s, e)) = Len(s) + 1
         /\ DOMAIN Append(s, e) = DOMAIN s \cup {Len(s) + 1} /\ Len(s) + 1 \notin DOMAIN s
         /\ \A i \in DOMAIN s : Append(s, e)[i] = s[i]
         /\ Append(s, e)[Len(s) + 1] = e
         /\ ToSet(Append(s, e)) = ToSet(s) \cup {e}
<1>1. /\ Append(s, e) \in Seq(S) /\ Len(Append(s, e)) = Len(s) + 1
      /\ DOMAIN Append(s, e) = DOMAIN s \cup {Len(s) + 1} /\ Len(s) + 1 \notin DOMAIN s
  OBVIOUS
<1>2. /\ \A i \in DOMAIN s : Append(s, e)[i] = s[i]
      /\ Append(s, e)[Len(s) + 1] = e
  OBVIOUS
<1>3. ToSet(Append(s, e)) = ToSet(s) \cup {e}
  <2> DEFINE t == Append(s, e)
             n == Len(s) + 1
  <2>1. DOMAIN t = DOMAIN s \cup {n} /\ t[n] = e /\ \A i \in DOMAIN s : t[i] = s[i]
    BY <1>1, <1>2
  <2> HIDE DEF t, n
  <2>2. ToSet(t) = ToSet(s) \cup {e}
    BY <2>1 DEF ToSet
  <2> QED BY <2>2 DEF t
<1> QED BY <1>1, <1>2, <1>3

LEMMA ConcatFacts ==
  ASSUME NEW S, NEW s \in Seq(S), NEW t \in Seq(S)
  PROVE  /\ s \o t \in Seq(S)
         /\ \A i \in DOMAIN (s \o t) : (i \in DOMAIN s /\ (s \o t)[i] = s[i])
              \/ (i \notin DOMAIN s /\ i - Len(s) \in DOMAIN t /\ (s \o t)[i] = t[i - Len(s)])
         /\ ToSet(s \o t) = ToSet(s) \cup ToSet(t)
<1>1. /\ s \o t \in Seq(S) /\ Len(s) \in Nat /\ Len(t) \in Nat
      /\ DOMAIN (s \o t) = 1..(Len(s) + Len(t)) /\ DOMAIN s = 1..Len(s) /\ DOMAIN t = 1..Len(t)
  OBVIOUS
<1>2. \A i \in 1..(Len(s) + Len(t)) : (s \o t)[i] = IF i <= Len(s) THEN s[i] ELSE t[i - Len(s)]
  OBVIOUS
<1>3. \A i \in DOMAIN (s \o t) : (i \in DOMAIN s /\ (s \o t)[i] = s[i])
              \/ (i \notin DOMAIN s /\ i - Len(s) \in DOMAIN t /\ (s \o t)[i] = t[i - Len(s)])
  BY <1>1, <1>2
<1>4. \A i \in DOMAIN s : i \in DOMAIN (s \o t) /\ (s \o t)[i] = s[i]
  BY <1>1, <1>2
<1>5. ASSUME NEW i \in DOMAIN t PROVE i + Len(s) \in DOMAIN (s \o t) /\ (s \o t)[i + Len(s)] = t[i]
  <2>1. i + Len(s) \in 1..(Len(s) + Len(t)) /\ ~ (i + Len(s) <= Len(s)) /\ (i + Len(s)) - Len(s) = i
    BY <1>1
  <2> QED BY <1>1, <1>2, <2>1
<1>6. ToSet(s \o t) = ToSet(s) \cup ToSet(t)
  <2>1. ASSUME NEW x \in ToSet(s \o t) PROVE x \in ToSet(s) \cup ToSet(t)
    BY <1>3 DEF ToSet
  <2>2. ASSUME NEW x \in ToSet(s) PROVE x \in ToSet(s \o t)
    BY <1>4 DEF ToSet
  <2>3. ASSUME NEW x \in ToSet(t) PROVE x \in ToSet(s \o t)
    BY <1>5 DEF ToSet
  <2> QED BY <2>1, <2>2, <2>3
<1> QED BY <1>1, <1>3, <1>6

----------------------------------------------------------------------------
(* Assistants and their versions.                                          *)

OneEntry == \A i, j \in DOMAIN assistants : i # j => assistants[i].id # assistants[j].id

\* The versions of a client's assistant go with the assistant.
VersionsOwned == \A v \in ToSet(versions) : v.id \in User => Has(v.id)

AssistantTypes == assistants \in Seq(Version) /\ versions \in Seq(Version)

AssistantInv == AssistantTypes /\ OneEntry /\ VersionsOwned /\ VersionsSound

LEMMA SystemDataType == SystemData \in Data
  BY CatalogAssumption DEF SystemData

LEMMA FirstType ==
  ASSUME NEW a \in Id, NEW c \in Data, NEW b \in Data
  PROVE  First(a, c, b) \in Version
  BY DEF First, Version

\* The list of assistants has the entry that Entry gives.
LEMMA EntryFacts ==
  ASSUME NEW a, Has(a)
  PROVE  \E i \in DOMAIN assistants : Entry(a) = assistants[i] /\ assistants[i].id = a
  BY DEF Has, Entry

LEMMA UpdatedType ==
  ASSUME assistants \in Seq(Version), NEW e \in Version
  PROVE  /\ Updated(e) \in Seq(Version) /\ DOMAIN Updated(e) = DOMAIN assistants
         /\ \A i \in DOMAIN assistants :
              Updated(e)[i] = IF assistants[i].id = e.id THEN e ELSE assistants[i]
         /\ \A i \in DOMAIN assistants : Updated(e)[i].id = assistants[i].id
<1>1. Len(assistants) \in Nat /\ DOMAIN assistants = 1..Len(assistants)
      /\ \A i \in DOMAIN assistants : assistants[i] \in Version
  OBVIOUS
<1>2. Updated(e) \in [1..Len(assistants) -> Version]
  BY <1>1 DEF Updated
<1>3. Updated(e) \in Seq(Version)
  BY <1>1, <1>2
<1> QED BY <1>1, <1>2, <1>3 DEF Updated

LEMMA VersionsFinite ==
  ASSUME versions \in Seq(Version), NEW a
  PROVE  IsFiniteSet(VersionNumbers(a)) /\ VersionNumbers(a) \subseteq Nat
<1> DEFINE D == {i \in DOMAIN versions : versions[i].id = a}
           f == [i \in D |-> versions[i].ver]
<1>1. DOMAIN versions = 1..Len(versions) /\ Len(versions) \in Nat
  OBVIOUS
<1>2. IsFiniteSet(1..Len(versions))
  BY <1>1, FS_Interval
<1>3. IsFiniteSet(D)
  BY <1>1, <1>2, FS_Subset
<1>4. \A n \in VersionNumbers(a) : \E i \in D : versions[i].ver = n
  BY DEF VersionNumbers, VersionsOf, ToSet
<1>5. \A i \in D : versions[i].ver \in VersionNumbers(a)
  BY DEF VersionNumbers, VersionsOf, ToSet
<1>6. f \in Surjection(D, VersionNumbers(a))
  <2> HIDE DEF D
  <2> QED BY <1>4, <1>5 DEF Surjection
<1>7. IsFiniteSet(VersionNumbers(a))
  <2> HIDE DEF D, f
  <2> QED BY <1>3, <1>6, FS_Surjection
<1>8. \A v \in ToSet(versions) : v.ver \in Nat
  <2>1. \A i \in DOMAIN versions : versions[i] \in Version
    OBVIOUS
  <2> QED BY <2>1 DEF ToSet, Version
<1> QED BY <1>7, <1>8 DEF VersionNumbers, VersionsOf

\* A new assistant, whose id no version has.
LEMMA PutAssistant ==
  ASSUME AssistantInv, NEW a \in Id, NEW c \in Data, NEW b \in Data, AssistantPut(a, c, b)
  PROVE  AssistantInv'
<1> DEFINE e == First(a, c, b)
<1>1. e \in Version /\ e.id = a /\ e.ver = 1 /\ e.conf = c /\ e.base = b
  BY FirstType DEF First
<1>2. assistants' = Append(assistants, e) /\ versions' = Append(versions, e) /\ ~ Has(a)
  BY DEF AssistantPut
<1> HIDE DEF e
<1>3. assistants \in Seq(Version) /\ versions \in Seq(Version)
  BY DEF AssistantInv, AssistantTypes
<1>4. /\ assistants' \in Seq(Version)
      /\ DOMAIN assistants' = DOMAIN assistants \cup {Len(assistants) + 1}
      /\ \A i \in DOMAIN assistants : assistants'[i] = assistants[i]
      /\ assistants'[Len(assistants) + 1] = e
      /\ ToSet(assistants') = ToSet(assistants) \cup {e}
  BY <1>1, <1>2, <1>3, AppendFacts
<1>5. /\ versions' \in Seq(Version)
      /\ DOMAIN versions' = DOMAIN versions \cup {Len(versions) + 1}
      /\ \A i \in DOMAIN versions : versions'[i] = versions[i]
      /\ versions'[Len(versions) + 1] = e
      /\ ToSet(versions') = ToSet(versions) \cup {e}
  BY <1>1, <1>2, <1>3, AppendFacts
<1>6. OneEntry'
  BY <1>1, <1>2, <1>4 DEF AssistantInv, OneEntry, Has
<1>7. ASSUME NEW k, Has(k) \/ k = a PROVE Has(k)'
  BY <1>1, <1>4, <1>7 DEF Has
<1>8. VersionsOwned'
  BY <1>1, <1>5, <1>7 DEF AssistantInv, VersionsOwned
<1>9. ASSUME a \in User, NEW v \in ToSet(versions) PROVE v.id # a
  BY <1>2, <1>9 DEF AssistantInv, VersionsOwned
<1>10. VersionsSound'
  <2>1. ASSUME NEW i \in DOMAIN versions', NEW j \in DOMAIN versions', versions'[i].id \in User, i # j
        PROVE <<versions'[i].id, versions'[i].ver>> # <<versions'[j].id, versions'[j].ver>>
    <3>1. \A n \in DOMAIN versions : a \in User => versions[n].id # a
      BY <1>9 DEF ToSet
    <3>2. CASE i \in DOMAIN versions /\ j \in DOMAIN versions
      BY <1>5, <2>1, <3>2 DEF AssistantInv, VersionsSound
    <3>3. CASE i \notin DOMAIN versions \/ j \notin DOMAIN versions
      BY <1>1, <1>5, <2>1, <3>1, <3>3
    <3> QED BY <3>2, <3>3
  <2>2. ASSUME NEW x \in ToSet(assistants'), x.id \in User
        PROVE /\ \E v \in VersionsOf(x.id)' : v.ver = x.ver /\ v.conf = x.conf
              /\ \E v \in VersionsOf(x.id)' : v.base = x.base /\ \A w \in VersionsOf(x.id)' : w.ver <= v.ver
    <3>1. CASE x = e
      <4>1. VersionsOf(x.id)' = {e}
        BY <1>1, <1>5, <1>9, <2>2, <3>1 DEF VersionsOf
      <4> QED BY <1>1, <3>1, <4>1
    <3>2. CASE x # e
      <4>1. x \in ToSet(assistants) /\ x.id # a
        BY <1>2, <1>4, <2>2, <3>2 DEF Has, ToSet
      <4>2. VersionsOf(x.id)' = VersionsOf(x.id)
        BY <1>1, <1>5, <4>1 DEF VersionsOf
      <4> QED BY <2>2, <4>1, <4>2 DEF AssistantInv, VersionsSound
    <3> QED BY <3>1, <3>2
  <2> QED BY <2>1, <2>2 DEF VersionsSound
<1> QED BY <1>4, <1>5, <1>6, <1>8, <1>10 DEF AssistantInv, AssistantTypes

\* An update of entry e, which keeps the ids of the list.
LEMMA UpdateKeeps ==
  ASSUME AssistantInv, NEW e \in Version, assistants' = Updated(e)
  PROVE  /\ OneEntry' /\ assistants' \in Seq(Version) /\ \A k : Has(k)' <=> Has(k)
         /\ \A x \in ToSet(assistants') : x = e \/ (x \in ToSet(assistants) /\ x.id # e.id)
<1>1. /\ assistants' \in Seq(Version) /\ DOMAIN assistants' = DOMAIN assistants
      /\ \A i \in DOMAIN assistants :
           assistants'[i] = IF assistants[i].id = e.id THEN e ELSE assistants[i]
      /\ \A i \in DOMAIN assistants : assistants'[i].id = assistants[i].id
  BY UpdatedType DEF AssistantInv, AssistantTypes
<1>2. OneEntry'
  BY <1>1 DEF AssistantInv, OneEntry
<1>3. \A k : Has(k)' <=> Has(k)
  BY <1>1 DEF Has
<1>4. \A x \in ToSet(assistants') : x = e \/ (x \in ToSet(assistants) /\ x.id # e.id)
  BY <1>1 DEF ToSet
<1> QED BY <1>1, <1>2, <1>3, <1>4

\* A patch makes the newest version, with a number no version of the
\* assistant has, also after the assistant went back to an older one.
LEMMA PatchAssistant ==
  ASSUME AssistantInv, NEW a \in Id, NEW c \in Data, NEW b \in Data, AssistantPatch(a, c, b)
  PROVE  AssistantInv'
<1> DEFINE n == NewVersion(a)
           e == [id |-> a, ver |-> n, conf |-> c, base |-> b]
<1>1. versions' = Append(versions, e) /\ assistants' = Updated(e) /\ Has(a)
      /\ (versions = <<>> \/ VersionNumbers(a) # {})
  BY DEF AssistantPatch
<1>2. assistants \in Seq(Version) /\ versions \in Seq(Version)
  BY DEF AssistantInv, AssistantTypes
<1>3. n \in Nat /\ \A m \in VersionNumbers(a) : m \in Nat /\ m < n
  <2>1. CASE versions = <<>>
    <3>1. VersionNumbers(a) = {}
      BY <2>1 DEF VersionNumbers, VersionsOf, ToSet
    <3> QED BY <2>1, <3>1 DEF NewVersion
  <2>2. CASE versions # <<>>
    <3>1. VersionNumbers(a) \subseteq Nat /\ Max(VersionNumbers(a)) \in VersionNumbers(a)
          /\ \A m \in VersionNumbers(a) : m <= Max(VersionNumbers(a))
      BY <1>1, <1>2, <2>2, VersionsFinite, MaxExists
    <3>2. n = Max(VersionNumbers(a)) + 1
      BY <2>2 DEF NewVersion
    <3> HIDE DEF n
    <3> QED BY <3>1, <3>2
  <2> QED BY <2>1, <2>2
<1> HIDE DEF n
<1>4. e \in Version /\ e.id = a /\ e.ver = n /\ e.conf = c /\ e.base = b
  BY <1>3 DEF Version
<1> HIDE DEF e
<1>5. /\ versions' \in Seq(Version)
      /\ DOMAIN versions' = DOMAIN versions \cup {Len(versions) + 1}
      /\ \A i \in DOMAIN versions : versions'[i] = versions[i]
      /\ versions'[Len(versions) + 1] = e
      /\ ToSet(versions') = ToSet(versions) \cup {e}
  BY <1>1, <1>2, <1>4, AppendFacts
<1>6. /\ OneEntry' /\ assistants' \in Seq(Version) /\ \A k : Has(k)' <=> Has(k)
      /\ \A x \in ToSet(assistants') : x = e \/ (x \in ToSet(assistants) /\ x.id # e.id)
  BY <1>1, <1>4, UpdateKeeps
<1>7. VersionsOwned'
  BY <1>1, <1>4, <1>5, <1>6 DEF AssistantInv, VersionsOwned
<1>8. VersionsSound'
  <2>1. ASSUME NEW i \in DOMAIN versions', NEW j \in DOMAIN versions', versions'[i].id \in User, i # j
        PROVE <<versions'[i].id, versions'[i].ver>> # <<versions'[j].id, versions'[j].ver>>
    <3>1. ASSUME NEW k \in DOMAIN versions, versions[k].id = a PROVE versions[k].ver # n
      <4>1. versions[k].ver \in VersionNumbers(a)
        BY <3>1 DEF VersionNumbers, VersionsOf, ToSet
      <4> QED BY <1>3, <4>1
    <3>2. CASE i \in DOMAIN versions /\ j \in DOMAIN versions
      BY <1>5, <2>1, <3>2 DEF AssistantInv, VersionsSound
    <3>3. CASE i \notin DOMAIN versions \/ j \notin DOMAIN versions
      BY <1>4, <1>5, <2>1, <3>1, <3>3
    <3> QED BY <3>2, <3>3
  <2>2. ASSUME NEW x \in ToSet(assistants'), x.id \in User
        PROVE /\ \E v \in VersionsOf(x.id)' : v.ver = x.ver /\ v.conf = x.conf
              /\ \E v \in VersionsOf(x.id)' : v.base = x.base /\ \A w \in VersionsOf(x.id)' : w.ver <= v.ver
    <3>1. CASE x = e
      <4>1. e \in VersionsOf(x.id)'
        BY <1>4, <1>5, <3>1 DEF VersionsOf
      <4>2. ASSUME NEW w \in VersionsOf(x.id)' PROVE w.ver <= e.ver
        <5>1. CASE w = e
          BY <1>3, <1>4, <5>1
        <5>2. CASE w # e
          <6>1. w \in VersionsOf(a)
            BY <1>4, <1>5, <3>1, <5>2 DEF VersionsOf
          <6>2. w.ver \in VersionNumbers(a)
            BY <6>1 DEF VersionNumbers
          <6> QED BY <1>3, <1>4, <6>2
        <5> QED BY <5>1, <5>2
      <4> QED BY <3>1, <4>1, <4>2
    <3>2. CASE x # e
      <4>1. x \in ToSet(assistants) /\ x.id # a
        BY <1>4, <1>6, <3>2
      <4>2. VersionsOf(x.id)' = VersionsOf(x.id)
        BY <1>4, <1>5, <4>1 DEF VersionsOf
      <4> QED BY <2>2, <4>1, <4>2 DEF AssistantInv, VersionsSound
    <3> QED BY <3>1, <3>2
  <2> QED BY <2>1, <2>2 DEF VersionsSound
<1> QED BY <1>5, <1>6, <1>7, <1>8 DEF AssistantInv, AssistantTypes

\* Going back to a version takes the configuration recorded for it.
LEMMA RestoreAssistant ==
  ASSUME AssistantInv, NEW a, NEW n \in VersionNumbers(a), SetLatest(a, n)
  PROVE  AssistantInv'
<1> DEFINE D == {i \in DOMAIN versions : versions[i].id = a /\ versions[i].ver = n}
           v == FirstVersion(a, n)
           o == Entry(a)
           e == Restored(o, v)
<1>1. assistants' = Updated(e) /\ versions' = versions /\ Has(a)
  BY DEF SetLatest
<1>2. assistants \in Seq(Version) /\ versions \in Seq(Version)
  BY DEF AssistantInv, AssistantTypes
<1>3. v \in ToSet(versions) /\ v \in Version /\ v.id = a /\ v.ver = n
  <2>1. D # {}
    BY DEF VersionNumbers, VersionsOf, ToSet
  <2>2. D \subseteq Nat
    BY <1>2
  <2> HIDE DEF D
  <2>3. Min(D) \in D
    BY <2>1, <2>2, MinExists
  <2>4. v = versions[Min(D)]
    BY DEF FirstVersion, D
  <2>5. Min(D) \in DOMAIN versions /\ v.id = a /\ v.ver = n
    BY <2>3, <2>4 DEF D
  <2> HIDE DEF v
  <2> QED BY <1>2, <2>4, <2>5 DEF ToSet
<1>4. o \in ToSet(assistants) /\ o \in Version /\ o.id = a
  BY <1>1, <1>2, EntryFacts DEF ToSet
<1> HIDE DEF v, o, D
<1>5. e \in Version /\ e.id = a /\ e.ver = v.ver /\ e.conf = v.conf /\ e.base = o.base
  BY <1>3, <1>4 DEF Restored, Version
<1> HIDE DEF e
<1>6. /\ OneEntry' /\ assistants' \in Seq(Version) /\ \A k : Has(k)' <=> Has(k)
      /\ \A x \in ToSet(assistants') : x = e \/ (x \in ToSet(assistants) /\ x.id # e.id)
  BY <1>1, <1>5, UpdateKeeps
<1>7. VersionsOwned'
  BY <1>1, <1>6 DEF AssistantInv, VersionsOwned
<1>8. VersionsSound'
  <2>1. ASSUME NEW x \in ToSet(assistants'), x.id \in User
        PROVE /\ \E y \in VersionsOf(x.id)' : y.ver = x.ver /\ y.conf = x.conf
              /\ \E y \in VersionsOf(x.id)' : y.base = x.base /\ \A w \in VersionsOf(x.id)' : w.ver <= y.ver
    <3>0. VersionsOf(x.id)' = VersionsOf(x.id)
      BY <1>1 DEF VersionsOf
    <3>1. CASE x = e
      <4>1. v \in VersionsOf(x.id)
        BY <1>3, <1>5, <3>1 DEF VersionsOf
      <4>2. \E y \in VersionsOf(o.id) : y.base = o.base /\ \A w \in VersionsOf(o.id) : w.ver <= y.ver
        BY <1>4, <1>5, <2>1, <3>1 DEF AssistantInv, VersionsSound
      <4> QED BY <1>4, <1>5, <3>0, <3>1, <4>1, <4>2
    <3>2. CASE x # e
      BY <1>6, <2>1, <3>0, <3>2 DEF AssistantInv, VersionsSound
    <3> QED BY <3>1, <3>2
  <2> QED BY <1>1, <2>1 DEF AssistantInv, VersionsSound
<1> QED BY <1>1, <1>2, <1>6, <1>7, <1>8 DEF AssistantInv, AssistantTypes

\* The list t has the entries of s that are in P, each once.
Selection(t, s, S, P) ==
  /\ t \in Seq(S) /\ ToSet(t) = ToSet(s) \cap P
  /\ \A i, j \in DOMAIN t : i # j => \E p, q \in DOMAIN s : p # q /\ t[i] = s[p] /\ t[j] = s[q]

LEMMA FilterFacts ==
  ASSUME NEW S, NEW s \in Seq(S), NEW P
  PROVE  Selection(At(s, {i \in DOMAIN s : s[i] \in P}), s, S, P)
<1> DEFINE ps == {i \in DOMAIN s : s[i] \in P}
           t == At(s, ps)
<1>1. \A i \in ps : i \in DOMAIN s /\ s[i] \in P
  OBVIOUS
<1>2. \A i \in DOMAIN s : s[i] \in P => i \in ps
  OBVIOUS
<1> HIDE DEF ps
<1>3. Picked(At(s, ps), s, S, ps)
  BY <1>1, AtSeq
<1>4. ToSet(t) = ToSet(s) \cap P
  <2>1. ASSUME NEW x \in ToSet(t) PROVE x \in ToSet(s) /\ x \in P
    BY <1>1, <1>3 DEF ToSet, Picked
  <2>2. ASSUME NEW x \in ToSet(s), x \in P PROVE x \in ToSet(t)
    <3>1. PICK i \in DOMAIN s : x = s[i]
      BY DEF ToSet
    <3> QED BY <1>2, <1>3, <2>2, <3>1 DEF Picked
  <2> QED BY <2>1, <2>2
<1> HIDE DEF t
<1>5. Selection(t, s, S, P)
  BY <1>1, <1>3, <1>4 DEF Selection, Picked, t
<1> QED BY <1>5 DEF t, ps

\* A step that keeps a part of the assistants, with the clients' ones in P
\* among them, and of the versions, those of the clients' ids in P at least.
LEMMA KeepAssistants ==
  ASSUME AssistantInv, NEW P,
         assistants' \in Seq(Version), versions' \in Seq(Version), OneEntry',
         \A i, j \in DOMAIN versions' : versions'[i].id \in User /\ i # j =>
           <<versions'[i].id, versions'[i].ver>> # <<versions'[j].id, versions'[j].ver>>,
         \A e : e.id \in User => (e \in ToSet(assistants') <=> e \in ToSet(assistants) /\ e.id \in P),
         \A v : v.id \in User => (v \in ToSet(versions') <=> v \in ToSet(versions) /\ v.id \in P)
  PROVE  AssistantInv'
<1>1. ASSUME NEW v \in ToSet(versions'), v.id \in User PROVE Has(v.id)'
  <2>1. Has(v.id) /\ v.id \in P
    BY <1>1 DEF AssistantInv, VersionsOwned
  <2>2. PICK e \in ToSet(assistants) : e.id = v.id
    BY <2>1 DEF Has, ToSet
  <2>3. e \in ToSet(assistants')
    BY <1>1, <2>1, <2>2
  <2> QED BY <2>2, <2>3 DEF Has, ToSet
<1>2. ASSUME NEW e \in ToSet(assistants'), e.id \in User
      PROVE /\ \E v \in VersionsOf(e.id)' : v.ver = e.ver /\ v.conf = e.conf
            /\ \E v \in VersionsOf(e.id)' : v.base = e.base /\ \A w \in VersionsOf(e.id)' : w.ver <= v.ver
  <2>1. e \in ToSet(assistants) /\ e.id \in P
    BY <1>2
  <2>2. VersionsOf(e.id)' = VersionsOf(e.id)
    BY <1>2, <2>1 DEF VersionsOf
  <2> QED BY <1>2, <2>1, <2>2 DEF AssistantInv, VersionsSound
<1> QED BY <1>1, <1>2 DEF AssistantInv, AssistantTypes, VersionsOwned, VersionsSound

LEMMA DeleteAssistant ==
  ASSUME AssistantInv, NEW r, AssistantDeleted(r)
  PROVE  AssistantInv'
<1> DEFINE P == {e \in Version : e.id # r.id}
<1>1. assistants \in Seq(Version) /\ versions \in Seq(Version)
  BY DEF AssistantInv, AssistantTypes
<1>2. assistants' = At(assistants, {i \in DOMAIN assistants : assistants[i] \in P})
  <2>1. {i \in DOMAIN assistants : assistants[i].id # r.id} = {i \in DOMAIN assistants : assistants[i] \in P}
    BY <1>1
  <2> QED BY <2>1 DEF AssistantDeleted, Filter
<1>3. versions' = At(versions, {i \in DOMAIN versions : versions[i] \in P})
  <2>1. {i \in DOMAIN versions : versions[i].id # r.id} = {i \in DOMAIN versions : versions[i] \in P}
    BY <1>1
  <2> QED BY <2>1 DEF AssistantDeleted, Filter
<1> HIDE DEF P
<1>4. /\ assistants' \in Seq(Version) /\ ToSet(assistants') = ToSet(assistants) \cap P
      /\ \A i, j \in DOMAIN assistants' : i # j =>
           \E p, q \in DOMAIN assistants : p # q /\ assistants'[i] = assistants[p] /\ assistants'[j] = assistants[q]
  <2>1. Selection(assistants', assistants, Version, P)
    BY <1>1, <1>2, FilterFacts
  <2> QED BY <2>1 DEF Selection
<1>5. /\ versions' \in Seq(Version) /\ ToSet(versions') = ToSet(versions) \cap P
      /\ \A i, j \in DOMAIN versions' : i # j =>
           \E p, q \in DOMAIN versions : p # q /\ versions'[i] = versions[p] /\ versions'[j] = versions[q]
  <2>1. Selection(versions', versions, Version, P)
    BY <1>1, <1>3, FilterFacts
  <2> QED BY <2>1 DEF Selection
<1>6. OneEntry'
  BY <1>4 DEF AssistantInv, OneEntry
<1>7. \A i, j \in DOMAIN versions' : versions'[i].id \in User /\ i # j =>
        <<versions'[i].id, versions'[i].ver>> # <<versions'[j].id, versions'[j].ver>>
  BY <1>5 DEF AssistantInv, VersionsSound
<1>8. ASSUME NEW e, e \in ToSet(assistants) \/ e \in ToSet(versions) PROVE e \in P <=> e.id \in Id \ {r.id}
  <2>1. e \in Version
    BY <1>1, <1>8 DEF ToSet
  <2> QED BY <2>1 DEF P, Version
<1>9. \A e : e.id \in User => (e \in ToSet(assistants') <=> e \in ToSet(assistants) /\ e.id \in Id \ {r.id})
  BY <1>4, <1>8
<1>10. \A v : v.id \in User => (v \in ToSet(versions') <=> v \in ToSet(versions) /\ v.id \in Id \ {r.id})
  BY <1>5, <1>8
<1> QED BY <1>4, <1>5, <1>6, <1>7, <1>9, <1>10, KeepAssistants

LEMMA TruncateAssistants ==
  ASSUME AssistantInv, Truncate
  PROVE  AssistantInv'
<1> DEFINE P == {e \in Version : IsSystem(e.id)}
<1>1. assistants \in Seq(Version) /\ versions \in Seq(Version)
  BY DEF AssistantInv, AssistantTypes
<1>2. assistants' = At(assistants, {i \in DOMAIN assistants : assistants[i] \in P}) /\ versions' = <<>>
  <2>1. {i \in DOMAIN assistants : IsSystem(assistants[i].id)} = {i \in DOMAIN assistants : assistants[i] \in P}
    BY <1>1
  <2> QED BY <2>1 DEF Truncate, Filter
<1> HIDE DEF P
<1>4. /\ assistants' \in Seq(Version) /\ ToSet(assistants') = ToSet(assistants) \cap P
      /\ \A i, j \in DOMAIN assistants' : i # j =>
           \E p, q \in DOMAIN assistants : p # q /\ assistants'[i] = assistants[p] /\ assistants'[j] = assistants[q]
  <2>1. Selection(assistants', assistants, Version, P)
    BY <1>1, <1>2, FilterFacts
  <2> QED BY <2>1 DEF Selection
<1>5. versions' \in Seq(Version) /\ DOMAIN versions' = {} /\ ToSet(versions') = {}
  BY <1>2 DEF ToSet
<1>6. OneEntry'
  BY <1>4 DEF AssistantInv, OneEntry
<1>7. \A e \in ToSet(assistants') : e.id \notin User
  BY <1>4, CatalogAssumption DEF P, IsSystem
<1> QED BY <1>4, <1>5, <1>6, <1>7 DEF AssistantInv, AssistantTypes, VersionsOwned, VersionsSound

\* A list of new entries of graphs, none of them among the ids of old.
Added(new, old) ==
  /\ new \in Seq(Version)
  /\ \A i \in DOMAIN new : IsSystem(new[i].id) /\ \A j \in DOMAIN old : old[j].id # new[i].id
  /\ \A i, j \in DOMAIN new : i # j => new[i].id # new[j].id

LEMMA NewEntries ==
  ASSUME NEW gs, NEW old, NEW n,
         n = At(System, {i \in DOMAIN System :
                           System[i] \in gs /\ \A j \in DOMAIN old : old[j].id # System[i]})
  PROVE  Added([i \in DOMAIN n |-> First(n[i], SystemData, SystemData)], old)
<1> DEFINE Q == {g \in ToSet(System) : g \in gs /\ \A i \in DOMAIN old : old[i].id # g}
           new == [i \in DOMAIN n |-> First(n[i], SystemData, SystemData)]
<1>1. System \in Seq(ToSet(System)) /\ IsInjective(System)
  BY CatalogAssumption
<1>2. n = At(System, {i \in DOMAIN System : System[i] \in Q})
  <2>1. {i \in DOMAIN System : System[i] \in gs /\ \A j \in DOMAIN old : old[j].id # System[i]}
          = {i \in DOMAIN System : System[i] \in Q}
    BY DEF ToSet
  <2> QED BY <2>1
<1> HIDE DEF Q
<1>3. Selection(n, System, ToSet(System), Q)
  BY <1>1, <1>2, FilterFacts
<1>4. n \in Seq(ToSet(System)) /\ \A i \in DOMAIN n : n[i] \in ToSet(System) /\ n[i] \in Q
  BY <1>3 DEF Selection, ToSet
<1>5. \A i, j \in DOMAIN n : i # j => n[i] # n[j]
  <2>1. \A p, q \in DOMAIN System : System[p] = System[q] => p = q
    BY <1>1 DEF IsInjective
  <2> QED BY <1>3, <2>1 DEF Selection
<1>6. \A i \in DOMAIN n : First(n[i], SystemData, SystemData) \in Version /\ First(n[i], SystemData, SystemData).id = n[i]
  <2>1. \A a \in ToSet(System) : a \in Id
    BY DEF Id
  <2> QED BY <1>4, <2>1, SystemDataType, FirstType DEF First
<1>7. DOMAIN n = 1..Len(n) /\ Len(n) \in Nat
  BY <1>4
<1>8. DOMAIN new = DOMAIN n /\ \A i \in DOMAIN n : new[i] \in Version /\ new[i].id = n[i]
  BY <1>6
<1>9. new \in Seq(Version)
  <2>1. \E k \in Nat : new \in [1..k -> Version]
    BY <1>6, <1>7
  <2> HIDE DEF new
  <2> QED BY <2>1
<1> HIDE DEF new
<1>10. \A i \in DOMAIN new : IsSystem(new[i].id) /\ \A j \in DOMAIN old : old[j].id # new[i].id
  BY <1>4, <1>8 DEF Q, IsSystem
<1>11. ASSUME NEW i \in DOMAIN new, NEW j \in DOMAIN new, i # j PROVE new[i].id # new[j].id
  BY <1>5, <1>8, <1>11
<1>12. Added(new, old)
  BY <1>9, <1>10, <1>11 DEF Added
<1> QED BY <1>12 DEF new

\* The start removes and adds assistants of graphs only.
LEMMA RestartAssistants ==
  ASSUME AssistantInv, NEW gs, Restart(gs)
  PROVE  AssistantInv' /\ \A a \in User : Has(a) => Has(a)'
<1> DEFINE ps == {i \in DOMAIN assistants : ~ Removed(i)}
           old == At(assistants, ps)
           n == Filter(System, LAMBDA g : g \in gs /\ \A i \in DOMAIN old : old[i].id # g)
           new == [i \in DOMAIN n |-> First(n[i], SystemData, SystemData)]
<1>1. assistants' = old \o new /\ versions' = versions \o new
  BY DEF Restart, AfterStart
<1>2. assistants \in Seq(Version) /\ versions \in Seq(Version)
  BY DEF AssistantInv, AssistantTypes
<1>3. ASSUME NEW i \in DOMAIN assistants, assistants[i].id \in User PROVE i \in ps
  <2>1. i \in Nat /\ i >= 1
    BY <1>2
  <2>2. ~ IsSystem(assistants[i].id)
    BY <1>3, CatalogAssumption DEF IsSystem
  <2>3. \A first \in 1..i : i \in first..i
    BY <2>1
  <2> QED BY <2>2, <2>3 DEF Removed
<1>4. ps \subseteq DOMAIN assistants
  OBVIOUS
<1> HIDE DEF ps
<1>5. Picked(old, assistants, Version, ps)
  BY <1>2, <1>4, AtSeq
<1> HIDE DEF old
<1>6. /\ new \in Seq(Version)
      /\ \A i \in DOMAIN new : IsSystem(new[i].id) /\ \A j \in DOMAIN old : old[j].id # new[i].id
      /\ \A i, j \in DOMAIN new : i # j => new[i].id # new[j].id
  <2>1. n = At(System, {i \in DOMAIN System :
                          System[i] \in gs /\ \A j \in DOMAIN old : old[j].id # System[i]})
    BY DEF Filter
  <2> HIDE DEF n
  <2>2. Added([i \in DOMAIN n |-> First(n[i], SystemData, SystemData)], old)
    BY <2>1, NewEntries
  <2> QED BY <2>2 DEF Added
<1> HIDE DEF n, new
<1>7. old \in Seq(Version)
  BY <1>5 DEF Picked
<1>8. /\ assistants' \in Seq(Version)
      /\ \A i \in DOMAIN assistants' : (i \in DOMAIN old /\ assistants'[i] = old[i])
           \/ (i \notin DOMAIN old /\ i - Len(old) \in DOMAIN new /\ assistants'[i] = new[i - Len(old)])
      /\ ToSet(assistants') = ToSet(old) \cup ToSet(new)
  BY <1>1, <1>6, <1>7, ConcatFacts
<1>9. /\ versions' \in Seq(Version)
      /\ \A i \in DOMAIN versions' : (i \in DOMAIN versions /\ versions'[i] = versions[i])
           \/ (i \notin DOMAIN versions /\ i - Len(versions) \in DOMAIN new /\ versions'[i] = new[i - Len(versions)])
      /\ ToSet(versions') = ToSet(versions) \cup ToSet(new)
  BY <1>1, <1>2, <1>6, ConcatFacts
<1>10. \A e \in ToSet(new) : e.id \notin User
  BY <1>6, CatalogAssumption DEF ToSet, IsSystem
<1>11. OneEntry'
  <2>1. \A i, j \in DOMAIN old : i # j => old[i].id # old[j].id
    BY <1>4, <1>5 DEF Picked, AssistantInv, OneEntry
  <2>2. ASSUME NEW i \in DOMAIN assistants', NEW j \in DOMAIN assistants', i # j
        PROVE assistants'[i].id # assistants'[j].id
    <3>1. CASE i \in DOMAIN old /\ j \in DOMAIN old
      BY <1>8, <2>1, <2>2, <3>1
    <3>2. CASE i \in DOMAIN old /\ j \notin DOMAIN old
      BY <1>6, <1>8, <3>2
    <3>3. CASE i \notin DOMAIN old /\ j \in DOMAIN old
      BY <1>6, <1>8, <3>3
    <3>4. CASE i \notin DOMAIN old /\ j \notin DOMAIN old
      <4>1. i \in Int /\ j \in Int /\ Len(old) \in Int
        BY <1>7, <1>8
      <4>2. i - Len(old) # j - Len(old)
        BY <2>2, <4>1
      <4> QED BY <1>6, <1>8, <3>4, <4>2
    <3> QED BY <3>1, <3>2, <3>3, <3>4
  <2> QED BY <2>2 DEF OneEntry
<1>12. ASSUME NEW i \in DOMAIN versions', NEW j \in DOMAIN versions', versions'[i].id \in User, i # j
       PROVE <<versions'[i].id, versions'[i].ver>> # <<versions'[j].id, versions'[j].ver>>
  <2>1. \A k \in DOMAIN new : new[k].id \notin User
    BY <1>10 DEF ToSet
  <2>2. CASE i \in DOMAIN versions /\ j \in DOMAIN versions
    BY <1>9, <1>12, <2>2 DEF AssistantInv, VersionsSound
  <2>3. CASE i \notin DOMAIN versions \/ j \notin DOMAIN versions
    BY <1>9, <1>12, <2>1, <2>3
  <2> QED BY <2>2, <2>3
<1>13. ASSUME NEW e, e.id \in User
       PROVE e \in ToSet(assistants') <=> e \in ToSet(assistants) /\ e.id \in User
  <2>1. ASSUME e \in ToSet(assistants') PROVE e \in ToSet(assistants)
    BY <1>4, <1>5, <1>8, <1>10, <1>13, <2>1 DEF Picked, ToSet
  <2>2. ASSUME e \in ToSet(assistants) PROVE e \in ToSet(old)
    BY <1>3, <1>5, <1>13, <2>2 DEF Picked, ToSet
  <2> QED BY <1>8, <1>13, <2>1, <2>2
<1>14. \A v : v.id \in User => (v \in ToSet(versions') <=> v \in ToSet(versions) /\ v.id \in User)
  BY <1>9, <1>10
<1>15. ASSUME NEW a \in User, Has(a) PROVE Has(a)'
  <2>1. PICK e \in ToSet(assistants) : e.id = a
    BY <1>15 DEF Has, ToSet
  <2>2. e \in ToSet(assistants')
    BY <1>13, <2>1
  <2> QED BY <2>1, <2>2 DEF Has, ToSet
<1>16. AssistantInv'
  BY <1>8, <1>9, <1>11, <1>12, <1>13, <1>14, KeepAssistants
<1> QED BY <1>15, <1>16

LEMMA AssistantInit == Init => AssistantInv
<1> SUFFICES ASSUME Init PROVE AssistantInv
  OBVIOUS
<1> DEFINE us == SetToSeq(User)
           ids == System \o us
<1>1. us \in [1..Cardinality(User) -> User] /\ Cardinality(User) \in Nat
      /\ \A i, j \in DOMAIN us : us[i] = us[j] => i = j
  <2>1. Cardinality(User) \in Nat /\ ExistsBijection(1..Cardinality(User), User)
    BY CatalogAssumption, FS_CardinalityType
  <2>2. \E f \in [1..Cardinality(User) -> User] : IsInjective(f)
    BY <2>1 DEF ExistsBijection, Bijection, Injection, IsInjective
  <2>3. us \in [1..Cardinality(User) -> User] /\ IsInjective(us)
    BY <2>2 DEF SetToSeq
  <2> QED BY <2>1, <2>3 DEF IsInjective
<1> HIDE DEF us
<1>2. us \in Seq(Id) /\ System \in Seq(Id) /\ DOMAIN us = 1..Cardinality(User)
  <2>1. User \subseteq Id /\ ToSet(System) \subseteq Id
    BY DEF Id
  <2> QED BY <1>1, <2>1, CatalogAssumption
<1>3. /\ ids \in Seq(Id)
      /\ \A i \in DOMAIN ids : (i \in DOMAIN System /\ ids[i] = System[i])
           \/ (i \notin DOMAIN System /\ i - Len(System) \in DOMAIN us /\ ids[i] = us[i - Len(System)])
  BY <1>2, ConcatFacts
<1>4. assistants = [i \in DOMAIN ids |-> First(ids[i], SystemData, SystemData)] /\ versions = assistants
  BY DEF Init, us
<1> HIDE DEF ids
<1>5. /\ DOMAIN assistants = DOMAIN ids
      /\ \A i \in DOMAIN ids : /\ assistants[i] \in Version /\ assistants[i].id = ids[i]
                               /\ assistants[i] = First(ids[i], SystemData, SystemData)
  <2>1. \A i \in DOMAIN ids : First(ids[i], SystemData, SystemData) \in Version /\ First(ids[i], SystemData, SystemData).id = ids[i]
    BY <1>3, SystemDataType, FirstType DEF First
  <2> QED BY <1>4, <2>1
<1>6. assistants \in Seq(Version)
  <2>1. DOMAIN ids = 1..Len(ids) /\ Len(ids) \in Nat
    BY <1>3
  <2>2. assistants \in [1..Len(ids) -> Version]
    BY <1>4, <1>5, <2>1
  <2> QED BY <2>1, <2>2
<1>7. ASSUME NEW i \in DOMAIN ids, NEW j \in DOMAIN ids, i # j PROVE ids[i] # ids[j]
  <2>1. \A k \in DOMAIN us : us[k] \notin ToSet(System)
    BY <1>1, CatalogAssumption
  <2>2. \A k \in DOMAIN System : System[k] \in ToSet(System)
    BY DEF ToSet
  <2>3. CASE i \in DOMAIN System /\ j \in DOMAIN System
    BY <1>3, <1>7, <2>3, CatalogAssumption DEF IsInjective
  <2>4. CASE i \in DOMAIN System /\ j \notin DOMAIN System
    BY <1>3, <2>1, <2>2, <2>4
  <2>5. CASE i \notin DOMAIN System /\ j \in DOMAIN System
    BY <1>3, <2>1, <2>2, <2>5
  <2>6. CASE i \notin DOMAIN System /\ j \notin DOMAIN System
    <3>1. i \in Int /\ j \in Int /\ Len(System) \in Int
      BY <1>2, <1>3
    <3>2. i - Len(System) # j - Len(System)
      BY <1>7, <3>1
    <3> QED BY <1>1, <1>3, <2>6, <3>2
  <2> QED BY <2>3, <2>4, <2>5, <2>6
<1>8. OneEntry
  BY <1>5, <1>7 DEF OneEntry
<1>9. VersionsOwned
  BY <1>4 DEF VersionsOwned, Has, ToSet
<1>10. VersionsSound
  <2>1. ASSUME NEW e \in ToSet(assistants)
        PROVE VersionsOf(e.id) = {e} /\ e.ver \in Nat
    BY <1>4, <1>5, <1>7 DEF VersionsOf, ToSet, Version
  <2>2. \A i, j \in DOMAIN versions : i # j => versions[i].id # versions[j].id
    BY <1>4, <1>8 DEF OneEntry
  <2> QED BY <2>1, <2>2 DEF VersionsSound
<1> QED BY <1>4, <1>6, <1>8, <1>9, <1>10 DEF AssistantInv, AssistantTypes

LEMMA AssistantNext == AssistantInv /\ [Next]_vars => AssistantInv'
<1> SUFFICES ASSUME AssistantInv, [Next]_vars PROVE AssistantInv'
  OBVIOUS
<1>1. ASSUME UNCHANGED assistantVars PROVE AssistantInv'
  BY <1>1 DEF assistantVars, AssistantInv, AssistantTypes, OneEntry, VersionsOwned, VersionsSound,
       VersionsOf, Has
<1>2. CASE AssistantStep
  <2>1. ASSUME NEW a \in Id, AssistantDelete(a) PROVE AssistantInv'
    BY <1>1, <2>1 DEF AssistantDelete
  <2> QED BY <1>2, <2>1, PutAssistant, PatchAssistant, RestoreAssistant, DeleteAssistant DEF AssistantStep
<1>3. CASE CronStep
  <2>1. UNCHANGED assistantVars
    BY <1>3 DEF CronStep, CronPut, CronPutThread, CronPutDone, CronUpdate, CronDelete, ThreadDelete
  <2> QED BY <1>1, <2>1
<1>4. CASE Scheduler
  BY <1>1, <1>4 DEF Scheduler, PassBegin, PassStep, SetNextRunDate
<1>5. CASE Tick
  BY <1>1, <1>5 DEF Tick
<1>6. CASE Truncate
  BY <1>6, TruncateAssistants
<1>7. ASSUME NEW gs \in SUBSET ToSet(System), Restart(gs) PROVE AssistantInv'
  BY <1>7, RestartAssistants
<1>8. CASE UNCHANGED vars
  BY <1>1, <1>8 DEF vars, assistantVars
<1> QED BY <1>2, <1>3, <1>4, <1>5, <1>6, <1>7, <1>8 DEF Next

LEMMA AssistantInvariant == Spec => []AssistantInv
  BY AssistantInit, AssistantNext, PTL DEF Spec

\* Assistants.patch, set_latest, put, delete and the start of the pool, in any
\* order and for any number of assistants: the version numbers of a client's
\* assistant never clash, and its configuration, graph and context are on record.
THEOREM VersionsRecorded == Spec => []VersionsSound
<1>1. AssistantInv => VersionsSound
  BY DEF AssistantInv
<1> QED BY <1>1, AssistantInvariant, PTL

----------------------------------------------------------------------------
(* Crons.  What the actions do to the lists of crons comes in a few kinds. *)

Hold == [id : CronId, sched : Period, zone : Zone, date : Nat, prev : -1..MaxTime]
Pass == [pos : Nat, live : BOOLEAN, list : Seq(Nat), now : 0..MaxTime, hold : {NoHold} \cup Hold]

SuspendedType(r) ==
  r.op = "cron" => r.id \in CronId /\ r.assistant \in Id /\ r.thread \in Thread /\ r.sched \in Period

CronTypes ==
  /\ obj \in Seq(Cron) /\ crons \in Seq(1..Len(obj))
  /\ pass \in Pass /\ pass.list \in Seq(1..Len(obj)) /\ pass.now <= now
  /\ pass.pos = 0 => pass.live = TRUE /\ pass.hold = NoHold
  /\ threads \subseteq Thread /\ last \in [CronId -> -1..MaxTime]
  /\ now \in 0..MaxTime
  /\ \A r \in suspended : SuspendedType(r)

\* Clients' assistants stay.
Stay == \A a \in User : Has(a) => Has(a)'

Quiet ==
  /\ UNCHANGED <<cronVars, threads, schedulerVars>> /\ Stay
  /\ now' \in now..MaxTime

Made(c) ==
  /\ obj' = Append(obj, c) /\ crons' = Append(crons, Len(obj) + 1)
  /\ c \in Cron /\ ~ Taken(c.id) /\ c.next > now
  /\ OnSchedule(c.sched, c.zone, c.next)
  /\ Has(c.assistant) \/ c.late = TRUE
  /\ c.thread \in threads \cup {NoThread}
  /\ UNCHANGED <<assistantVars, threads, schedulerVars, now>>

SameCron(c, d) == d.id = c.id /\ d.assistant = c.assistant /\ d.thread = c.thread /\ d.late = c.late
SameDate(c, d) == d.sched = c.sched /\ d.zone = c.zone /\ d.next = c.next /\ d.stale = c.stale
Dates(d) == d.stale = TRUE \/ OnSchedule(d.sched, d.zone, d.next)

Changed(i, d) ==
  /\ i \in ToSet(crons) /\ obj' = [obj EXCEPT ![i] = d]
  /\ d \in Cron /\ SameCron(obj[i], d)
  /\ SameDate(obj[i], d) \/ Dates(d)
  /\ d.next = obj[i].next \/ d.next > now
  /\ UNCHANGED <<assistantVars, crons, threads, schedulerVars, now>>

\* The crons at ps are left, and their assistants and threads.
Dropped(ps) ==
  /\ ps \subseteq DOMAIN crons /\ crons' = At(crons, ps) /\ pass' = Detached
  /\ threads' \subseteq Thread
  /\ \A p \in ps : \A a \in User : obj[crons[p]].assistant = a /\ Has(a) => Has(a)'
  /\ \A p \in ps : obj[crons[p]].thread \in threads => obj[crons[p]].thread \in threads'
  /\ UNCHANGED <<obj, last, now>>

Fired(j, t) ==
  /\ j \in DOMAIN List /\ j >= pass.pos /\ pass.hold = NoHold
  /\ t \in {now, pass.now} /\ obj[List[j]].next <= t
  /\ Fire(j, t)
  /\ UNCHANGED <<assistantVars, cronVars, threads, now>>

Ended ==
  /\ pass' = Idle /\ pass.hold = NoHold
  /\ UNCHANGED <<assistantVars, cronVars, threads, last, now>>

Restarted ==
  /\ Stay /\ pass' = Idle
  /\ last' = IF pass.hold = NoHold THEN last ELSE [last EXCEPT ![pass.hold.id] = pass.hold.prev]
  /\ UNCHANGED <<cronVars, threads, now>>

CronKind ==
  \/ Quiet \/ Ended \/ Restarted \/ SetNextRunDate
  \/ \E c : Made(c)
  \/ \E i, d : Changed(i, d)
  \/ \E ps : Dropped(ps)
  \/ \E j, t : Fired(j, t)

\* The list the pass goes over.
LEMMA ListType ==
  ASSUME CronTypes
  PROVE  List \in Seq(1..Len(obj)) /\ \A j \in DOMAIN List : List[j] \in DOMAIN obj /\ obj[List[j]] \in Cron
  BY DEF CronTypes, List

LEMMA CronsType ==
  ASSUME CronTypes
  PROVE  /\ \A p \in DOMAIN crons : crons[p] \in DOMAIN obj
         /\ \A i \in ToSet(crons) : i \in DOMAIN obj /\ obj[i] \in Cron
  BY DEF CronTypes, ToSet

LEMMA UnchangedStay == ASSUME UNCHANGED assistantVars PROVE Stay
  BY DEF assistantVars, Stay, Has

\* The end of Crons.put makes a cron, or does nothing.
LEMMA AppendKind ==
  ASSUME CronTypes, NEW k \in CronId, NEW a \in Id, NEW t \in Thread \cup {NoThread}, NEW s \in Period,
         AppendCron(k, a, t, s), t \in threads \cup {NoThread},
         UNCHANGED <<assistantVars, threads, schedulerVars, now>>
  PROVE  CronKind
<1>1. CASE Taken(k)
  BY <1>1, UnchangedStay DEF AppendCron, CronKind, Quiet, CronTypes
<1>2. CASE ~ Taken(k)
  <2> DEFINE late == ~ Has(a)
             n == NextCronDate(s, 0, now)
             c == [id |-> k, assistant |-> a, thread |-> t, sched |-> s, zone |-> 0,
                   enabled |-> TRUE, end |-> NoEnd, next |-> n, late |-> late, stale |-> FALSE]
  <2>1. obj' = Append(obj, c) /\ crons' = Append(crons, Len(obj) + 1)
    BY <1>2 DEF AppendCron
  <2>2. n \in Nat /\ n > now /\ OnSchedule(s, 0, n)
    <3>1. 0 \in Zone /\ now \in Nat
      BY CatalogAssumption DEF CronTypes
    <3> QED BY <3>1, NextDate
  <2>3. late \in BOOLEAN /\ (Has(a) \/ late = TRUE)
    BY DEF Has
  <2>4. 0 \in Zone /\ NoEnd \in 0..NoEnd
    BY CatalogAssumption DEF NoEnd
  <2> HIDE DEF late, n
  <2>5. c \in Cron /\ c.id = k /\ c.assistant = a /\ c.thread = t /\ c.sched = s /\ c.zone = 0
        /\ c.next = n /\ c.late = late
    BY <2>2, <2>3, <2>4 DEF Cron
  <2> HIDE DEF c
  <2>6. Made(c)
    BY <1>2, <2>1, <2>2, <2>3, <2>5 DEF Made
  <2> QED BY <2>6 DEF CronKind
<1> QED BY <1>1, <1>2

\* Crons.update changes the object in place.
LEMMA UpdateKind ==
  ASSUME CronTypes, NEW i, CronUpdate(i)
  PROVE  CronKind
<1> DEFINE c == obj[i]
<1>1. i \in ToSet(crons) /\ UNCHANGED <<assistantVars, crons, threads, schedulerVars, now>>
  BY DEF CronUpdate
<1>2. i \in DOMAIN obj /\ c \in Cron /\ now \in 0..MaxTime
  BY <1>1, CronsType DEF CronTypes
<1> SUFFICES \E d : Changed(i, d)
  BY DEF CronKind
<1>3. ASSUME NEW s \in Period, NEW z \in Zone, obj' = [obj EXCEPT ![i] = Redated(c, s, z)]
      PROVE \E d : Changed(i, d)
  <2> DEFINE n == NextCronDate(s, z, now)
             d == Redated(c, s, z)
  <2>1. n \in Nat /\ n > now /\ OnSchedule(s, z, n)
    BY <1>2, NextDate
  <2>2. d = [c EXCEPT !.zone = z, !.sched = s, !.next = n, !.stale = FALSE]
    BY DEF Redated
  <2> HIDE DEF n, c, d
  <2>3. d \in Cron /\ SameCron(c, d) /\ d.sched = s /\ d.zone = z /\ d.next = n
    BY <1>2, <2>1, <2>2 DEF Cron, SameCron
  <2>4. Changed(i, d)
    BY <1>1, <1>3, <2>1, <2>3 DEF Changed, Dates, c, d
  <2> QED BY <2>4
<1>4. ASSUME NEW z \in Zone, obj' = [obj EXCEPT ![i] = Refused(c, z)]
      PROVE \E d : Changed(i, d)
  <2> DEFINE d == Refused(c, z)
  <2>2. d = [c EXCEPT !.zone = z, !.stale = TRUE]
    BY DEF Refused
  <2> HIDE DEF c, d
  <2>3. d \in Cron /\ SameCron(c, d) /\ d.stale = TRUE /\ d.next = c.next
    BY <1>2, <2>2 DEF Cron, SameCron
  <2>4. Changed(i, d)
    BY <1>1, <1>4, <2>3 DEF Changed, Dates, c, d
  <2> QED BY <2>4
<1>5. ASSUME obj' = [obj EXCEPT ![i].enabled = ~ c.enabled]
      PROVE \E d : Changed(i, d)
  <2> DEFINE e == ~ c.enabled
             d == [c EXCEPT !.enabled = e]
  <2>1. e \in BOOLEAN
    OBVIOUS
  <2>2. obj' = [obj EXCEPT ![i] = d]
    BY <1>2, <1>5
  <2> HIDE DEF c, e
  <2>3. d \in Cron /\ SameCron(c, d) /\ SameDate(c, d)
    BY <1>2, <2>1 DEF Cron, SameCron, SameDate
  <2> HIDE DEF d
  <2>4. Changed(i, d)
    BY <1>1, <2>2, <2>3 DEF Changed, SameDate, c
  <2> QED BY <2>4
<1>6. ASSUME NEW e \in {now, NoEnd}, obj' = [obj EXCEPT ![i].end = e]
      PROVE \E d : Changed(i, d)
  <2> DEFINE d == [c EXCEPT !.end = e]
  <2>1. e \in 0..NoEnd
    BY <1>2, CatalogAssumption DEF NoEnd
  <2>2. obj' = [obj EXCEPT ![i] = d]
    BY <1>2, <1>6
  <2> HIDE DEF c
  <2>3. d \in Cron /\ SameCron(c, d) /\ SameDate(c, d)
    BY <1>2, <2>1 DEF Cron, SameCron, SameDate
  <2> HIDE DEF d
  <2>4. Changed(i, d)
    BY <1>1, <2>2, <2>3 DEF Changed, SameDate, c
  <2> QED BY <2>4
<1> QED BY <1>3, <1>4, <1>5, <1>6 DEF CronUpdate

\* The cascades of deletions.
LEMMA DeletedKind ==
  ASSUME CronTypes, AssistantInv, NEW r, AssistantDeleted(r)
  PROVE  CronKind
<1> DEFINE ps == {p \in DOMAIN crons : obj[crons[p]].assistant # r.id}
           P == {e \in Version : e.id # r.id}
<1>1. ps \subseteq DOMAIN crons /\ crons' = At(crons, ps) /\ pass' = Detached
      /\ UNCHANGED <<obj, last, now, threads>>
  BY DEF AssistantDeleted, Without, Filter
<1>2. assistants \in Seq(Version)
  BY DEF AssistantInv, AssistantTypes
<1>3. assistants' = At(assistants, {i \in DOMAIN assistants : assistants[i] \in P})
  <2>1. {i \in DOMAIN assistants : assistants[i].id # r.id} = {i \in DOMAIN assistants : assistants[i] \in P}
    BY <1>2
  <2> QED BY <2>1 DEF AssistantDeleted, Filter
<1> HIDE DEF P
<1>4. ToSet(assistants') = ToSet(assistants) \cap P
  <2>1. Selection(assistants', assistants, Version, P)
    BY <1>2, <1>3, FilterFacts
  <2> QED BY <2>1 DEF Selection
<1>5. ASSUME NEW a, Has(a), a # r.id PROVE Has(a)'
  <2>1. PICK e \in ToSet(assistants) : e.id = a
    BY <1>5 DEF Has, ToSet
  <2>2. e \in Version
    BY <1>2 DEF ToSet
  <2>3. e \in ToSet(assistants')
    BY <1>4, <1>5, <2>1, <2>2 DEF P
  <2> QED BY <2>1, <2>3 DEF Has, ToSet
<1>6. \A p \in ps : obj[crons[p]].assistant # r.id
  OBVIOUS
<1> HIDE DEF ps
<1>7. Dropped(ps)
  BY <1>1, <1>5, <1>6 DEF Dropped, CronTypes
<1> QED BY <1>7 DEF CronKind

LEMMA CronDeleteKind ==
  ASSUME CronTypes, NEW k, CronDelete(k)
  PROVE  CronKind
<1> DEFINE ps == {p \in DOMAIN crons : obj[crons[p]].id # k}
<1>1. ps \subseteq DOMAIN crons /\ crons' = At(crons, ps) /\ pass' = Detached
      /\ UNCHANGED <<assistantVars, obj, last, now, threads>>
  BY DEF CronDelete, Filter
<1>2. Stay
  BY <1>1, UnchangedStay
<1> HIDE DEF ps
<1>3. Dropped(ps)
  BY <1>1, <1>2 DEF Dropped, CronTypes, Stay
<1> QED BY <1>3 DEF CronKind

LEMMA ThreadDeleteKind ==
  ASSUME CronTypes, NEW t, ThreadDelete(t)
  PROVE  CronKind
<1> DEFINE ps == {p \in DOMAIN crons : obj[crons[p]].thread # t}
<1>1. ps \subseteq DOMAIN crons /\ crons' = At(crons, ps) /\ pass' = Detached
      /\ UNCHANGED <<assistantVars, obj, last, now>> /\ threads' = threads \ {t}
  BY DEF ThreadDelete, Filter
<1>2. Stay
  BY <1>1, UnchangedStay
<1>3. \A p \in ps : obj[crons[p]].thread # t
  OBVIOUS
<1> HIDE DEF ps
<1>4. Dropped(ps)
  BY <1>1, <1>2, <1>3 DEF Dropped, CronTypes, Stay
<1> QED BY <1>4 DEF CronKind

LEMMA TruncateKind ==
  ASSUME CronTypes, Truncate
  PROVE  CronKind
<1>1. At(crons, {}) = <<>>
  <2>1. Cardinality({}) = 0
    BY FS_EmptySet
  <2> QED BY <2>1 DEF At
<1>2. Dropped({})
  BY <1>1 DEF Dropped, Truncate, CronTypes
<1> QED BY <1>2 DEF CronKind

\* A pass yields the next cron that is due.
LEMMA FireKind ==
  ASSUME CronTypes, PassBegin \/ PassStep
  PROVE  CronKind
<1>1. ASSUME NEW p \in Nat \ {0}, NEW t \in {now, pass.now}, DueFrom(p, t) # {}, p >= pass.pos,
             Fire(Min(DueFrom(p, t)), t), pass.hold = NoHold,
             UNCHANGED <<assistantVars, cronVars, threads, now>>
      PROVE CronKind
  <2> DEFINE D == DueFrom(p, t)
             j == Min(D)
  <2>1. List \in Seq(1..Len(obj))
    BY ListType
  <2>2. \A q \in D : q \in p..Len(List) /\ Due(obj[List[q]], t)
    BY DEF DueFrom
  <2>3. D \subseteq Nat
    BY <2>1, <2>2
  <2> HIDE DEF D
  <2>4. j \in D
    BY <1>1, <2>3, MinExists DEF D
  <2>5. j \in p..Len(List) /\ Due(obj[List[j]], t) /\ Fire(j, t)
    BY <1>1, <2>2, <2>4 DEF D
  <2> HIDE DEF j
  <2>6. j \in DOMAIN List /\ j >= p /\ j \in Nat
    BY <2>1, <2>5
  <2>7. j >= pass.pos
    BY <1>1, <2>6 DEF CronTypes, Pass
  <2>8. Fired(j, t)
    BY <1>1, <2>5, <2>6, <2>7 DEF Fired, Due
  <2> QED BY <2>8 DEF CronKind
<1>2. CASE PassBegin
  <2>1. pass.pos = 0 /\ pass.hold = NoHold /\ 1 >= pass.pos
    BY <1>2 DEF PassBegin, CronTypes
  <2> QED BY <1>1, <1>2, <2>1 DEF PassBegin
<1>3. CASE PassStep
  <2>1. pass.pos \in Nat \ {0} /\ pass.hold = NoHold /\ pass.pos >= pass.pos
    BY <1>3 DEF PassStep, CronTypes, Pass
  <2>2. CASE DueFrom(pass.pos, pass.now) = {}
    BY <1>3, <2>1, <2>2 DEF PassStep, CronKind, Ended
  <2>3. CASE DueFrom(pass.pos, pass.now) # {}
    BY <1>1, <1>3, <2>1, <2>3 DEF PassStep
  <2> QED BY <2>2, <2>3
<1> QED BY <1>2, <1>3

LEMMA CronKinds ==
  ASSUME CronTypes, AssistantInv, [Next]_vars
  PROVE  CronKind
<1>0. now \in now..MaxTime
  BY DEF CronTypes
<1>1. ASSUME UNCHANGED <<cronVars, threads, schedulerVars, now>>, Stay PROVE CronKind
  BY <1>0, <1>1 DEF CronKind, Quiet
<1>2. CASE AssistantStep
  <2>1. ASSUME NEW a \in Id, NEW c \in Data, NEW b \in Data, AssistantPatch(a, c, b) PROVE CronKind
    <3>1. PICK e : assistants' = Updated(e)
      BY <2>1 DEF AssistantPatch
    <3>2. Stay
      BY <3>1 DEF Stay, Has, Updated
    <3> QED BY <1>1, <2>1, <3>2 DEF AssistantPatch
  <2>2. ASSUME NEW a \in Id, NEW d \in Data, AssistantPut(a, d, d) PROVE CronKind
    <3>1. assistants \in Seq(Version) /\ First(a, d, d) \in Version /\ assistants' = Append(assistants, First(a, d, d))
      BY <2>2, FirstType DEF AssistantPut, AssistantInv, AssistantTypes
    <3>2. \A i \in DOMAIN assistants : i \in DOMAIN assistants' /\ assistants'[i] = assistants[i]
      BY <3>1, AppendFacts
    <3>3. Stay
      BY <3>2 DEF Stay, Has
    <3> QED BY <1>1, <2>2, <3>3 DEF AssistantPut
  <2>3. ASSUME NEW a \in Id, AssistantDelete(a) PROVE CronKind
    BY <1>1, <2>3, UnchangedStay DEF AssistantDelete
  <2>4. ASSUME NEW a \in Id, NEW n \in VersionNumbers(a), SetLatest(a, n) PROVE CronKind
    <3>1. PICK e : assistants' = Updated(e)
      BY <2>4 DEF SetLatest
    <3>2. Stay
      BY <3>1 DEF Stay, Has, Updated
    <3> QED BY <1>1, <2>4, <3>2 DEF SetLatest
  <2> QED BY <1>2, <2>1, <2>2, <2>3, <2>4, DeletedKind DEF AssistantStep
<1>3. CASE CronStep
  <2>1. ASSUME NEW k \in CronId, NEW a \in Id, NEW s \in Period, CronPut(k, a, s) PROVE CronKind
    BY <2>1, AppendKind DEF CronPut
  <2>2. ASSUME NEW k \in CronId, NEW a \in Id, NEW s \in Period, NEW t \in Thread, CronPutThread(k, a, t, s)
        PROVE CronKind
    BY <1>1, <2>2, UnchangedStay DEF CronPutThread
  <2>3. ASSUME NEW r \in suspended, CronPutDone(r) PROVE CronKind
    <3>1. r.id \in CronId /\ r.assistant \in Id /\ r.thread \in Thread /\ r.sched \in Period
      BY <2>3 DEF CronPutDone, CronTypes, SuspendedType
    <3>2. CASE ThreadFound(r.thread)
      BY <2>3, <3>1, <3>2, AppendKind DEF CronPutDone, ThreadFound
    <3>3. CASE ~ ThreadFound(r.thread)
      BY <1>1, <2>3, <3>3, UnchangedStay DEF CronPutDone
    <3> QED BY <3>2, <3>3
  <2> QED BY <1>3, <2>1, <2>2, <2>3, UpdateKind, CronDeleteKind, ThreadDeleteKind DEF CronStep
<1>4. CASE Scheduler
  BY <1>4, FireKind DEF Scheduler, CronKind
<1>5. CASE Tick
  <2>1. now' \in now..MaxTime
    BY <1>5, CatalogAssumption DEF Tick, CronTypes
  <2> QED BY <1>5, <2>1, UnchangedStay DEF Tick, CronKind, Quiet
<1>6. CASE Truncate
  BY <1>6, TruncateKind
<1>7. ASSUME NEW gs \in SUBSET ToSet(System), Restart(gs) PROVE CronKind
  BY <1>7, RestartAssistants DEF Restart, CronKind, Restarted, Stay
<1>8. CASE UNCHANGED vars
  <2>1. UNCHANGED assistantVars /\ UNCHANGED <<cronVars, threads, schedulerVars, now>>
    BY <1>8 DEF vars, assistantVars, cronVars, schedulerVars
  <2> QED BY <1>1, <2>1, UnchangedStay
<1> QED BY <1>2, <1>3, <1>4, <1>5, <1>6, <1>7, <1>8 DEF Next

\* set_next_run_date: a later date, on the schedule unless it is another one.
LEMMA DatedFacts ==
  ASSUME CronTypes, pass.hold # NoHold, NEW c \in Cron
  PROVE  LET d == Dated(c, pass.hold)
         IN  d \in Cron /\ SameCron(c, d) /\ d.next > pass.now /\ Dates(d)
<1> DEFINE h == pass.hold
           n == NextCronDate(h.sched, h.zone, pass.now)
           stale == h.sched # c.sched \/ h.zone # c.zone
           d == [c EXCEPT !.next = n, !.stale = stale]
<1>1. h \in Hold /\ pass.now \in Nat
  BY DEF CronTypes, Pass
<1>2. n \in Nat /\ n > pass.now /\ OnSchedule(h.sched, h.zone, n)
  BY <1>1, NextDate DEF Hold
<1>3. stale \in BOOLEAN /\ (stale = TRUE \/ (h.sched = c.sched /\ h.zone = c.zone))
  OBVIOUS
<1>4. Dated(c, pass.hold) = d
  BY DEF Dated
<1> HIDE DEF h, n, stale
<1>5. d \in Cron /\ SameCron(c, d) /\ d.next = n /\ d.stale = stale /\ d.sched = c.sched /\ d.zone = c.zone
  BY <1>2, <1>3 DEF Cron, SameCron
<1> HIDE DEF d
<1>6. Dates(d)
  BY <1>2, <1>3, <1>5 DEF Dates
<1> QED BY <1>2, <1>4, <1>5, <1>6

\* Cron objects are kept, with their ids, assistants and threads.
LEMMA ObjectsKept ==
  ASSUME CronTypes, CronKind
  PROVE  /\ obj' \in Seq(Cron) /\ Len(obj') \in Nat /\ Len(obj) <= Len(obj')
         /\ \A i \in DOMAIN obj : i \in DOMAIN obj' /\ SameCron(obj[i], obj'[i])
<1>0. obj \in Seq(Cron) /\ Len(obj) \in Nat /\ DOMAIN obj = 1..Len(obj)
  BY DEF CronTypes
<1>1. ASSUME UNCHANGED obj
      PROVE  /\ obj' \in Seq(Cron) /\ Len(obj') \in Nat /\ Len(obj) <= Len(obj')
             /\ \A i \in DOMAIN obj : i \in DOMAIN obj' /\ SameCron(obj[i], obj'[i])
  BY <1>0, <1>1 DEF SameCron
<1>2. CASE Quiet \/ Ended \/ Restarted \/ (\E ps : Dropped(ps)) \/ (\E j, t : Fired(j, t))
  BY <1>1, <1>2 DEF Quiet, Ended, Restarted, Dropped, Fired, cronVars
<1>3. ASSUME NEW c, Made(c)
      PROVE  /\ obj' \in Seq(Cron) /\ Len(obj') \in Nat /\ Len(obj) <= Len(obj')
             /\ \A i \in DOMAIN obj : i \in DOMAIN obj' /\ SameCron(obj[i], obj'[i])
  <2>1. /\ obj' \in Seq(Cron) /\ Len(obj') = Len(obj) + 1
        /\ \A i \in DOMAIN obj : i \in DOMAIN obj' /\ obj'[i] = obj[i]
    BY <1>0, <1>3, AppendFacts DEF Made
  <2> QED BY <1>0, <2>1 DEF SameCron
<1>4. ASSUME NEW i, NEW d, Changed(i, d)
      PROVE  /\ obj' \in Seq(Cron) /\ Len(obj') \in Nat /\ Len(obj) <= Len(obj')
             /\ \A k \in DOMAIN obj : k \in DOMAIN obj' /\ SameCron(obj[k], obj'[k])
  <2>1. i \in DOMAIN obj /\ obj' = [obj EXCEPT ![i] = d] /\ d \in Cron /\ SameCron(obj[i], d)
    BY <1>4, CronsType DEF Changed
  <2>2. obj' \in Seq(Cron) /\ Len(obj') = Len(obj) /\ DOMAIN obj' = DOMAIN obj
    BY <1>0, <2>1
  <2>3. \A k \in DOMAIN obj : obj'[k] = IF k = i THEN d ELSE obj[k]
    BY <1>0, <2>1
  <2> QED BY <1>0, <2>1, <2>2, <2>3 DEF SameCron
<1>5. CASE SetNextRunDate
  <2> DEFINE Hit(i) == i \in ToSet(crons) /\ obj[i].id = pass.hold.id
  <2>1. obj' = [i \in DOMAIN obj |-> IF Hit(i) THEN Dated(obj[i], pass.hold) ELSE obj[i]]
        /\ pass.hold # NoHold
    BY <1>5 DEF SetNextRunDate
  <2> HIDE DEF Hit
  <2>2. \A i \in DOMAIN obj : obj[i] \in Cron
    BY <1>0
  <2>3. \A i \in DOMAIN obj : Dated(obj[i], pass.hold) \in Cron /\ SameCron(obj[i], Dated(obj[i], pass.hold))
    BY <2>1, <2>2, DatedFacts
  <2>4. DOMAIN obj' = DOMAIN obj /\ \A i \in DOMAIN obj : obj'[i] \in Cron /\ SameCron(obj[i], obj'[i])
    BY <2>1, <2>2, <2>3 DEF SameCron
  <2>5. obj' \in [1..Len(obj) -> Cron]
    BY <1>0, <2>1, <2>2, <2>3
  <2>6. obj' \in Seq(Cron) /\ Len(obj') = Len(obj)
    BY <1>0, <2>5
  <2> QED BY <1>0, <2>4, <2>6
<1> QED BY <1>2, <1>3, <1>4, <1>5 DEF CronKind

LEMMA SeqGrows ==
  ASSUME NEW m \in Nat, NEW n \in Nat, m <= n, NEW s \in Seq(1..m)
  PROVE  s \in Seq(1..n)
<1>1. 1..m \subseteq 1..n
  OBVIOUS
<1>2. Len(s) \in Nat /\ s \in [1..Len(s) -> 1..m]
  OBVIOUS
<1>3. s \in [1..Len(s) -> 1..n]
  BY <1>1, <1>2
<1> QED BY <1>2, <1>3

\* A deletion leaves the pass on the list it found.
LEMMA DetachedFacts ==
  ASSUME CronTypes, pass' = Detached
  PROVE  /\ pass' \in Pass /\ pass'.list \in Seq(1..Len(obj))
         /\ pass'.pos = pass.pos /\ pass'.now = pass.now /\ pass'.hold = pass.hold
         /\ pass.pos # 0 => List' = List
         /\ pass.pos = 0 => pass' = pass /\ List' = crons'
<1>1. CASE pass.pos = 0
  BY <1>1 DEF Detached, CronTypes, List
<1>2. CASE pass.pos # 0
  <2>1. pass \in Pass /\ List \in Seq(1..Len(obj)) /\ List \in Seq(Nat)
    <3>1. List \in Seq(1..Len(obj))
      BY ListType
    <3>2. pass \in Pass /\ Len(obj) \in Nat
      BY DEF CronTypes
    <3> QED BY <3>1, <3>2
  <2>2. pass' = [pass EXCEPT !.live = FALSE, !.list = List]
    BY <1>2 DEF Detached
  <2> DEFINE l == List
  <2>3. pass' = [pass EXCEPT !.live = FALSE, !.list = l] /\ l \in Seq(1..Len(obj)) /\ l \in Seq(Nat)
    BY <2>1, <2>2
  <2> HIDE DEF l
  <2>4. pass' \in Pass /\ pass'.list = l /\ pass'.live = FALSE
        /\ pass'.pos = pass.pos /\ pass'.now = pass.now /\ pass'.hold = pass.hold
    BY <2>1, <2>3 DEF Pass
  <2>5. List' = l
    BY <2>4 DEF List
  <2> QED BY <1>2, <2>3, <2>4, <2>5 DEF l
<1> QED BY <1>1, <1>2

\* Requests that wait have the parameters they were called with.
LEMMA SuspendedNext ==
  ASSUME \A r \in suspended : SuspendedType(r), [Next]_vars
  PROVE  (\A r \in suspended : SuspendedType(r))'
<1>1. ASSUME NEW a, AssistantDelete(a) PROVE (\A r \in suspended : SuspendedType(r))'
  BY <1>1 DEF AssistantDelete, SuspendedType
<1>2. ASSUME NEW k \in CronId, NEW a \in Id, NEW s \in Period, NEW t \in Thread, CronPutThread(k, a, t, s)
      PROVE (\A r \in suspended : SuspendedType(r))'
  BY <1>2 DEF CronPutThread, SuspendedType
<1>3. ASSUME suspended' \subseteq suspended PROVE (\A r \in suspended : SuspendedType(r))'
  BY <1>3 DEF SuspendedType
<1>4. CASE AssistantStep
  <2>1. ASSUME NEW r \in suspended, AssistantDeleted(r) PROVE suspended' \subseteq suspended
    BY <2>1 DEF AssistantDeleted
  <2> QED BY <1>1, <1>3, <1>4, <2>1 DEF AssistantStep, AssistantPatch, AssistantPut, SetLatest
<1>5. CASE CronStep
  <2>1. ASSUME NEW r \in suspended, CronPutDone(r) PROVE suspended' \subseteq suspended
    BY <2>1 DEF CronPutDone
  <2> QED BY <1>2, <1>3, <1>5, <2>1 DEF CronStep, CronPut, CronUpdate, CronDelete, ThreadDelete
<1>6. CASE Scheduler
  BY <1>3, <1>6 DEF Scheduler, PassBegin, PassStep, SetNextRunDate
<1>7. CASE Tick \/ Truncate \/ \E gs \in SUBSET ToSet(System) : Restart(gs)
  BY <1>3, <1>7 DEF Tick, Truncate, Restart
<1>8. CASE UNCHANGED vars
  BY <1>3, <1>8 DEF vars
<1> QED BY <1>4, <1>5, <1>6, <1>7, <1>8 DEF Next

Moved(p, q, n, t, h) ==
  q \in Pass /\ q.pos = n /\ q.now = t /\ q.live = p.live /\ q.list = p.list /\ q.hold = h

LEMMA PassMoves ==
  ASSUME NEW p \in Pass, NEW n \in Nat, NEW t \in 0..MaxTime, NEW h \in Hold,
         NEW q, q = [p EXCEPT !.pos = n, !.now = t, !.hold = h]
  PROVE  Moved(p, q, n, t, h)
<1> DEFINE H == {NoHold} \cup Hold
<1>1. h \in H
  OBVIOUS
<1>2. Pass = [pos : Nat, live : BOOLEAN, list : Seq(Nat), now : 0..MaxTime, hold : H]
  BY DEF Pass
<1> HIDE DEF H
<1>3. q = [pos |-> n, live |-> p.live, list |-> p.list, now |-> t, hold |-> h]
  BY <1>2
<1> QED BY <1>1, <1>2, <1>3 DEF Moved

\* The cron a pass yields, copied into the pass.
LEMMA FireFacts ==
  ASSUME CronTypes, NEW j, NEW t, Fired(j, t)
  PROVE  LET c == obj[List[j]]
         IN  /\ pass' \in Pass /\ pass'.pos = j + 1 /\ pass'.now = t /\ pass'.live = pass.live /\ pass'.list = pass.list
             /\ pass'.hold \in Hold /\ pass'.hold # NoHold
             /\ pass'.hold.id = c.id /\ pass'.hold.date = c.next /\ pass'.hold.prev = last[c.id]
             /\ last' = [last EXCEPT ![c.id] = c.next] /\ last' \in [CronId -> -1..MaxTime]
             /\ c \in Cron /\ c.next \in 0..t /\ t \in 0..now
<1> DEFINE c == obj[List[j]]
           h == [id |-> c.id, sched |-> c.sched, zone |-> c.zone, date |-> c.next, prev |-> last[c.id]]
<1>1. c \in Cron /\ j \in DOMAIN List
  BY ListType DEF Fired
<1>2. j \in Nat
  <2>1. List \in Seq(1..Len(obj))
    BY ListType
  <2> QED BY <1>1, <2>1
<1>3. pass \in Pass /\ last \in [CronId -> -1..MaxTime] /\ now \in 0..MaxTime /\ pass.now \in 0..now
  BY DEF CronTypes, Pass
<1>4. t \in 0..now /\ t \in 0..MaxTime
  BY <1>3, CatalogAssumption DEF Fired
<1>5. pass' = [pass EXCEPT !.pos = j + 1, !.now = t, !.hold = h] /\ last' = [last EXCEPT ![c.id] = c.next]
      /\ c.next <= t
  BY DEF Fired, Fire
<1> HIDE DEF c
<1>6. c.id \in CronId /\ c.next \in Nat /\ c.sched \in Period /\ c.zone \in Zone /\ last[c.id] \in -1..MaxTime
  BY <1>1, <1>3 DEF Cron
<1>7. h \in Hold /\ h.id = c.id /\ h.date = c.next /\ h.prev = last[c.id]
  BY <1>6 DEF Hold
<1>8. h # NoHold
  <2>1. DOMAIN h = {"id", "sched", "zone", "date", "prev"} /\ DOMAIN NoHold = {"id"}
    BY DEF NoHold
  <2> QED BY <2>1
<1> HIDE DEF h
<1>9. pass' \in Pass /\ pass'.pos = j + 1 /\ pass'.now = t /\ pass'.live = pass.live /\ pass'.list = pass.list
      /\ pass'.hold = h
  <2>1. j + 1 \in Nat
    BY <1>2
  <2> DEFINE q == pass'
  <2>2. q = [pass EXCEPT !.pos = j + 1, !.now = t, !.hold = h]
    BY <1>5
  <2> HIDE DEF q
  <2>3. Moved(pass, q, j + 1, t, h)
    BY <1>3, <1>4, <1>7, <2>1, <2>2, PassMoves
  <2> QED BY <2>3 DEF Moved, q
<1>10. c.next \in 0..t /\ c.next \in -1..MaxTime
  BY <1>4, <1>5, <1>6, CatalogAssumption
<1>11. last' \in [CronId -> -1..MaxTime]
  BY <1>3, <1>5, <1>6, <1>10
<1> QED BY <1>1, <1>4, <1>5, <1>7, <1>8, <1>9, <1>10, <1>11 DEF c

LEMMA CronTypesNext == CronTypes /\ AssistantInv /\ [Next]_vars => CronTypes'
<1> SUFFICES ASSUME CronTypes, AssistantInv, [Next]_vars PROVE CronTypes'
  OBVIOUS
<1>1. (\A r \in suspended : SuspendedType(r))'
  BY SuspendedNext DEF CronTypes
<1>2. CronKind
  BY CronKinds
<1>3. obj' \in Seq(Cron) /\ Len(obj') \in Nat /\ Len(obj) <= Len(obj') /\ Len(obj) \in Nat
  <2>1. Len(obj) \in Nat
    BY DEF CronTypes
  <2> QED BY <1>2, <2>1, ObjectsKept
<1>4. \A s \in Seq(1..Len(obj)) : s \in Seq(1..Len(obj'))
  BY <1>3, SeqGrows
<1> DEFINE Rest == /\ crons' \in Seq(1..Len(obj'))
                   /\ pass' \in Pass /\ pass'.list \in Seq(1..Len(obj')) /\ pass'.now <= now'
                   /\ pass'.pos = 0 => pass'.live = TRUE /\ pass'.hold = NoHold
                   /\ threads' \subseteq Thread /\ last' \in [CronId -> -1..MaxTime]
                   /\ now' \in 0..MaxTime
<1>5. SUFFICES Rest
  BY <1>1, <1>3 DEF CronTypes
<1>6. Idle \in Pass /\ Idle.list = <<>> /\ Idle.pos = 0 /\ Idle.live = TRUE /\ Idle.hold = NoHold /\ Idle.now = 0
  BY CatalogAssumption DEF Idle, Pass
<1>7. ASSUME pass' = Idle, UNCHANGED <<cronVars, threads, now>>, last' \in [CronId -> -1..MaxTime] PROVE Rest
  <2>1. <<>> \in Seq(1..Len(obj'))
    OBVIOUS
  <2>2. crons' \in Seq(1..Len(obj'))
    BY <1>4, <1>7 DEF CronTypes, cronVars
  <2>3. now' \in 0..MaxTime /\ threads' \subseteq Thread
    BY <1>7 DEF CronTypes
  <2>4. 0 <= now'
    BY <2>3
  <2> QED BY <1>6, <1>7, <2>1, <2>2, <2>3, <2>4
<1>8. CASE Quiet
  <2>1. now' \in 0..MaxTime /\ pass.now <= now'
    BY <1>8, CatalogAssumption DEF Quiet, CronTypes, Pass
  <2> QED BY <1>4, <1>8, <2>1 DEF Quiet, CronTypes, cronVars, schedulerVars
<1>9. CASE Ended
  BY <1>7, <1>9 DEF Ended, CronTypes
<1>10. CASE Restarted
  <2>1. last' \in [CronId -> -1..MaxTime]
    <3>1. CASE pass.hold = NoHold
      BY <1>10, <3>1 DEF Restarted, CronTypes
    <3>2. CASE pass.hold # NoHold
      <4>1. pass.hold \in Hold
        BY <3>2 DEF CronTypes, Pass
      <4> QED BY <1>10, <3>2, <4>1 DEF Restarted, CronTypes, Hold
    <3> QED BY <3>1, <3>2
  <2> QED BY <1>7, <1>10, <2>1 DEF Restarted
<1>11. CASE SetNextRunDate
  <2>1. pass \in Pass /\ pass' = [pass EXCEPT !.hold = NoHold]
    BY <1>11 DEF SetNextRunDate, CronTypes
  <2>2. pass' \in Pass /\ pass'.list = pass.list /\ pass'.now = pass.now /\ pass'.pos = pass.pos
        /\ pass'.live = pass.live /\ pass'.hold = NoHold
    BY <2>1 DEF Pass
  <2> QED BY <1>4, <1>11, <2>2 DEF SetNextRunDate, CronTypes
<1>12. ASSUME NEW c, Made(c) PROVE Rest
  <2>1. Len(obj') = Len(obj) + 1 /\ crons' = Append(crons, Len(obj) + 1)
    BY <1>12, AppendFacts DEF Made, CronTypes
  <2>2. crons \in Seq(1..Len(obj')) /\ Len(obj) + 1 \in 1..Len(obj')
    BY <1>3, <1>4, <2>1 DEF CronTypes
  <2>3. crons' \in Seq(1..Len(obj'))
    BY <2>1, <2>2, AppendFacts
  <2> QED BY <1>4, <1>12, <2>3 DEF Made, CronTypes, schedulerVars
<1>13. ASSUME NEW i, NEW d, Changed(i, d) PROVE Rest
  BY <1>4, <1>13 DEF Changed, CronTypes, schedulerVars
<1>14. ASSUME NEW ps, Dropped(ps) PROVE Rest
  <2>1. crons' \in Seq(1..Len(obj))
    <3>1. Picked(At(crons, ps), crons, 1..Len(obj), ps)
      BY <1>14, AtSeq DEF Dropped, CronTypes
    <3> QED BY <1>14, <3>1 DEF Picked, Dropped
  <2>2. /\ pass' \in Pass /\ pass'.list \in Seq(1..Len(obj))
        /\ pass'.pos = pass.pos /\ pass'.now = pass.now /\ pass'.hold = pass.hold
        /\ pass.pos = 0 => pass' = pass
    BY <1>14, DetachedFacts DEF Dropped
  <2> QED BY <1>4, <1>14, <2>1, <2>2 DEF Dropped, CronTypes
<1>15. ASSUME NEW j, NEW t, Fired(j, t) PROVE Rest
  <2>1. /\ pass' \in Pass /\ pass'.pos = j + 1 /\ pass'.now = t /\ pass'.list = pass.list
        /\ last' \in [CronId -> -1..MaxTime] /\ t \in 0..now
    BY <1>15, FireFacts
  <2>2. pass'.pos # 0
    <3>1. List \in Seq(1..Len(obj)) /\ j \in DOMAIN List
      BY <1>15, ListType DEF Fired
    <3> QED BY <2>1, <3>1
  <2>3. pass'.now <= now
    BY <2>1 DEF CronTypes
  <2> QED BY <1>4, <1>15, <2>1, <2>2, <2>3 DEF Fired, CronTypes, cronVars
<1> HIDE DEF Rest
<1> QED BY <1>2, <1>8, <1>9, <1>10, <1>11, <1>12, <1>13, <1>14, <1>15 DEF CronKind

LEMMA CronTypesInit == Init => CronTypes
<1> SUFFICES ASSUME Init PROVE CronTypes
  OBVIOUS
<1>1. Idle \in Pass /\ Idle.list = <<>> /\ Idle.pos = 0 /\ Idle.live = TRUE /\ Idle.hold = NoHold /\ Idle.now = 0
  BY CatalogAssumption DEF Idle, Pass
<1>2. obj \in Seq(Cron) /\ crons \in Seq(1..Len(obj)) /\ <<>> \in Seq(1..Len(obj))
  BY DEF Init
<1>3. last \in [CronId -> -1..MaxTime] /\ now \in 0..MaxTime
  BY CatalogAssumption DEF Init
<1> QED BY <1>1, <1>2, <1>3 DEF Init, CronTypes

\* The store holds one cron per id: Crons.put does nothing when the id is taken.
OneCron == \A p, q \in DOMAIN crons : p # q => obj[crons[p]].id # obj[crons[q]].id

\* Where the crons of the store come from.
LEMMA CronsKept ==
  ASSUME CronTypes, CronKind
  PROVE  \/ UNCHANGED crons
         \/ \E c : Made(c)
         \/ \E ps : Dropped(ps)
  BY DEF CronKind, Quiet, Ended, Restarted, SetNextRunDate, Changed, Fired, cronVars

LEMMA MadeFacts ==
  ASSUME CronTypes, NEW c, Made(c)
  PROVE  /\ \A p \in DOMAIN crons' : \/ p \in DOMAIN crons /\ crons'[p] = crons[p]
                                     \/ p = Len(crons) + 1 /\ crons'[p] = Len(obj) + 1
         /\ \A p \in DOMAIN crons : p \in DOMAIN crons' /\ crons'[p] = crons[p]
         /\ ToSet(crons') = ToSet(crons) \cup {Len(obj) + 1}
         /\ \A i \in DOMAIN obj : obj'[i] = obj[i]
         /\ obj'[Len(obj) + 1] = c /\ Len(obj) + 1 \in DOMAIN obj'
<1>1. Len(obj) \in Nat /\ crons \in Seq(1..Len(obj)) /\ obj \in Seq(Cron) /\ c \in Cron
  BY DEF CronTypes, Made
<1>2. crons \in Seq(Nat) /\ Len(obj) + 1 \in Nat
  BY <1>1
<1>3. obj' = Append(obj, c) /\ crons' = Append(crons, Len(obj) + 1)
  BY DEF Made
<1>4. /\ \A p \in DOMAIN crons' : \/ p \in DOMAIN crons /\ crons'[p] = crons[p]
                                  \/ p = Len(crons) + 1 /\ crons'[p] = Len(obj) + 1
      /\ \A p \in DOMAIN crons : p \in DOMAIN crons' /\ crons'[p] = crons[p]
      /\ Len(crons) + 1 \in DOMAIN crons' /\ crons'[Len(crons) + 1] = Len(obj) + 1
  BY <1>2, <1>3
<1>5. ToSet(crons') = ToSet(crons) \cup {Len(obj) + 1}
  BY <1>4 DEF ToSet
<1>6. /\ \A i \in DOMAIN obj : obj'[i] = obj[i]
      /\ obj'[Len(obj) + 1] = c /\ Len(obj) + 1 \in DOMAIN obj'
  BY <1>1, <1>3
<1> QED BY <1>4, <1>5, <1>6

LEMMA DroppedFacts ==
  ASSUME CronTypes, NEW ps, Dropped(ps)
  PROVE  /\ \A p, q \in DOMAIN crons' : p # q =>
              \E m, n \in DOMAIN crons : m # n /\ crons'[p] = crons[m] /\ crons'[q] = crons[n]
         /\ ToSet(crons') = {crons[p] : p \in ps} /\ ToSet(crons') \subseteq ToSet(crons)
<1>1. Picked(At(crons, ps), crons, 1..Len(obj), ps) /\ crons' = At(crons, ps) /\ ps \subseteq DOMAIN crons
  BY AtSeq DEF Dropped, CronTypes
<1>2. ToSet(crons') = {crons[p] : p \in ps} /\ \A p, q \in DOMAIN crons' : p # q =>
              \E m, n \in ps : m # n /\ crons'[p] = crons[m] /\ crons'[q] = crons[n]
  BY <1>1 DEF Picked
<1>3. {crons[p] : p \in ps} \subseteq ToSet(crons)
  BY <1>1 DEF ToSet
<1> QED BY <1>1, <1>2, <1>3

LEMMA OneCronNext ==
  ASSUME CronTypes, OneCron, CronKind
  PROVE  OneCron'
<1>1. \A i \in DOMAIN obj : obj'[i].id = obj[i].id
  BY ObjectsKept DEF SameCron
<1>2. \A p \in DOMAIN crons : crons[p] \in DOMAIN obj
  BY CronsType
<1>3. CASE UNCHANGED crons
  BY <1>1, <1>2, <1>3 DEF OneCron
<1>4. ASSUME NEW c, Made(c) PROVE OneCron'
  <2>1. \A p \in DOMAIN crons : obj'[crons[p]].id # c.id
    BY <1>1, <1>2, <1>4 DEF Made, Taken, ToSet
  <2>2. obj'[Len(obj) + 1] = c
    BY <1>4, MadeFacts
  <2>3. \A p \in DOMAIN crons' : \/ p \in DOMAIN crons /\ crons'[p] = crons[p]
                                 \/ p = Len(crons) + 1 /\ crons'[p] = Len(obj) + 1
    BY <1>4, MadeFacts
  <2>4. ASSUME NEW p \in DOMAIN crons', NEW q \in DOMAIN crons', p # q
        PROVE obj'[crons'[p]].id # obj'[crons'[q]].id
    BY <1>1, <1>2, <2>1, <2>2, <2>3, <2>4 DEF OneCron
  <2> QED BY <2>4 DEF OneCron
<1>5. ASSUME NEW ps, Dropped(ps) PROVE OneCron'
  <2>1. ASSUME NEW p \in DOMAIN crons', NEW q \in DOMAIN crons', p # q
        PROVE obj'[crons'[p]].id # obj'[crons'[q]].id
    <3>1. PICK m \in DOMAIN crons, n \in DOMAIN crons :
            m # n /\ crons'[p] = crons[m] /\ crons'[q] = crons[n]
      BY <1>5, <2>1, DroppedFacts
    <3> QED BY <1>1, <1>2, <3>1 DEF OneCron
  <2> QED BY <2>1 DEF OneCron
<1> QED BY <1>3, <1>4, <1>5, CronsKept

CronInv == AssistantInv /\ CronTypes /\ OneCron

LEMMA CronInvariant == Spec => []CronInv
<1>1. Init => CronInv
  BY AssistantInit, CronTypesInit DEF CronInv, OneCron, Init
<1>2. CronInv /\ [Next]_vars => CronInv'
  BY AssistantNext, CronTypesNext, CronKinds, OneCronNext DEF CronInv
<1> QED BY <1>1, <1>2, PTL DEF Spec

\* The lists of assistants, versions and crons have their types and one entry
\* per id, through creations that race deletions, passes of the scheduler over
\* replaced lists, restarts and truncates.
THEOREM CatalogTyped == Spec => []TypeOK
<1>1. ASSUME CronInv PROVE TypeOK
  <2>1. \A e \in ToSet(assistants) \cup ToSet(versions) : e \in Version
    BY <1>1 DEF CronInv, AssistantInv, AssistantTypes, ToSet
  <2>2. \A i, j \in DOMAIN assistants : i # j => assistants[i].id # assistants[j].id
    BY <1>1 DEF CronInv, AssistantInv, OneEntry
  <2>3. obj \in Seq(Cron) /\ crons \in Seq(1..Len(obj)) /\ pass.list \in Seq(1..Len(obj))
    BY <1>1 DEF CronInv, CronTypes
  <2>4. \A c \in ToSet(obj) : c \in Cron
    BY <2>3 DEF ToSet
  <2>5. ToSet(crons) \cup ToSet(pass.list) \subseteq DOMAIN obj
    BY <2>3 DEF ToSet
  <2>6. \A i, j \in DOMAIN crons : i # j => obj[crons[i]].id # obj[crons[j]].id
    BY <1>1 DEF CronInv, OneCron
  <2>7. threads \subseteq Thread /\ last \in [CronId -> -1..MaxTime]
    BY <1>1 DEF CronInv, CronTypes
  <2> QED BY <2>1, <2>2, <2>4, <2>5, <2>6, <2>7 DEF TypeOK
<1> QED BY <1>1, CronInvariant, PTL

----------------------------------------------------------------------------
(* Crons, their assistants and threads.                                    *)

Backed(c, es, ts) ==
  /\ c.assistant \in User => (\E e \in es : e.id = c.assistant) \/ c.late
  /\ c.thread \in ts \cup {NoThread}

LEMMA BackedForm == CronsBacked <=> \A i \in ToSet(crons) : Backed(obj[i], ToSet(assistants), threads)
<1>1. ASSUME NEW a PROVE Has(a) <=> \E e \in ToSet(assistants) : e.id = a
  BY DEF Has, ToSet
<1> QED BY <1>1 DEF CronsBacked, Backed

LEMMA StayForm ==
  ASSUME NEW a, Has(a) => Has(a)', \E e \in ToSet(assistants) : e.id = a
  PROVE  \E e \in ToSet(assistants') : e.id = a
  BY DEF Has, ToSet

LEMMA BackedNext ==
  ASSUME CronTypes, CronsBacked, CronKind
  PROVE  CronsBacked'
<1> DEFINE es == ToSet(assistants')
           B(c) == Backed(c, es, threads')
<1>0. \A i \in ToSet(crons) : Backed(obj[i], ToSet(assistants), threads)
  BY BackedForm
<1> SUFFICES \A i \in ToSet(crons') : B(obj'[i])
  <2>1. \A a : (\E i \in DOMAIN assistants' : assistants'[i].id = a) <=> \E e \in es : e.id = a
    BY DEF ToSet
  <2> HIDE DEF es
  <2> QED BY <2>1 DEF CronsBacked, Backed, Has
<1>1. \A i \in DOMAIN obj : SameCron(obj[i], obj'[i])
  BY ObjectsKept
<1>2. \A i \in ToSet(crons) : i \in DOMAIN obj
  BY CronsType
<1>3. ASSUME NEW i \in ToSet(crons), Stay, UNCHANGED threads
      PROVE  B(obj'[i])
  <2>1. /\ obj'[i].assistant = obj[i].assistant /\ obj'[i].thread = obj[i].thread /\ obj'[i].late = obj[i].late
    BY <1>1, <1>2 DEF SameCron
  <2>2. ASSUME obj[i].assistant \in User, ~ obj[i].late PROVE \E e \in es : e.id = obj[i].assistant
    BY <1>0, <1>3, <2>2, StayForm DEF Backed, Stay
  <2> HIDE DEF es
  <2> QED BY <1>0, <1>3, <2>1, <2>2 DEF Backed
<1>4. ASSUME UNCHANGED crons, Stay, UNCHANGED threads PROVE \A i \in ToSet(crons') : B(obj'[i])
  <2> HIDE DEF B
  <2> QED BY <1>3, <1>4
<1>5. CASE Quiet \/ Restarted
  <2> HIDE DEF B
  <2> QED BY <1>4, <1>5 DEF Quiet, Restarted, cronVars
<1>6. CASE Ended \/ SetNextRunDate \/ (\E i, d : Changed(i, d)) \/ (\E j, t : Fired(j, t))
  <2> HIDE DEF B
  <2>1. UNCHANGED assistantVars /\ UNCHANGED crons /\ UNCHANGED threads
    BY <1>6 DEF Ended, SetNextRunDate, Changed, Fired, cronVars
  <2> QED BY <1>4, <2>1, UnchangedStay
<1>7. ASSUME NEW c, Made(c) PROVE \A i \in ToSet(crons') : B(obj'[i])
  <2>1. UNCHANGED assistantVars /\ UNCHANGED threads
    BY <1>7 DEF Made
  <2>2. Stay
    BY <2>1, UnchangedStay
  <2>3. ToSet(crons') = ToSet(crons) \cup {Len(obj) + 1} /\ obj'[Len(obj) + 1] = c
    BY <1>7, MadeFacts
  <2>4. B(c)
    <3>1. (\E e \in es : e.id = c.assistant) \/ c.late
      BY <1>7, <2>1 DEF Made, Has, ToSet, assistantVars
    <3>2. c.thread \in threads' \cup {NoThread}
      BY <1>7, <2>1 DEF Made
    <3> HIDE DEF es
    <3> QED BY <3>1, <3>2 DEF Backed
  <2> HIDE DEF B
  <2> QED BY <1>3, <2>1, <2>2, <2>3, <2>4
<1>8. ASSUME NEW ps, Dropped(ps) PROVE \A i \in ToSet(crons') : B(obj'[i])
  <2>1. ToSet(crons') = {crons[p] : p \in ps} /\ UNCHANGED obj
    BY <1>8, DroppedFacts DEF Dropped
  <2>2. ASSUME NEW p \in ps PROVE B(obj[crons[p]])
    <3> DEFINE c == obj[crons[p]]
    <3>1. Backed(c, ToSet(assistants), threads)
      BY <1>0, <1>8 DEF Dropped, ToSet
    <3>2. c.thread \in threads => c.thread \in threads'
      BY <1>8 DEF Dropped
    <3>3. c.assistant \in User /\ Has(c.assistant) => \E e \in es : e.id = c.assistant
      <4>1. ASSUME NEW a \in User, c.assistant = a, Has(a) PROVE \E e \in es : e.id = a
        BY <1>8, <4>1, StayForm DEF Dropped, Has, ToSet
      <4> QED BY <4>1
    <3>4. (\E e \in ToSet(assistants) : e.id = c.assistant) => Has(c.assistant)
      BY DEF Has, ToSet
    <3> HIDE DEF c, es
    <3>5. B(c)
      BY <3>1, <3>2, <3>3, <3>4 DEF Backed
    <3> QED BY <3>5 DEF c
  <2> HIDE DEF B
  <2> QED BY <2>1, <2>2
<1> HIDE DEF B
<1> QED BY <1>5, <1>6, <1>7, <1>8 DEF CronKind

\* The cascades of Assistants.delete and Threads.delete against Crons.put, whose
\* checks come before an await: a cron keeps its assistant, unless the assistant
\* was gone when the cron was appended, and always its thread.
THEOREM CronsKeepTheirOwners == Spec => []CronsBacked
<1>1. Init => CronsBacked
  BY DEF Init, CronsBacked, ToSet
<1>2. CronInv /\ CronsBacked /\ [Next]_vars => CronsBacked'
  BY CronKinds, BackedNext DEF CronInv
<1> QED BY <1>1, <1>2, CronInvariant, PTL DEF Spec

----------------------------------------------------------------------------
(* The dates of crons.                                                     *)

\* What a step does to a cron object of the store.
LEMMA DatesKept ==
  ASSUME CronTypes, CronKind, NEW i \in ToSet(crons)
  PROVE  SameDate(obj[i], obj'[i]) \/ Dates(obj'[i])
<1>1. i \in DOMAIN obj /\ obj[i] \in Cron
  BY CronsType
<1>2. CASE UNCHANGED obj
  BY <1>2 DEF SameDate
<1>3. ASSUME NEW c, Made(c) PROVE UNCHANGED obj[i]
  BY <1>1, <1>3, MadeFacts
<1>4. ASSUME NEW k, NEW d, Changed(k, d) PROVE SameDate(obj[i], obj'[i]) \/ Dates(obj'[i])
  <2>1. obj'[i] = IF k = i THEN d ELSE obj[i]
    BY <1>1, <1>4 DEF Changed
  <2> QED BY <1>4, <2>1 DEF Changed, SameDate
<1>5. ASSUME SetNextRunDate PROVE SameDate(obj[i], obj'[i]) \/ Dates(obj'[i])
  <2>1. pass.hold # NoHold /\ (obj'[i] = obj[i] \/ obj'[i] = Dated(obj[i], pass.hold))
    BY <1>1, <1>5 DEF SetNextRunDate
  <2>2. Dates(Dated(obj[i], pass.hold))
    BY <1>1, <2>1, DatedFacts
  <2> QED BY <2>1, <2>2 DEF SameDate
<1>6. CASE Quiet \/ Ended \/ Restarted \/ (\E ps : Dropped(ps)) \/ (\E j, t : Fired(j, t))
  BY <1>2, <1>6 DEF Quiet, Ended, Restarted, Dropped, Fired, cronVars
<1> QED BY <1>3, <1>4, <1>5, <1>6 DEF CronKind, SameDate

LEMMA DatesNext ==
  ASSUME CronTypes, DateOnSchedule, CronKind
  PROVE  DateOnSchedule'
<1>1. ASSUME NEW i \in ToSet(crons)
      PROVE obj'[i].stale \/ OnSchedule(obj'[i].sched, obj'[i].zone, obj'[i].next)
  <2>1. SameDate(obj[i], obj'[i]) \/ Dates(obj'[i])
    BY DatesKept
  <2> QED BY <1>1, <2>1 DEF SameDate, Dates, DateOnSchedule
<1>2. ASSUME NEW c, Made(c) PROVE DateOnSchedule'
  <2>1. ToSet(crons') = ToSet(crons) \cup {Len(obj) + 1} /\ obj'[Len(obj) + 1] = c
    BY <1>2, MadeFacts
  <2>2. OnSchedule(c.sched, c.zone, c.next)
    BY <1>2 DEF Made
  <2> QED BY <1>1, <2>1, <2>2 DEF DateOnSchedule
<1>3. ASSUME NEW ps, Dropped(ps) PROVE DateOnSchedule'
  BY <1>1, <1>3, DroppedFacts DEF DateOnSchedule
<1>4. CASE UNCHANGED crons
  BY <1>1, <1>4 DEF DateOnSchedule
<1> QED BY <1>2, <1>3, <1>4, CronsKept

\* Crons.put, Crons.update and set_next_run_date, from a copy that may be old:
\* the next date of a cron is one of its schedule and zone, or is marked stale.
THEOREM CronsOnSchedule == Spec => []DateOnSchedule
<1>1. Init => DateOnSchedule
  BY DEF Init, DateOnSchedule, ToSet
<1>2. CronInv /\ DateOnSchedule /\ [Next]_vars => DateOnSchedule'
  BY CronKinds, DatesNext DEF CronInv
<1> QED BY <1>1, <1>2, CronInvariant, PTL DEF Spec

\* The last date of a cron that was run and, but for the one the pass holds,
\* is over.
Recorded(k) == IF pass.hold # NoHold /\ k = pass.hold.id THEN pass.hold.prev ELSE last[k]

\* The lists the scheduler goes over and goes on with hold dates not yet run.
ListAhead ==
  /\ \A p, q \in DOMAIN List : p # q => obj[List[p]].id # obj[List[q]].id
  /\ \A j \in DOMAIN List : j >= pass.pos => last[obj[List[j]].id] < obj[List[j]].next

DateInv ==
  /\ \A k \in CronId : last[k] <= now
  /\ \A i \in ToSet(crons) : Recorded(obj[i].id) < obj[i].next
  /\ ListAhead
  /\ pass.hold # NoHold =>
       last[pass.hold.id] <= pass.now /\ pass.hold.prev < pass.hold.date /\ pass.hold.prev <= now

LEMMA DateFacts ==
  ASSUME CronTypes, DateInv
  PROVE  /\ last \in [CronId -> -1..MaxTime] /\ now \in Nat /\ pass.now \in Nat /\ pass.now <= now
         /\ pass.hold # NoHold => pass.hold \in Hold
         /\ \A i \in DOMAIN obj : obj[i] \in Cron /\ obj[i].id \in CronId /\ obj[i].next \in Nat
         /\ \A k \in CronId : Recorded(k) \in Int /\ last[k] \in Int /\ Recorded(k) <= now /\ last[k] <= now
<1>1. last \in [CronId -> -1..MaxTime] /\ now \in Nat /\ pass.now \in Nat /\ pass.now <= now
  BY DEF CronTypes, Pass
<1>2. pass.hold # NoHold => pass.hold \in Hold
  BY DEF CronTypes, Pass
<1>3. \A i \in DOMAIN obj : obj[i] \in Cron /\ obj[i].id \in CronId /\ obj[i].next \in Nat
  <2>1. \A i \in DOMAIN obj : obj[i] \in Cron
    BY DEF CronTypes
  <2> QED BY <2>1 DEF Cron
<1>4. ASSUME NEW k \in CronId
      PROVE  Recorded(k) \in Int /\ last[k] \in Int /\ Recorded(k) <= now /\ last[k] <= now
  <2>1. last[k] \in Int /\ last[k] <= now
    BY <1>1 DEF DateInv
  <2>2. pass.hold # NoHold => pass.hold.prev \in Int /\ pass.hold.prev <= now
    BY <1>2 DEF DateInv, Hold
  <2> QED BY <2>1, <2>2 DEF Recorded
<1> QED BY <1>1, <1>2, <1>3, <1>4

LEMMA DateInvNext ==
  ASSUME CronTypes, OneCron, DateInv, CronTypes', OneCron', CronKind
  PROVE  DateInv'
<1>1. /\ last \in [CronId -> -1..MaxTime] /\ now \in Nat /\ pass.now \in Nat /\ pass.now <= now
      /\ pass.hold # NoHold => pass.hold \in Hold
      /\ \A i \in DOMAIN obj : obj[i] \in Cron /\ obj[i].id \in CronId /\ obj[i].next \in Nat
      /\ \A k \in CronId : Recorded(k) \in Int /\ last[k] \in Int /\ Recorded(k) <= now /\ last[k] <= now
  BY DateFacts
<1>2. \A i \in DOMAIN obj : i \in DOMAIN obj' /\ obj'[i].id = obj[i].id
  BY ObjectsKept DEF SameCron
<1>3. \A i \in ToSet(crons) : i \in DOMAIN obj
  BY CronsType
<1>4. \A j \in DOMAIN List : List[j] \in DOMAIN obj
  BY ListType
<1>5. \A i \in DOMAIN obj' : obj'[i].next \in Nat
  <2>1. obj' \in Seq(Cron)
    BY DEF CronTypes
  <2>2. \A i \in DOMAIN obj' : obj'[i] \in Cron
    BY <2>1
  <2> QED BY <2>2 DEF Cron
<1>6. \A i \in ToSet(crons) : Recorded(obj[i].id) < obj[i].next
  BY DEF DateInv
<1>7. /\ \A p, q \in DOMAIN List : p # q => obj[List[p]].id # obj[List[q]].id
      /\ \A j \in DOMAIN List : j >= pass.pos => last[obj[List[j]].id] < obj[List[j]].next
  BY DEF DateInv, ListAhead
<1>8. pass.hold # NoHold =>
        /\ pass.hold.id \in CronId /\ pass.hold.prev \in Int
        /\ last[pass.hold.id] <= pass.now /\ pass.hold.prev < pass.hold.date /\ pass.hold.prev <= now
  BY <1>1 DEF DateInv, Hold
\* The clock moves, or an object changes, while the scheduler stays where it is.
<1>9. ASSUME UNCHANGED <<crons, pass, last>>, now' \in Nat, now' >= now,
             \A i \in DOMAIN obj : obj'[i].next = obj[i].next \/ obj'[i].next > now
      PROVE DateInv'
  <2>1. List' = List /\ \A k \in CronId : Recorded(k)' = Recorded(k)
    BY <1>9 DEF List, Recorded
  <2>2. \A k \in CronId : last'[k] <= now'
    BY <1>1, <1>9
  <2>3. ASSUME NEW i \in ToSet(crons) PROVE Recorded(obj[i].id) < obj'[i].next
    BY <1>1, <1>2, <1>3, <1>5, <1>6, <1>9
  <2>4. (\A i \in ToSet(crons) : Recorded(obj[i].id) < obj[i].next)'
    BY <1>2, <1>3, <1>9, <2>3 DEF Recorded
  <2>5. ListAhead'
    <3>1. ASSUME NEW j \in DOMAIN List, j >= pass.pos PROVE last[obj'[List[j]].id] < obj'[List[j]].next
      BY <1>1, <1>2, <1>4, <1>5, <1>7, <1>9, <3>1
    <3>2. \A p, q \in DOMAIN List : p # q => obj'[List[p]].id # obj'[List[q]].id
      BY <1>2, <1>4, <1>7
    <3> QED BY <1>9, <2>1, <3>1, <3>2 DEF ListAhead
  <2>6. pass'.hold # NoHold =>
          last'[pass'.hold.id] <= pass'.now /\ pass'.hold.prev < pass'.hold.date /\ pass'.hold.prev <= now'
    BY <1>1, <1>8, <1>9
  <2> QED BY <2>2, <2>4, <2>5, <2>6 DEF DateInv
<1>10. CASE Quiet
  <2>1. now' \in Nat /\ now' >= now
    BY <1>1, <1>10 DEF Quiet
  <2> QED BY <1>9, <1>10, <2>1 DEF Quiet, cronVars, schedulerVars
<1>11. ASSUME NEW i, NEW d, Changed(i, d) PROVE DateInv'
  <2>1. UNCHANGED <<crons, pass, last, now>>
    BY <1>11 DEF Changed, schedulerVars
  <2>2. ASSUME NEW k \in DOMAIN obj PROVE obj'[k].next = obj[k].next \/ obj'[k].next > now
    BY <1>11 DEF Changed
  <2>3. now' \in Nat /\ now' >= now
    BY <1>1, <2>1
  <2> QED BY <1>9, <2>1, <2>2, <2>3
\* The pass is over.
<1>12. ASSUME pass' = Idle, UNCHANGED <<crons, obj, now>>, \A k \in CronId : last'[k] = Recorded(k)
       PROVE DateInv'
  <2>1. pass'.pos = 0 /\ pass'.live = TRUE /\ pass'.hold = NoHold
    BY <1>12 DEF Idle
  <2>2. List' = crons
    BY <1>12, <2>1 DEF List
  <2>3. \A k \in CronId : last'[k] <= now'
    BY <1>1, <1>12
  <2>4. \A i \in ToSet(crons) : last'[obj[i].id] < obj[i].next
    BY <1>1, <1>3, <1>6, <1>12
  <2>5. ListAhead'
    <3>1. \A j \in DOMAIN crons : last'[obj[crons[j]].id] < obj[crons[j]].next
      BY <2>4 DEF ToSet
    <3> QED BY <1>12, <2>2, <3>1 DEF ListAhead, OneCron
  <2> QED BY <1>12, <2>1, <2>3, <2>4, <2>5 DEF DateInv, Recorded
<1>13. CASE Ended
  BY <1>12, <1>13 DEF Ended, cronVars, Recorded
<1>14. CASE Restarted
  <2>1. \A k \in CronId : last'[k] = Recorded(k)
    BY <1>1, <1>14 DEF Restarted, Recorded
  <2> QED BY <1>12, <1>14, <2>1 DEF Restarted, cronVars
<1>15. CASE SetNextRunDate
  <2>1. /\ pass.hold # NoHold /\ pass'.hold = NoHold
        /\ pass'.pos = pass.pos /\ pass'.live = pass.live /\ pass'.list = pass.list
        /\ UNCHANGED <<crons, last, now>>
    BY <1>15 DEF SetNextRunDate, CronTypes, Pass
  <2>2. List' = List
    BY <2>1 DEF List
  <2>3. ASSUME NEW i \in DOMAIN obj, last[obj[i].id] < obj[i].next \/ (i \in ToSet(crons))
        PROVE last[obj[i].id] < obj'[i].next
    <3>1. obj'[i].next \in Nat /\ obj[i].next \in Nat /\ last[obj[i].id] \in Int
      BY <1>1, <1>2, <1>5
    <3>2. CASE i \in ToSet(crons) /\ obj[i].id = pass.hold.id
      <4>1. obj'[i] = Dated(obj[i], pass.hold)
        BY <1>15, <3>2 DEF SetNextRunDate
      <4>2. obj'[i].next > pass.now
        BY <1>1, <2>1, <4>1, DatedFacts
      <4> QED BY <1>1, <1>8, <2>1, <3>1, <3>2, <4>2
    <3>3. CASE ~ (i \in ToSet(crons) /\ obj[i].id = pass.hold.id)
      <4>1. obj'[i] = obj[i]
        BY <1>15, <3>3 DEF SetNextRunDate
      <4>2. i \in ToSet(crons) => last[obj[i].id] < obj[i].next
        BY <1>6, <3>3 DEF Recorded
      <4> QED BY <2>3, <4>1, <4>2
    <3> QED BY <3>2, <3>3
  <2>4. ASSUME NEW i \in ToSet(crons) PROVE last[obj'[i].id] < obj'[i].next
    BY <1>2, <1>3, <2>3
  <2>5. ASSUME NEW j \in DOMAIN List, j >= pass.pos PROVE last[obj'[List[j]].id] < obj'[List[j]].next
    BY <1>2, <1>4, <1>7, <2>3, <2>5
  <2>6. \A p, q \in DOMAIN List : p # q => obj'[List[p]].id # obj'[List[q]].id
    BY <1>2, <1>4, <1>7
  <2>7. ListAhead'
    BY <2>1, <2>2, <2>5, <2>6 DEF ListAhead
  <2>8. \A k \in CronId : last'[k] <= now'
    BY <1>1, <2>1
  <2> QED BY <2>1, <2>4, <2>7, <2>8 DEF DateInv, Recorded

<1>16. ASSUME NEW c, Made(c) PROVE DateInv'
  <2>1. UNCHANGED <<pass, last, now>> /\ c \in Cron /\ c.next > now
    BY <1>16 DEF Made, schedulerVars
  <2>2. ToSet(crons') = ToSet(crons) \cup {Len(obj) + 1} /\ obj'[Len(obj) + 1] = c
        /\ \A i \in DOMAIN obj : obj'[i] = obj[i]
    BY <1>16, MadeFacts
  <2>3. c.id \in CronId /\ c.next \in Nat
    BY <2>1 DEF Cron
  <2>4. \A k \in CronId : last[k] < c.next /\ Recorded(k) < c.next
    BY <1>1, <2>1, <2>3
  <2>5. (\A i \in ToSet(crons) : Recorded(obj[i].id) < obj[i].next)'
    <3>1. \A i \in ToSet(crons') : Recorded(obj'[i].id) < obj'[i].next
      BY <1>3, <1>6, <2>2, <2>3, <2>4
    <3> QED BY <2>1, <3>1 DEF Recorded
  <2>6. ListAhead'
    <3>1. CASE pass.live
      <4>1. List = crons /\ List' = crons'
        BY <2>1, <3>1 DEF List
      <4>2. \A p \in DOMAIN crons' : \/ p \in DOMAIN crons /\ crons'[p] = crons[p]
                                     \/ p = Len(crons) + 1 /\ crons'[p] = Len(obj) + 1
        BY <1>16, MadeFacts
      <4>3. ASSUME NEW j \in DOMAIN crons', j >= pass.pos
            PROVE last[obj'[crons'[j]].id] < obj'[crons'[j]].next
        BY <1>4, <1>7, <2>2, <2>3, <2>4, <4>1, <4>2, <4>3
      <4> QED BY <2>1, <4>1, <4>3 DEF ListAhead, OneCron
    <3>2. CASE ~ pass.live
      <4>1. List' = List
        BY <2>1, <3>2 DEF List
      <4>2. \A j \in DOMAIN List : obj'[List[j]] = obj[List[j]]
        BY <1>4, <2>2
      <4> QED BY <1>7, <2>1, <4>1, <4>2 DEF ListAhead
    <3> QED BY <3>1, <3>2
  <2>7. \A k \in CronId : last'[k] <= now'
    BY <1>1, <2>1
  <2>8. pass'.hold # NoHold =>
          last'[pass'.hold.id] <= pass'.now /\ pass'.hold.prev < pass'.hold.date /\ pass'.hold.prev <= now'
    BY <1>8, <2>1
  <2> QED BY <2>5, <2>6, <2>7, <2>8 DEF DateInv
<1>17. ASSUME NEW ps, Dropped(ps) PROVE DateInv'
  <2>1. UNCHANGED <<obj, last, now>> /\ ToSet(crons') \subseteq ToSet(crons)
    BY <1>17, DroppedFacts DEF Dropped
  <2>2. /\ pass'.pos = pass.pos /\ pass'.now = pass.now /\ pass'.hold = pass.hold
        /\ pass.pos # 0 => List' = List
        /\ pass.pos = 0 => pass' = pass /\ List' = crons'
    BY <1>17, DetachedFacts DEF Dropped
  <2>3. (\A i \in ToSet(crons) : Recorded(obj[i].id) < obj[i].next)'
    BY <1>6, <2>1, <2>2 DEF Recorded
  <2>4. ListAhead'
    <3>1. CASE pass.pos # 0
      BY <1>7, <2>1, <2>2, <3>1 DEF ListAhead
    <3>2. CASE pass.pos = 0
      <4>1. pass.hold = NoHold
        BY <3>2 DEF CronTypes
      <4>2. \A p \in DOMAIN crons' : last[obj[crons'[p]].id] < obj[crons'[p]].next
        BY <2>3, <2>1, <2>2, <4>1 DEF Recorded, ToSet
      <4> QED BY <2>1, <2>2, <3>2, <4>2 DEF ListAhead, OneCron
    <3> QED BY <3>1, <3>2
  <2>5. \A k \in CronId : last'[k] <= now'
    BY <1>1, <2>1
  <2>6. pass'.hold # NoHold =>
          last'[pass'.hold.id] <= pass'.now /\ pass'.hold.prev < pass'.hold.date /\ pass'.hold.prev <= now'
    BY <1>8, <2>1, <2>2
  <2> QED BY <2>3, <2>4, <2>5, <2>6 DEF DateInv
<1>18. ASSUME NEW j, NEW t, Fired(j, t) PROVE DateInv'
  <2> DEFINE c == obj[List[j]]
  <2>1. UNCHANGED <<obj, crons, now>> /\ pass.hold = NoHold /\ j \in DOMAIN List /\ j >= pass.pos
    BY <1>18 DEF Fired, cronVars
  <2>2. /\ pass'.pos = j + 1 /\ pass'.now = t /\ pass'.live = pass.live /\ pass'.list = pass.list
        /\ pass'.hold # NoHold
        /\ pass'.hold.id = c.id /\ pass'.hold.date = c.next /\ pass'.hold.prev = last[c.id]
        /\ last' = [last EXCEPT ![c.id] = c.next]
        /\ c \in Cron /\ c.next \in 0..t /\ t \in 0..now
    BY <1>18, FireFacts
  <2>3. List' = List
    BY <2>1, <2>2 DEF List
  <2>4. c.id \in CronId /\ c.next \in Nat /\ last[c.id] \in Int /\ last[c.id] <= now /\ last[c.id] < c.next
        /\ c.next <= t /\ c.next <= now
    BY <1>1, <1>4, <1>7, <2>1, <2>2
  <2>5. \A k \in CronId : last'[k] = IF k = c.id THEN c.next ELSE last[k]
    BY <1>1, <2>2
  <2>6. \A i, k \in DOMAIN List : i # k => obj[List[i]].id # obj[List[k]].id
    BY <1>7
  <2>7. \A i \in DOMAIN List : i >= j + 1 => i # j /\ i >= pass.pos
    <3>1. List \in Seq(1..Len(obj)) /\ pass.pos \in Nat
      BY ListType DEF CronTypes, Pass
    <3> QED BY <2>1, <3>1
  <2>8. \A i \in DOMAIN List : i >= j + 1 => last'[obj[List[i]].id] < obj[List[i]].next
    BY <1>1, <1>4, <1>7, <2>1, <2>5, <2>6, <2>7
  <2>9. ListAhead'
    BY <2>1, <2>2, <2>3, <2>6, <2>8 DEF ListAhead
  <2>10. \A k \in CronId : last'[k] <= now'
    BY <1>1, <2>1, <2>4, <2>5
  <2>11. \A i \in ToSet(crons) : Recorded(obj[i].id) = last[obj[i].id] /\ obj[i].id \in CronId
    BY <1>1, <1>3, <2>1 DEF Recorded
  <2>12. (\A i \in ToSet(crons) : Recorded(obj[i].id) < obj[i].next)'
    <3>1. ASSUME NEW i \in ToSet(crons)
          PROVE (IF obj[i].id = c.id THEN last[c.id] ELSE last'[obj[i].id]) < obj[i].next
      BY <1>6, <2>5, <2>11
    <3> HIDE DEF c
    <3> QED BY <2>1, <2>2, <3>1 DEF Recorded
  <2>13. pass'.hold # NoHold =>
          last'[pass'.hold.id] <= pass'.now /\ pass'.hold.prev < pass'.hold.date /\ pass'.hold.prev <= now'
    BY <2>1, <2>2, <2>4, <2>5
  <2> QED BY <2>9, <2>10, <2>12, <2>13 DEF DateInv
<1> QED BY <1>10, <1>11, <1>13, <1>14, <1>15, <1>16, <1>17, <1>18 DEF CronKind

\* The scheduler's pass against updates, deletions and creations under the same
\* id, also when it goes on over a list that was replaced: no date of a cron is
\* run twice, and dates are run in order.
THEOREM DatesRunOnce == Spec => []DatesGrow
<1>1. Init => DateInv
  BY CatalogAssumption DEF Init, DateInv, ListAhead, List, Idle, ToSet
<1>2. CronInv /\ DateInv /\ [Next]_vars => DateInv'
  <2> SUFFICES ASSUME CronInv, DateInv, [Next]_vars PROVE DateInv'
    OBVIOUS
  <2>1. CronTypes /\ OneCron /\ AssistantInv
    BY DEF CronInv
  <2>2. CronKind
    BY <2>1, CronKinds
  <2>3. CronTypes' /\ OneCron'
    BY <2>1, <2>2, CronTypesNext, OneCronNext
  <2> QED BY <2>1, <2>2, <2>3, DateInvNext
<1>3. DateInv => DatesGrow
  BY DEF DateInv, DatesGrow
<1> QED BY <1>1, <1>2, <1>3, CronInvariant, PTL DEF Spec
============================================================================
