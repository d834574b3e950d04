--------------------------- MODULE SequenceFacts ---------------------------
(***************************************************************************)
(* Facts about sequences, ascending lists and recursive functions that the *)
(* proofs about the components share.                                      *)
(***************************************************************************)
EXTENDS LibraryOrder, FiniteSetTheorems, WellFoundedInduction, TLAPS

(***************************************************************************)
(* What appending does to the elements of a sequence.                      *)
(***************************************************************************)
LEMMA AppendFacts ==
  ASSUME NEW S, NEW s \in Seq(S), NEW e \in S
  PROVE  /\ Append(s, e) \in Seq(S)
         /\ Len(Append(s, e)) = Len(s) + 1
         /\ \A i \in 1..Len(s) : Append(s, e)[i] = s[i]
         /\ Append(s, e)[Len(s) + 1] = e
         /\ {Append(s, e)[i] : i \in 1..Len(Append(s, e))} =
              {s[i] : i \in 1..Len(s)} \cup {e}
<1>1. Append(s, e) \in Seq(S) /\ Len(Append(s, e)) = Len(s) + 1
  OBVIOUS
<1>2. /\ \A i \in 1..Len(s) : Append(s, e)[i] = s[i]
      /\ Append(s, e)[Len(s) + 1] = e
  OBVIOUS
<1>3. Len(s) \in Nat
  OBVIOUS
<1>4. {Append(s, e)[i] : i \in 1..Len(Append(s, e))} =
        {s[i] : i \in 1..Len(s)} \cup {e}
  <2>1. \A i \in 1..Len(Append(s, e)) : i \in 1..Len(s) \/ i = Len(s) + 1
    BY <1>1, <1>3
  <2>2. \A i \in 1..Len(s) : i \in 1..Len(Append(s, e))
    BY <1>1, <1>3
  <2>3. Len(s) + 1 \in 1..Len(Append(s, e))
    BY <1>1, <1>3
  <2>. QED  BY <1>2, <2>1, <2>2, <2>3
<1>. QED  BY <1>1, <1>2, <1>4

-----------------------------------------------------------------------------

(***************************************************************************)
(* Induction over an interval, with a set for what is shown of its members: *)
(* a theorem that takes a predicate for it could not be applied.           *)
(***************************************************************************)
LEMMA IntervalInduction ==
  ASSUME NEW n \in Nat, NEW I, 0 \in I, \A k \in 1..n : k - 1 \in I => k \in I
  PROVE  0..n \subseteq I
<1>. DEFINE T == {k \in 0..n : k \notin I}
<1>. SUFFICES ASSUME T # {} PROVE FALSE
  OBVIOUS
<1>1. T \subseteq Nat
  OBVIOUS
<1>. DEFINE R == OpToRel(<, Nat)
<1>2. IsWellFoundedOn(R, Nat)
  BY NatLessThanWellFounded, Zenon
<1>3. \A i, j \in Nat : <<i, j>> \in R <=> i < j
  BY Zenon DEF OpToRel
<1>. HIDE DEF T, R
<1>4. PICK k \in T : \A j \in T : ~ (<<j, k>> \in R)
  BY <1>1, <1>2, WFMin
<1>5. \A j \in T : ~ (j < k)
  BY <1>1, <1>3, <1>4
<1>. USE DEF T
<1>. QED  BY <1>5

\* The values f takes along steps 1 to n, each applied to the value before.
Runs(f, n, A, a, step) ==
  /\ f \in [0..n -> A]
  /\ f[0] = a
  /\ \A k \in 1..n : f[k] = step[k][f[k - 1]]

(***************************************************************************)
(* A function on 0..n can be defined by recursion, each value a function   *)
(* of the one before.                                                      *)
(***************************************************************************)
LEMMA Recursion ==
  ASSUME NEW n \in Nat, NEW A, NEW a \in A, NEW step \in [1..n -> [A -> A]]
  PROVE  \E f : Runs(f, n, A, a, step)
<1>. DEFINE Up(m, f) == \A k \in 0..m : f[k] = IF k = 0 THEN a ELSE step[k][f[k - 1]]
            I == {m \in 0..n : \E f \in [0..m -> A] : Up(m, f)}
<1>1. 0 \in I
  <2>. DEFINE f == [k \in 0..0 |-> a]
  <2>1. f \in [0..0 -> A] /\ f[0] = a
    OBVIOUS
  <2>2. Up(0, f)
    BY <2>1
  <2>3. 0 \in 0..n
    OBVIOUS
  <2>. HIDE DEF f, Up
  <2>. QED  BY <2>1, <2>2, <2>3
<1>2. ASSUME NEW m \in 1..n, m - 1 \in I
      PROVE  m \in I
  <2>1. PICK f \in [0..(m - 1) -> A] : Up(m - 1, f)
    BY <1>2
  <2>. DEFINE g == [k \in 0..m |-> IF k = m THEN step[m][f[m - 1]] ELSE f[k]]
  <2>2. f[m - 1] \in A /\ \A k \in 0..(m - 1) : f[k] \in A
    OBVIOUS
  <2>3. step[m][f[m - 1]] \in A
    BY <2>2
  <2>4. g \in [0..m -> A]
    BY <2>2, <2>3
  <2>5. ASSUME NEW k \in 0..m
        PROVE  g[k] = IF k = 0 THEN a ELSE step[k][g[k - 1]]
    <3>1. CASE k = m
      <4>1. g[k - 1] = f[m - 1] /\ g[k] = step[m][f[m - 1]]
        BY <3>1
      <4>2. k # 0 /\ m # 0
        BY <3>1
      <4>. HIDE DEF g
      <4>. QED  BY <3>1, <4>1, <4>2, Zenon
    <3>2. CASE k # m
      <4>1. k \in 0..(m - 1) /\ g[k] = f[k] 
        BY <3>2
      <4>2. k # 0 => g[k - 1] = f[k - 1]
        BY <3>2
      <4>3. f[k] = IF k = 0 THEN a ELSE step[k][f[k - 1]]
        BY <2>1, <4>1
      <4>4. CASE k = 0
        BY <4>1, <4>3, <4>4
      <4>5. CASE k # 0
        BY <4>1, <4>2, <4>3, <4>5
      <4>. QED  BY <4>4, <4>5
    <3>. QED  BY <3>1, <3>2
  <2>. HIDE DEF g
  <2>6. Up(m, g)
    BY <2>5
  <2>. QED  BY <2>4, <2>6
<1>. HIDE DEF I
<1>3. 0..n \subseteq I
  BY <1>1, <1>2, IntervalInduction
<1>4. PICK f \in [0..n -> A] : Up(n, f)
  <2>1. n \in I
    BY <1>3
  <2>. QED  BY <2>1 DEF I
<1>5. f[0] = a /\ \A k \in 1..n : f[k] = step[k][f[k - 1]]
  <2>1. 0 \in 0..n /\ \A k \in 1..n : k \in 0..n /\ k # 0
    OBVIOUS
  <2>. QED  BY <1>4, <2>1, Zenon
<1>. QED  BY <1>4, <1>5, Zenon DEF Runs

-----------------------------------------------------------------------------

\* What x has at or below it in S.
Below(S, x) == {y \in S : y <= x}

(***************************************************************************)
(* A list of as many members of a set as there are, from the least to the  *)
(* greatest, has each of them once.                                        *)
(***************************************************************************)
LEMMA IncreasingInjective ==
  ASSUME NEW S \in SUBSET Int, IsFiniteSet(S),
         NEW s \in [1..Cardinality(S) -> S],
         \A i, j \in 1..Cardinality(S) : i < j => s[i] < s[j]
  PROVE  /\ \A i, j \in 1..Cardinality(S) : s[i] = s[j] => i = j
         /\ {s[i] : i \in 1..Cardinality(S)} = S
<1>1. Cardinality(S) \in Nat
  BY FS_CardinalityType
<1>2. ASSUME NEW i \in 1..Cardinality(S), NEW j \in 1..Cardinality(S), s[i] = s[j]
      PROVE  i = j
  <2>1. s[i] \in Int /\ s[j] \in Int
    OBVIOUS
  <2>2. ~ (s[i] < s[j]) /\ ~ (s[j] < s[i])
    BY <1>2, <2>1
  <2>3. ~ (i < j) /\ ~ (j < i)
    BY <2>2
  <2>. QED  BY <1>1, <2>3
<1>3. s \in Injection(1..Cardinality(S), S)
  BY <1>2 DEF Injection, IsInjective
<1>4. Cardinality(1..Cardinality(S)) = Cardinality(S)
  BY <1>1, FS_Interval
<1>5. s \in Surjection(1..Cardinality(S), S)
  BY <1>3, <1>4, FS_Injection
<1>6. \A x \in S : \E i \in 1..Cardinality(S) : s[i] = x
  BY <1>5 DEF Surjection
<1>7. \A i \in 1..Cardinality(S) : s[i] \in S
  OBVIOUS
<1>8. {s[i] : i \in 1..Cardinality(S)} = S
  BY <1>6, <1>7
<1>. QED  BY <1>2, <1>8

(***************************************************************************)
(* Every finite set of integers can be listed in ascending order: the place *)
(* of a member is how many there are up to it.                             *)
(***************************************************************************)
LEMMA AscendingExists ==
  ASSUME NEW S \in SUBSET Int, IsFiniteSet(S)
  PROVE  \E s \in [1..Cardinality(S) -> S] :
           \A i, j \in 1..Cardinality(S) : i < j => s[i] < s[j]
<1>. DEFINE n == Cardinality(S)
            rank == [x \in S |-> Cardinality(Below(S, x))]
<1>1. n \in Nat
  BY FS_CardinalityType
<1>2. ASSUME NEW x \in S
      PROVE  IsFiniteSet(Below(S, x)) /\ rank[x] \in 1..n
  <2>1. Below(S, x) \in SUBSET S /\ x \in Below(S, x)
    BY DEF Below
  <2>2. IsFiniteSet(Below(S, x)) /\ Cardinality(Below(S, x)) <= n
    BY <2>1, FS_Subset
  <2>3. Cardinality(Below(S, x)) \in Nat /\ Cardinality(Below(S, x)) # 0
    BY <2>1, <2>2, FS_CardinalityType, FS_EmptySet
  <2>. QED  BY <1>1, <2>2, <2>3
<1>3. ASSUME NEW x \in S, NEW y \in S, x < y
      PROVE  rank[x] < rank[y]
  <2>0. S \subseteq Int /\ x \in Int /\ y \in Int
    OBVIOUS
  <2>1. /\ \A z \in S : z <= x => z <= y
        /\ y <= y /\ ~ (y <= x)
    BY <1>3, <2>0
  <2>3. Below(S, x) \in SUBSET Below(S, y) /\ y \in Below(S, y) /\ y \notin Below(S, x)
    BY <2>1 DEF Below
  <2>2. /\ Cardinality(Below(S, x)) <= Cardinality(Below(S, y))
        /\ Cardinality(Below(S, x)) # Cardinality(Below(S, y))
    BY <1>2, <2>3, FS_Subset
  <2>4. rank[x] \in Int /\ rank[y] \in Int
    BY <1>2
  <2>. QED  BY <2>2, <2>4
<1>4. rank \in [S -> 1..n]
  BY <1>2
<1>5. ASSUME NEW x \in S, NEW y \in S, rank[x] = rank[y]
      PROVE  x = y
  <2>1. x \in Int /\ y \in Int /\ rank[x] \in Int
    BY <1>4
  <2>2. ~ (x < y) /\ ~ (y < x)
    BY <1>3, <1>5, <2>1
  <2>. QED  BY <2>1, <2>2
<1>6. rank \in Injection(S, 1..n)
  BY <1>4, <1>5 DEF Injection, IsInjective
<1>7. IsFiniteSet(1..n) /\ Cardinality(1..n) = n
  BY <1>1, FS_Interval
<1>8. rank \in Surjection(S, 1..n)
  BY <1>6, <1>7, FS_Injection
<1>9. \A k \in 1..n : \E x \in S : rank[x] = k
  BY <1>8 DEF Surjection
<1>. DEFINE s == [k \in 1..n |-> CHOOSE x \in S : rank[x] = k]
<1>10. \A k \in 1..n : s[k] \in S /\ rank[s[k]] = k
  BY <1>9
<1>. HIDE DEF rank, s
<1>11. s \in [1..n -> S]
  BY <1>10 DEF s
<1>12. ASSUME NEW i \in 1..n, NEW j \in 1..n, i < j
       PROVE  s[i] < s[j]
  <2>1. s[i] \in S /\ s[j] \in S /\ s[i] \in Int /\ s[j] \in Int
    BY <1>10
  <2>2. ~ (s[j] < s[i]) /\ s[i] # s[j]
    BY <1>3, <1>10, <1>12, <2>1, <1>1
  <2>. QED  BY <2>1, <2>2
<1>. QED  BY <1>11, <1>12

(***************************************************************************)
(* What Ascending returns.                                                 *)
(***************************************************************************)
LEMMA AscendingFacts ==
  ASSUME NEW S \in SUBSET Int, IsFiniteSet(S)
  PROVE  /\ Cardinality(S) \in Nat
         /\ Ascending(S) \in [1..Cardinality(S) -> S]
         /\ \A i, j \in 1..Cardinality(S) : i < j => Ascending(S)[i] < Ascending(S)[j]
         /\ \A x \in S : \E i \in 1..Cardinality(S) : Ascending(S)[i] = x
<1>1. /\ Ascending(S) \in [1..Cardinality(S) -> S]
      /\ \A i, j \in 1..Cardinality(S) : i < j => Ascending(S)[i] < Ascending(S)[j]
  BY AscendingExists DEF Ascending
<1>2. {Ascending(S)[i] : i \in 1..Cardinality(S)} = S
  BY <1>1, IncreasingInjective
<1>3. \A x \in S : \E i \in 1..Cardinality(S) : Ascending(S)[i] = x
  BY <1>2
<1>. QED  BY <1>1, <1>3, FS_CardinalityType

\* The elements of a list, by its places.
LEMMA ElementsOf ==
  ASSUME NEW S, NEW s \in Seq(S)
  PROVE  ToSet(s) = {s[i] : i \in 1..Len(s)} /\ Len(s) \in Nat /\ ToSet(s) \subseteq S
<1>1. DOMAIN s = 1..Len(s) /\ Len(s) \in Nat /\ \A i \in 1..Len(s) : s[i] \in S
  OBVIOUS
<1>. QED  BY <1>1 DEF ToSet

\* p has the places in s of what is kept of it, in the order they have there.
PlacesKept(p, s, S) ==
  /\ p \in [1..Len(Kept(s, S)) -> 1..Len(s)]
  /\ \A k \in 1..Len(Kept(s, S)) : Kept(s, S)[k] = s[p[k]]
  /\ \A k, l \in 1..Len(Kept(s, S)) : k < l => p[k] < p[l]
  /\ \A i \in 1..Len(s) : s[i] \in S => \E k \in 1..Len(Kept(s, S)) : p[k] = i

(***************************************************************************)
(* What Kept returns: the elements of s that are in S, each at a place of  *)
(* its own, and the places in the order they have in s.                    *)
(***************************************************************************)
LEMMA KeptFacts ==
  ASSUME NEW T, NEW s \in Seq(T), NEW S
  PROVE  /\ Kept(s, S) \in Seq(T)
         /\ ToSet(Kept(s, S)) = ToSet(s) \cap S
         /\ \E p : PlacesKept(p, s, S)
<1>. DEFINE places == {i \in 1..Len(s) : s[i] \in S}
            p == Ascending(places)
            n == Cardinality(places)
<1>1. Len(s) \in Nat /\ \A i \in 1..Len(s) : s[i] \in T
  OBVIOUS
<1>2. places \in SUBSET Int /\ places \in SUBSET (1..Len(s))
  BY <1>1
<1>. HIDE DEF places
<1>3. IsFiniteSet(places)
  <2>1. IsFiniteSet(1..Len(s))
    BY <1>1, FS_Interval
  <2>. QED  BY <1>2, <2>1, FS_Subset
<1>4. /\ n \in Nat
      /\ p \in [1..n -> places]
      /\ \A i, j \in 1..n : i < j => p[i] < p[j]
      /\ \A x \in places : \E i \in 1..n : p[i] = x
  BY <1>2, <1>3, AscendingFacts
<1>5. Kept(s, S) = [k \in 1..n |-> s[p[k]]]
  BY DEF Kept, places
<1>. HIDE DEF n, p
<1>6. \A k \in 1..n : p[k] \in 1..Len(s) /\ s[p[k]] \in T /\ s[p[k]] \in S
  BY <1>1, <1>4 DEF places
<1>7. Kept(s, S) \in Seq(T) /\ Len(Kept(s, S)) = n
  BY <1>4, <1>5, <1>6
<1>8. \A k \in 1..n : Kept(s, S)[k] = s[p[k]]
  BY <1>5
<1>9. \A i \in 1..Len(s) : s[i] \in S => \E k \in 1..n : p[k] = i
  BY <1>4 DEF places
<1>10. ToSet(Kept(s, S)) = ToSet(s) \cap S
  <2>1. ToSet(Kept(s, S)) = {Kept(s, S)[k] : k \in 1..n}
    BY <1>7, ElementsOf
  <2>2. ToSet(s) = {s[i] : i \in 1..Len(s)}
    BY ElementsOf
  <2>. QED  BY <1>6, <1>8, <1>9, <2>1, <2>2
<1>11. p \in [1..n -> 1..Len(s)]
  BY <1>4, <1>6
<1>12. PlacesKept(p, s, S)
  BY <1>4, <1>7, <1>8, <1>9, <1>11 DEF PlacesKept
<1>. QED  BY <1>7, <1>10, <1>12

(***************************************************************************)
(* A list that has each member of a set once is as long as the set is      *)
(* large.                                                                  *)
(***************************************************************************)
LEMMA ListLength ==
  ASSUME NEW S, NEW o \in Seq(S), S = {o[i] : i \in 1..Len(o)},
         \A i, j \in 1..Len(o) : o[i] = o[j] => i = j
  PROVE  IsFiniteSet(S) /\ Cardinality(S) = Len(o)
<1>1. Len(o) \in Nat /\ o \in [1..Len(o) -> S]
  OBVIOUS
<1>2. \A x \in S : \E i \in 1..Len(o) : o[i] = x
  OBVIOUS
<1>3. o \in Surjection(1..Len(o), S)
  BY <1>1, <1>2 DEF Surjection
<1>4. o \in Injection(1..Len(o), S)
  BY <1>1 DEF Injection, IsInjective
<1>5. \A n \in Nat : IsFiniteSet(1..n) /\ Cardinality(1..n) = n
  BY FS_Interval
<1>6. IsFiniteSet(1..Len(o)) /\ Cardinality(1..Len(o)) = Len(o)
  BY <1>1, <1>5, Zenon
<1>. QED  BY <1>3, <1>4, <1>6, FS_Surjection

-----------------------------------------------------------------------------
(***************************************************************************)
(* The dependency sort of LibraryOrder.                                    *)
(***************************************************************************)

\* The lists a sort of the library may have made so far.
Orders(lib) == {s \in Seq(DOMAIN lib) : Complete(s, lib)}

\* A list of a library's files with each at most once is no longer than the
\* library is large.
LEMMA OrderSize ==
  ASSUME NEW lib, IsFiniteSet(DOMAIN lib), NEW s \in Orders(lib)
  PROVE  /\ Len(s) \in Nat /\ Len(s) <= Cardinality(DOMAIN lib)
         /\ ToSet(s) \in SUBSET DOMAIN lib
         /\ Cardinality(ToSet(s)) = Len(s)
<1>1. s \in Seq(DOMAIN lib) /\ Complete(s, lib)
  BY DEF Orders
<1>2. /\ ToSet(s) = {s[i] : i \in 1..Len(s)} /\ ToSet(s) \in SUBSET DOMAIN lib
      /\ Len(s) \in Nat
  BY <1>1, ElementsOf
<1>3. s \in Seq(ToSet(s))
  BY <1>1, <1>2
<1>4. \A i, j \in 1..Len(s) : s[i] = s[j] => i = j
  BY <1>1 DEF Complete
<1>5. Cardinality(ToSet(s)) = Len(s)
  BY <1>2, <1>3, <1>4, ListLength
<1>6. Cardinality(ToSet(s)) <= Cardinality(DOMAIN lib)
  BY <1>2, FS_Subset
<1>. QED  BY <1>2, <1>5, <1>6

\* It is as long as the library is large when it has every file.
LEMMA OrderLength ==
  ASSUME NEW lib, IsFiniteSet(DOMAIN lib), NEW s \in Orders(lib)
  PROVE  Len(s) = Cardinality(DOMAIN lib) <=> ToSet(s) = DOMAIN lib
<1>1. ToSet(s) \in SUBSET DOMAIN lib /\ Cardinality(ToSet(s)) = Len(s)
  BY OrderSize
<1>. QED  BY <1>1, FS_Subset

\* Visiting a file keeps the list in order and what is on it, and puts the
\* file on it if it is ready.
LEMMA VisitedFacts ==
  ASSUME NEW lib, NEW s \in Orders(lib), NEW f \in DOMAIN lib
  PROVE  /\ Visited(lib, s, f) \in Orders(lib)
         /\ ToSet(s) \subseteq ToSet(Visited(lib, s, f))
         /\ lib[f] \subseteq ToSet(s) => f \in ToSet(Visited(lib, s, f))
<1>1. s \in Seq(DOMAIN lib) /\ Complete(s, lib)
  BY DEF Orders
<1>2. CASE f \notin ToSet(s) /\ lib[f] \subseteq ToSet(s)
  <2>. DEFINE t == Append(s, f)
  <2>1. Visited(lib, s, f) = t
    BY <1>2 DEF Visited
  <2>2. /\ t \in Seq(DOMAIN lib) /\ Len(t) = Len(s) + 1
        /\ \A i \in 1..Len(s) : t[i] = s[i]
        /\ t[Len(s) + 1] = f
        /\ {t[i] : i \in 1..Len(t)} = {s[i] : i \in 1..Len(s)} \cup {f}
    BY <1>1, AppendFacts
  <2>. HIDE DEF t
  <2>3. ToSet(t) = ToSet(s) \cup {f} /\ Len(s) \in Nat /\ ToSet(s) = {s[i] : i \in 1..Len(s)}
    BY <1>1, <2>2, ElementsOf
  <2>4. ASSUME NEW i \in 1..Len(t), NEW j \in 1..Len(t), t[i] = t[j] PROVE i = j
    <3>1. i \in 1..Len(s) \/ i = Len(s) + 1
      BY <2>2, <2>3
    <3>2. j \in 1..Len(s) \/ j = Len(s) + 1
      BY <2>2, <2>3
    <3>3. \A k \in 1..Len(s) : s[k] \in ToSet(s)
      BY <2>3
    <3>. QED  BY <1>1, <1>2, <2>2, <2>4, <3>1, <3>2, <3>3 DEF Complete
  <2>5. ASSUME NEW i \in 1..Len(t) PROVE lib[t[i]] \subseteq {t[j] : j \in 1..(i - 1)}
    <3>1. CASE i \in 1..Len(s)
      <4>1. \A j \in 1..(i - 1) : t[j] = s[j]
        BY <2>2, <2>3, <3>1
      <4>2. {t[j] : j \in 1..(i - 1)} = {s[j] : j \in 1..(i - 1)}
        BY <4>1
      <4>3. t[i] = s[i] /\ lib[s[i]] \subseteq {s[j] : j \in 1..(i - 1)}
        BY <1>1, <2>2, <3>1 DEF Complete
      <4>. QED  BY <4>2, <4>3
    <3>2. CASE i = Len(s) + 1
      <4>1. i - 1 = Len(s)
        BY <2>3, <3>2
      <4>2. {t[j] : j \in 1..(i - 1)} = ToSet(s)
        BY <2>2, <2>3, <4>1
      <4>. QED  BY <1>2, <2>2, <3>2, <4>2
    <3>. QED  BY <2>2, <2>3, <3>1, <3>2
  <2>6. \A i \in 1..Len(t) : t[i] \in DOMAIN lib
    BY <2>2
  <2>7. Complete(t, lib)
    BY <2>4, <2>5, <2>6 DEF Complete
  <2>. QED  BY <2>1, <2>2, <2>3, <2>7 DEF Orders
<1>3. CASE ~ (f \notin ToSet(s) /\ lib[f] \subseteq ToSet(s))
  BY <1>3 DEF Visited
<1>. QED  BY <1>2, <1>3

(***************************************************************************)
(* A pass is the visits to the files in the order of their names.          *)
(***************************************************************************)
LEMMA PassRuns ==
  ASSUME NEW lib, DOMAIN lib \in SUBSET Int, IsFiniteSet(DOMAIN lib),
         NEW placed \in Orders(lib)
  PROVE  \E v \in [0..Cardinality(DOMAIN lib) -> Orders(lib)] :
           /\ v[0] = placed
           /\ \A k \in 1..Cardinality(DOMAIN lib) :
                v[k] = Visited(lib, v[k - 1], Ascending(DOMAIN lib)[k])
           /\ OnePass(lib, placed) = v[Cardinality(DOMAIN lib)]
<1>. DEFINE n == Cardinality(DOMAIN lib)
            files == Ascending(DOMAIN lib)
            A == Orders(lib)
            step == [k \in 1..n |-> [s \in A |-> Visited(lib, s, files[k])]]
            Rec(v) == v = [k \in 0..n |-> IF k = 0 THEN placed
                                                   ELSE Visited(lib, v[k - 1], files[k])]
            v == CHOOSE v : Rec(v)
<1>1. n \in Nat /\ \A k \in 1..n : files[k] \in DOMAIN lib
  BY AscendingFacts
<1>. HIDE DEF n, files
<1>2. \A k \in 1..n : \A s \in A : Visited(lib, s, files[k]) \in A
  BY <1>1, VisitedFacts
<1>3. step \in [1..n -> [A -> A]]
  BY <1>2
<1>4. \A k \in 1..n : \A s \in A : step[k][s] = Visited(lib, s, files[k])
  OBVIOUS
<1>. HIDE DEF step, A
<1>5. PICK f \in [0..n -> A] : f[0] = placed /\ \A k \in 1..n : f[k] = step[k][f[k - 1]]
  <2>1. placed \in A
    BY DEF A
  <2>2. n \in Nat
    BY <1>1
  <2>3. \E f : Runs(f, n, A, placed, step)
    BY <1>3, <2>1, <2>2, Recursion, Zenon
  <2>. QED  BY <2>3, Zenon DEF Runs
<1>6. Rec(f)
  <2>1. ASSUME NEW k \in 0..n
        PROVE  f[k] = IF k = 0 THEN placed ELSE Visited(lib, f[k - 1], files[k])
    <3>2. CASE k = 0
      BY <1>5, <3>2
    <3>3. CASE k # 0
      <4>1. k \in 1..n /\ k - 1 \in 0..n
        BY <3>3, <1>1
      <4>2. f[k - 1] \in A
        BY <4>1
      <4>. QED  BY <1>4, <1>5, <3>3, <4>1, <4>2
    <3>. QED  BY <3>2, <3>3
  <2>2. f = [k \in 0..n |-> f[k]]
    OBVIOUS
  <2>. QED  BY <2>1, <2>2
<1>7. Rec(v)
  BY <1>6
<1>8. OnePass(lib, placed) = v[n]
  BY DEF OnePass, n, files
<1>. HIDE DEF v
<1>9. \A k \in 0..n : v[k] = IF k = 0 THEN placed ELSE Visited(lib, v[k - 1], files[k])
  BY <1>7, Zenon
<1>10. v[0] = placed /\ \A k \in 1..n : v[k] = Visited(lib, v[k - 1], files[k])
  <2>1. 0 \in 0..n /\ \A k \in 1..n : k \in 0..n /\ k # 0
    BY <1>1
  <2>. QED  BY <1>9, <2>1, Zenon
<1>11. v = [k \in 0..n |-> v[k]]
  <2>1. DOMAIN v = 0..n
    BY <1>7, Zenon
  <2>. QED  BY <1>7, <2>1, Zenon
<1>13. \A k \in 0..n : v[k] \in A
  <2>. DEFINE I == {k \in 0..n : v[k] \in A}
  <2>1. 0 \in I
    BY <1>1, <1>10 DEF A
  <2>2. ASSUME NEW k \in 1..n, k - 1 \in I PROVE k \in I
    BY <1>2, <1>10, <2>2
  <2>. HIDE DEF I
  <2>3. 0..n \subseteq I
    BY <1>1, <2>1, <2>2, IntervalInduction
  <2>. QED  BY <2>3 DEF I
<1>14. v \in [0..n -> A]
  BY <1>11, <1>13
<1>. QED  BY <1>8, <1>10, <1>14 DEF n, files, A

(***************************************************************************)
(* A pass keeps the list in order and what is on it, and puts every file   *)
(* on it that was ready when the pass began.                               *)
(***************************************************************************)
LEMMA OnePassFacts ==
  ASSUME NEW lib, DOMAIN lib \in SUBSET Int, IsFiniteSet(DOMAIN lib),
         NEW placed \in Orders(lib)
  PROVE  /\ OnePass(lib, placed) \in Orders(lib)
         /\ ToSet(placed) \subseteq ToSet(OnePass(lib, placed))
         /\ \A f \in DOMAIN lib :
              lib[f] \subseteq ToSet(placed) => f \in ToSet(OnePass(lib, placed))
<1>. DEFINE n == Cardinality(DOMAIN lib)
            files == Ascending(DOMAIN lib)
<1>1. /\ n \in Nat
      /\ \A k \in 1..n : files[k] \in DOMAIN lib
      /\ \A f \in DOMAIN lib : \E k \in 1..n : files[k] = f
  BY AscendingFacts
<1>2. PICK v \in [0..n -> Orders(lib)] :
        /\ v[0] = placed
        /\ \A k \in 1..n : v[k] = Visited(lib, v[k - 1], files[k])
        /\ OnePass(lib, placed) = v[n]
  BY PassRuns
<1>. HIDE DEF n, files
<1>. DEFINE Ready(i) == lib[files[i]] \subseteq ToSet(placed)
            I == {k \in 0..n : /\ ToSet(placed) \subseteq ToSet(v[k])
                               /\ \A i \in 1..k : Ready(i) => files[i] \in ToSet(v[k])}
<1>3. 0 \in I
  BY <1>1, <1>2
<1>4. ASSUME NEW k \in 1..n, k - 1 \in I PROVE k \in I
  <2>1. /\ k \in 0..n /\ k - 1 \in 0..n /\ files[k] \in DOMAIN lib
        /\ \A i \in 1..k : i \in 1..(k - 1) \/ i = k
    BY <1>1
  <2>2. v[k - 1] \in Orders(lib) /\ v[k] = Visited(lib, v[k - 1], files[k])
    BY <1>2, <2>1
  <2>3. /\ ToSet(v[k - 1]) \subseteq ToSet(v[k])
        /\ lib[files[k]] \subseteq ToSet(v[k - 1]) => files[k] \in ToSet(v[k])
    BY <2>1, <2>2, VisitedFacts
  <2>4. /\ ToSet(placed) \subseteq ToSet(v[k - 1])
        /\ \A i \in 1..(k - 1) : Ready(i) => files[i] \in ToSet(v[k - 1])
    BY <1>4
  <2>5. \A i \in 1..k : Ready(i) => files[i] \in ToSet(v[k])
    BY <2>1, <2>3, <2>4
  <2>. QED  BY <2>1, <2>3, <2>4, <2>5
<1>. HIDE DEF I
<1>5. 0..n \subseteq I
  BY <1>1, <1>3, <1>4, IntervalInduction
<1>6. n \in 0..n
  BY <1>1
<1>7. n \in I
  BY <1>5, <1>6
<1>8. /\ ToSet(placed) \subseteq ToSet(v[n])
      /\ \A i \in 1..n : lib[files[i]] \subseteq ToSet(placed) => files[i] \in ToSet(v[n])
  BY <1>7 DEF I
<1>9. v[n] \in Orders(lib)
  BY <1>6
<1>. QED  BY <1>1, <1>2, <1>8, <1>9

\* The sort is as many passes as the library has files, from the empty list.
LEMMA SortRuns ==
  ASSUME NEW lib, DOMAIN lib \in SUBSET Int, IsFiniteSet(DOMAIN lib)
  PROVE  \E v \in [0..Cardinality(DOMAIN lib) -> Orders(lib)] :
           /\ v[0] = <<>>
           /\ \A k \in 1..Cardinality(DOMAIN lib) : v[k] = OnePass(lib, v[k - 1])
           /\ SortedFiles(lib) = v[Cardinality(DOMAIN lib)]
<1>. DEFINE n == Cardinality(DOMAIN lib)
            A == Orders(lib)
            step == [k \in 1..n |-> [s \in A |-> OnePass(lib, s)]]
            Rec(v) == v = [k \in 0..n |-> IF k = 0 THEN <<>> ELSE OnePass(lib, v[k - 1])]
            v == CHOOSE v : Rec(v)
<1>1. n \in Nat
  BY FS_CardinalityType
<1>2. <<>> \in A
  BY DEF Orders, Complete
<1>3. \A s \in A : OnePass(lib, s) \in A
  BY OnePassFacts
<1>. HIDE DEF n, A
<1>4. step \in [1..n -> [A -> A]]
  BY <1>3
<1>5. \A k \in 1..n : \A s \in A : step[k][s] = OnePass(lib, s)
  OBVIOUS
<1>. HIDE DEF step
<1>6. PICK f : Runs(f, n, A, <<>>, step)
  BY <1>1, <1>2, <1>4, Recursion, Zenon
<1>7. /\ f \in [0..n -> A] /\ f[0] = <<>>
      /\ \A k \in 1..n : f[k] = step[k][f[k - 1]]
  BY <1>6, Zenon DEF Runs
<1>8. Rec(f)
  <2>1. ASSUME NEW k \in 0..n
        PROVE  f[k] = IF k = 0 THEN <<>> ELSE OnePass(lib, f[k - 1])
    <3>1. CASE k = 0
      BY <1>7, <3>1
    <3>2. CASE k # 0
      <4>1. k \in 1..n /\ k - 1 \in 0..n
        BY <3>2, <1>1
      <4>2. f[k - 1] \in A
        BY <1>7, <4>1
      <4>. QED  BY <1>5, <1>7, <3>2, <4>1, <4>2
    <3>. QED  BY <3>1, <3>2
  <2>2. f = [k \in 0..n |-> f[k]]
    BY <1>7
  <2>. QED  BY <2>1, <2>2
<1>9. Rec(v)
  BY <1>8
<1>10. SortedFiles(lib) = v[n]
  BY DEF SortedFiles, n
<1>. HIDE DEF v
<1>11. \A k \in 0..n : v[k] = IF k = 0 THEN <<>> ELSE OnePass(lib, v[k - 1])
  BY <1>9, Zenon
<1>12. v[0] = <<>> /\ \A k \in 1..n : v[k] = OnePass(lib, v[k - 1])
  <2>1. 0 \in 0..n /\ \A k \in 1..n : k \in 0..n /\ k # 0
    BY <1>1
  <2>. QED  BY <1>11, <2>1, Zenon
<1>13. v = [k \in 0..n |-> v[k]]
  <2>1. DOMAIN v = 0..n
    BY <1>9, Zenon
  <2>. QED  BY <1>9, <2>1, Zenon
<1>14. \A k \in 0..n : v[k] \in A
  <2>. DEFINE I == {k \in 0..n : v[k] \in A}
  <2>1. 0 \in I
    BY <1>1, <1>2, <1>12
  <2>2. ASSUME NEW k \in 1..n, k - 1 \in I PROVE k \in I
    BY <1>3, <1>12, <2>2
  <2>. HIDE DEF I
  <2>3. 0..n \subseteq I
    BY <1>1, <2>1, <2>2, IntervalInduction
  <2>. QED  BY <2>3 DEF I
<1>15. v \in [0..n -> A]
  BY <1>13, <1>14
<1>. QED  BY <1>10, <1>12, <1>15 DEF n, A

\* What the sort returns is in order, whether it has every file or not.
LEMMA SortedFacts ==
  ASSUME NEW lib, DOMAIN lib \in SUBSET Int, IsFiniteSet(DOMAIN lib)
  PROVE  SortedFiles(lib) \in Orders(lib)
<1>1. Cardinality(DOMAIN lib) \in 0..Cardinality(DOMAIN lib)
  BY FS_CardinalityType
<1>. QED  BY <1>1, SortRuns

\* Every dependency is there, and no files wait for each other in a circle.
Loadable(lib) ==
  /\ \A f \in DOMAIN lib : lib[f] \subseteq DOMAIN lib
  /\ \A S \in SUBSET DOMAIN lib : S # {} => \E f \in S : lib[f] \cap S = {}

\* While files of a loadable library are left, a pass places another one.
LEMMA PassPlaces ==
  ASSUME NEW lib, DOMAIN lib \in SUBSET Int, IsFiniteSet(DOMAIN lib), Loadable(lib),
         NEW s \in Orders(lib), ToSet(s) # DOMAIN lib
  PROVE  Len(s) < Len(OnePass(lib, s))
<1>. DEFINE t == OnePass(lib, s)
<1>1. /\ t \in Orders(lib) /\ ToSet(s) \subseteq ToSet(t)
      /\ \A f \in DOMAIN lib : lib[f] \subseteq ToSet(s) => f \in ToSet(t)
  BY OnePassFacts
<1>. HIDE DEF t
<1>2. /\ ToSet(s) \in SUBSET DOMAIN lib /\ ToSet(t) \in SUBSET DOMAIN lib
      /\ Len(s) \in Nat /\ Len(t) \in Nat
      /\ Cardinality(ToSet(s)) = Len(s) /\ Cardinality(ToSet(t)) = Len(t)
  BY <1>1, OrderSize
<1>3. PICK f \in DOMAIN lib \ ToSet(s) : lib[f] \cap (DOMAIN lib \ ToSet(s)) = {}
  BY <1>2 DEF Loadable
<1>4. lib[f] \subseteq ToSet(s)
  BY <1>3 DEF Loadable
<1>5. f \in ToSet(t) /\ ToSet(s) # ToSet(t)
  BY <1>1, <1>3, <1>4
<1>6. IsFiniteSet(ToSet(t))
  BY <1>2, FS_Subset
<1>7. Cardinality(ToSet(s)) <= Cardinality(ToSet(t)) /\ Cardinality(ToSet(s)) # Cardinality(ToSet(t))
  BY <1>1, <1>5, <1>6, FS_Subset
<1>. QED  BY <1>2, <1>7 DEF t

\* A sort that has every file shows that the library is loadable.
LEMMA OrderedLoadable ==
  ASSUME NEW lib, NEW s \in Orders(lib), ToSet(s) = DOMAIN lib
  PROVE  Loadable(lib)
<1>1. s \in Seq(DOMAIN lib) /\ Complete(s, lib) /\ Len(s) \in Nat
  BY DEF Orders
<1>2. DOMAIN lib = {s[i] : i \in 1..Len(s)}
  BY <1>1, ElementsOf
<1>3. \A i \in 1..Len(s) : \A j \in 1..(i - 1) : j \in 1..Len(s)
  BY <1>1
<1>4. ASSUME NEW f \in DOMAIN lib PROVE lib[f] \subseteq DOMAIN lib
  <2>1. PICK i \in 1..Len(s) : f = s[i]
    BY <1>2
  <2>2. lib[f] \subseteq {s[j] : j \in 1..(i - 1)}
    BY <1>1, <2>1 DEF Complete
  <2>. QED  BY <1>2, <1>3, <2>2
<1>5. ASSUME NEW S \in SUBSET DOMAIN lib, \A f \in S : lib[f] \cap S # {}
      PROVE  S = {}
  <2>. DEFINE I == {k \in 0..Len(s) : \A i \in 1..k : s[i] \notin S}
  <2>1. 0 \in I
    BY <1>1
  <2>2. ASSUME NEW k \in 1..Len(s), k - 1 \in I PROVE k \in I
    <3>1. k \in 0..Len(s) /\ \A i \in 1..k : i \in 1..(k - 1) \/ i = k
      BY <1>1
    <3>2. \A i \in 1..(k - 1) : s[i] \notin S
      BY <2>2
    <3>3. lib[s[k]] \subseteq {s[j] : j \in 1..(k - 1)}
      BY <1>1 DEF Complete
    <3>4. s[k] \notin S
      BY <1>5, <3>2, <3>3
    <3>. QED  BY <3>1, <3>2, <3>4
  <2>. HIDE DEF I
  <2>3. 0..Len(s) \subseteq I
    BY <1>1, <2>1, <2>2, IntervalInduction
  <2>4. Len(s) \in 0..Len(s)
    BY <1>1
  <2>5. \A i \in 1..Len(s) : s[i] \notin S
    BY <2>3, <2>4 DEF I
  <2>. QED  BY <1>2, <2>5
<1>. QED  BY <1>4, <1>5 DEF Loadable

(***************************************************************************)
(* write_kernel_dependency_index and the loaders sort a library if and     *)
(* only if its dependencies are all there and none wait for each other:    *)
(* as many passes as there are files are enough for every library.         *)
(***************************************************************************)
THEOREM SortSucceeds ==
  ASSUME NEW lib, DOMAIN lib \in SUBSET Int, IsFiniteSet(DOMAIN lib)
  PROVE  Indexable(lib) <=> DOMAIN lib # {} /\ Loadable(lib)
<1>. DEFINE n == Cardinality(DOMAIN lib)
<1>1. SortedFiles(lib) \in Orders(lib)
  BY SortedFacts
<1>2. ASSUME Indexable(lib) PROVE Loadable(lib)
  <2>1. ToSet(SortedFiles(lib)) = DOMAIN lib
    BY <1>1, <1>2, OrderLength DEF Indexable
  <2>. QED  BY <1>1, <2>1, OrderedLoadable
<1>3. ASSUME Loadable(lib) PROVE Len(SortedFiles(lib)) = n
  <2>1. n \in Nat
    BY FS_CardinalityType
  <2>2. PICK v \in [0..n -> Orders(lib)] :
          /\ v[0] = <<>>
          /\ \A k \in 1..n : v[k] = OnePass(lib, v[k - 1])
          /\ SortedFiles(lib) = v[n]
    BY SortRuns
  <2>3. \A k \in 0..n : Len(v[k]) \in Nat /\ (Len(v[k]) = n <=> ToSet(v[k]) = DOMAIN lib)
    BY OrderLength, OrderSize
  <2>4. \A k \in 0..n : Len(v[k]) <= n
    BY OrderSize
  <2>. HIDE DEF n
  <2>. DEFINE I == {k \in 0..n : k <= Len(v[k])}
  <2>5. 0 \in I
    BY <2>1, <2>3
  <2>6. ASSUME NEW k \in 1..n, k - 1 \in I PROVE k \in I
    <3>1. k \in 0..n /\ k - 1 \in 0..n /\ v[k] = OnePass(lib, v[k - 1])
      BY <2>1, <2>2
    <3>2. CASE ToSet(v[k - 1]) # DOMAIN lib
      <4>1. Len(v[k - 1]) < Len(v[k])
        BY <1>3, <3>1, <3>2, PassPlaces
      <4>. QED  BY <2>1, <2>3, <2>6, <3>1, <4>1
    <3>3. CASE ToSet(v[k - 1]) = DOMAIN lib
      <4>1. v[k - 1] \in Orders(lib) /\ v[k] \in Orders(lib)
        BY <3>1
      <4>2. ToSet(v[k - 1]) \subseteq ToSet(v[k]) /\ ToSet(v[k]) \subseteq DOMAIN lib
        BY <3>1, <4>1, OnePassFacts, OrderSize
      <4>3. Len(v[k]) = n
        BY <2>3, <3>1, <3>3, <4>2
      <4>. QED  BY <2>1, <3>1, <4>3
    <3>. QED  BY <3>2, <3>3
  <2>. HIDE DEF I
  <2>7. 0..n \subseteq I
    BY <2>1, <2>5, <2>6, IntervalInduction
  <2>8. n \in 0..n /\ n \in I
    BY <2>1, <2>7
  <2>9. n <= Len(v[n]) /\ Len(v[n]) <= n /\ Len(v[n]) \in Nat
    BY <2>3, <2>4, <2>8 DEF I
  <2>. QED  BY <2>1, <2>2, <2>9
<1>. QED  BY <1>2, <1>3 DEF Indexable

\* Every file of a library that can be indexed is in its sorted list, behind
\* everything it depends on.
LEMMA IndexableFacts ==
  ASSUME NEW lib, DOMAIN lib \in SUBSET Int, IsFiniteSet(DOMAIN lib), Indexable(lib)
  PROVE  /\ SortedFiles(lib) \in Orders(lib)
         /\ ToSet(SortedFiles(lib)) = DOMAIN lib
         /\ \A f \in DOMAIN lib : lib[f] \subseteq DOMAIN lib
<1>. DEFINE s == SortedFiles(lib)
<1>1. s \in Orders(lib) /\ Len(s) = Cardinality(DOMAIN lib)
  BY SortedFacts DEF Indexable
<1>. HIDE DEF s
<1>2. ToSet(s) = DOMAIN lib /\ s \in Seq(DOMAIN lib) /\ Complete(s, lib)
  BY <1>1, OrderLength DEF Orders
<1>3. DOMAIN lib = {s[i] : i \in 1..Len(s)} /\ Len(s) \in Nat
  BY <1>2, ElementsOf
<1>4. ASSUME NEW f \in DOMAIN lib PROVE lib[f] \subseteq DOMAIN lib
  <2>1. PICK i \in 1..Len(s) : f = s[i]
    BY <1>3
  <2>2. lib[f] \subseteq {s[j] : j \in 1..(i - 1)}
    BY <1>2, <2>1 DEF Complete
  <2>3. \A j \in 1..(i - 1) : j \in 1..Len(s)
    BY <1>3
  <2>. QED  BY <1>3, <2>2, <2>3
<1>. QED  BY <1>1, <1>2, <1>4 DEF s

(***************************************************************************)
(* What a file needs: files of the library, with what they need, and no    *)
(* more than any set closed in that way.                                   *)
(***************************************************************************)
LEMMA TransitiveFacts ==
  ASSUME NEW lib, NEW f
  PROVE  /\ TransitiveDepends(lib, f) \subseteq DOMAIN lib
         /\ \A d \in TransitiveDepends(lib, f) \cup {f} :
              lib[d] \cap DOMAIN lib \subseteq TransitiveDepends(lib, f)
         /\ \A S \in SUBSET DOMAIN lib :
              (\A d \in S \cup {f} : lib[d] \cap DOMAIN lib \subseteq S)
                => TransitiveDepends(lib, f) \subseteq S
         /\ \A d \in TransitiveDepends(lib, f) :
              TransitiveDepends(lib, d) \subseteq TransitiveDepends(lib, f)
<1>1. TransitiveDepends(lib, f) \subseteq DOMAIN lib
  BY Zenon DEF TransitiveDepends
<1>2. \A S \in SUBSET DOMAIN lib :
        (\A d \in S \cup {f} : lib[d] \cap DOMAIN lib \subseteq S)
          => TransitiveDepends(lib, f) \subseteq S
  BY Zenon DEF TransitiveDepends
<1>3. ASSUME NEW d \in TransitiveDepends(lib, f) \cup {f}, NEW e \in lib[d] \cap DOMAIN lib
      PROVE  e \in TransitiveDepends(lib, f)
  <2>1. SUFFICES ASSUME NEW S \in SUBSET DOMAIN lib,
                        \A g \in S \cup {f} : lib[g] \cap DOMAIN lib \subseteq S
                 PROVE  e \in S
    BY <1>3 DEF TransitiveDepends
  <2>2. d \in S \cup {f}
    BY <1>2, <1>3, <2>1
  <2>. QED  BY <1>3, <2>1, <2>2
<1>4. ASSUME NEW d \in TransitiveDepends(lib, f)
      PROVE  TransitiveDepends(lib, d) \subseteq TransitiveDepends(lib, f)
  <2>. DEFINE S == TransitiveDepends(lib, f)
  <2>1. S \in SUBSET DOMAIN lib /\ \A e \in S \cup {d} : lib[e] \cap DOMAIN lib \subseteq S
    BY <1>1, <1>3
  <2>. HIDE DEF S
  <2>2. TransitiveDepends(lib, d) \subseteq S
    BY <2>1, Zenon DEF TransitiveDepends
  <2>. QED  BY <2>2 DEF S
<1>. QED  BY <1>1, <1>2, <1>3, <1>4

\* In a sorted list a file stands behind everything it needs.
LEMMA NeedsPrecedeInOrder ==
  ASSUME NEW lib, NEW s \in Orders(lib), NEW i \in 1..Len(s)
  PROVE  TransitiveDepends(lib, s[i]) \subseteq {s[j] : j \in 1..(i - 1)}
<1>1. s \in Seq(DOMAIN lib) /\ Complete(s, lib) /\ Len(s) \in Nat
  BY DEF Orders
<1>. DEFINE S == {s[j] : j \in 1..(i - 1)}
<1>2. S \in SUBSET DOMAIN lib
  BY <1>1
<1>3. ASSUME NEW d \in S \cup {s[i]} PROVE lib[d] \subseteq S
  <2>1. PICK k \in 1..i : d = s[k]
    BY <1>1
  <2>2. lib[d] \subseteq {s[j] : j \in 1..(k - 1)}
    BY <1>1, <2>1 DEF Complete
  <2>3. \A j \in 1..(k - 1) : j \in 1..(i - 1)
    OBVIOUS
  <2>. QED  BY <2>2, <2>3
<1>. HIDE DEF S
<1>4. TransitiveDepends(lib, s[i]) \subseteq S
  BY <1>2, <1>3, TransitiveFacts
<1>. QED  BY <1>4 DEF S

\* What is kept of a list depends on the members only.
LEMMA KeptMembers ==
  ASSUME NEW D, NEW s \in Seq(D), NEW S
  PROVE  /\ ToSet(Kept(s, S)) = ToSet(s) \cap S
         /\ S = {} => Kept(s, S) = <<>>
<1>1. Kept(s, S) \in Seq(D)
  BY KeptFacts, Zenon
<1>2. ToSet(Kept(s, S)) = ToSet(s) \cap S
  BY KeptFacts, Zenon
<1>3. ASSUME S = {} PROVE Kept(s, S) = <<>>
  <2>. DEFINE t == Kept(s, S)
  <2>1. t \in Seq(D) /\ ToSet(t) = {}
    BY <1>1, <1>2, <1>3
  <2>. HIDE DEF t
  <2>2. ToSet(t) = {t[i] : i \in 1..Len(t)} /\ Len(t) \in Nat
    BY <2>1, ElementsOf
  <2>3. ASSUME Len(t) # 0 PROVE FALSE
    <3>1. 1 \in 1..Len(t)
      BY <2>2, <2>3
    <3>2. t[1] \in ToSet(t)
      BY <2>2, <3>1
    <3>. QED  BY <2>1, <3>2
  <2>4. t = <<>>
    BY <2>1, <2>3
  <2>. QED  BY <2>4 DEF t
<1>. QED  BY <1>2, <1>3

\* What is kept of a sorted list is in order if every file kept has what it
\* depends on kept with it.
LEMMA KeptComplete ==
  ASSUME NEW lib, NEW s \in Orders(lib), NEW S,
         \A f \in S \cap DOMAIN lib : lib[f] \subseteq S
  PROVE  /\ Kept(s, S) \in Orders(lib)
         /\ ToSet(Kept(s, S)) = ToSet(s) \cap S
<1>. DEFINE t == Kept(s, S)
<1>1. s \in Seq(DOMAIN lib) /\ Complete(s, lib) /\ Len(s) \in Nat
  BY DEF Orders
<1>2. /\ t \in Seq(DOMAIN lib)
      /\ ToSet(t) = ToSet(s) \cap S
      /\ \E p : PlacesKept(p, s, S)
  BY <1>1, KeptFacts
<1>3. PICK p \in [1..Len(t) -> 1..Len(s)] :
        /\ \A k \in 1..Len(t) : t[k] = s[p[k]]
        /\ \A k, l \in 1..Len(t) : k < l => p[k] < p[l]
        /\ \A i \in 1..Len(s) : s[i] \in S => \E k \in 1..Len(t) : p[k] = i
  BY <1>2 DEF PlacesKept
<1>. HIDE DEF t
<1>4. ToSet(t) = {t[k] : k \in 1..Len(t)} /\ Len(t) \in Nat
  BY <1>2, ElementsOf
<1>5. ASSUME NEW k \in 1..Len(t), NEW l \in 1..Len(t), t[k] = t[l] PROVE k = l
  <2>1. p[k] = p[l] /\ p[k] \in Int
    BY <1>1, <1>3, <1>5 DEF Complete
  <2>2. ~ (k < l) /\ ~ (l < k)
    BY <1>3, <2>1
  <2>. QED  BY <1>4, <2>2
<1>6. ASSUME NEW k \in 1..Len(t), NEW d \in lib[t[k]]
      PROVE  d \in {t[l] : l \in 1..(k - 1)}
  <2>1. t[k] = s[p[k]] /\ t[k] \in S \cap DOMAIN lib /\ p[k] \in 1..Len(s)
    BY <1>2, <1>3, <1>4
  <2>2. d \in S /\ lib[s[p[k]]] \subseteq {s[j] : j \in 1..(p[k] - 1)}
    BY <1>1, <1>6, <2>1 DEF Complete
  <2>3. PICK j \in 1..(p[k] - 1) : d = s[j]
    BY <1>6, <2>1, <2>2
  <2>4. j \in 1..Len(s)
    BY <1>1, <2>1
  <2>5. PICK l \in 1..Len(t) : p[l] = j
    BY <1>3, <2>2, <2>3, <2>4
  <2>6. p[l] < p[k]
    BY <2>1, <2>5
  <2>7. p[k] \in Int /\ p[l] \in Int
    BY <1>1, <2>1, <2>5
  <2>8. k # l /\ ~ (k < l)
    <3>1. k < l => p[k] < p[l]
      BY <1>3
    <3>. QED  BY <2>6, <2>7, <3>1
  <2>9. l \in 1..(k - 1)
    BY <1>4, <2>8
  <2>. QED  BY <1>3, <2>3, <2>5, <2>9
<1>7. \A k \in 1..Len(t) : t[k] \in DOMAIN lib
  BY <1>2
<1>8. Complete(t, lib)
  BY <1>5, <1>6, <1>7 DEF Complete
<1>. QED  BY <1>2, <1>4, <1>8 DEF Orders, t

(***************************************************************************)
(* What the index of a library makes of a list of stems: files of the      *)
(* library, those of the list among them, with everything they depend on.  *)
(***************************************************************************)
LEMMA ExpansionFacts ==
  ASSUME NEW lib, DOMAIN lib \in SUBSET Int, IsFiniteSet(DOMAIN lib), Indexable(lib),
         NEW S
  PROVE  /\ Known(IndexOf(lib)) = DOMAIN lib
         /\ Expansion(S, IndexOf(lib)) \in SUBSET DOMAIN lib
         /\ S \cap DOMAIN lib \subseteq Expansion(S, IndexOf(lib))
         /\ \A f \in Expansion(S, IndexOf(lib)) : lib[f] \subseteq Expansion(S, IndexOf(lib))
<1>. DEFINE idx == IndexOf(lib)
            known == S \cap DOMAIN lib
            needed == known \cup UNION {TransitiveDepends(lib, f) : f \in known}
<1>1. /\ ToSet(SortedFiles(lib)) = DOMAIN lib
      /\ \A f \in DOMAIN lib : lib[f] \subseteq DOMAIN lib
  BY IndexableFacts
<1>2. idx.order = SortedFiles(lib) /\ idx.all = [f \in DOMAIN lib |-> TransitiveDepends(lib, f)]
  BY DEF IndexOf
<1>. HIDE DEF idx
<1>3. Known(idx) = DOMAIN lib
  BY <1>1, <1>2 DEF Known
<1>4. Expansion(S, idx) = needed
  <2>1. \A f \in known : idx.all[f] = TransitiveDepends(lib, f)
    BY <1>2
  <2>2. UNION {idx.all[f] : f \in known} = UNION {TransitiveDepends(lib, f) : f \in known}
    BY <2>1
  <2>. QED  BY <1>3, <2>2 DEF Expansion
<1>5. needed \in SUBSET DOMAIN lib
  <2>1. \A f \in known : TransitiveDepends(lib, f) \subseteq DOMAIN lib
    BY TransitiveFacts
  <2>. QED  BY <2>1
<1>6. \A f \in needed : lib[f] \subseteq needed
  <2>1. SUFFICES ASSUME NEW f \in needed, NEW d \in lib[f] PROVE d \in needed
    OBVIOUS
  <2>2. d \in DOMAIN lib
    BY <1>1, <1>5, <2>1
  <2>3. PICK g \in known : f \in TransitiveDepends(lib, g) \cup {g}
    BY <2>1
  <2>4. d \in TransitiveDepends(lib, g)
    BY <2>1, <2>2, <2>3, TransitiveFacts
  <2>. QED  BY <2>3, <2>4
<1>. QED  BY <1>3, <1>4, <1>5, <1>6 DEF idx

\* Such a list, in the order of the index, is a text with all of it.
LEMMA ExpansionLoads ==
  ASSUME NEW lib, DOMAIN lib \in SUBSET Int, IsFiniteSet(DOMAIN lib), Indexable(lib),
         NEW S, \A f \in S \cap DOMAIN lib : lib[f] \subseteq S
  PROVE  /\ InIndexOrder(IndexOf(lib), S) \in Orders(lib)
         /\ ToSet(InIndexOrder(IndexOf(lib), S)) = S \cap DOMAIN lib
<1>1. SortedFiles(lib) \in Orders(lib) /\ ToSet(SortedFiles(lib)) = DOMAIN lib
  BY IndexableFacts
<1>2. InIndexOrder(IndexOf(lib), S) = Kept(SortedFiles(lib), S)
  BY DEF InIndexOrder, IndexOf
<1>. QED  BY <1>1, <1>2, KeptComplete
=============================================================================
