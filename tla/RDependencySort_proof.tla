------------------------ MODULE RDependencySort_proof ------------------------
(***************************************************************************)
(* Proofs about dependency_sort_prefix and its cycle report, for every     *)
(* library, and about the tools built on them: the staged copies of a      *)
(* library, and the tags attach_kernel_dependency_tags writes.             *)
(***************************************************************************)
EXTENDS AttachDependencyTags, StageKernelSort, SequenceFacts

(***************************************************************************)
(* What is in `sorted` stands there once, after its dependencies, and is   *)
(* in every closed set of files.                                           *)
(***************************************************************************)
Ordered ==
  /\ \A i, j \in 1..Len(sorted) : sorted[i] = sorted[j] => i = j
  /\ \A i \in 1..Len(sorted) :
       records[sorted[i]] \subseteq {sorted[j] : j \in 1..(i - 1)}
  /\ \A S \in SUBSET Files : LO!Closed(S) => Sorted \subseteq S

(***************************************************************************)
(* During a pass what it promoted is in `sorted` and still in `remaining`, *)
(* which is why the break must be followed by one more removal; a pass     *)
(* that has promoted nothing so far has found all it visited not ready.    *)
(***************************************************************************)
Pass ==
  sortpc = "pass" =>
    /\ Files = Sorted \cup remaining
    /\ Sorted \cap remaining = promoted
    /\ todo \subseteq remaining \ promoted
    /\ remaining # {}
    /\ promoted = {} =>
         \A f \in remaining \ todo : ~ (records[f] \subseteq Sorted)

Done ==
  sortpc = "done" =>
    /\ remaining = Files \ Sorted
    /\ \A f \in remaining : ~ (records[f] \subseteq Sorted)

IInv == SortTypeOK /\ Ordered /\ Pass /\ Done

-----------------------------------------------------------------------------

(***************************************************************************)
(* Appending a file whose dependencies are in `sorted` keeps it ordered.   *)
(***************************************************************************)
LEMMA Placing ==
  ASSUME SortTypeOK, Ordered,
         NEW f \in Files \ Sorted, records[f] \subseteq Sorted,
         records' = records, sorted' = Append(sorted, f)
  PROVE  /\ Ordered'
         /\ sorted' \in Seq(Files)
         /\ Sorted' = Sorted \cup {f}
<1>1. sorted \in Seq(Files) /\ Len(sorted) \in Nat
  BY DEF SortTypeOK
<1>2. /\ sorted' \in Seq(Files)
      /\ Len(sorted') = Len(sorted) + 1
      /\ \A i \in 1..Len(sorted) : sorted'[i] = sorted[i]
      /\ sorted'[Len(sorted) + 1] = f
      /\ Sorted' = Sorted \cup {f}
  BY <1>1, AppendFacts DEF Sorted
<1>3. ASSUME NEW i \in 1..Len(sorted'), NEW j \in 1..Len(sorted'),
             sorted'[i] = sorted'[j]
      PROVE  i = j
  <2>1. i \in 1..Len(sorted) \/ i = Len(sorted) + 1
    BY <1>1, <1>2
  <2>2. j \in 1..Len(sorted) \/ j = Len(sorted) + 1
    BY <1>1, <1>2
  <2>3. \A k \in 1..Len(sorted) : sorted[k] \in Sorted
    BY DEF Sorted
  <2>. QED  BY <1>2, <1>3, <2>1, <2>2, <2>3 DEF Ordered
<1>4. ASSUME NEW i \in 1..Len(sorted')
      PROVE  records[sorted'[i]] \subseteq {sorted'[j] : j \in 1..(i - 1)}
  <2>1. CASE i \in 1..Len(sorted)
    <3>1. \A j \in 1..(i - 1) : sorted'[j] = sorted[j]
      BY <1>1, <1>2, <2>1
    <3>2. {sorted'[j] : j \in 1..(i - 1)} = {sorted[j] : j \in 1..(i - 1)}
      BY <3>1
    <3>3. records[sorted[i]] \subseteq {sorted[j] : j \in 1..(i - 1)}
      BY <2>1 DEF Ordered
    <3>4. sorted'[i] = sorted[i]
      BY <1>2, <2>1
    <3>. QED  BY <3>2, <3>3, <3>4
  <2>2. CASE i = Len(sorted) + 1
    <3>1. i - 1 = Len(sorted)
      BY <1>1, <2>2
    <3>2. {sorted'[j] : j \in 1..(i - 1)} = Sorted
      BY <1>2, <3>1 DEF Sorted
    <3>. QED  BY <1>2, <2>2, <3>2
  <2>3. i \in 1..Len(sorted) \/ i = Len(sorted) + 1
    BY <1>1, <1>2
  <2>. QED  BY <2>1, <2>2, <2>3
<1>5. ASSUME NEW S \in SUBSET Files, LO!Closed(S)
      PROVE  Sorted \cup {f} \subseteq S
  <2>1. Sorted \subseteq S
    BY <1>5 DEF Ordered
  <2>2. f \in S
    BY <1>5, <2>1 DEF LO!Closed, LO!Files, Files
  <2>. QED  BY <2>1, <2>2
<1>6. Ordered'
  BY <1>2, <1>3, <1>4, <1>5 DEF Ordered, LO!Closed, LO!Files, Files
<1>. QED  BY <1>2, <1>6

\* The steps that leave the load order alone.
LEMMA Untouched ==
  ASSUME SortTypeOK, Ordered, UNCHANGED <<records, sorted>>
  PROVE  Ordered' /\ Sorted' = Sorted /\ Files' = Files
BY DEF Sorted, Ordered, Files, LO!Closed, LO!Files

\* The sort begins with every record remaining.
LEMMA InitIInv == SortInit => IInv
<1>. SUFFICES ASSUME SortInit PROVE IInv
  OBVIOUS
<1>1. PICK lib \in Library(Header) :
        DOMAIN lib # {} /\ BeginSort(Records(lib))
  BY DEF SortInit
<1>2. /\ records = Records(lib) /\ sorted = <<>> /\ sortpc = "pass"
      /\ remaining = Files /\ todo = Files /\ promoted = {}
  BY <1>1 DEF BeginSort, Files
<1>3. Files = DOMAIN lib /\ Files # {}
  BY <1>1, <1>2 DEF Records, Files
<1>4. \A f \in DOMAIN lib : lib[f] \in Header
  BY DEF Library
<1>5. Files \subseteq Stem
  BY <1>3 DEF Library
<1>6. \A f \in Files : RDepends(lib[f]) \subseteq Stem
  BY <1>3, <1>4 DEF RDepends, Header
<1>7. records \in [Files -> SUBSET Stem]
  BY <1>2, <1>3, <1>6 DEF Records
<1>8. Sorted = {}
  BY <1>2 DEF Sorted
<1>. QED
  BY <1>2, <1>3, <1>5, <1>7, <1>8 DEF IInv, SortTypeOK, Ordered, Pass, Done

\* Every step of dependency_sort_prefix preserves the invariant.
LEMMA NextIInv == IInv /\ [SortNext]_sortVars => IInv'
<1>. SUFFICES ASSUME IInv, [SortNext]_sortVars PROVE IInv'
  OBVIOUS
<1>0. SortTypeOK /\ Ordered /\ Pass /\ Done
  BY DEF IInv
<1>1. ASSUME NEW f \in Files, PromoteRecord(f) PROVE IInv'
  <2>1. /\ f \in Files \ Sorted /\ records[f] \subseteq Sorted
        /\ records' = records /\ sorted' = Append(sorted, f)
        /\ sortpc = "pass" /\ sortpc' = sortpc /\ todo' = todo \ {f}
        /\ promoted' = promoted \cup {f} /\ remaining' = remaining
        /\ f \in remaining
    BY <1>0, <1>1 DEF PromoteRecord, First, Pass
  <2>2. Ordered' /\ Sorted' = Sorted \cup {f} /\ sorted' \in Seq(Files)
    BY <1>0, <2>1, Placing
  <2>3. Files' = Files
    BY <2>1 DEF Files
  <2>4. SortTypeOK'
    BY <1>0, <2>1, <2>2, <2>3 DEF SortTypeOK
  <2>5. Pass' /\ Done'
    BY <1>0, <2>1, <2>2, <2>3 DEF Pass, Done
  <2>. QED  BY <2>2, <2>4, <2>5 DEF IInv
<1>2. ASSUME NEW f \in Files, PassOver(f) PROVE IInv'
  <2>1. Ordered' /\ Sorted' = Sorted /\ Files' = Files
    BY <1>0, <1>2, Untouched DEF PassOver
  <2>2. SortTypeOK'
    BY <1>0, <1>2, <2>1 DEF PassOver, SortTypeOK
  <2>3. Pass' /\ Done'
    BY <1>0, <1>2, <2>1 DEF PassOver, First, Pass, Done
  <2>. QED  BY <2>1, <2>2, <2>3 DEF IInv
<1>3. CASE NextPass
  <2>1. Ordered' /\ Sorted' = Sorted /\ Files' = Files
    BY <1>0, <1>3, Untouched DEF NextPass
  <2>2. SortTypeOK'
    BY <1>0, <1>3, <2>1 DEF NextPass, SortTypeOK
  <2>3. Pass' /\ Done'
    BY <1>0, <1>3, <2>1 DEF NextPass, Pass, Done
  <2>. QED  BY <2>1, <2>2, <2>3 DEF IInv
<1>4. CASE FinishSort
  <2>1. Ordered' /\ Sorted' = Sorted /\ Files' = Files
    BY <1>0, <1>4, Untouched DEF FinishSort
  <2>2. SortTypeOK'
    BY <1>0, <1>4, <2>1 DEF FinishSort, SortTypeOK
  <2>3. Pass' /\ Done'
    BY <1>0, <1>4, <2>1 DEF FinishSort, Pass, Done
  <2>. QED  BY <2>1, <2>2, <2>3 DEF IInv
<1>5. CASE UNCHANGED sortVars
  <2>1. Ordered' /\ Sorted' = Sorted /\ Files' = Files
    BY <1>0, <1>5, Untouched DEF sortVars
  <2>. QED
    BY <1>0, <1>5, <2>1 DEF sortVars, IInv, SortTypeOK, Pass, Done
<1>. QED  BY <1>1, <1>2, <1>3, <1>4, <1>5 DEF SortNext

\* The repeat loop of dependency_sort_prefix keeps IInv, for every library.
THEOREM Invariance == SortSpec => []IInv
BY InitIInv, NextIInv, PTL DEF SortSpec

(***************************************************************************)
(* Every variable of the sort keeps its type.                              *)
(***************************************************************************)
THEOREM TypeCorrect == SortSpec => []SortTypeOK
<1>1. IInv => SortTypeOK
  BY DEF IInv
<1>. QED  BY Invariance, <1>1, PTL

\* Where the sort ends, nothing that could be placed is left.
LEMMA SortEnds == IInv => EndsAtSortable
<1>. SUFFICES ASSUME IInv PROVE LO!EndsAtSortable
  BY DEF EndsAtSortable
<1>0. SortTypeOK /\ Ordered /\ Done
  BY DEF IInv
<1>1. LO!Placed = Sorted /\ LO!Files = Files
  BY DEF LO!Placed, LO!Files, Sorted, Files
<1>2. Sorted \subseteq Files
  BY <1>0 DEF SortTypeOK, Sorted
<1>3. Sorted \subseteq LO!Sortable
  BY <1>0, <1>1, <1>2 DEF LO!Sortable, Ordered
<1>4. /\ outcome = "sorted" => Sorted = Files
      /\ outcome = "stuck" => Sorted # Files
      /\ outcome \in {"sorted", "stuck"} =>
           \A f \in Files \ Sorted : ~ (records[f] \subseteq Sorted)
  BY <1>0, <1>2 DEF outcome, Done, SortTypeOK
<1>5. ASSUME outcome \in {"sorted", "stuck"} PROVE LO!Sortable \subseteq Sorted
  <2>1. LO!Closed(Sorted)
    BY <1>1, <1>2, <1>4, <1>5 DEF LO!Closed
  <2>. QED  BY <1>1, <1>2, <2>1 DEF LO!Sortable
<1>. QED  BY <1>1, <1>3, <1>4, <1>5 DEF LO!EndsAtSortable

(***************************************************************************)
(* The sort leaves unresolved exactly what no order could place, although  *)
(* it stops at the first pass without a promotion.                         *)
(***************************************************************************)
THEOREM OutcomeIsTheLibrarys == SortSpec => []EndsAtSortable
BY Invariance, SortEnds, PTL

-----------------------------------------------------------------------------

\* The records read are the abstract sort with nothing placed.
LEMMA InitRefines == SortInit => LO!Init
<1>. SUFFICES ASSUME SortInit PROVE LO!Init
  OBVIOUS
<1>1. Files \in SUBSET Stem /\ records \in [Files -> SUBSET Name]
  BY InitIInv DEF IInv, SortTypeOK, Name
<1>2. sorted = <<>> /\ outcome = "sorting"
  BY DEF SortInit, BeginSort, outcome
<1>. QED  BY <1>1, <1>2 DEF LO!Init

\* Every step of the R sort is a step of the abstract sort, or a stutter.
LEMMA NextRefines == IInv /\ [SortNext]_sortVars => [LO!Next]_(LO!vars)
<1>. SUFFICES ASSUME IInv, [SortNext]_sortVars PROVE [LO!Next]_(LO!vars)
  OBVIOUS
<1>0. SortTypeOK /\ Ordered /\ Pass /\ Done
  BY DEF IInv
<1>1. LO!Placed = Sorted /\ LO!Files = Files
  BY DEF LO!Placed, LO!Files, Sorted, Files
<1>2. ASSUME NEW f \in Files, PromoteRecord(f) PROVE LO!Next
  <2>1. f \in Files \ Sorted /\ records[f] \subseteq Sorted
    BY <1>0, <1>2 DEF PromoteRecord, First, Pass
  <2>2. outcome = "sorting" /\ outcome' = outcome
    BY <1>2 DEF PromoteRecord, outcome
  <2>3. LO!Place(f)
    BY <1>1, <1>2, <2>1, <2>2 DEF PromoteRecord, LO!Place, LO!Ready
  <2>. QED  BY <1>1, <2>3 DEF LO!Next
<1>3. ASSUME NEW f \in Files, PassOver(f) PROVE UNCHANGED LO!vars
  BY <1>3 DEF PassOver, outcome, LO!vars
<1>4. CASE NextPass
  BY <1>4 DEF NextPass, outcome, LO!vars
<1>5. CASE FinishSort
  <2>1. /\ records' = records /\ sorted' = sorted
        /\ outcome = "sorting"
        /\ sortpc' = "done" /\ remaining' = Files \ Sorted
        /\ \A f \in Files \ Sorted : ~ (records[f] \subseteq Sorted)
    BY <1>0, <1>5 DEF FinishSort, Pass, outcome
  <2>2. Sorted \subseteq Files
    BY <1>0 DEF SortTypeOK, Sorted
  <2>3. CASE Sorted = Files
    <3>1. outcome' = "sorted"
      BY <2>1, <2>3 DEF outcome
    <3>. QED  BY <1>1, <2>1, <2>3, <3>1 DEF LO!Next, LO!Succeed
  <2>4. CASE Sorted # Files
    <3>1. outcome' = "stuck"
      BY <2>1, <2>2, <2>4 DEF outcome
    <3>. QED
      BY <1>1, <2>1, <2>4, <3>1 DEF LO!Next, LO!GetStuck, LO!Ready
  <2>. QED  BY <2>3, <2>4
<1>6. CASE UNCHANGED sortVars
  BY <1>6 DEF sortVars, outcome, LO!vars
<1>. QED  BY <1>2, <1>3, <1>4, <1>5, <1>6 DEF SortNext

(***************************************************************************)
(* The R sort implements the abstract sort, as the C++ loader does: on one *)
(* reading of the tags the two never disagree.                             *)
(***************************************************************************)
THEOREM Refinement == SortSpec => ImplementsLoadOrder
BY Invariance, InitRefines, NextRefines, PTL
DEF SortSpec, ImplementsLoadOrder, LO!Spec

-----------------------------------------------------------------------------
(***************************************************************************)
(* The cycle report.                                                       *)
(***************************************************************************)

\* Consecutive files of a cycle, the last and the first included.
Cycle(c, n) == \A i \in 1..n : c[(i % n) + 1] \in records[c[i]]

(***************************************************************************)
(* No file of a cycle is ever sorted: the other files are a closed set.    *)
(***************************************************************************)
LEMMA CyclesStay ==
  ASSUME IInv, sortpc = "done", NEW n \in Nat \ {0}, NEW c \in [1..n -> Files],
         Cycle(c, n)
  PROVE  \A i \in 1..n : c[i] \in remaining
<1>. DEFINE S == {c[i] : i \in 1..n}
<1>1. \A i \in 1..n : (i % n) + 1 \in 1..n
  OBVIOUS
<1>2. \A f \in S : \E g \in S : g \in records[f]
  BY <1>1 DEF Cycle
<1>3. LO!Closed(Files \ S)
  BY <1>2 DEF LO!Closed, LO!Files, Files
<1>4. Sorted \subseteq Files \ S
  BY <1>3 DEF IInv, Ordered
<1>5. remaining = Files \ Sorted
  BY DEF IInv, Done
<1>. QED  BY <1>4, <1>5

\* Four different files make a set of four.
LEMMA FourDifferent ==
  ASSUME NEW c, c[1] # c[2], c[1] # c[3], c[1] # c[4],
         c[2] # c[3], c[2] # c[4], c[3] # c[4]
  PROVE  Cardinality({c[1], c[2], c[3], c[4]}) = 4
<1>1. IsFiniteSet({c[1]}) /\ Cardinality({c[1]}) = 1
  BY FS_Singleton
<1>2. /\ {c[1], c[2]} = {c[1]} \cup {c[2]}
      /\ {c[1], c[2], c[3]} = {c[1], c[2]} \cup {c[3]}
      /\ {c[1], c[2], c[3], c[4]} = {c[1], c[2], c[3]} \cup {c[4]}
  OBVIOUS
<1>3. IsFiniteSet({c[1], c[2]}) /\ Cardinality({c[1], c[2]}) = 2
  BY <1>1, <1>2, FS_AddElement
<1>4. IsFiniteSet({c[1], c[2], c[3]}) /\ Cardinality({c[1], c[2], c[3]}) = 3
  BY <1>2, <1>3, FS_AddElement
<1>. QED  BY <1>2, <1>4, FS_AddElement

\* All files of a cycle are unresolved, and the loops visit every path of them.
LEMMA ReportComplete == IInv => CyclesReported
<1>. SUFFICES ASSUME IInv, sortpc = "done",
                     NEW n \in 2..4, NEW c \in [1..n -> Files],
                     \A i, j \in 1..n : c[i] = c[j] => i = j,
                     \A i \in 1..n : c[(i % n) + 1] \in records[c[i]]
              PROVE  CycleKey(c) \in CycleReport
  BY DEF CyclesReported
<1>1. \A i \in 1..n : c[i] \in remaining /\ c[i] \in Files
  BY CyclesStay DEF Cycle
<1>2. ASSUME c \in TwoStep(c[1]) \cup ThreeStep(c[1]) \cup FourStep(c[1])
      PROVE  CycleKey(c) \in CycleReport
  <2>. DEFINE Found(f) == TwoStep(f) \cup ThreeStep(f) \cup FourStep(f)
  <2>1. c[1] \in remaining
    BY <1>1
  <2>2. c \in UNION {Found(f) : f \in remaining}
    BY <1>2, <2>1
  <2>. HIDE DEF Found
  <2>3. CycleReport = {CycleKey(p) : p \in UNION {Found(f) : f \in remaining}}
    BY DEF CycleReport, Found
  <2>. QED  BY <2>2, <2>3
<1>3. CASE n = 2
  <2>1. c = <<c[1], c[2]>>
    BY <1>3
  <2>2. c[2] \in records[c[1]] /\ c[1] \in records[c[2]]
    BY <1>3
  <2>3. c[2] \in {d \in Local(c[1]) : c[1] \in records[d]}
    BY <1>1, <1>3, <2>2 DEF Local
  <2>4. c \in TwoStep(c[1])
    BY <2>1, <2>3 DEF TwoStep
  <2>. QED  BY <1>2, <2>4
<1>4. CASE n = 3
  <2>1. c = <<c[1], c[2], c[3]>>
    BY <1>4
  <2>2. /\ c[2] \in records[c[1]] /\ c[3] \in records[c[2]]
        /\ c[1] \in records[c[3]]
    BY <1>4
  <2>3. c \in {c[1]} \X Files \X Files
    BY <1>1, <1>4, <2>1
  <2>4. c \in ThreeStep(c[1])
    BY <1>1, <1>4, <2>2, <2>3 DEF ThreeStep, Local
  <2>. QED  BY <1>2, <2>4
<1>5. CASE n = 4
  <2>1. c = <<c[1], c[2], c[3], c[4]>>
    BY <1>5
  <2>2. /\ c[2] \in records[c[1]] /\ c[3] \in records[c[2]]
        /\ c[4] \in records[c[3]] /\ c[1] \in records[c[4]]
    BY <1>5
  <2>3. c \in {c[1]} \X Files \X Files \X Files
    BY <1>1, <1>5, <2>1
  <2>4. Cardinality({c[1], c[2], c[3], c[4]}) = 4
    <3>1. /\ c[1] # c[2] /\ c[1] # c[3] /\ c[1] # c[4]
          /\ c[2] # c[3] /\ c[2] # c[4] /\ c[3] # c[4]
      BY <1>5
    <3>. QED  BY <3>1, FourDifferent
  <2>5. c \in FourStep(c[1])
    BY <1>1, <1>5, <2>2, <2>3, <2>4 DEF FourStep, Local
  <2>. QED  BY <1>2, <2>5
<1>. QED  BY <1>3, <1>4, <1>5

(***************************************************************************)
(* The report of an unresolved library names every cycle of two to four    *)
(* files, up to where it starts and in which direction it is read.         *)
(***************************************************************************)
THEOREM ReportMissesNoCycle == SortSpec => []CyclesReported
BY Invariance, ReportComplete, PTL

-----------------------------------------------------------------------------
(***************************************************************************)
(* The load order is a function of the library.  Behind a file comes the   *)
(* next in the alphabet that can be placed now; if there is none, a new    *)
(* pass begins, with the first file of all that can be placed.             *)
(***************************************************************************)
Able(placed) == {f \in Files \ placed : records[f] \subseteq placed}

Before(s, i) == {s[j] : j \in 1..(i - 1)}

Ahead(s, i) == {f \in Able(Before(s, i)) : i > 1 => s[i - 1] < f}

ByPasses(s) ==
  \A i \in 1..Len(s) :
    \/ First(s[i], Ahead(s, i))
    \/ Ahead(s, i) = {} /\ First(s[i], Able(Before(s, i)))

\* What a pass has visited precedes what it has not, and no file that can be
\* placed lies between the last one placed and the one visited now.
Visiting ==
  /\ ByPasses(sorted)
  /\ sortpc = "pass" =>
       /\ \A f \in todo, g \in remaining \ todo : g < f
       /\ promoted # {} => sorted # <<>> /\ sorted[Len(sorted)] \in promoted
       /\ sorted # <<>> =>
            \A f \in Able(Sorted) :
              sorted[Len(sorted)] < f => f \in todo /\ promoted # {}

\* Two orders made by passes over the same library agree as far as both go.
LEMMA PassesAgree ==
  ASSUME SortTypeOK, NEW s \in Seq(Files), NEW t \in Seq(Files),
         ByPasses(s), ByPasses(t),
         NEW n \in Nat, n <= Len(s), n <= Len(t)
  PROVE  \A i \in 1..n : s[i] = t[i]
<1>. DEFINE I == {k \in 0..n : \A i \in 1..k : s[i] = t[i]}
<1>1. 0 \in I
  OBVIOUS
<1>2. ASSUME NEW k \in 1..n, k - 1 \in I
      PROVE  k \in I
  <2>1. \A i \in 1..(k - 1) : s[i] = t[i]
    BY <1>2
  <2>2. Before(s, k) = Before(t, k)
    BY <2>1 DEF Before
  <2>3. k > 1 => s[k - 1] = t[k - 1]
    BY <2>1
  <2>4. Ahead(s, k) = Ahead(t, k)
    BY <2>2, <2>3 DEF Ahead
  <2>5. k \in 1..Len(s) /\ k \in 1..Len(t)
    OBVIOUS
  <2>6. s[k] \in Int /\ t[k] \in Int
    <3>1. Files \subseteq Int
      BY StemAssumption DEF SortTypeOK
    <3>2. s[k] \in Files /\ t[k] \in Files
      BY <2>5
    <3>. QED  BY <3>1, <3>2
  <2>7. s[k] = t[k]
    BY <2>2, <2>4, <2>5, <2>6 DEF ByPasses, First
  <2>8. \A i \in 1..k : i \in 1..(k - 1) \/ i = k
    OBVIOUS
  <2>. QED  BY <2>1, <2>7, <2>8
<1>. HIDE DEF I
<1>3. 0..n \subseteq I
  BY <1>1, <1>2, IntervalInduction
<1>4. n \in I
  BY <1>3
<1>. QED  BY <1>4 DEF I

\* A file placed behind an order made by passes.
LEMMA PlacedBehind ==
  ASSUME SortTypeOK, NEW s \in Seq(Files), NEW f \in Files, ByPasses(s),
         \/ First(f, {g \in Able(ToSet(s)) : s # <<>> => s[Len(s)] < g})
         \/ /\ s # <<>>
            /\ \A g \in Able(ToSet(s)) : ~ (s[Len(s)] < g)
            /\ First(f, Able(ToSet(s)))
  PROVE  ByPasses(Append(s, f))
<1>. DEFINE t == Append(s, f)
<1>1. /\ Len(s) \in Nat /\ Len(t) = Len(s) + 1
      /\ \A i \in 1..Len(s) : t[i] = s[i]
      /\ t[Len(s) + 1] = f
      /\ ToSet(s) = {s[i] : i \in 1..Len(s)}
  BY AppendFacts, ElementsOf
<1>. HIDE DEF t
<1>2. ASSUME NEW i \in 1..(Len(s) + 1)
      PROVE  Before(t, i) = Before(s, i) /\ Ahead(t, i) = Ahead(s, i)
  <2>1. \A j \in 1..(i - 1) : j \in 1..Len(s) /\ t[j] = s[j]
    BY <1>1
  <2>2. Before(t, i) = Before(s, i)
    BY <2>1 DEF Before
  <2>3. i > 1 => t[i - 1] = s[i - 1]
    BY <2>1
  <2>. QED  BY <2>2, <2>3 DEF Ahead
<1>3. ASSUME NEW i \in 1..Len(t)
      PROVE  \/ First(t[i], Ahead(t, i))
             \/ Ahead(t, i) = {} /\ First(t[i], Able(Before(t, i)))
  <2>1. CASE i \in 1..Len(s)
    BY <1>1, <1>2, <2>1 DEF ByPasses
  <2>2. CASE i = Len(s) + 1
    <3>1. Before(s, i) = ToSet(s)
      BY <1>1, <2>2 DEF Before
    <3>2. s # <<>> <=> i > 1
      BY <1>1, <2>2
    <3>3. Ahead(s, i) = {g \in Able(ToSet(s)) : s # <<>> => s[Len(s)] < g}
      BY <1>1, <2>2, <3>1, <3>2 DEF Ahead
    <3>. QED  BY <1>1, <1>2, <2>2, <3>1, <3>3
  <2>. QED  BY <1>1, <2>1, <2>2
<1>4. ByPasses(t)
  BY <1>3 DEF ByPasses
<1>. QED  BY <1>4 DEF t

\* The same of the sort at hand.
LEMMA PlacedNext ==
  ASSUME SortTypeOK, NEW f \in Files, ByPasses(sorted),
         records' = records, sorted' = Append(sorted, f),
         \/ First(f, {g \in Able(Sorted) : sorted # <<>> => sorted[Len(sorted)] < g})
         \/ /\ sorted # <<>>
            /\ \A g \in Able(Sorted) : ~ (sorted[Len(sorted)] < g)
            /\ First(f, Able(Sorted))
  PROVE  ByPasses(sorted)'
<1>1. sorted \in Seq(Files) /\ ToSet(sorted) = Sorted
  BY ElementsOf DEF SortTypeOK, Sorted
<1>2. ByPasses(Append(sorted, f))
  BY <1>1, PlacedBehind
<1>3. \A S : Able(S)' = Able(S)
  BY DEF Files, Able
<1>4. PICK t : t = Append(sorted, f)
  OBVIOUS
<1>5. \A i : Before(sorted, i)' = Before(t, i) /\ Ahead(sorted, i)' = Ahead(t, i)
  BY <1>3, <1>4 DEF Before, Ahead
<1>. QED  BY <1>2, <1>3, <1>4, <1>5 DEF ByPasses, First

\* Nothing is placed yet, and nothing visited.
LEMMA VisitingBegins ==
  ASSUME sorted = <<>>, promoted = {}, todo = remaining
  PROVE  Visiting
BY DEF Visiting, ByPasses

\* Every step of dependency_sort_prefix keeps to the order of the passes.
LEMMA NextVisiting == IInv /\ Visiting /\ [SortNext]_sortVars => Visiting'
<1>. SUFFICES ASSUME IInv, Visiting, [SortNext]_sortVars PROVE Visiting'
  OBVIOUS
<1>0. SortTypeOK /\ Ordered /\ Pass /\ Done
  BY DEF IInv
<1>1. Files \subseteq Int /\ sorted \in Seq(Files) /\ Len(sorted) \in Nat
  BY <1>0, StemAssumption DEF SortTypeOK
<1>2. ASSUME records' = records, sorted' = sorted
      PROVE  /\ Sorted' = Sorted /\ Files' = Files
             /\ (\A S : Able(S)' = Able(S)) /\ ByPasses(sorted)'
  <2>1. Sorted' = Sorted /\ Files' = Files /\ \A S : Able(S)' = Able(S)
    BY <1>2 DEF Sorted, Files, Able
  <2>2. \A i : Before(sorted, i)' = Before(sorted, i) /\ Ahead(sorted, i)' = Ahead(sorted, i)
    BY <1>2, <2>1 DEF Before, Ahead
  <2>. QED  BY <1>2, <2>1, <2>2 DEF Visiting, ByPasses, First
<1>3. ASSUME NEW f \in Files, PromoteRecord(f) PROVE Visiting'
  <2>1. /\ sortpc = "pass" /\ f \in todo /\ (\A g \in todo : f <= g)
        /\ records[f] \subseteq Sorted
        /\ records' = records /\ sorted' = Append(sorted, f)
        /\ promoted' = promoted \cup {f} /\ todo' = todo \ {f}
        /\ remaining' = remaining /\ sortpc' = sortpc
    BY <1>3 DEF PromoteRecord, First
  <2>2. /\ Files = Sorted \cup remaining /\ Sorted \cap remaining = promoted
        /\ todo \subseteq remaining \ promoted
        /\ promoted = {} =>
             \A g \in remaining \ todo : ~ (records[g] \subseteq Sorted)
    BY <1>0, <2>1 DEF Pass
  <2>3. /\ \A h \in todo, g \in remaining \ todo : g < h
        /\ promoted # {} => sorted # <<>> /\ sorted[Len(sorted)] \in promoted
        /\ sorted # <<>> =>
             \A g \in Able(Sorted) :
               sorted[Len(sorted)] < g => g \in todo /\ promoted # {}
    BY <2>1 DEF Visiting
  <2>4. f \in Files \ Sorted
    BY <2>1, <2>2
  <2>5. f \in Able(Sorted)
    BY <2>1, <2>4 DEF Able
  <2>6. ByPasses(sorted)'
    <3>0. ByPasses(sorted)
      BY DEF Visiting
    <3>1. CASE promoted # {}
      <4>1. sorted[Len(sorted)] < f
        BY <2>1, <2>2, <2>3, <3>1
      <4>2. \A g \in Able(Sorted) : sorted[Len(sorted)] < g => f <= g
        BY <2>1, <2>3, <3>1
      <4>3. First(f, {g \in Able(Sorted) : sorted # <<>> => sorted[Len(sorted)] < g})
        BY <2>3, <2>5, <3>1, <4>1, <4>2 DEF First
      <4>. QED  BY <1>0, <2>1, <3>0, <4>3, PlacedNext
    <3>2. CASE promoted = {}
      <4>1. \A g \in Able(Sorted) : g \in todo
        BY <2>2, <3>2 DEF Able
      <4>2. First(f, Able(Sorted))
        BY <2>1, <2>5, <4>1 DEF First
      <4>3. sorted # <<>> => \A g \in Able(Sorted) : ~ (sorted[Len(sorted)] < g)
        BY <2>3, <3>2
      <4>4. sorted = <<>> =>
              First(f, {g \in Able(Sorted) : sorted # <<>> => sorted[Len(sorted)] < g})
        BY <4>2 DEF First
      <4>. QED  BY <1>0, <2>1, <3>0, <4>2, <4>3, <4>4, PlacedNext
    <3>. QED  BY <3>1, <3>2
  <2>7. \A h \in todo', g \in remaining' \ todo' : g < h
    <3>1. ASSUME NEW h \in todo' PROVE f < h
      <4>1. h \in Files /\ f <= h /\ f # h
        BY <1>0, <2>1, <2>2 DEF SortTypeOK
      <4>2. h \in Int /\ f \in Int
        BY <1>1, <4>1
      <4>. QED  BY <4>1, <4>2
    <3>2. \A g \in remaining' \ todo' : g = f \/ g \in remaining \ todo
      BY <2>1
    <3>. QED  BY <2>1, <2>3, <3>1, <3>2
  <2>8. /\ sorted' # <<>> /\ Len(sorted') = Len(sorted) + 1
        /\ sorted'[Len(sorted')] = f /\ Sorted' = Sorted \cup {f}
    BY <1>0, <1>1, <2>1, <2>4, Placing, AppendFacts
  <2>9. ASSUME NEW g \in Able(Sorted)', f < g PROVE g \in todo'
    <3>1. g \in Files \ Sorted /\ g # f
      BY <2>1, <2>8, <2>9 DEF Able, Files
    <3>2. g \in Int /\ f \in Int /\ ~ (g < f)
      BY <1>1, <2>9, <3>1
    <3>3. g \in todo
      BY <2>1, <2>2, <2>3, <3>1, <3>2
    <3>. QED  BY <2>1, <3>1, <3>3
  <2>. QED  BY <2>1, <2>6, <2>7, <2>8, <2>9 DEF Visiting
<1>4. ASSUME NEW f \in Files, PassOver(f) PROVE Visiting'
  <2>1. /\ sortpc = "pass" /\ f \in todo /\ (\A g \in todo : f <= g)
        /\ ~ (records[f] \subseteq Sorted)
        /\ todo' = todo \ {f}
        /\ UNCHANGED <<records, sorted, remaining, promoted, sortpc>>
    BY <1>4 DEF PassOver, First
  <2>2. todo \subseteq Files
    BY <1>0 DEF SortTypeOK
  <2>3. /\ \A h \in todo, g \in remaining \ todo : g < h
        /\ promoted # {} => sorted # <<>> /\ sorted[Len(sorted)] \in promoted
        /\ sorted # <<>> =>
             \A g \in Able(Sorted) :
               sorted[Len(sorted)] < g => g \in todo /\ promoted # {}
    BY <2>1 DEF Visiting
  <2>4. \A h \in todo', g \in remaining' \ todo' : g < h
    <3>1. ASSUME NEW h \in todo' PROVE f < h
      <4>1. h \in Files /\ f <= h /\ f # h
        BY <1>0, <2>1, <2>2 DEF SortTypeOK
      <4>2. h \in Int /\ f \in Int
        BY <1>1, <4>1
      <4>. QED  BY <4>1, <4>2
    <3>2. \A g \in remaining' \ todo' : g = f \/ g \in remaining \ todo
      BY <2>1
    <3>. QED  BY <2>1, <2>3, <3>1, <3>2
  <2>5. f \notin Able(Sorted)
    BY <2>1 DEF Able
  <2>6. /\ Sorted' = Sorted /\ (\A S : Able(S)' = Able(S)) /\ ByPasses(sorted)'
    BY <1>2, <2>1
  <2>. QED  BY <2>1, <2>3, <2>4, <2>5, <2>6 DEF Visiting
<1>5. CASE NextPass
  <2>1. /\ sortpc = "pass" /\ todo = {} /\ promoted' = {}
        /\ remaining' = remaining \ promoted /\ todo' = remaining \ promoted
        /\ UNCHANGED <<records, sorted, sortpc>>
    BY <1>5 DEF NextPass
  <2>2. /\ Sorted' = Sorted /\ (\A S : Able(S)' = Able(S)) /\ ByPasses(sorted)'
    BY <1>2, <2>1
  <2>3. sorted # <<>> => \A g \in Able(Sorted) : ~ (sorted[Len(sorted)] < g)
    BY <2>1 DEF Visiting
  <2>. QED  BY <2>1, <2>2, <2>3 DEF Visiting
<1>6. CASE FinishSort
  <2>1. sortpc' = "done" /\ records' = records /\ sorted' = sorted
    BY <1>6 DEF FinishSort
  <2>. QED  BY <1>2, <2>1 DEF Visiting
<1>7. CASE UNCHANGED sortVars
  <2>1. UNCHANGED <<records, sorted, remaining, todo, promoted, sortpc>>
    BY <1>7 DEF sortVars
  <2>2. /\ Sorted' = Sorted /\ (\A S : Able(S)' = Able(S)) /\ ByPasses(sorted)'
    BY <1>2, <2>1
  <2>. QED  BY <2>1, <2>2 DEF Visiting
<1>. QED  BY <1>3, <1>4, <1>5, <1>6, <1>7 DEF SortNext

-----------------------------------------------------------------------------
(***************************************************************************)
(* SortedFiles, the function of LibraryOrder that the index and the        *)
(* loaders are modelled with, makes its list by the same passes.           *)
(***************************************************************************)

\* Between two passes no file that can be placed lies ahead of the last one.
Rested(s) ==
  /\ s \in Orders(records)
  /\ ByPasses(s)
  /\ s # <<>> => \A g \in Able(ToSet(s)) : ~ (s[Len(s)] < g)

\* What the first k visits of a pass have made of the list p.
Midway(p, s, k) ==
  LET n     == Cardinality(Files)
      files == Ascending(Files)
  IN  /\ ByPasses(s)
      /\ \/ s = p /\ \A i \in 1..k : files[i] \notin Able(ToSet(p))
         \/ /\ s # <<>>
            /\ s[Len(s)] \in {files[i] : i \in 1..k}
            /\ \A g \in Able(ToSet(s)) :
                 s[Len(s)] < g => g \in {files[i] : i \in (k + 1)..n}

\* The files of a finite library are a finite set of integers.
LEMMA FilesFinite ==
  ASSUME SortTypeOK, IsFiniteSet(Files)
  PROVE  /\ DOMAIN records \in SUBSET Int /\ IsFiniteSet(DOMAIN records)
         /\ Files \in SUBSET Int
BY StemAssumption DEF SortTypeOK, Files

\* One visit takes the pass one file further.
LEMMA VisitMidway ==
  ASSUME SortTypeOK, IsFiniteSet(Files), NEW p, Rested(p), NEW s \in Orders(records),
         NEW k \in 1..Cardinality(Files), Midway(p, s, k - 1)
  PROVE  Midway(p, Visited(records, s, Ascending(Files)[k]), k)
<1>. DEFINE n == Cardinality(Files)
            files == Ascending(Files)
            f == files[k]
            t == Visited(records, s, f)
<1>1. /\ n \in Nat /\ k \in 1..n /\ k \in Int
      /\ files \in [1..n -> Files] /\ Files \in SUBSET Int
      /\ \A i, j \in 1..n : i < j => files[i] < files[j]
      /\ \A x \in Files : \E i \in 1..n : files[i] = x
  BY FilesFinite, AscendingFacts
<1>2. s \in Seq(Files) /\ ByPasses(s) /\ p \in Orders(records)
  BY DEF Orders, Midway, Rested, Files
<1>3. \/ s = p /\ \A i \in 1..(k - 1) : files[i] \notin Able(ToSet(p))
      \/ /\ s # <<>>
         /\ s[Len(s)] \in {files[i] : i \in 1..(k - 1)}
         /\ \A g \in Able(ToSet(s)) : s[Len(s)] < g => g \in {files[i] : i \in k..n}
  <2>1. (k - 1) + 1 = k
    BY <1>1
  <2>. QED  BY <2>1 DEF Midway
<1>4. t = IF f \in Able(ToSet(s)) THEN Append(s, f) ELSE s
  BY <1>1 DEF Visited, Able
<1>5. Midway(p, t, k) <=>
        /\ ByPasses(t)
        /\ \/ t = p /\ \A i \in 1..k : files[i] \notin Able(ToSet(p))
           \/ /\ t # <<>>
              /\ t[Len(t)] \in {files[i] : i \in 1..k}
              /\ \A g \in Able(ToSet(t)) :
                   t[Len(t)] < g => g \in {files[i] : i \in (k + 1)..n}
  BY DEF Midway
<1>. HIDE DEF n, files, t
<1>6. f \in Files /\ f \in Int /\ f = files[k]
  BY <1>1
<1>7. \A i \in 1..k : i \in 1..(k - 1) \/ i = k
  BY <1>1
<1>. HIDE DEF f
<1>8. ASSUME f \notin Able(ToSet(s)) PROVE Midway(p, t, k)
  <2>1. t = s
    BY <1>4, <1>8
  <2>2. CASE s = p /\ \A i \in 1..(k - 1) : files[i] \notin Able(ToSet(p))
    BY <1>1, <1>2, <1>5, <1>7, <1>6, <1>8, <2>1, <2>2
  <2>3. CASE /\ s # <<>>
             /\ s[Len(s)] \in {files[i] : i \in 1..(k - 1)}
             /\ \A g \in Able(ToSet(s)) : s[Len(s)] < g => g \in {files[i] : i \in k..n}
    <3>1. s[Len(s)] \in {files[i] : i \in 1..k}
      BY <1>1, <1>6, <2>3
    <3>2. \A i \in k..n : i = k \/ i \in (k + 1)..n
      BY <1>1, <1>6
    <3>3. \A g \in Able(ToSet(s)) : s[Len(s)] < g => g \in {files[i] : i \in (k + 1)..n}
      BY <1>1, <1>6, <1>8, <2>3, <3>2
    <3>. QED  BY <1>2, <1>5, <2>1, <2>3, <3>1, <3>3
  <2>. QED  BY <1>3, <2>2, <2>3
<1>9. ASSUME f \in Able(ToSet(s)) PROVE Midway(p, t, k)
  <2>1. t = Append(s, f)
    BY <1>4, <1>9
  <2>2. \A i \in k..n : files[i] \in Int /\ f <= files[i]
    <3>1. \A i \in k..n : i \in 1..n /\ (i = k \/ k < i)
      BY <1>1, <1>6
    <3>2. \A i \in 1..n : files[i] \in Int
      BY <1>1
    <3>. QED  BY <1>1, <1>6, <3>1, <3>2
  <2>3. ByPasses(t)
    <3>1. CASE s = p /\ \A i \in 1..(k - 1) : files[i] \notin Able(ToSet(p))
      <4>1. ASSUME NEW g \in Able(ToSet(s)) PROVE f <= g
        <5>1. PICK i \in 1..n : files[i] = g
          BY <1>1 DEF Able
        <5>2. i \in k..n
          BY <1>1, <1>6, <3>1, <5>1
        <5>. QED  BY <2>2, <5>1, <5>2
      <4>2. First(f, Able(ToSet(s)))
        BY <1>9, <4>1 DEF First
      <4>3. s # <<>> => \A g \in Able(ToSet(s)) : ~ (s[Len(s)] < g)
        BY <3>1 DEF Rested
      <4>4. s = <<>> => First(f, {g \in Able(ToSet(s)) : s # <<>> => s[Len(s)] < g})
        BY <4>2 DEF First
      <4>. QED  BY <1>2, <1>6, <2>1, <4>2, <4>3, <4>4, PlacedBehind
    <3>2. CASE /\ s # <<>>
               /\ s[Len(s)] \in {files[i] : i \in 1..(k - 1)}
               /\ \A g \in Able(ToSet(s)) : s[Len(s)] < g => g \in {files[i] : i \in k..n}
      <4>1. PICK i \in 1..(k - 1) : s[Len(s)] = files[i]
        BY <3>2
      <4>2. i \in 1..n /\ i < k
        BY <1>1, <1>6
      <4>3. s[Len(s)] < f
        BY <1>1, <1>6, <4>1, <4>2
      <4>4. \A g \in Able(ToSet(s)) : s[Len(s)] < g => f <= g
        BY <2>2, <3>2
      <4>5. First(f, {g \in Able(ToSet(s)) : s # <<>> => s[Len(s)] < g})
        BY <1>9, <3>2, <4>3, <4>4 DEF First
      <4>. QED  BY <1>2, <1>6, <2>1, <4>5, PlacedBehind
    <3>. QED  BY <1>3, <3>1, <3>2
  <2>4. /\ t # <<>> /\ t[Len(t)] = f
    <3>1. Len(s) \in Nat /\ Len(t) = Len(s) + 1 /\ t[Len(s) + 1] = f
      BY <1>1, <1>2, <1>6, <2>1, AppendFacts
    <3>. QED  BY <3>1
  <2>5. ASSUME NEW g \in Able(ToSet(t)), f < g
        PROVE  g \in {files[i] : i \in (k + 1)..n}
    <3>1. PICK i \in 1..n : files[i] = g
      BY <1>1 DEF Able
    <3>2. g \in Files /\ g \in Int
      BY <1>1, <3>1
    <3>3. i \in Int /\ g \in Int /\ ~ (g < f) /\ g # f
      BY <1>1, <1>6, <2>5, <3>1, <3>2
    <3>4. ~ (i < k) /\ i # k
      BY <1>1, <1>6, <3>1, <3>3
    <3>5. i \in (k + 1)..n
      BY <1>1, <1>6, <3>3, <3>4
    <3>. QED  BY <3>1, <3>5
  <2>6. t[Len(t)] \in {files[i] : i \in 1..k}
    BY <1>1, <1>6, <2>4
  <2>. QED  BY <1>5, <2>3, <2>4, <2>5, <2>6
<1>10. Midway(p, t, k)
  BY <1>8, <1>9
<1>. QED  BY <1>10 DEF t, f, files

\* A pass that begins rested ends rested; where nothing can be placed it
\* changes nothing.
LEMMA PassRested ==
  ASSUME SortTypeOK, IsFiniteSet(Files), NEW p, Rested(p)
  PROVE  /\ Rested(OnePass(records, p))
         /\ Able(ToSet(p)) = {} => OnePass(records, p) = p
<1>. DEFINE n == Cardinality(Files)
            files == Ascending(Files)
<1>1. /\ n \in Nat /\ files \in [1..n -> Files]
      /\ \A x \in Files : \E i \in 1..n : files[i] = x
  BY FilesFinite, AscendingFacts
<1>2. p \in Orders(records) /\ ByPasses(p)
  BY DEF Rested
<1>3. PICK v \in [0..n -> Orders(records)] :
        /\ v[0] = p
        /\ \A k \in 1..n : v[k] = Visited(records, v[k - 1], files[k])
        /\ OnePass(records, p) = v[n]
  BY <1>2, FilesFinite, PassRuns DEF Files
<1>4. \A k \in 1..n : \A s \in Orders(records) :
        Midway(p, s, k - 1) => Midway(p, Visited(records, s, files[k]), k)
  BY VisitMidway
<1>5. Midway(p, p, 0)
  BY <1>2 DEF Midway
<1>6. \A s : Midway(p, s, n) =>
        /\ ByPasses(s)
        /\ s # <<>> => \A g \in Able(ToSet(s)) : ~ (s[Len(s)] < g)
  <2>. SUFFICES ASSUME NEW s, Midway(p, s, n)
                PROVE  /\ ByPasses(s)
                       /\ s # <<>> => \A g \in Able(ToSet(s)) : ~ (s[Len(s)] < g)
    OBVIOUS
  <2>1. CASE s = p
    BY <1>2, <2>1 DEF Rested
  <2>2. CASE s # p
    <3>1. /\ ByPasses(s)
          /\ \A g \in Able(ToSet(s)) : s[Len(s)] < g => g \in {files[i] : i \in (n + 1)..n}
      BY <2>2 DEF Midway
    <3>2. (n + 1)..n = {}
      BY <1>1
    <3>. QED  BY <3>1, <3>2
  <2>. QED  BY <2>1, <2>2
<1>. HIDE DEF n, files
<1>7. \A k \in 0..n : Midway(p, v[k], k)
  <2>. DEFINE I == {k \in 0..n : Midway(p, v[k], k)}
  <2>1. 0 \in I
    BY <1>1, <1>3, <1>5
  <2>2. ASSUME NEW k \in 1..n, k - 1 \in I PROVE k \in I
    <3>1. k \in 0..n /\ k - 1 \in 0..n
      BY <1>1
    <3>. QED  BY <1>3, <1>4, <2>2, <3>1
  <2>. HIDE DEF I
  <2>3. 0..n \subseteq I
    BY <1>1, <2>1, <2>2, IntervalInduction
  <2>. QED  BY <2>3 DEF I
<1>8. Rested(OnePass(records, p))
  <2>1. n \in 0..n
    BY <1>1
  <2>. QED  BY <1>3, <1>6, <1>7, <2>1 DEF Rested
<1>9. ASSUME Able(ToSet(p)) = {} PROVE OnePass(records, p) = p
  <2>. DEFINE I == {k \in 0..n : v[k] = p}
  <2>1. 0 \in I
    BY <1>1, <1>3
  <2>2. ASSUME NEW k \in 1..n, k - 1 \in I PROVE k \in I
    <3>1. k \in 0..n /\ files[k] \in DOMAIN records /\ v[k - 1] = p
      BY <1>1, <2>2 DEF Files
    <3>2. Visited(records, p, files[k]) = p
      BY <1>9, <3>1 DEF Visited, Able, Files
    <3>. QED  BY <1>3, <3>1, <3>2
  <2>. HIDE DEF I
  <2>3. 0..n \subseteq I
    BY <1>1, <2>1, <2>2, IntervalInduction
  <2>4. n \in 0..n
    BY <1>1
  <2>5. n \in I
    BY <2>3, <2>4
  <2>. QED  BY <1>3, <2>5 DEF I
<1>. QED  BY <1>8, <1>9

\* While a file can be placed, a pass places one.
LEMMA PassGrows ==
  ASSUME SortTypeOK, IsFiniteSet(Files), NEW s \in Orders(records), Able(ToSet(s)) # {}
  PROVE  Len(s) < Len(OnePass(records, s))
<1>. DEFINE t == OnePass(records, s)
<1>1. /\ t \in Orders(records) /\ ToSet(s) \subseteq ToSet(t)
      /\ \A f \in DOMAIN records : records[f] \subseteq ToSet(s) => f \in ToSet(t)
  BY FilesFinite, OnePassFacts
<1>. HIDE DEF t
<1>2. /\ ToSet(t) \in SUBSET DOMAIN records
      /\ Len(s) \in Nat /\ Len(t) \in Nat
      /\ Cardinality(ToSet(s)) = Len(s) /\ Cardinality(ToSet(t)) = Len(t)
  BY <1>1, FilesFinite, OrderSize
<1>3. PICK f \in DOMAIN records \ ToSet(s) : records[f] \subseteq ToSet(s)
  BY DEF Able, Files
<1>4. ToSet(s) # ToSet(t) /\ IsFiniteSet(ToSet(t))
  BY <1>1, <1>2, <1>3, FilesFinite, FS_Subset
<1>5. Cardinality(ToSet(s)) <= Cardinality(ToSet(t)) /\ Cardinality(ToSet(s)) # Cardinality(ToSet(t))
  BY <1>1, <1>4, FS_Subset
<1>. QED  BY <1>2, <1>5 DEF t

\* One pass per file is enough: the last one leaves no file that can be placed.
LEMMA SortedRested ==
  ASSUME SortTypeOK, IsFiniteSet(Files)
  PROVE  Rested(SortedFiles(records)) /\ Able(ToSet(SortedFiles(records))) = {}
<1>. DEFINE n == Cardinality(DOMAIN records)
<1>1. n \in Nat
  BY FilesFinite, FS_CardinalityType
<1>2. PICK v \in [0..n -> Orders(records)] :
        /\ v[0] = <<>>
        /\ \A k \in 1..n : v[k] = OnePass(records, v[k - 1])
        /\ SortedFiles(records) = v[n]
  BY FilesFinite, SortRuns
<1>3. \A s \in Orders(records) : /\ Len(s) \in Nat /\ Len(s) <= n
                                 /\ Len(s) = n <=> ToSet(s) = DOMAIN records
  BY FilesFinite, OrderSize, OrderLength
<1>. HIDE DEF n
<1>. DEFINE Far(k) == Rested(v[k]) /\ (k <= Len(v[k]) \/ Able(ToSet(v[k])) = {})
            I == {k \in 0..n : Far(k)}
<1>4. 0 \in I
  <2>1. <<>> \in Orders(records) /\ ByPasses(<<>>)
    BY DEF Orders, Complete, ByPasses
  <2>. QED  BY <1>1, <1>2, <2>1 DEF Rested
<1>5. ASSUME NEW k \in 1..n, k - 1 \in I PROVE k \in I
  <2>1. k \in 0..n /\ k - 1 \in 0..n /\ k \in Int /\ Far(k - 1)
    BY <1>1, <1>5
  <2>2. v[k] = OnePass(records, v[k - 1]) /\ v[k - 1] \in Orders(records) /\ v[k] \in Orders(records)
    BY <1>2, <2>1
  <2>3. Rested(v[k])
    BY <2>1, <2>2, PassRested
  <2>4. CASE Able(ToSet(v[k - 1])) = {}
    BY <2>1, <2>2, <2>3, <2>4, PassRested
  <2>5. CASE Able(ToSet(v[k - 1])) # {}
    <3>1. Len(v[k - 1]) < Len(v[k])
      BY <2>2, <2>5, PassGrows
    <3>2. k - 1 <= Len(v[k - 1])
      BY <2>1, <2>5
    <3>3. Len(v[k - 1]) \in Nat /\ Len(v[k]) \in Nat
      BY <1>3, <2>2
    <3>4. k <= Len(v[k])
      BY <2>1, <3>1, <3>2, <3>3
    <3>. QED  BY <2>1, <2>3, <3>4
  <2>. QED  BY <2>4, <2>5
<1>. HIDE DEF I
<1>6. 0..n \subseteq I
  BY <1>1, <1>4, <1>5, IntervalInduction
<1>7. n \in 0..n
  BY <1>1
<1>8. n \in I
  BY <1>6, <1>7
<1>9. Far(n)
  BY <1>8 DEF I
<1>10. CASE n <= Len(v[n])
  <2>1. ToSet(v[n]) = DOMAIN records
    BY <1>1, <1>2, <1>3, <1>7, <1>10
  <2>2. Able(ToSet(v[n])) = {}
    BY <2>1 DEF Able, Files
  <2>. QED  BY <1>2, <1>9, <2>2
<1>. QED  BY <1>2, <1>9, <1>10

\* Of two orders made by passes, one that can place no more is the longer.
LEMMA ExhaustedLonger ==
  ASSUME SortTypeOK, NEW s \in Seq(Files), NEW t \in Seq(Files),
         ByPasses(s), ByPasses(t), Able(ToSet(s)) = {}
  PROVE  Len(t) <= Len(s)
<1>. SUFFICES ASSUME ~ (Len(t) <= Len(s)) PROVE FALSE
  OBVIOUS
<1>. DEFINE n == Len(s)
<1>1. n \in Nat /\ Len(t) \in Nat /\ ToSet(s) = {s[i] : i \in 1..n}
  BY ElementsOf
<1>2. n <= Len(t) /\ n + 1 \in 1..Len(t)
  BY <1>1
<1>3. \A i \in 1..n : s[i] = t[i]
  <2>1. n <= Len(s)
    BY <1>1
  <2>. QED  BY <1>1, <1>2, <2>1, PassesAgree
<1>. HIDE DEF n
<1>4. Before(t, n + 1) = ToSet(s)
  <2>1. (n + 1) - 1 = n
    BY <1>1
  <2>. QED  BY <1>1, <1>3, <2>1 DEF Before
<1>5. t[n + 1] \in Able(Before(t, n + 1))
  BY <1>2 DEF ByPasses, First, Ahead
<1>. QED  BY <1>4, <1>5

\* So two that can place no more are the same.
LEMMA SameEnds ==
  ASSUME SortTypeOK, NEW s \in Seq(Files), NEW t \in Seq(Files),
         ByPasses(s), ByPasses(t), Able(ToSet(s)) = {}, Able(ToSet(t)) = {}
  PROVE  s = t
<1>1. Len(s) \in Nat /\ Len(t) \in Nat /\ Len(s) = Len(t)
  <2>1. Len(t) <= Len(s) /\ Len(s) <= Len(t)
    BY ExhaustedLonger
  <2>2. Len(t) \in Nat /\ Len(s) \in Nat
    OBVIOUS
  <2>. QED  BY <2>1, <2>2
<1>2. \A i \in 1..Len(s) : s[i] = t[i]
  <2>1. Len(s) <= Len(s) /\ Len(s) <= Len(t)
    BY <1>1
  <2>. QED  BY <1>1, <2>1, PassesAgree
<1>. QED  BY <1>1, <1>2

\* Only a finite library has been gone through to its end.
Counted ==
  /\ IsFiniteSet(remaining \ todo)
  /\ sortpc = "done" => IsFiniteSet(Files)

LEMMA NextCounted == IInv /\ Counted /\ [SortNext]_sortVars => Counted'
<1>. SUFFICES ASSUME IInv, Counted, [SortNext]_sortVars PROVE Counted'
  OBVIOUS
<1>0. SortTypeOK /\ Pass
  BY DEF IInv
<1>1. ASSUME NEW f \in Files, PromoteRecord(f) \/ PassOver(f) PROVE Counted'
  <2>1. /\ sortpc = "pass" /\ sortpc' = sortpc /\ remaining' = remaining
        /\ todo' = todo \ {f}
    BY <1>1 DEF PromoteRecord, PassOver
  <2>2. IsFiniteSet((remaining \ todo) \cup {f})
    BY FS_AddElement DEF Counted
  <2>3. remaining' \ todo' \in SUBSET ((remaining \ todo) \cup {f})
    BY <2>1
  <2>. QED  BY <2>1, <2>2, <2>3, FS_Subset DEF Counted
<1>2. CASE NextPass
  <2>1. remaining' \ todo' = {} /\ sortpc = "pass" /\ sortpc' = sortpc
    BY <1>2 DEF NextPass
  <2>. QED  BY <2>1, FS_EmptySet DEF Counted
<1>3. CASE FinishSort
  <2>1. /\ todo = {} /\ todo' = todo /\ records' = records
        /\ remaining' = remaining \ Sorted
        /\ Files = Sorted \cup remaining
    BY <1>0, <1>3 DEF FinishSort, Pass
  <2>2. IsFiniteSet(remaining)
    <3>1. remaining \ todo = remaining
      BY <2>1
    <3>. QED  BY <3>1 DEF Counted
  <2>3. IsFiniteSet(Sorted)
    <3>1. Len(sorted) \in Nat
      BY <1>0 DEF SortTypeOK
    <3>2. IsFiniteSet(1..Len(sorted))
      BY <3>1, FS_Interval
    <3>3. sorted \in Surjection(1..Len(sorted), Sorted)
      BY <1>0 DEF SortTypeOK, Sorted, Surjection
    <3>. QED  BY <3>2, <3>3, FS_Surjection
  <2>4. IsFiniteSet(Files)
    BY <2>1, <2>2, <2>3, FS_Union
  <2>5. remaining' \ todo' \in SUBSET remaining /\ Files' = Files
    BY <2>1 DEF Files
  <2>. QED  BY <2>2, <2>4, <2>5, FS_Subset DEF Counted
<1>4. CASE UNCHANGED sortVars
  BY <1>4 DEF sortVars, Counted, Files
<1>. QED  BY <1>1, <1>2, <1>3, <1>4 DEF SortNext

\* A sort that has ended has made the list SortedFiles makes.
LEMMA EndsWithSortedFiles ==
  IInv /\ Visiting /\ Counted /\ sortpc = "done" => sorted = SortedFiles(records)
<1>. SUFFICES ASSUME IInv, Visiting, Counted, sortpc = "done" PROVE sorted = SortedFiles(records)
  OBVIOUS
<1>. DEFINE t == SortedFiles(records)
<1>0. SortTypeOK /\ Done /\ IsFiniteSet(Files)
  BY DEF IInv, Counted
<1>1. t \in Seq(Files) /\ ByPasses(t) /\ Able(ToSet(t)) = {}
  BY <1>0, SortedRested DEF Rested, Orders, Files
<1>. HIDE DEF t
<1>2. sorted \in Seq(Files) /\ ByPasses(sorted) /\ ToSet(sorted) = Sorted
  BY <1>0, ElementsOf DEF SortTypeOK, Visiting, Sorted
<1>3. Able(ToSet(sorted)) = {}
  BY <1>0, <1>2 DEF Done, Able
<1>4. sorted = t
  BY <1>0, <1>1, <1>2, <1>3, SameEnds
<1>. QED  BY <1>4 DEF t

(***************************************************************************)
(* However the sort ends, `sorted` is SortedFiles of the library: what the *)
(* index and the loaders are modelled with is what the loop computes,      *)
(* although the loop leaves placed files out of its later passes and stops *)
(* at the first pass without a promotion.                                  *)
(***************************************************************************)
THEOREM SortIsSortedFiles ==
  SortSpec => [](sortpc = "done" => sorted = SortedFiles(records))
<1>1. SortInit => Visiting /\ Counted
  <2>. SUFFICES ASSUME SortInit PROVE Visiting /\ Counted
    OBVIOUS
  <2>1. /\ sorted = <<>> /\ promoted = {} /\ todo = remaining /\ sortpc = "pass"
        /\ remaining \ todo = {}
    BY DEF SortInit, BeginSort
  <2>. QED  BY <2>1, VisitingBegins, FS_EmptySet DEF Counted
<1>2. IInv /\ Visiting /\ Counted => (sortpc = "done" => sorted = SortedFiles(records))
  BY EndsWithSortedFiles
<1>. QED  BY Invariance, NextVisiting, NextCounted, <1>1, <1>2, PTL DEF SortSpec

-----------------------------------------------------------------------------
(***************************************************************************)
(* attach_kernel_dependency_tags, for every library, with any number of    *)
(* runs, interrupts and edits.                                             *)
(***************************************************************************)

(***************************************************************************)
(* The walk: what it has seen and what is still on the stack is needed by  *)
(* the file at hand, and holds whatever that file or a seen one mentions.  *)
(***************************************************************************)
Walk ==
  pc = "walk" =>
    /\ sortpc = "done" /\ remaining = {}
    /\ at \in 1..Len(sorted)
    /\ seen \cup stack \subseteq Needs(sorted[at])
    /\ Local(sorted[at]) \subseteq seen \cup stack
    /\ \A d \in seen : Local(d) \subseteq seen \cup stack

\* The sort keeps its invariant while a call is in progress; what an
\* interrupted call leaves behind is replaced when the next one starts.
RunInv ==
  /\ library \in [Files -> Header]
  /\ pc \in {"idle", "sort", "walk"}
  /\ SortTypeOK /\ Ordered
  /\ pc # "idle" => IInv
  /\ pc = "sort" => at = 1
  /\ Walk

-----------------------------------------------------------------------------

\* What the R parser reads are stems.
LEMMA RecordsType ==
  ASSUME NEW lib \in Library(Header)
  PROVE  Records(lib) \in [DOMAIN lib -> SUBSET Stem] /\ DOMAIN lib \subseteq Stem
<1>1. DOMAIN lib \subseteq Stem /\ \A f \in DOMAIN lib : lib[f] \in Header
  BY DEF Library
<1>2. \A f \in DOMAIN lib : RDepends(lib[f]) \subseteq Stem
  BY <1>1 DEF RDepends, Header
<1>. QED  BY <1>1, <1>2 DEF Records

\* A function from stems to headers is a library.
LEMMA LibraryFunction ==
  ASSUME NEW F \in SUBSET Stem, NEW lib \in [F -> Header]
  PROVE  lib \in Library(Header)
BY DEF Library

\* Needs is the least closed set: nothing else is asked of it here.
LEMMA NeedsLeast ==
  ASSUME NEW f \in Files, NEW S \in SUBSET Files, Local(f) \subseteq S, ClosedUnder(S)
  PROVE  Needs(f) \subseteq S
BY DEF Needs

\* What a file needs includes what it depends on, and what its needs depend on.
LEMMA NeedsClosed ==
  ASSUME NEW f \in Files
  PROVE  /\ Local(f) \subseteq Needs(f)
         /\ \A d \in Needs(f) : Local(d) \subseteq Needs(f)
<1>1. Local(f) \subseteq Needs(f)
  BY DEF Needs, Local
<1>2. ASSUME NEW d \in Needs(f), NEW e \in Local(d) PROVE e \in Needs(f)
  <2>1. e \in Files
    BY DEF Local
  <2>2. ASSUME NEW S \in SUBSET Files, Local(f) \subseteq S, ClosedUnder(S)
        PROVE  e \in S
    <3>1. d \in S
      BY <2>2 DEF Needs
    <3>. QED  BY <2>2, <3>1 DEF ClosedUnder
  <2>. QED  BY <2>1, <2>2 DEF Needs
<1>. QED  BY <1>1, <1>2

\* The definitions of the walk look at the records only.
LEMMA SameRecords ==
  ASSUME records' = records
  PROVE  /\ Files' = Files
         /\ \A f : Local(f)' = Local(f)
         /\ \A f : Needs(f)' = Needs(f)
<1>1. Files' = Files
  BY DEF Files
<1>2. \A f : Local(f)' = Local(f)
  BY <1>1 DEF Local
<1>3. \A S : ClosedUnder(S)' <=> ClosedUnder(S)
  BY <1>2 DEF ClosedUnder
<1>. QED  BY <1>1, <1>2, <1>3 DEF Needs

\* A step that leaves the sort alone leaves its invariant alone.
LEMMA SortUntouched ==
  ASSUME SortTypeOK, Ordered, UNCHANGED sortVars
  PROVE  /\ SortTypeOK' /\ Ordered'
         /\ IInv => IInv'
         /\ Files' = Files
<1>1. Ordered' /\ Sorted' = Sorted /\ Files' = Files
  BY Untouched DEF sortVars
<1>2. SortTypeOK'
  BY <1>1 DEF sortVars, SortTypeOK
<1>3. IInv => IInv'
  BY <1>1, <1>2 DEF sortVars, IInv, Pass, Done
<1>. QED  BY <1>1, <1>2, <1>3

\* The walk of a file begins with what it depends on.
LEMMA WalkBegins ==
  ASSUME IInv, sortpc = "done", remaining = {}, UNCHANGED sortVars,
         NEW position \in Nat \ {0}, at' = position, NextFile(position)
  PROVE  Walk' /\ pc' \in {"walk", "idle"}
<1>1. CASE position <= Len(sorted)
  <2>1. pc' = "walk" /\ seen' = {} /\ stack' = Local(sorted[position])
    BY <1>1 DEF NextFile
  <2>2. sorted \in Seq(Files) /\ Len(sorted) \in Nat
    BY DEF IInv, SortTypeOK
  <2>3. position \in 1..Len(sorted)
    BY <1>1, <2>2
  <2>4. sorted[position] \in Files
    BY <2>2, <2>3
  <2>5. Local(sorted[position]) \subseteq Needs(sorted[position])
    BY <2>4, NeedsClosed
  <2>6. UNCHANGED <<sorted, records, remaining, sortpc>>
    BY DEF sortVars
  <2>. QED  BY <2>1, <2>3, <2>5, <2>6, SameRecords DEF Walk
<1>2. CASE ~ (position <= Len(sorted))
  BY <1>2 DEF NextFile, Walk
<1>. QED  BY <1>1, <1>2

-----------------------------------------------------------------------------

\* Before the first call the invariant holds: no file carries a tag yet.
LEMMA InitRun == Init => RunInv
<1>. SUFFICES ASSUME Init PROVE RunInv
  OBVIOUS
<1>1. library \in Library(Header) /\ records = Records(library) /\ sorted = <<>>
      /\ remaining = DOMAIN records /\ todo = DOMAIN records /\ promoted = {}
      /\ sortpc = "pass"
  BY DEF Init, BeginSort
<1>2. Files = DOMAIN library
  BY <1>1 DEF Files, Records
<1>3. library \in [Files -> Header]
  BY <1>1, <1>2 DEF Library
<1>4. SortTypeOK
  BY <1>1, <1>2, RecordsType DEF SortTypeOK, Files
<1>5. Ordered
  BY <1>1 DEF Ordered, Sorted
<1>. QED  BY <1>3, <1>4, <1>5 DEF Init, RunInv, Walk

\* A new sort, whatever the last one left behind.
LEMMA StartSorts ==
  ASSUME RunInv, NEW dry \in BOOLEAN, Start(dry)
  PROVE  IInv' /\ library \in [Files' -> Header]
<1>1. /\ records' = Records(library) /\ sorted' = <<>>
      /\ remaining' = DOMAIN Records(library)
      /\ todo' = DOMAIN Records(library)
      /\ promoted' = {} /\ sortpc' = "pass" /\ DOMAIN library # {}
  BY DEF Start
<1>2. library \in Library(Header)
  BY LibraryFunction DEF RunInv, SortTypeOK
<1>3. Files' = DOMAIN library
  BY <1>1 DEF Files, Records
<1>4. library \in [Files' -> Header]
  BY <1>3 DEF RunInv
<1>5. SortTypeOK'
  BY <1>1, <1>2, <1>3, RecordsType DEF SortTypeOK, Records
<1>6. Sorted' = {}
  BY <1>1 DEF Sorted
<1>7. Ordered'
  BY <1>1, <1>6 DEF Ordered
<1>8. Pass' /\ Done'
  BY <1>1, <1>3, <1>6 DEF Pass, Done, Records
<1>. QED  BY <1>4, <1>5, <1>7, <1>8 DEF IInv

\* Every step of a run, an edit and an interrupt preserve the invariant.
LEMMA NextRun == RunInv /\ [Next]_vars => RunInv'
<1>. SUFFICES ASSUME RunInv, [Next]_vars PROVE RunInv'
  OBVIOUS
<1>0. /\ library \in [Files -> Header] /\ pc \in {"idle", "sort", "walk"}
      /\ SortTypeOK /\ Ordered /\ (pc # "idle" => IInv)
      /\ (pc = "sort" => at = 1) /\ Walk
  BY DEF RunInv
<1>1. ASSUME NEW dry \in BOOLEAN, Start(dry) PROVE RunInv'
  <2>1. IInv' /\ library \in [Files' -> Header]
    BY <1>1, StartSorts
  <2>2. library' = library /\ pc' = "sort" /\ at' = 1
    BY <1>1 DEF Start
  <2>. QED  BY <2>1, <2>2 DEF RunInv, Walk, IInv
<1>2. CASE SortStep
  <2>1. pc = "sort" /\ SortNext /\ UNCHANGED tagVars
    BY <1>2 DEF SortStep
  <2>2. IInv'
    BY <1>0, <2>1, NextIInv
  <2>3. Files' = Files
    BY <2>1 DEF SortNext, PromoteRecord, PassOver, NextPass, FinishSort, Files
  <2>. QED  BY <1>0, <2>1, <2>2, <2>3 DEF tagVars, RunInv, Walk, IInv
<1>3. CASE BeginTags
  <2>1. /\ pc = "sort" /\ at = 1 /\ at' = at /\ sortpc = "done" /\ remaining = {}
        /\ UNCHANGED sortVars /\ NextFile(1) /\ library' = library
    BY <1>0, <1>3 DEF BeginTags
  <2>2. SortTypeOK' /\ Ordered' /\ IInv' /\ Files' = Files
    BY <1>0, <2>1, SortUntouched
  <2>3. Walk' /\ pc' \in {"walk", "idle"}
    BY <1>0, <2>1, WalkBegins
  <2>. QED  BY <1>0, <2>1, <2>2, <2>3 DEF RunInv
<1>4. ASSUME NEW d \in stack, Visit(d) PROVE RunInv'
  <2>1. /\ pc = "walk" /\ pc' = pc /\ UNCHANGED sortVars
        /\ at' = at /\ library' = library
    BY <1>4 DEF Visit
  <2>2. SortTypeOK' /\ Ordered' /\ IInv' /\ Files' = Files
    BY <1>0, <2>1, SortUntouched
  <2>3. /\ at \in 1..Len(sorted)
        /\ seen \cup stack \subseteq Needs(sorted[at])
        /\ Local(sorted[at]) \subseteq seen \cup stack
        /\ \A e \in seen : Local(e) \subseteq seen \cup stack
        /\ sortpc = "done" /\ remaining = {}
    BY <1>0, <2>1 DEF Walk
  <2>4. sorted[at] \in Files
    BY <1>0, <2>3 DEF SortTypeOK
  <2>5. Local(d) \subseteq Needs(sorted[at])
    BY <2>3, <2>4, NeedsClosed
  <2>6. /\ seen' \cup stack' \subseteq Needs(sorted[at])
        /\ Local(sorted[at]) \subseteq seen' \cup stack'
        /\ \A e \in seen' : Local(e) \subseteq seen' \cup stack'
    BY <1>4, <2>3, <2>5 DEF Visit
  <2>7. Walk'
    <3>1. UNCHANGED <<sorted, records, remaining, sortpc>>
      BY <2>1 DEF sortVars
    <3>. QED  BY <2>1, <2>3, <2>6, <3>1, SameRecords DEF Walk
  <2>. QED  BY <1>0, <2>1, <2>2, <2>7 DEF RunInv
<1>5. CASE WriteTags
  <2>1. /\ pc = "walk" /\ at' = at + 1 /\ UNCHANGED sortVars
        /\ NextFile(at + 1) /\ library' = library
    BY <1>5 DEF WriteTags
  <2>2. SortTypeOK' /\ Ordered' /\ IInv' /\ Files' = Files
    BY <1>0, <2>1, SortUntouched
  <2>3. sortpc = "done" /\ remaining = {} /\ at \in 1..Len(sorted)
    BY <1>0, <2>1 DEF Walk
  <2>4. at + 1 \in Nat \ {0}
    BY <2>3
  <2>5. Walk' /\ pc' \in {"walk", "idle"}
    BY <1>0, <2>1, <2>3, <2>4, WalkBegins
  <2>. QED  BY <1>0, <2>1, <2>2, <2>5 DEF RunInv
<1>6. CASE Refuse \/ Interrupt
  <2>1. pc' = "idle" /\ UNCHANGED sortVars /\ library' = library
    BY <1>6 DEF Refuse, Interrupt
  <2>2. SortTypeOK' /\ Ordered' /\ Files' = Files
    BY <1>0, <2>1, SortUntouched
  <2>. QED  BY <1>0, <2>1, <2>2 DEF RunInv, Walk
<1>7. ASSUME NEW f \in DOMAIN library, NEW h \in Header, Edit(f, h) PROVE RunInv'
  <2>1. /\ UNCHANGED sortVars /\ UNCHANGED <<pc, at, seen, stack>>
        /\ library' = [library EXCEPT ![f] = h]
    BY <1>7 DEF Edit
  <2>2. SortTypeOK' /\ Ordered' /\ (IInv => IInv') /\ Files' = Files
    BY <1>0, <2>1, SortUntouched
  <2>3. library' \in [Files' -> Header]
    BY <1>0, <2>1, <2>2
  <2>4. Walk'
    <3>1. UNCHANGED <<sorted, records, remaining, sortpc>>
      BY <2>1 DEF sortVars
    <3>. QED  BY <1>0, <2>1, <3>1, SameRecords DEF Walk
  <2>. QED  BY <1>0, <2>1, <2>2, <2>3, <2>4 DEF RunInv
<1>8. CASE UNCHANGED vars
  <2>1. UNCHANGED sortVars /\ UNCHANGED <<library, pc, at, seen, stack>>
    BY <1>8 DEF vars, tagVars
  <2>2. SortTypeOK' /\ Ordered' /\ (IInv => IInv') /\ Files' = Files
    BY <1>0, <2>1, SortUntouched
  <2>3. Walk'
    <3>1. UNCHANGED <<sorted, records, remaining, sortpc>>
      BY <2>1 DEF sortVars
    <3>. QED  BY <1>0, <2>1, <3>1, SameRecords DEF Walk
  <2>. QED  BY <1>0, <2>1, <2>2, <2>3 DEF RunInv
<1>. QED
  BY <1>1, <1>2, <1>3, <1>4, <1>5, <1>6, <1>7, <1>8 DEF Next, Run

\* attach_kernel_dependency_tags never leaves RunInv: through any number of
\* runs, dry runs, interrupts and edits the sort and the walk are consistent.
THEOREM RunInvariance == Spec => []RunInv
BY InitRun, NextRun, PTL DEF Spec

-----------------------------------------------------------------------------

\* What a file needs stands before it, in every list that has each file
\* behind what it depends on.
LEMMA NeedsPrecede ==
  ASSUME NEW o \in Seq(Files), NEW i \in 1..Len(o),
         \A j \in 1..Len(o) : records[o[j]] \subseteq {o[k] : k \in 1..(j - 1)}
  PROVE  Needs(o[i]) \subseteq {o[j] : j \in 1..(i - 1)}
<1>. DEFINE before == {o[j] : j \in 1..(i - 1)}
<1>1. Len(o) \in Nat /\ o[i] \in Files /\ before \subseteq Files
  OBVIOUS
<1>2. Local(o[i]) \subseteq before
  BY DEF Local
<1>3. ASSUME NEW j \in 1..(i - 1) PROVE Local(o[j]) \subseteq before
  <2>1. j \in 1..Len(o)
    BY <1>1
  <2>2. records[o[j]] \subseteq {o[k] : k \in 1..(j - 1)}
    BY <2>1
  <2>3. {o[k] : k \in 1..(j - 1)} \subseteq before
    BY <1>1
  <2>. QED  BY <2>2, <2>3 DEF Local
<1>4. ClosedUnder(before)
  BY <1>3 DEF ClosedUnder
<1>. QED  BY <1>1, <1>2, <1>4, NeedsLeast

\* The walk's end follows from the invariant alone.
LEMMA WalkEnds == RunInv => WalkFindsNeeds
<1>. SUFFICES ASSUME RunInv, pc = "walk", stack = {}
              PROVE  /\ seen = Needs(sorted[at])
                     /\ seen \subseteq {sorted[i] : i \in 1..(at - 1)}
  BY DEF WalkFindsNeeds
<1>1. /\ SortTypeOK /\ Ordered
      /\ at \in 1..Len(sorted)
      /\ seen \subseteq Needs(sorted[at])
      /\ Local(sorted[at]) \subseteq seen
      /\ \A d \in seen : Local(d) \subseteq seen
  BY DEF RunInv, Walk
<1>2. sorted \in Seq(Files) /\ sorted[at] \in Files
  BY <1>1 DEF SortTypeOK
<1>3. seen \subseteq Files
  BY <1>1 DEF Needs
<1>4. Needs(sorted[at]) \subseteq seen
  BY <1>1, <1>2, <1>3, NeedsLeast DEF ClosedUnder
<1>5. Needs(sorted[at]) \subseteq {sorted[i] : i \in 1..(at - 1)}
  BY <1>1, <1>2, NeedsPrecede DEF Ordered
<1>. QED  BY <1>1, <1>4, <1>5

(***************************************************************************)
(* When the walk's stack is empty it has seen the transitive needs of the  *)
(* file, no more and no fewer, all of which the sort placed before it.     *)
(***************************************************************************)
THEOREM WalkIsExact == Spec => []WalkFindsNeeds
BY RunInvariance, WalkEnds, PTL

(***************************************************************************)
(* A file is rewritten only when every file of the library was sorted, and *)
(* never in a dry run.                                                     *)
(***************************************************************************)
THEOREM OnlyResolvedIsWritten == Spec => WritesOnlyResolved
<1>1. RunInv /\ [Next]_vars => [tag' # tag => ~ dryRun /\ Sorted = Files]_vars
  <2>. SUFFICES ASSUME RunInv, Next, tag' # tag PROVE ~ dryRun /\ Sorted = Files
    OBVIOUS
  <2>1. WriteTags
    BY DEF Next, Run, Start, SortStep, tagVars, Refuse, BeginTags, Visit,
           Interrupt, Edit
  <2>2. ~ dryRun /\ pc = "walk"
    BY <2>1 DEF WriteTags
  <2>3. IInv /\ sortpc = "done" /\ remaining = {}
    BY <2>2 DEF RunInv, Walk
  <2>4. Sorted \subseteq Files
    BY <2>3 DEF IInv, SortTypeOK, Sorted
  <2>. QED  BY <2>2, <2>3, <2>4 DEF IInv, Done
<1>. QED  BY RunInvariance, <1>1, PTL DEF Spec, WritesOnlyResolved

-----------------------------------------------------------------------------
(***************************************************************************)
(* The tags on disk.  A list of all files in the order of the passes is    *)
(* the only one, so the tags it gives a file depend on the library alone;  *)
(* that is why a later run, even one that is cut short, rewrites them with *)
(* what they are.                                                          *)
(***************************************************************************)
Lists(o) ==
  /\ o \in Seq(Files)
  /\ ByPasses(o)
  /\ Files = {o[i] : i \in 1..Len(o)}
  /\ \A i, j \in 1..Len(o) : o[i] = o[j] => i = j
  /\ \A i \in 1..Len(o) : records[o[i]] \subseteq {o[j] : j \in 1..(i - 1)}

TagAt(o, i) ==
  [order |-> i, all |-> Kept(o, Needs(o[i])), count |-> Len(Kept(o, Needs(o[i])))]

\* What the run in progress has written.
Written ==
  pc = "walk" /\ ~ dryRun =>
    \A i \in 1..(at - 1) : tag[sorted[i]] = TagAt(sorted, i)

\* What the last complete run wrote and nobody has edited since.
Settled ==
  settled =>
    /\ records = Records(library)
    /\ \E o \in Seq(Files) :
         Lists(o) /\ \A i \in 1..Len(o) : tag[o[i]] = TagAt(o, i)

TagInv ==
  /\ RunInv /\ TypeOK
  /\ pc # "idle" => Visiting
  /\ Written /\ Settled

-----------------------------------------------------------------------------

\* There is one load order that names every file.
LEMMA OneOrder ==
  ASSUME SortTypeOK, NEW s, NEW t, Lists(s), Lists(t)
  PROVE  s = t
<1>1. \A o : Lists(o) => o \in Seq(Files) /\ ByPasses(o) /\ Able(ToSet(o)) = {}
  BY ElementsOf DEF Lists, Able
<1>. QED  BY <1>1, SameEnds

\* The walk goes over the list of all files.
LEMMA WalkLists ==
  ASSUME IInv, Visiting, sortpc = "done", remaining = {}
  PROVE  Lists(sorted)
<1>1. sorted \in Seq(Files)
  BY DEF IInv, SortTypeOK
<1>2. Sorted \subseteq Files
  BY <1>1 DEF Sorted
<1>3. Files = Sorted
  BY <1>2 DEF IInv, Done
<1>. QED  BY <1>1, <1>3 DEF IInv, Ordered, Visiting, Lists, Sorted

\* The definitions above look at the records only.
LEMMA SameTags ==
  ASSUME records' = records
  PROVE  /\ \A o : Lists(o)' <=> Lists(o)
         /\ \A o, i : TagAt(o, i)' = TagAt(o, i)
<1>1. Files' = Files /\ \A f : Needs(f)' = Needs(f)
  BY SameRecords
<1>2. \A S : Able(S)' = Able(S)
  BY <1>1 DEF Able
<1>3. \A s, i : Before(s, i)' = Before(s, i) /\ Ahead(s, i)' = Ahead(s, i)
  BY <1>2 DEF Before, Ahead
<1>4. \A o : ByPasses(o)' <=> ByPasses(o)
  BY <1>2, <1>3 DEF ByPasses, First
<1>5. \A o : Lists(o)' <=> Lists(o)
  BY <1>1, <1>4 DEF Lists
<1>6. \A o, i : TagAt(o, i)' = TagAt(o, i)
  BY <1>1 DEF TagAt
<1>. QED  BY <1>5, <1>6

\* The tags a walk writes for the file it has walked.
LEMMA NewTagIs ==
  ASSUME RunInv, pc = "walk", stack = {}
  PROVE  NewTag = TagAt(sorted, at) /\ NewTag \in Tag /\ sorted[at] \in Files
<1>1. seen = Needs(sorted[at])
  BY WalkEnds DEF WalkFindsNeeds
<1>2. at \in 1..Len(sorted) /\ sorted \in Seq(Files) /\ Files \subseteq Stem
  BY DEF RunInv, Walk, SortTypeOK
<1>3. at \in Nat /\ sorted[at] \in Files
  BY <1>2
<1>4. sorted \in Seq(Stem)
  BY <1>2
<1>5. Kept(sorted, seen) \in Seq(Stem) /\ Len(Kept(sorted, seen)) \in Int
  <2>1. Kept(sorted, seen) \in Seq(Stem)
    BY <1>4, KeptFacts
  <2>. QED  BY <2>1
<1>6. NewTag = TagAt(sorted, at)
  BY <1>1, Zenon DEF NewTag, TagAt, InLoadOrder
<1>. QED  BY <1>3, <1>5, <1>6 DEF NewTag, Tag, InLoadOrder

-----------------------------------------------------------------------------

\* A library carries no tags before its first run.
LEMMA InitTags == Init => TagInv
<1>. SUFFICES ASSUME Init PROVE TagInv
  OBVIOUS
<1>1. RunInv
  BY InitRun
<1>2. /\ tag = [f \in DOMAIN library |-> NoTag] /\ pc = "idle" /\ dryRun = FALSE
      /\ at = 1 /\ seen = {} /\ stack = {} /\ runs = 0 /\ edits = 0
      /\ settled = FALSE
  BY DEF Init
<1>3. SortTypeOK /\ library \in [Files -> Header]
  BY <1>1 DEF RunInv
<1>4. NoTag \in Tag
  BY DEF NoTag, Tag
<1>5. tag \in [Files -> Tag]
  BY <1>2, <1>3, <1>4
<1>6. Len(sorted) \in Nat
  BY <1>3 DEF SortTypeOK
<1>7. TypeOK
  <2>1. at \in 1..(Len(sorted) + 1)
    BY <1>2, <1>6
  <2>2. runs \in 0..MaxRuns /\ edits \in 0..MaxEdits
    BY <1>2, MaxRunsAssumption, MaxEditsAssumption
  <2>. QED  BY <1>2, <1>3, <1>5, <2>1, <2>2 DEF TypeOK
<1>. QED  BY <1>1, <1>2, <1>7 DEF TagInv, Written, Settled

\* A step that rewrites no tag and no library keeps what was settled.
LEMMA SettledKept ==
  ASSUME Settled, records' = records, tag' = tag, settled' = settled,
         library' = library \/ ~ settled
  PROVE  Settled'
<1>1. Files' = Files
  BY SameRecords
<1>. QED  BY <1>1, SameTags DEF Settled, Records, RDepends

\* A step that leaves the sort alone leaves alone where it is in its passes.
LEMMA VisitingKept ==
  ASSUME TagInv, UNCHANGED sortVars, pc # "idle"
  PROVE  Visiting'
BY NextVisiting DEF TagInv, RunInv

\* When tags are written over those of a complete run on the same library,
\* nothing changes.
LEMMA RewritesSame ==
  ASSUME TagInv, settled, pc = "walk", stack = {}
  PROVE  [tag EXCEPT ![sorted[at]] = NewTag] = tag
<1>1. RunInv /\ TypeOK /\ Visiting /\ Settled
  BY DEF TagInv
<1>2. IInv /\ SortTypeOK /\ sortpc = "done" /\ remaining = {} /\ at \in 1..Len(sorted)
  BY <1>1 DEF RunInv, Walk
<1>3. PICK o \in Seq(Files) : Lists(o) /\ \A i \in 1..Len(o) : tag[o[i]] = TagAt(o, i)
  BY <1>1 DEF Settled
<1>4. sorted = o
  BY <1>1, <1>2, <1>3, WalkLists, OneOrder
<1>5. tag[sorted[at]] = NewTag
  BY <1>1, <1>2, <1>3, <1>4, NewTagIs
<1>6. tag \in [Files -> Tag]
  BY <1>1 DEF TypeOK
<1>. QED  BY <1>5, <1>6

\* A new run keeps what is settled: it reads the same library.
LEMMA StartTags == ASSUME TagInv, NEW dry \in BOOLEAN, Start(dry) PROVE TagInv'
<1>1. RunInv /\ TypeOK /\ Settled
  BY DEF TagInv
<1>2. RunInv'
  BY <1>1, NextRun DEF Next
<1>3. /\ records' = Records(library) /\ sorted' = <<>> /\ promoted' = {}
      /\ todo' = remaining' /\ pc' = "sort" /\ at' = 1 /\ dryRun' = dry
      /\ runs' = runs + 1 /\ runs < MaxRuns
      /\ UNCHANGED <<library, tag, seen, stack, edits, settled>>
  BY DEF Start
<1>4. SortTypeOK' /\ library \in [Files' -> Header] /\ library \in [Files -> Header]
  BY <1>1, <1>2, <1>3 DEF RunInv
<1>5. Files' = Files
  BY <1>4
<1>6. TypeOK'
  <2>1. at' \in 1..(Len(sorted') + 1)
    BY <1>3
  <2>2. runs' \in 0..MaxRuns
    BY <1>1, <1>3, MaxRunsAssumption DEF TypeOK
  <2>. QED  BY <1>1, <1>3, <1>4, <1>5, <2>1, <2>2 DEF TypeOK
<1>7. Visiting'
  BY <1>3 DEF Visiting, ByPasses
<1>8. Settled'
  <2>1. CASE settled
    BY <1>1, <1>3, <2>1, SettledKept DEF Settled
  <2>2. CASE ~ settled
    BY <1>3, <2>2 DEF Settled
  <2>. QED  BY <2>1, <2>2
<1>9. Written'
  BY <1>3 DEF Written
<1>. QED  BY <1>2, <1>6, <1>7, <1>8, <1>9 DEF TagInv

\* Writing the tags of a file.
LEMMA WriteTagsTags == TagInv /\ WriteTags => TagInv'
<1>. SUFFICES ASSUME TagInv, WriteTags PROVE TagInv'
  OBVIOUS
<1>1. RunInv /\ TypeOK /\ Visiting /\ Settled /\ Written
  BY DEF TagInv, WriteTags
<1>2. RunInv'
  BY <1>1, NextRun DEF Next, Run
<1>3. /\ pc = "walk" /\ stack = {} /\ at' = at + 1 /\ NextFile(at + 1)
      /\ tag' = IF dryRun THEN tag ELSE [tag EXCEPT ![sorted[at]] = NewTag]
      /\ settled' = IF at = Len(sorted) /\ ~ dryRun
                      THEN Records(library) = records
                      ELSE settled
      /\ UNCHANGED <<sortVars, library, dryRun, runs, edits>>
  BY DEF WriteTags
<1>4. UNCHANGED <<records, sorted, remaining, todo, promoted, sortpc>> /\ Files' = Files
  BY <1>3, SameRecords DEF sortVars
<1>5. /\ IInv /\ sortpc = "done" /\ remaining = {} /\ at \in 1..Len(sorted)
      /\ sorted \in Seq(Files) /\ Len(sorted) \in Nat
  BY <1>1, <1>3 DEF RunInv, Walk, SortTypeOK
<1>6. NewTag = TagAt(sorted, at) /\ NewTag \in Tag /\ sorted[at] \in Files
  BY <1>1, <1>3, NewTagIs
<1>7. TypeOK'
  <2>1. tag' \in [Files -> Tag]
    BY <1>1, <1>3, <1>6 DEF TypeOK
  <2>2. at' \in 1..(Len(sorted) + 1)
    BY <1>3, <1>5
  <2>3. seen' \subseteq Files /\ stack' \subseteq Files
    BY <1>1, <1>3, <1>5 DEF NextFile, TypeOK, Local
  <2>4. pc' \in {"idle", "sort", "walk"} /\ SortTypeOK' /\ library' \in [Files' -> Header]
    BY <1>2, <1>3 DEF RunInv
  <2>5. settled' \in BOOLEAN /\ dryRun' \in BOOLEAN
    BY <1>1, <1>3 DEF TypeOK
  <2>6. runs' \in 0..MaxRuns /\ edits' \in 0..MaxEdits
    BY <1>1, <1>3 DEF TypeOK
  <2>. QED  BY <1>4, <2>1, <2>2, <2>3, <2>4, <2>5, <2>6 DEF TypeOK
<1>8. Visiting'
  BY <1>3, VisitingKept
<1>9. ASSUME ~ dryRun
      PROVE  \A i \in 1..at : tag'[sorted[i]] = TagAt(sorted, i)
  <2>1. tag' = [tag EXCEPT ![sorted[at]] = NewTag] /\ tag \in [Files -> Tag]
    BY <1>1, <1>3, <1>9 DEF TypeOK
  <2>2. ASSUME NEW i \in 1..(at - 1) PROVE tag'[sorted[i]] = TagAt(sorted, i)
    <3>1. i \in 1..Len(sorted) /\ i # at
      BY <1>5
    <3>2. sorted[i] \in Files /\ sorted[i] # sorted[at]
      BY <1>5, <3>1 DEF IInv, Ordered
    <3>3. tag[sorted[i]] = TagAt(sorted, i)
      BY <1>1, <1>3, <1>9 DEF Written
    <3>. QED  BY <2>1, <3>2, <3>3
  <2>3. tag'[sorted[at]] = TagAt(sorted, at)
    BY <1>6, <2>1
  <2>4. \A i \in 1..at : i \in 1..(at - 1) \/ i = at
    BY <1>5
  <2>. QED  BY <2>2, <2>3, <2>4
<1>10. Written'
  <2>1. (at + 1) - 1 = at
    BY <1>5
  <2>2. (~ dryRun)' => \A i \in 1..(at' - 1) : tag'[sorted'[i]] = TagAt(sorted, i)
    BY <1>3, <1>4, <1>9, <2>1
  <2>3. \A i : TagAt(sorted, i)' = TagAt(sorted, i)
    BY <1>4, SameTags DEF TagAt
  <2>. QED  BY <2>2, <2>3 DEF Written
<1>11. Settled'
  <2>1. CASE at = Len(sorted) /\ ~ dryRun
    <3>1. PICK o \in Seq(Files) : o = sorted
      BY <1>5
    <3>2. Lists(o)
      BY <1>1, <1>5, <3>1, WalkLists
    <3>3. \A i \in 1..Len(o) : tag'[o[i]] = TagAt(o, i)
      BY <1>9, <2>1, <3>1
    <3>4. Lists(o)' /\ \A i : TagAt(o, i)' = TagAt(o, i)
      BY <1>4, <3>2, SameTags
    <3>5. settled' => records' = Records(library)'
      BY <1>3, <1>4, <2>1 DEF Records
    <3>. QED  BY <1>4, <3>3, <3>4, <3>5 DEF Settled
  <2>2. CASE ~ (at = Len(sorted) /\ ~ dryRun)
    <3>1. settled' = settled
      BY <1>3, <2>2
    <3>2. CASE settled
      <4>1. tag' = tag
        BY <1>3, <3>2, RewritesSame
      <4>. QED  BY <1>1, <1>3, <1>4, <3>1, <4>1, SettledKept
    <3>3. CASE ~ settled
      BY <3>1, <3>3 DEF Settled
    <3>. QED  BY <3>2, <3>3
  <2>. QED  BY <2>1, <2>2
<1>. QED  BY <1>2, <1>7, <1>8, <1>10, <1>11 DEF TagInv

\* Every step keeps the tags consistent with the library they were read from.
LEMMA NextTags == TagInv /\ [Next]_vars => TagInv'
<1>. SUFFICES ASSUME TagInv, [Next]_vars PROVE TagInv'
  OBVIOUS
<1>0. RunInv /\ TypeOK /\ Settled /\ Written /\ (pc # "idle" => Visiting)
  BY DEF TagInv
<1>1. RunInv'
  BY <1>0, NextRun
<1>2. SortTypeOK' /\ library' \in [Files' -> Header] /\ pc' \in {"idle", "sort", "walk"}
  BY <1>1 DEF RunInv
<1>3. ASSUME UNCHANGED <<sortVars, library, tag, dryRun, runs, edits, settled>>,
             at' = at, seen' \subseteq Files, stack' \subseteq Files,
             pc' # "idle" => pc # "idle",
             pc' = "walk" => pc = "walk" \/ at = 1
      PROVE  TagInv'
  <2>1. UNCHANGED <<records, sorted>> /\ Files' = Files
    BY <1>3, SameRecords DEF sortVars
  <2>2. TypeOK'
    BY <1>0, <1>2, <1>3, <2>1 DEF TypeOK
  <2>3. Settled'
    BY <1>0, <1>3, <2>1, SettledKept
  <2>4. Written'
    <3>1. pc' = "walk" /\ ~ dryRun => \A i \in 1..(at - 1) : tag[sorted[i]] = TagAt(sorted, i)
      BY <1>0, <1>3 DEF Written
    <3>2. \A i : TagAt(sorted, i)' = TagAt(sorted, i)
      BY <2>1, SameTags DEF TagAt
    <3>. QED  BY <1>3, <2>1, <3>1, <3>2 DEF Written
  <2>5. pc' # "idle" => Visiting'
    BY <1>3, VisitingKept
  <2>. QED  BY <1>1, <2>2, <2>3, <2>4, <2>5 DEF TagInv
<1>4. CASE SortStep
  <2>1. pc = "sort" /\ SortNext /\ UNCHANGED tagVars
    BY <1>4 DEF SortStep
  <2>2. UNCHANGED <<library, tag, pc, dryRun, at, seen, stack, runs, edits, settled>>
    BY <2>1 DEF tagVars
  <2>3. Visiting'
    BY <1>0, <2>1, NextVisiting DEF RunInv
  <2>4. records' = records /\ Files' = Files
    BY <2>1 DEF SortNext, PromoteRecord, PassOver, NextPass, FinishSort, Files
  <2>5. at' \in 1..(Len(sorted') + 1)
    <3>1. at' = 1
      BY <1>0, <2>1, <2>2 DEF RunInv
    <3>2. Len(sorted') \in Nat
      BY <1>2 DEF SortTypeOK
    <3>. QED  BY <3>1, <3>2
  <2>6. TypeOK'
    BY <1>0, <1>2, <2>2, <2>4, <2>5 DEF TypeOK
  <2>7. Settled'
    BY <1>0, <2>2, <2>4, SettledKept
  <2>8. Written'
    BY <2>1, <2>2 DEF Written
  <2>. QED  BY <1>1, <2>3, <2>6, <2>7, <2>8 DEF TagInv
<1>5. CASE Refuse \/ Interrupt
  BY <1>0, <1>3, <1>5 DEF Refuse, Interrupt, TypeOK
<1>6. CASE BeginTags
  <2>1. /\ pc = "sort" /\ at = 1 /\ NextFile(at)
        /\ UNCHANGED <<sortVars, library, tag, dryRun, at, runs, edits, settled>>
    BY <1>0, <1>6 DEF BeginTags, RunInv
  <2>2. seen' \subseteq Files /\ stack' \subseteq Files
    BY <1>0, <2>1 DEF NextFile, TypeOK, Local
  <2>. QED  BY <1>3, <2>1, <2>2
<1>7. ASSUME NEW d \in stack, Visit(d) PROVE TagInv'
  <2>1. seen' \subseteq Files /\ stack' \subseteq Files
    BY <1>0, <1>7 DEF Visit, TypeOK, Local
  <2>. QED  BY <1>3, <1>7, <2>1 DEF Visit
<1>8. ASSUME NEW f \in DOMAIN library, NEW h \in Header, Edit(f, h) PROVE TagInv'
  <2>1. /\ UNCHANGED <<sortVars, tag, pc, dryRun, at, seen, stack, runs>>
        /\ settled' = FALSE /\ edits < MaxEdits /\ edits' = edits + 1
    BY <1>8 DEF Edit
  <2>2. UNCHANGED <<records, sorted>> /\ Files' = Files
    BY <2>1, SameRecords DEF sortVars
  <2>3. edits' \in 0..MaxEdits
    BY <1>0, <2>1, MaxEditsAssumption DEF TypeOK
  <2>4. TypeOK'
    BY <1>0, <1>2, <2>1, <2>2, <2>3 DEF TypeOK
  <2>5. Written'
    <3>1. \A i : TagAt(sorted, i)' = TagAt(sorted, i)
      BY <2>2, SameTags DEF TagAt
    <3>. QED  BY <1>0, <2>1, <2>2, <3>1 DEF Written
  <2>6. pc' # "idle" => Visiting'
    BY <2>1, VisitingKept
  <2>. QED  BY <1>1, <2>1, <2>4, <2>5, <2>6 DEF TagInv, Settled
<1>9. CASE UNCHANGED vars
  BY <1>0, <1>3, <1>9 DEF vars, tagVars, TypeOK
<1>. QED
  BY <1>4, <1>5, <1>6, <1>7, <1>8, <1>9, StartTags, WriteTagsTags DEF Next, Run

\* The invariant holds through any number of runs, interrupts and edits.
THEOREM TagInvariance == Spec => []TagInv
BY InitTags, NextTags, PTL DEF Spec

\* The tags, the walk and the counters keep their types.
THEOREM TagTypes == Spec => []TypeOK
BY TagInvariance, PTL DEF TagInv

(***************************************************************************)
(* A run over a library that has not changed since its tags were written   *)
(* rewrites no file, wherever it is cut short.                             *)
(***************************************************************************)
THEOREM RerunIsIdle == Spec => RerunChangesNothing
<1>1. TagInv /\ [Next]_vars => [settled /\ settled' => tag' = tag]_vars
  <2>. SUFFICES ASSUME TagInv, Next, settled PROVE tag' = tag
    OBVIOUS
  <2>1. CASE WriteTags
    BY <2>1, RewritesSame DEF WriteTags
  <2>2. CASE ~ WriteTags
    BY <2>2 DEF Next, Run, Start, SortStep, tagVars, Refuse, BeginTags, Visit,
                Interrupt, Edit
  <2>. QED  BY <2>1, <2>2
<1>. QED  BY TagInvariance, <1>1, PTL DEF Spec, RerunChangesNothing

(***************************************************************************)
(* While nobody edits a @depends line the tags agree with the files: the   *)
(* ranks are a permutation, and @all_depends lists what a file needs, each *)
(* once, in the order of their ranks, behind which the file itself comes.  *)
(***************************************************************************)
THEOREM SettledTagsAreRight == Spec => []SettledTagsAgree
<1>1. TagInv => SettledTagsAgree
  <2>. SUFFICES ASSUME TagInv, settled
                PROVE
          /\ {tag[f].order : f \in Files} = 1..Cardinality(Files)
          /\ \A f \in Files :
               /\ tag[f].count = Len(tag[f].all)
               /\ Records(library)[f] \subseteq {tag[f].all[i] : i \in 1..Len(tag[f].all)}
               /\ \A d \in {tag[f].all[i] : i \in 1..Len(tag[f].all)} :
                    Records(library)[d] \subseteq {tag[f].all[i] : i \in 1..Len(tag[f].all)}
               /\ \A i \in 1..Len(tag[f].all) : tag[tag[f].all[i]].order < tag[f].order
               /\ \A i, j \in 1..Len(tag[f].all) :
                    i < j => tag[tag[f].all[i]].order < tag[tag[f].all[j]].order
    BY DEF SettledTagsAgree
  <2>1. Records(library) = records
    BY DEF TagInv, Settled
  <2>2. PICK o \in Seq(Files) : Lists(o) /\ \A i \in 1..Len(o) : tag[o[i]] = TagAt(o, i)
    BY DEF TagInv, Settled
  <2>3. /\ Files = {o[i] : i \in 1..Len(o)}
        /\ \A i, j \in 1..Len(o) : o[i] = o[j] => i = j
        /\ \A i \in 1..Len(o) : records[o[i]] \subseteq {o[j] : j \in 1..(i - 1)}
    BY <2>2, Zenon DEF Lists
  <2>4. \A i \in 1..Len(o) :
          /\ o[i] \in Files /\ tag[o[i]].order = i
          /\ tag[o[i]].all = Kept(o, Needs(o[i]))
          /\ tag[o[i]].count = Len(Kept(o, Needs(o[i])))
    <3>1. ASSUME NEW i \in 1..Len(o) PROVE o[i] \in Files /\ tag[o[i]] = TagAt(o, i)
      BY <2>2
    <3>2. \A i : /\ TagAt(o, i).order = i
                /\ TagAt(o, i).all = Kept(o, Needs(o[i]))
                /\ TagAt(o, i).count = Len(Kept(o, Needs(o[i])))
      BY DEF TagAt
    <3>. QED  BY <3>1, <3>2
  <2>5. Cardinality(Files) = Len(o)
    BY <2>3, ListLength
  <2>6. {tag[f].order : f \in Files} = 1..Len(o)
    <3>1. ASSUME NEW f \in Files PROVE tag[f].order \in 1..Len(o)
      <4>1. PICK i \in 1..Len(o) : f = o[i]
        BY <2>3
      <4>. QED  BY <2>4, <4>1
    <3>2. \A i \in 1..Len(o) : o[i] \in Files /\ tag[o[i]].order = i
      BY <2>4
    <3>. QED  BY <3>1, <3>2, Zenon
  <2>7. ASSUME NEW f \in Files
        PROVE
          /\ tag[f].count = Len(tag[f].all)
          /\ records[f] \subseteq {tag[f].all[i] : i \in 1..Len(tag[f].all)}
          /\ \A d \in {tag[f].all[i] : i \in 1..Len(tag[f].all)} :
               records[d] \subseteq {tag[f].all[i] : i \in 1..Len(tag[f].all)}
          /\ \A i \in 1..Len(tag[f].all) : tag[tag[f].all[i]].order < tag[f].order
          /\ \A i, j \in 1..Len(tag[f].all) :
               i < j => tag[tag[f].all[i]].order < tag[tag[f].all[j]].order
    <3>1. PICK n \in 1..Len(o) : f = o[n]
      BY <2>3
    <3>. DEFINE all == Kept(o, Needs(f))
    <3>2. tag[f].all = all /\ tag[f].count = Len(all) /\ tag[f].order = n
      BY <2>4, <3>1
    <3>3. /\ all \in Seq(Files)
          /\ ToSet(all) = ToSet(o) \cap Needs(f)
          /\ \E p : PlacesKept(p, o, Needs(f))
      BY KeptFacts
    <3>4. PICK p \in [1..Len(all) -> 1..Len(o)] :
            /\ \A k \in 1..Len(all) : all[k] = o[p[k]]
            /\ \A k, l \in 1..Len(all) : k < l => p[k] < p[l]
      BY <3>3 DEF PlacesKept
    <3>. HIDE DEF all
    <3>5. {all[k] : k \in 1..Len(all)} = Needs(f)
      <4>1. ToSet(all) = {all[k] : k \in 1..Len(all)}
        BY <3>3, ElementsOf
      <4>2. ToSet(o) = {o[i] : i \in 1..Len(o)}
        BY ElementsOf
      <4>. QED  BY <2>3, <3>3, <4>1, <4>2 DEF Needs
    <3>6. \A g \in Files : Local(g) = records[g]
      <4>1. ASSUME NEW g \in Files PROVE records[g] \subseteq Files
        <5>1. PICK i \in 1..Len(o) : g = o[i]
          BY <2>3
        <5>2. {o[j] : j \in 1..(i - 1)} \subseteq Files
          <6>1. \A j \in 1..(i - 1) : j \in 1..Len(o)
            OBVIOUS
          <6>. QED  BY <6>1
        <5>. QED  BY <2>3, <5>1, <5>2
      <4>. QED  BY <4>1 DEF Local
    <3>7. records[f] \subseteq Needs(f) /\ \A d \in Needs(f) : records[d] \subseteq Needs(f)
      <4>1. Needs(f) \subseteq Files
        BY DEF Needs
      <4>. QED  BY <3>6, <4>1, NeedsClosed
    <3>8. ASSUME NEW k \in 1..Len(all)
          PROVE  tag[all[k]].order = p[k] /\ p[k] < n /\ p[k] \in Int
      <4>1. p[k] \in 1..Len(o) /\ all[k] = o[p[k]]
        BY <3>4
      <4>2. tag[all[k]].order = p[k]
        BY <2>4, <4>1
      <4>3. all[k] \in Needs(f)
        BY <3>5
      <4>4. PICK j \in 1..(n - 1) : all[k] = o[j]
        <5>1. Needs(o[n]) \subseteq {o[j] : j \in 1..(n - 1)}
          BY <2>3, NeedsPrecede
        <5>. QED  BY <3>1, <4>3, <5>1
      <4>5. j \in 1..Len(o) /\ j < n
        <5>1. Len(o) \in Nat
          OBVIOUS
        <5>. QED  BY <5>1
      <4>6. p[k] = j
        BY <2>3, <4>1, <4>4, <4>5
      <4>. QED  BY <4>1, <4>2, <4>5, <4>6
    <3>9. \A k \in 1..Len(all) : tag[all[k]].order < n
      BY <3>8
    <3>10. \A k, l \in 1..Len(all) : k < l => tag[all[k]].order < tag[all[l]].order
      BY <3>4, <3>8
    <3>. QED  BY <3>2, <3>5, <3>7, <3>9, <3>10
  <2>. QED  BY <2>1, <2>5, <2>6, <2>7
<1>. QED  BY TagInvariance, <1>1, PTL

-----------------------------------------------------------------------------
(***************************************************************************)
(* The tags and the index.                                                 *)
(***************************************************************************)

\* What a file needs is what the index lists for it.
LEMMA NeedsAreTransitive ==
  ASSUME NEW f \in Files
  PROVE  Needs(f) = TransitiveDepends(records, f)
<1>. DEFINE T == TransitiveDepends(records, f)
<1>1. /\ T \in SUBSET Files
      /\ \A d \in T \cup {f} : records[d] \cap Files \subseteq T
      /\ \A S \in SUBSET Files :
           (\A d \in S \cup {f} : records[d] \cap Files \subseteq S) => T \subseteq S
  BY TransitiveFacts DEF Files
<1>. HIDE DEF T
<1>2. Needs(f) \subseteq T
  BY <1>1, NeedsLeast DEF Local, ClosedUnder
<1>3. T \subseteq Needs(f)
  <2>1. Needs(f) \in SUBSET Files
    BY DEF Needs
  <2>2. \A d \in Needs(f) \cup {f} : records[d] \cap Files \subseteq Needs(f)
    BY NeedsClosed DEF Local
  <2>. QED  BY <1>1, <2>1, <2>2
<1>. QED  BY <1>2, <1>3 DEF T

\* The list of all files in the order of the passes is the one of the index.
LEMMA ListsIndex ==
  ASSUME SortTypeOK, NEW o, Lists(o)
  PROVE  o = SortedFiles(records)
<1>. DEFINE t == SortedFiles(records)
<1>1. o \in Seq(Files) /\ ByPasses(o) /\ Len(o) \in Nat /\ ToSet(o) = Files
  BY ElementsOf DEF Lists
<1>2. IsFiniteSet(Files)
  <2>1. IsFiniteSet(1..Len(o))
    BY <1>1, FS_Interval
  <2>2. o \in Surjection(1..Len(o), Files)
    BY <1>1 DEF Lists, Surjection
  <2>. QED  BY <2>1, <2>2, FS_Surjection
<1>3. t \in Seq(Files) /\ ByPasses(t) /\ Able(ToSet(t)) = {}
  BY <1>2, SortedRested DEF Rested, Orders, Files
<1>. HIDE DEF t
<1>4. Able(ToSet(o)) = {}
  BY <1>1 DEF Able
<1>5. o = t
  BY <1>1, <1>3, <1>4, SameEnds
<1>. QED  BY <1>5 DEF t

(***************************************************************************)
(* attach_kernel_dependency_tags and write_kernel_dependency_index agree:  *)
(* the ranks in the files are the places of the index, and @all_depends of *)
(* a file is the list the index of the same library has for it.            *)
(***************************************************************************)
THEOREM TagsAgreeWithIndex ==
  Spec => [](settled =>
    \A f \in Files :
      /\ IndexOf(Records(library)).order[tag[f].order] = f
      /\ tag[f].all = InIndexOrder(IndexOf(Records(library)),
                                   IndexOf(Records(library)).all[f]))
<1>1. TagInv =>
        (settled =>
           \A f \in Files :
             /\ IndexOf(Records(library)).order[tag[f].order] = f
             /\ tag[f].all = InIndexOrder(IndexOf(Records(library)),
                                          IndexOf(Records(library)).all[f]))
  <2>. DEFINE index == IndexOf(Records(library))
  <2>. SUFFICES ASSUME TagInv, settled, NEW f \in Files
                PROVE  /\ index.order[tag[f].order] = f
                       /\ tag[f].all = InIndexOrder(index, index.all[f])
    OBVIOUS
  <2>1. Records(library) = records /\ SortTypeOK
    BY DEF TagInv, RunInv, Settled
  <2>2. PICK o \in Seq(Files) : Lists(o) /\ \A i \in 1..Len(o) : tag[o[i]] = TagAt(o, i)
    BY DEF TagInv, Settled
  <2>3. index.order = o /\ index.all[f] = Needs(f)
    <3>1. o = SortedFiles(records)
      BY <2>1, <2>2, ListsIndex
    <3>2. index.order = SortedFiles(records)
      BY <2>1 DEF IndexOf
    <3>3. index.all[f] = TransitiveDepends(records, f)
      BY <2>1 DEF IndexOf, Files
    <3>. QED  BY <3>1, <3>2, <3>3, NeedsAreTransitive
  <2>. HIDE DEF index
  <2>4. Files = {o[i] : i \in 1..Len(o)}
    BY <2>2, Zenon DEF Lists
  <2>5. PICK i \in 1..Len(o) : f = o[i]
    BY <2>4
  <2>6. tag[f].order = i /\ tag[f].all = Kept(o, Needs(f))
    <3>1. tag[f] = TagAt(o, i)
      BY <2>2, <2>5
    <3>. QED  BY <2>5, <3>1 DEF TagAt
  <2>. QED  BY <2>3, <2>5, <2>6 DEF InIndexOrder
<1>. QED  BY TagInvariance, <1>1, PTL

-----------------------------------------------------------------------------
(***************************************************************************)
(* stage_kernel_dependency_sort, for every library, with and without an    *)
(* earlier directory.                                                      *)
(***************************************************************************)

StageTypeOK ==
  /\ SortTypeOK
  /\ outdir \in {"absent", "earlier", "own"}
  /\ copied \in Nat
  /\ staged \subseteq 1..copied
  /\ leftover \subseteq Files
  /\ refused \subseteq Files
  /\ reports \subseteq {"sorted_files.csv", "unresolved_files.csv"}
  /\ stage \in {"called", "made", "sorting", "copying", "done", "stopped"}

\* Where the sort is in each stage.  It keeps its invariant from the moment
\* there is a file to sort; a call that stops may never have begun it.
Sorting ==
  /\ stage \in {"called", "made"} =>
       /\ sortpc = "pass" /\ sorted = <<>> /\ promoted = {}
       /\ remaining = Files /\ todo = Files
  /\ stage = "stopped" => sortpc = "pass"
  /\ stage = "sorting" => IInv /\ sortpc = "pass"
  /\ stage \in {"copying", "done"} => IInv /\ sortpc = "done"

\* What has been written: first the load order, then what remained of the
\* sort, then the reports, and all of it into a directory of this call.  Of
\* what has been gone through, a file has its copy or was refused one.
Copying ==
  /\ stage \notin {"called", "stopped"} => outdir = "own"
  /\ stage \notin {"copying", "done"} =>
       copied = 0 /\ staged = {} /\ leftover = {} /\ refused = {} /\ reports = {}
  /\ copied <= Len(sorted)
  /\ \A i \in 1..copied : i \in staged <=> sorted[i] \notin refused
  /\ refused \subseteq {sorted[i] : i \in 1..copied} \cup remaining
  /\ leftover \subseteq remaining \ refused
  /\ reports # {} => copied = Len(sorted) /\ remaining \subseteq leftover \cup refused

StageInv == StageTypeOK /\ Sorting /\ Copying

\* A call begins with nothing sorted and nothing written.
LEMMA InitStage == StageInit => StageInv
<1>. SUFFICES ASSUME StageInit PROVE StageInv
  OBVIOUS
<1>1. PICK lib \in Library(Header) : BeginSort(Records(lib))
  BY DEF StageInit
<1>2. /\ records = Records(lib) /\ sorted = <<>> /\ sortpc = "pass"
      /\ remaining = Files /\ todo = Files /\ promoted = {}
  BY <1>1 DEF BeginSort, Files
<1>3. records \in [Files -> SUBSET Stem] /\ Files \subseteq Stem
  BY <1>2, RecordsType DEF Files
<1>. QED
  BY <1>2, <1>3 DEF StageInit, StageInv, StageTypeOK, SortTypeOK, Sorting, Copying

\* The sort's invariant holds when it begins with at least one file.
LEMMA SortBegins ==
  ASSUME SortTypeOK, Files # {}, sortpc = "pass", sorted = <<>>, promoted = {},
         remaining = Files, todo = Files
  PROVE  IInv
<1>1. Sorted = {}
  BY DEF Sorted
<1>. QED  BY <1>1 DEF IInv, Ordered, Pass, Done

\* Every step of the call preserves the invariant.
LEMMA NextStage == StageInv /\ [StageNext]_stagedSortVars => StageInv'
<1>. SUFFICES ASSUME StageInv, [StageNext]_stagedSortVars PROVE StageInv'
  OBVIOUS
<1>0. StageTypeOK /\ Sorting /\ Copying
  BY DEF StageInv
<1>1. ASSUME UNCHANGED sortVars
      PROVE  /\ SortTypeOK' /\ Files' = Files /\ (IInv => IInv')
             /\ (sorted' = sorted /\ remaining' = remaining /\ todo' = todo)
             /\ promoted' = promoted /\ sortpc' = sortpc
  <2>1. Files' = Files
    BY <1>1 DEF sortVars, Files
  <2>. QED
    BY <1>0, <1>1, <2>1, NextIInv DEF StageTypeOK, SortTypeOK, sortVars
<1>2. CASE RefuseDirectory
  BY <1>0, <1>1, <1>2
  DEF RefuseDirectory, copyVars, StageInv, StageTypeOK, Sorting, Copying
<1>3. CASE MakeDirectory
  BY <1>0, <1>1, <1>3
  DEF MakeDirectory, copyVars, StageInv, StageTypeOK, Sorting, Copying
<1>4. CASE ReadRecords
  <2>1. Files # {} => IInv
    BY <1>0, <1>4, SortBegins DEF ReadRecords, StageTypeOK, Sorting
  <2>. QED
    BY <1>0, <1>1, <1>4, <2>1
    DEF ReadRecords, copyVars, StageInv, StageTypeOK, Sorting, Copying
<1>5. CASE StageSort
  <2>1. IInv /\ stage = "sorting" /\ sortpc = "pass"
    BY <1>0, <1>5 DEF StageSort, Sorting
  <2>2. IInv'
    BY <1>5, <2>1, NextIInv DEF StageSort
  <2>3. SortTypeOK' /\ sortpc' \in {"pass", "done"}
    BY <2>2 DEF IInv, SortTypeOK
  <2>4. UNCHANGED <<outdir, copyVars, reports>>
    BY <1>5 DEF StageSort
  <2>5. /\ copied = 0 /\ staged = {} /\ leftover = {} /\ refused = {}
        /\ reports = {} /\ outdir = "own" /\ Len(sorted') \in Nat
    BY <1>0, <2>1, <2>3 DEF Copying, SortTypeOK
  <2>6. stage' = IF sortpc' = "done" THEN "copying" ELSE "sorting"
    BY <1>5, <2>1 DEF StageSort
  <2>7. StageTypeOK'
    BY <2>3, <2>4, <2>5, <2>6 DEF StageTypeOK, copyVars
  <2>8. Sorting'
    BY <2>2, <2>3, <2>6 DEF Sorting
  <2>9. Copying'
    BY <2>4, <2>5, <2>6 DEF Copying, copyVars
  <2>. QED  BY <2>7, <2>8, <2>9 DEF StageInv
<1>6. ASSUME NEW made \in BOOLEAN, CopySorted(made) PROVE StageInv'
  <2>1. /\ UNCHANGED <<sortVars, outdir, leftover, reports, stage>>
        /\ stage = "copying" /\ copied < Len(sorted) /\ copied' = copied + 1
        /\ staged' = IF made THEN staged \cup {copied'} ELSE staged
        /\ refused' = IF made THEN refused ELSE refused \cup {sorted[copied']}
    BY <1>6 DEF CopySorted
  <2>2. /\ sorted \in Seq(Files) /\ copied \in Nat /\ Len(sorted) \in Nat
        /\ staged \subseteq 1..copied /\ refused \subseteq Files
    BY <1>0 DEF StageTypeOK, SortTypeOK
  <2>3. copied + 1 \in 1..Len(sorted) /\ sorted[copied + 1] \in Sorted /\ Sorted \subseteq Files
    BY <2>1, <2>2 DEF Sorted
  <2>4. IInv /\ sortpc = "done"
    BY <1>0, <2>1 DEF Sorting
  <2>5. \A i \in 1..copied : i \in 1..Len(sorted) /\ sorted[i] # sorted[copied + 1]
    <3>1. \A i \in 1..copied : i \in 1..Len(sorted) /\ i # copied + 1
      BY <2>1, <2>2
    <3>. QED  BY <2>3, <2>4, <3>1 DEF IInv, Ordered
  <2>6. sorted[copied + 1] \notin remaining
    BY <2>3, <2>4 DEF IInv, Done
  <2>7. sorted[copied + 1] \notin refused
    BY <1>0, <2>5, <2>6 DEF Copying
  <2>8. 1..(copied + 1) = 1..copied \cup {copied + 1} /\ copied + 1 \notin 1..copied
    BY <2>2
  <2>9. StageTypeOK' /\ Sorting'
    BY <1>0, <1>1, <2>1, <2>2, <2>3, <2>8 DEF StageTypeOK, Sorting
  <2>10. reports = {}
    BY <1>0, <2>1, <2>2 DEF Copying
  <2>11. \A i \in 1..copied' : i \in staged' <=> sorted[i] \notin refused'
    BY <1>0, <2>1, <2>2, <2>5, <2>7, <2>8 DEF Copying
  <2>12. refused' \subseteq {sorted[i] : i \in 1..copied'} \cup remaining
    <3>1. \A i \in 1..copied : i \in 1..copied'
      BY <2>1, <2>8
    <3>2. copied' \in 1..copied'
      BY <2>1, <2>8
    <3>3. refused \subseteq {sorted[i] : i \in 1..copied} \cup remaining
      BY <1>0 DEF Copying
    <3>. QED  BY <2>1, <3>1, <3>2, <3>3
  <2>13. leftover \subseteq remaining \ refused'
    BY <1>0, <2>1, <2>6 DEF Copying
  <2>14. outdir = "own" /\ copied' <= Len(sorted)
    BY <1>0, <2>1, <2>2 DEF Copying
  <2>15. Copying'
    BY <1>1, <2>1, <2>10, <2>11, <2>12, <2>13, <2>14 DEF Copying
  <2>. QED  BY <2>9, <2>15 DEF StageInv
<1>7. ASSUME NEW f \in Files, NEW made \in BOOLEAN, CopyUnresolved(f, made) PROVE StageInv'
  <2>1. /\ f \in remaining /\ f \notin leftover /\ f \notin refused
        /\ stage = "copying" /\ copied = Len(sorted)
        /\ UNCHANGED <<sortVars, outdir, copied, staged, reports, stage>>
        /\ leftover' = IF made THEN leftover \cup {f} ELSE leftover
        /\ refused' = IF made THEN refused ELSE refused \cup {f}
    BY <1>7 DEF CopyUnresolved, First
  <2>2. IInv /\ sortpc = "done"
    BY <1>0, <2>1 DEF Sorting
  <2>3. \A i \in 1..copied : sorted[i] # f
    BY <2>1, <2>2 DEF IInv, Done, Sorted
  <2>4. StageTypeOK' /\ Sorting'
    BY <1>0, <1>1, <2>1 DEF StageTypeOK, Sorting
  <2>5. reports = {}
    BY <1>0, <2>1 DEF Copying
  <2>6. Copying'
    BY <1>0, <1>1, <2>1, <2>3, <2>5 DEF Copying
  <2>. QED  BY <2>4, <2>6 DEF StageInv
<1>8. ASSUME NEW name \in {"sorted_files.csv", "unresolved_files.csv"}, WriteReport(name)
      PROVE  StageInv'
  BY <1>0, <1>1, <1>8 DEF WriteReport, copyVars, StageInv, StageTypeOK, Sorting, Copying
<1>9. CASE UNCHANGED stagedSortVars
  BY <1>0, <1>1, <1>9
  DEF stagedSortVars, stageVars, copyVars, StageInv, StageTypeOK, Sorting, Copying
<1>. QED
  BY <1>2, <1>3, <1>4, <1>5, <1>6, <1>7, <1>8, <1>9 DEF StageNext, StageStep

\* The invariant holds of every call, whatever the library.
THEOREM StageInvariance == StageSpec => []StageInv
BY InitStage, NextStage, PTL DEF StageSpec

(***************************************************************************)
(* At any moment of a call, and so whenever it dies, what a copy needs is  *)
(* copied under a lower number, or was refused its copy; nothing older     *)
(* lies among the copies, none of the files put aside could have been      *)
(* placed, and when a report is written every file is in one directory,    *)
(* and in one only, or was refused.                                        *)
(***************************************************************************)
THEOREM StagedCopiesAreSorted == StageSpec => []StagedAsSorted
<1>1. StageInv => StagedAsSorted
  <2>. SUFFICES ASSUME StageInv PROVE StagedAsSorted
    OBVIOUS
  <2>0. StageTypeOK /\ Sorting /\ Copying
    BY DEF StageInv
  <2>1. /\ copied \in Nat /\ Len(sorted) \in Nat /\ copied <= Len(sorted)
        /\ staged \subseteq 1..copied /\ sorted \in Seq(Files)
    BY <2>0 DEF StageTypeOK, SortTypeOK, Copying
  <2>2. stage \in {"copying", "done"} => IInv /\ sortpc = "done"
    BY <2>0 DEF Sorting
  <2>3. \A i \in 1..copied : i \in 1..Len(sorted)
    BY <2>1
  <2>4. Staged \subseteq Sorted /\ Sorted \subseteq Files
    BY <2>1, <2>3 DEF Staged, Sorted
  <2>5. Staged \cup leftover \cup reports # {} =>
          /\ IInv /\ sortpc = "done" /\ outdir = "own" /\ remaining = Files \ Sorted
    <3>1. Staged \cup leftover \cup reports # {} => stage \in {"copying", "done"}
      BY <2>0 DEF Copying, Staged
    <3>. QED  BY <2>0, <2>2, <3>1 DEF Copying, IInv, Done
  <2>6. ASSUME NEW i \in staged
        PROVE  records[sorted[i]] \subseteq
                 {sorted[j] : j \in {k \in staged : k < i}} \cup refused
    <3>1. i \in 1..copied /\ i \in 1..Len(sorted) /\ sorted[i] \in Staged
      BY <2>1, <2>3 DEF Staged
    <3>2. records[sorted[i]] \subseteq {sorted[j] : j \in 1..(i - 1)}
      BY <2>5, <3>1 DEF IInv, Ordered
    <3>3. \A j \in 1..(i - 1) : j \in 1..copied /\ j < i
      BY <2>1, <3>1
    <3>4. \A j \in 1..(i - 1) : j \in {k \in staged : k < i} \/ sorted[j] \in refused
      BY <2>0, <3>3 DEF Copying
    <3>. QED  BY <3>2, <3>4
  <2>7. \A f \in leftover : ~ (records[f] \subseteq Sorted)
    BY <2>0, <2>5 DEF Copying, IInv, Done
  <2>8. Staged \cap leftover = {}
    BY <2>0, <2>4, <2>5 DEF Copying
  <2>9. refused \cap (Staged \cup leftover) = {}
    BY <2>0, <2>1 DEF Copying, Staged
  <2>10. reports # {} => Staged \cup leftover \cup refused = Files
    <3>. SUFFICES ASSUME reports # {} PROVE Staged \cup leftover \cup refused = Files
      OBVIOUS
    <3>1. Sorted \subseteq Staged \cup refused
      BY <2>0 DEF Copying, Sorted, Staged
    <3>2. Files \ Sorted \subseteq leftover \cup refused
      BY <2>0, <2>5 DEF Copying
    <3>3. leftover \subseteq Files /\ refused \subseteq Files
      BY <2>0 DEF StageTypeOK
    <3>. QED  BY <2>4, <3>1, <3>2, <3>3
  <2>11. Staged \cup leftover # {} => outdir = "own"
    BY <2>5
  <2>. QED  BY <2>6, <2>7, <2>8, <2>9, <2>10, <2>11 DEF StagedAsSorted
<1>. QED  BY StageInvariance, <1>1, PTL

-----------------------------------------------------------------------------
(***************************************************************************)
(* The sort inside such a call keeps what is proved of it alone; a call    *)
(* that stops before it sorts has placed nothing.                          *)
(***************************************************************************)

\* The sort has its invariant, or is where it begins.
LEMMA StagedSort == StageInv => SortTypeOK /\ (IInv \/ sortpc = "pass")
BY DEF StageInv, StageTypeOK, Sorting

\* A step of the call is a step of the abstract sort, or a stutter.
LEMMA StageRefines == StageInv /\ [StageNext]_stagedSortVars => [LO!Next]_(LO!vars)
<1>. SUFFICES ASSUME StageInv, [StageNext]_stagedSortVars PROVE [LO!Next]_(LO!vars)
  OBVIOUS
<1>1. CASE StageSort
  <2>1. IInv /\ SortNext
    BY <1>1 DEF StageSort, StageInv, Sorting
  <2>. QED  BY <2>1, NextRefines
<1>2. CASE UNCHANGED sortVars
  BY <1>2 DEF sortVars, outcome, LO!vars
<1>. QED
  BY <1>1, <1>2
  DEF StageNext, StageStep, RefuseDirectory, MakeDirectory, ReadRecords, CopySorted,
      CopyUnresolved, WriteReport, stagedSortVars

\* The records of a staged library keep their types, and the sort's loops theirs.
THEOREM StagedSortTypes == StageSpec => []SortTypeOK
BY StageInvariance, StagedSort, PTL

(***************************************************************************)
(* What a staging call leaves unresolved is what no order could place.     *)
(***************************************************************************)
THEOREM StagedOutcome == StageSpec => []EndsAtSortable
<1>1. StageInv => EndsAtSortable
  <2>1. ASSUME sortpc = "pass" PROVE LO!EndsAtSortable
    BY <2>1 DEF outcome, LO!EndsAtSortable
  <2>. QED  BY <2>1, StagedSort, SortEnds DEF EndsAtSortable
<1>. QED  BY StageInvariance, <1>1, PTL

(***************************************************************************)
(* The report a staging call writes names every cycle of two to four files *)
(* among those it puts aside.                                              *)
(***************************************************************************)
THEOREM StagedReportMissesNoCycle == StageSpec => []CyclesReported
<1>1. StageInv => CyclesReported
  <2>1. ASSUME sortpc = "pass" PROVE CyclesReported
    BY <2>1 DEF CyclesReported
  <2>. QED  BY <2>1, StagedSort, ReportComplete
<1>. QED  BY StageInvariance, <1>1, PTL

(***************************************************************************)
(* A staging call implements the abstract sort, whether it sorts, stops at *)
(* an empty library or refuses its directory.                              *)
(***************************************************************************)
THEOREM StagedRefinement == StageSpec => ImplementsLoadOrder
<1>1. StageInit => LO!Init
  <2>. SUFFICES ASSUME StageInit PROVE LO!Init
    OBVIOUS
  <2>1. PICK lib \in Library(Header) : BeginSort(Records(lib))
    BY DEF StageInit
  <2>2. sorted = <<>> /\ outcome = "sorting"
    BY <2>1 DEF BeginSort, outcome
  <2>3. Files \in SUBSET Stem /\ records \in [Files -> SUBSET Name]
    BY InitStage DEF StageInv, StageTypeOK, SortTypeOK, Name
  <2>. QED  BY <2>2, <2>3 DEF LO!Init
<1>. QED
  BY <1>1, StageInvariance, StageRefines, PTL DEF StageSpec, ImplementsLoadOrder, LO!Spec
=============================================================================
