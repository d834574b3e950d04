-------------------------- MODULE RDependencySort --------------------------
(***************************************************************************)
(* dependency_sort_prefix, the sort behind stage_kernel_dependency_sort,   *)
(* attach_kernel_dependency_tags and write_kernel_dependency_index, with   *)
(* the cycle report the tools print when it does not resolve a library.    *)
(* Unlike the C++ loader it visits all files in every pass, keeps what it  *)
(* could sort and stops as soon as a pass promotes nothing or everything.  *)
(***************************************************************************)
EXTENDS PortAnnotations, Sequences

VARIABLES
  records,     \* [files read -> the stems each one depends on]
  sorted,      \* names(sorted), in order; sorted_files is the same vector
  remaining,   \* names(remaining)
  todo,        \* what the for loop at hand has not visited yet
  promoted,    \* what this pass has promoted
  sortpc       \* "pass", then "done"

sortVars == <<records, sorted, remaining, todo, promoted, sortpc>>

Files == DOMAIN records

Sorted == {sorted[i] : i \in 1..Len(sorted)}

First(f, S) == f \in S /\ \A g \in S : f <= g

\* read_kernel_sort_records: every file's @depends, as the R parser reads it.
Records(library) == [f \in DOMAIN library |-> RDepends(library[f])]

-----------------------------------------------------------------------------

BeginSort(read) ==
  /\ records = read
  /\ sorted = <<>>
  /\ remaining = DOMAIN read
  /\ todo = DOMAIN read
  /\ promoted = {}
  /\ sortpc = "pass"

\* "No .cl files found": an empty directory is not sorted.
SortInit ==
  \E library \in Library(Header) :
    DOMAIN library # {} /\ BeginSort(Records(library))

\* Mutant: a dependency that is no file of the library counts as sorted.
PromoteRecord_IgnoresForeign(f) ==
  /\ sortpc = "pass"
  /\ First(f, todo)
  /\ records[f] \cap Files \subseteq Sorted
  /\ sorted' = Append(sorted, f)
  /\ promoted' = promoted \cup {f}
  /\ todo' = todo \ {f}
  /\ UNCHANGED <<records, remaining, sortpc>>

PromoteRecord(f) ==
  /\ sortpc = "pass"
  /\ First(f, todo)
  /\ records[f] \subseteq Sorted
  /\ sorted' = Append(sorted, f)
  /\ promoted' = promoted \cup {f}
  /\ todo' = todo \ {f}
  /\ UNCHANGED <<records, remaining, sortpc>>

PassOver(f) ==
  /\ sortpc = "pass"
  /\ First(f, todo)
  /\ ~ (records[f] \subseteq Sorted)
  /\ todo' = todo \ {f}
  /\ UNCHANGED <<records, sorted, remaining, promoted, sortpc>>

\* Mutant: the break for a pass without progress is missing.
NextPass_NoProgressCheck ==
  /\ sortpc = "pass"
  /\ todo = {}
  /\ promoted # remaining
  /\ remaining' = remaining \ promoted
  /\ todo' = remaining \ promoted
  /\ promoted' = {}
  /\ UNCHANGED <<records, sorted, sortpc>>

\* Mutant: the next pass visits the names the remaining files mention.
NextPass_VisitsNames ==
  /\ sortpc = "pass"
  /\ todo = {}
  /\ promoted \notin {{}, remaining}
  /\ remaining' = remaining \ promoted
  /\ todo' = UNION {records[f] : f \in remaining \ promoted}
  /\ promoted' = {}
  /\ UNCHANGED <<records, sorted, sortpc>>

NextPass ==
  /\ sortpc = "pass"
  /\ todo = {}
  /\ promoted \notin {{}, remaining}
  /\ remaining' = remaining \ promoted
  /\ todo' = remaining \ promoted
  /\ promoted' = {}
  /\ UNCHANGED <<records, sorted, sortpc>>

\* Mutant: the break leaves before the promoted files are taken off.
FinishSort_KeepsPromoted ==
  /\ sortpc = "pass"
  /\ todo = {}
  /\ promoted \in {{}, remaining}
  /\ remaining' = remaining
  /\ sortpc' = "done"
  /\ UNCHANGED <<records, sorted, todo, promoted>>

\* The break, and what it leaves behind as unresolved.
FinishSort ==
  /\ sortpc = "pass"
  /\ todo = {}
  /\ promoted \in {{}, remaining}
  /\ remaining' = remaining \ Sorted
  /\ sortpc' = "done"
  /\ UNCHANGED <<records, sorted, todo, promoted>>

SortNext ==
  \/ \E f \in Files : PromoteRecord(f) \/ PassOver(f)
  \/ NextPass \/ FinishSort

SortSpec == SortInit /\ [][SortNext]_sortVars

-----------------------------------------------------------------------------
(***************************************************************************)
(* dependency_neighborhood and cycle_report_from_unresolved: the cycles of *)
(* two, three and four steps through each unresolved file.  A path is kept *)
(* by its canonical key: all rotations of a cycle, in either direction,    *)
(* are one entry (the code keeps the least of these strings).              *)
(***************************************************************************)
Local(f) == records[f] \cap Files

TwoStep(f) == {<<f, d>> : d \in {e \in Local(f) : f \in records[e]}}

\* Mutant: the triangle is closed at the wrong corner.
ThreeStep_WrongCorner(f) ==
  {p \in {f} \X Files \X Files :
     p[2] \in Local(f) /\ p[3] \in Local(p[2]) /\ f \in records[p[2]]}

ThreeStep(f) ==
  {p \in {f} \X Files \X Files :
     p[2] \in Local(f) /\ p[3] \in Local(p[2]) /\ f \in records[p[3]]}

FourStep(f) ==
  {p \in {f} \X Files \X Files \X Files :
     /\ Cardinality({p[1], p[2], p[3], p[4]}) = 4
     /\ p[2] \in Local(f) /\ p[3] \in Local(p[2]) /\ p[4] \in Local(p[3])
     /\ f \in records[p[4]]}

Rotations(p) == {[i \in DOMAIN p |-> p[((i + k) % Len(p)) + 1]] : k \in DOMAIN p}

Backwards(p) == [i \in DOMAIN p |-> p[Len(p) + 1 - i]]

CycleKey(p) == Rotations(p) \cup Rotations(Backwards(p))

CycleReport ==
  {CycleKey(p) : p \in UNION {TwoStep(f) \cup ThreeStep(f) \cup FourStep(f) :
                                f \in remaining}}

-----------------------------------------------------------------------------

SortTypeOK ==
  /\ Files \subseteq Stem
  /\ records \in [Files -> SUBSET Stem]
  /\ sorted \in Seq(Files)
  /\ remaining \subseteq Files
  /\ todo \subseteq Files
  /\ promoted \subseteq Files
  /\ sortpc \in {"pass", "done"}

outcome ==
  CASE sortpc = "pass"                      -> "sorting"
    [] sortpc = "done" /\ remaining = {}    -> "sorted"
    [] OTHER                                -> "stuck"

LO == INSTANCE LoadOrder WITH depends <- records, order <- sorted

\* The outcome is a fact about the library: see LoadOrder.
EndsAtSortable == LO!EndsAtSortable

\* Every step of the sort is a step of the abstract sort, or none of it.
ImplementsLoadOrder == LO!Spec

(***************************************************************************)
(* When the sort leaves files unresolved, the report that tells a porter   *)
(* which sources to refactor has every cycle of two to four files.         *)
(***************************************************************************)
CyclesReported ==
  sortpc = "done" =>
    LET report == CycleReport
    IN  \A n \in 2..4 : \A c \in [1..n -> Files] :
          /\ \A i \in 1..n : c[(i % n) + 1] \in records[c[i]]
          /\ \A i, j \in 1..n : c[i] = c[j] => i = j
          => CycleKey(c) \in report
=============================================================================
