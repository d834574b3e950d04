--------------------------- MODULE CppLibrarySort ---------------------------
(***************************************************************************)
(* openclPort::load_kernel_library: one call, from the scan of the library *)
(* directory to the concatenated program text, or to the exception that    *)
(* ends it.  The function runs in the R process; other processes may       *)
(* remove files of the directory while it runs, and the last phase opens   *)
(* every file a second time.                                               *)
(***************************************************************************)
EXTENDS PortAnnotations, Sequences

VARIABLES
  header,     \* [file_map's keys -> Header]: the annotation of each file
  present,    \* the files that are still in the directory
  sorted,     \* the vector `sorted`; sorted_set holds the same files
  unsorted,   \* unsorted_set
  todo,       \* what the range-for at hand has not visited yet
  newly,      \* newly_sorted, as a set
  output,     \* the files whose text combined_source holds
  pc

vars == <<header, present, sorted, unsorted, todo, newly, output, pc>>

Files == DOMAIN header

depends == [f \in Files |-> CppDepends(header[f])]

Sorted == {sorted[i] : i \in 1..Len(sorted)}

\* Both loops visit a std::map or std::set: in the order of the keys.
First(f, S) == f \in S /\ \A g \in S : f <= g

Ended == {"scanFailed", "sortFailed", "loadFailed", "returned"}

-----------------------------------------------------------------------------

Init ==
  /\ header \in Library(Header)
  /\ present = Files
  /\ sorted = <<>>
  /\ unsorted = {}
  /\ todo = {}
  /\ newly = {}
  /\ output = <<>>
  /\ pc = "scan"

ScanDirectory ==
  /\ pc = "scan"
  /\ IF \E f \in Files : CppUnreadable(header[f])
       THEN pc' = "scanFailed" /\ todo' = todo
       ELSE pc' = "split" /\ todo' = Files
  /\ UNCHANGED <<header, present, sorted, unsorted, newly, output>>

\* Mutant: the first loop already takes what is ready.
PlaceIndependent_OrReady(f) ==
  /\ pc = "split"
  /\ First(f, todo)
  /\ depends[f] \subseteq Sorted
  /\ sorted' = Append(sorted, f)
  /\ todo' = todo \ {f}
  /\ UNCHANGED <<header, present, unsorted, newly, output, pc>>

\* The first loop: files without dependencies go straight to `sorted`.
PlaceIndependent(f) ==
  /\ pc = "split"
  /\ First(f, todo)
  /\ depends[f] = {}
  /\ sorted' = Append(sorted, f)
  /\ todo' = todo \ {f}
  /\ UNCHANGED <<header, present, unsorted, newly, output, pc>>

Defer(f) ==
  /\ pc = "split"
  /\ First(f, todo)
  /\ depends[f] # {}
  /\ unsorted' = unsorted \cup {f}
  /\ todo' = todo \ {f}
  /\ UNCHANGED <<header, present, sorted, newly, output, pc>>

\* while (!unsorted_set.empty()): from the first loop, and after every pass.
BeginPass ==
  /\ pc \in {"split", "loop"}
  /\ todo = {}
  /\ unsorted # {}
  /\ todo' = unsorted
  /\ newly' = {}
  /\ pc' = "pass"
  /\ UNCHANGED <<header, present, sorted, unsorted, output>>

LeaveLoop ==
  /\ pc \in {"split", "loop"}
  /\ todo = {}
  /\ unsorted = {}
  /\ pc' = "concat"
  /\ UNCHANGED <<header, present, sorted, unsorted, todo, newly, output>>

\* Mutant: a dependency that is no file of the library counts as loaded.
Promote_IgnoresForeign(f) ==
  /\ pc = "pass"
  /\ First(f, todo)
  /\ depends[f] \cap Files \subseteq Sorted
  /\ sorted' = Append(sorted, f)
  /\ newly' = newly \cup {f}
  /\ todo' = todo \ {f}
  /\ UNCHANGED <<header, present, unsorted, output, pc>>

\* sorted_set grows during the pass, unsorted_set does not.
Promote(f) ==
  /\ pc = "pass"
  /\ First(f, todo)
  /\ depends[f] \subseteq Sorted
  /\ sorted' = Append(sorted, f)
  /\ newly' = newly \cup {f}
  /\ todo' = todo \ {f}
  /\ UNCHANGED <<header, present, unsorted, output, pc>>

Skip(f) ==
  /\ pc = "pass"
  /\ First(f, todo)
  /\ ~ (depends[f] \subseteq Sorted)
  /\ todo' = todo \ {f}
  /\ UNCHANGED <<header, present, sorted, unsorted, newly, output, pc>>

\* Mutant: a pass that promotes nothing is followed by another.
EndPass_NoProgressCheck ==
  /\ pc = "pass"
  /\ todo = {}
  /\ unsorted' = unsorted \ newly
  /\ pc' = "loop"
  /\ UNCHANGED <<header, present, sorted, todo, newly, output>>

\* Mutant: one pass has to be enough.
EndPass_OnlyOne ==
  /\ pc = "pass"
  /\ todo = {}
  /\ unsorted' = unsorted \ newly
  /\ pc' = IF newly = unsorted THEN "loop" ELSE "sortFailed"
  /\ UNCHANGED <<header, present, sorted, todo, newly, output>>

\* "Dependency sort failed: unresolved dependencies remain."
EndPass ==
  /\ pc = "pass"
  /\ todo = {}
  /\ unsorted' = unsorted \ newly
  /\ pc' = IF newly = {} THEN "sortFailed" ELSE "loop"
  /\ UNCHANGED <<header, present, sorted, todo, newly, output>>

\* Mutant: a file that cannot be read ends the text instead of the call.
AppendSource_Truncates ==
  /\ pc = "concat"
  /\ Len(output) < Len(sorted)
  /\ LET f == sorted[Len(output) + 1]
     IN  IF f \in present
           THEN output' = Append(output, f) /\ pc' = pc
           ELSE output' = output /\ pc' = "returned"
  /\ UNCHANGED <<header, present, sorted, unsorted, todo, newly>>

\* load_kernel_source looks the file up again, and throws when it is gone.
AppendSource ==
  /\ pc = "concat"
  /\ Len(output) < Len(sorted)
  /\ LET f == sorted[Len(output) + 1]
     IN  IF f \in present
           THEN output' = Append(output, f) /\ pc' = pc
           ELSE output' = output /\ pc' = "loadFailed"
  /\ UNCHANGED <<header, present, sorted, unsorted, todo, newly>>

ReturnText ==
  /\ pc = "concat"
  /\ Len(output) = Len(sorted)
  /\ pc' = "returned"
  /\ UNCHANGED <<header, present, sorted, unsorted, todo, newly, output>>

Call ==
  \/ ScanDirectory \/ BeginPass \/ LeaveLoop \/ EndPass
  \/ AppendSource \/ ReturnText
  \/ \E f \in Files : PlaceIndependent(f) \/ Defer(f) \/ Promote(f) \/ Skip(f)

\* Another process removes a file of the library.  The scan is over: a file
\* that went before it was never listed, and no step in between looks.
RemoveFile(f) ==
  /\ pc = "concat"
  /\ f \in present
  /\ present' = present \ {f}
  /\ UNCHANGED <<header, sorted, unsorted, todo, newly, output, pc>>

Next == Call \/ \E f \in Files : RemoveFile(f)

Spec == Init /\ [][Next]_vars

-----------------------------------------------------------------------------

TypeOK ==
  /\ Files \subseteq Stem
  /\ header \in [Files -> Header]
  /\ present \subseteq Files
  /\ sorted \in Seq(Files)
  /\ unsorted \subseteq Files
  /\ todo \subseteq Files
  /\ newly \subseteq Files
  /\ output \in Seq(Files)
  /\ pc \in {"scan", "split", "loop", "pass", "concat"} \cup Ended

\* The sort alone, without the scan before and the concatenation behind it.
outcome ==
  CASE pc = "scanFailed" -> "aborted"
    [] pc = "sortFailed" -> "stuck"
    [] pc \in {"concat", "returned", "loadFailed"} -> "sorted"
    [] OTHER -> "sorting"

LO == INSTANCE LoadOrder WITH order <- sorted

(***************************************************************************)
(* A returned program text is whole and compiles top down: it holds every  *)
(* file of the directory once, each behind all the files it depends on.    *)
(***************************************************************************)
ReturnedText ==
  pc = "returned" =>
    /\ \A f \in Files : \E i \in 1..Len(output) :
         /\ output[i] = f
         /\ depends[f] \subseteq {output[j] : j \in 1..(i - 1)}
    /\ \A i, j \in 1..Len(output) : output[i] = output[j] => i = j

(***************************************************************************)
(* Files without dependencies, where library-wide macros live, come before *)
(* all others in the load order, whatever their names.                     *)
(***************************************************************************)
IndependentFirst ==
  \A i, j \in 1..Len(sorted) :
    depends[sorted[i]] = {} /\ depends[sorted[j]] # {} => i < j

\* The outcome is a fact about the library: see LoadOrder.
EndsAtSortable == LO!EndsAtSortable

\* Every step of the call is a step of the abstract sort, or none of it.
ImplementsLoadOrder == LO!Spec
=============================================================================
