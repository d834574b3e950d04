---------------------------- MODULE MCCommaLists ----------------------------
\* Dependency lists whose commas stand in other places.
EXTENDS CppLibrarySort

Missing == \E f \in Files : ~ (header[f].names \subseteq Files)

\* In a finite library, files of which each depends on another of them.
Circular ==
  \E S \in (SUBSET Files) \ {{}} : \A f \in S : header[f].names \cap S # {}

(***************************************************************************)
(* load_kernel_library.R, lines 249-258: when no file can be promoted "the *)
(* remaining files have either: circular dependencies (...), or missing    *)
(* dependencies", where @depends (line 191) lists "Comma-separated stems". *)
(***************************************************************************)
FailureExplained == pc = "sortFailed" => Missing \/ Circular
=============================================================================
