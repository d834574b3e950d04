----------------------------- MODULE LoadOrder -----------------------------
(***************************************************************************)
(* What the package promises of a dependency sort, whichever language runs *)
(* it: files are placed one at a time, each after everything it depends    *)
(* on; the sort succeeds when every file is placed and fails when files    *)
(* remain of which none can be placed.  It says nothing of passes or of    *)
(* the order among files that are ready together: the C++ loader and the R *)
(* tools differ there, and both implement this specification.              *)
(***************************************************************************)
EXTENDS Integers, Sequences

CONSTANTS
  Stem,    \* the stems a library may hold
  Name     \* what a dependency tag may mention

VARIABLES
  depends,   \* [files of the library -> SUBSET Name], fixed for one sort
  order,     \* the files placed so far
  outcome    \* "sorting", then "sorted", "stuck" or "aborted"

vars == <<depends, order, outcome>>

Files == DOMAIN depends

Placed == {order[i] : i \in 1..Len(order)}

Ready(f) == f \in Files \ Placed /\ depends[f] \subseteq Placed

-----------------------------------------------------------------------------

Init ==
  /\ \E F \in SUBSET Stem : depends \in [F -> SUBSET Name]
  /\ order = <<>>
  /\ outcome = "sorting"

Place(f) ==
  /\ outcome = "sorting"
  /\ Ready(f)
  /\ order' = Append(order, f)
  /\ UNCHANGED <<depends, outcome>>

Succeed ==
  /\ outcome = "sorting"
  /\ Placed = Files
  /\ outcome' = "sorted"
  /\ UNCHANGED <<depends, order>>

GetStuck ==
  /\ outcome = "sorting"
  /\ Placed # Files
  /\ \A f \in Files : ~ Ready(f)
  /\ outcome' = "stuck"
  /\ UNCHANGED <<depends, order>>

\* The library cannot be read, before anything is placed.
Abort ==
  /\ outcome = "sorting"
  /\ order = <<>>
  /\ outcome' = "aborted"
  /\ UNCHANGED <<depends, order>>

Next == (\E f \in Files : Place(f)) \/ Succeed \/ GetStuck \/ Abort

Spec == Init /\ [][Next]_vars

-----------------------------------------------------------------------------

TypeOK ==
  /\ Files \subseteq Stem
  /\ depends \in [Files -> SUBSET Name]
  /\ order \in Seq(Files)
  /\ outcome \in {"sorting", "sorted", "stuck", "aborted"}

(***************************************************************************)
(* The files a sort can place at all: the least set that holds every file  *)
(* whose dependencies it holds.  It is defined with no reference to an     *)
(* order of placing.                                                       *)
(***************************************************************************)
Closed(S) == \A f \in Files : depends[f] \subseteq S => f \in S

Sortable == {f \in Files : \A S \in SUBSET Files : Closed(S) => f \in S}

\* Each file stands once, after everything it depends on.
TopologicalOrder ==
  /\ \A i, j \in 1..Len(order) : order[i] = order[j] => i = j
  /\ \A i \in 1..Len(order) :
       depends[order[i]] \subseteq {order[j] : j \in 1..(i - 1)}

(***************************************************************************)
(* A sort that ended placed exactly the sortable files: success and        *)
(* failure are facts about the library, not about the order of placing, so *)
(* two implementations of this specification never disagree on a library.  *)
(***************************************************************************)
EndsAtSortable ==
  /\ outcome \in {"sorted", "stuck"} => Placed = Sortable
  /\ outcome = "sorted" => Sortable = Files
  /\ outcome = "stuck" => Sortable # Files
=============================================================================
