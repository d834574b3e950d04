------------------------------ MODULE Ordering ------------------------------
(***************************************************************************)
(* The two orders in which the tools list things: ascending (sort, order)  *)
(* and the order of another list (intersect, and vectors subset by %in%).  *)
(* They are defined by what they return, so that it can be proved of them; *)
(* SortSeq and SelectSeq take operators, of which nothing can be.          *)
(***************************************************************************)
EXTENDS Integers, FiniteSets, Sequences

\* The members of a finite set of integers, from the least to the greatest.
Ascending(S) ==
  CHOOSE s \in [1..Cardinality(S) -> S] :
    \A i, j \in 1..Cardinality(S) : i < j => s[i] < s[j]

\* The elements of s that are in S, in the order of s.
Kept(s, S) ==
  LET places  == {i \in 1..Len(s) : s[i] \in S}
      inOrder == Ascending(places)
  IN  [k \in 1..Cardinality(places) |-> s[inOrder[k]]]
=============================================================================
