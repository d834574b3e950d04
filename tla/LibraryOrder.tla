---------------------------- MODULE LibraryOrder ----------------------------
(***************************************************************************)
(* The dependency sort of a library and the index made of it, as functions *)
(* of the library: what write_kernel_dependency_index computes before it   *)
(* writes anything.                                                        *)
(*                                                                         *)
(* A stem is an integer, its place in the alphabet.  A library is the      *)
(* function from the stems of its files to what each one depends on.  A    *)
(* text is the sequence of the stems whose sources it concatenates.        *)
(***************************************************************************)
EXTENDS Ordering, SequencesExt

\* Mutant: a file waits only for dependencies that precede it in the alphabet.
Visited_Backward(lib, done, f) ==
  IF f \notin ToSet(done) /\ {d \in lib[f] : d < f} \subseteq ToSet(done)
    THEN Append(done, f)
    ELSE done

\* What is sorted when dependency_sort_prefix has visited the record of f.
Visited(lib, done, f) ==
  IF f \notin ToSet(done) /\ lib[f] \subseteq ToSet(done)
    THEN Append(done, f)
    ELSE done

\* One pass over the files it has not placed yet.
OnePass(lib, placed) ==
  LET files == Ascending(DOMAIN lib)
      visited[k \in 0..Cardinality(DOMAIN lib)] ==
        IF k = 0 THEN placed ELSE Visited(lib, visited[k - 1], files[k])
  IN  visited[Cardinality(DOMAIN lib)]

\* The sort places all it can in at most one pass per file.
SortedFiles(lib) ==
  LET sorted[i \in 0..Cardinality(DOMAIN lib)] ==
        IF i = 0 THEN <<>> ELSE OnePass(lib, sorted[i - 1])
  IN  sorted[Cardinality(DOMAIN lib)]

(***************************************************************************)
(* transitive_depends_for_file: the least set of files that holds what f   *)
(* depends on and what a member depends on.  That its walk over a stack    *)
(* ends with this set is a theorem about AttachDependencyTags.             *)
(***************************************************************************)
TransitiveDepends(lib, f) ==
  LET closed == {S \in SUBSET DOMAIN lib :
                   \A d \in S \cup {f} : lib[d] \cap DOMAIN lib \subseteq S}
  IN  {d \in DOMAIN lib : \A S \in closed : d \in S}

\* "No .cl files found" and unresolved files: there is no index to be had.
Indexable(lib) == DOMAIN lib # {} /\ Len(SortedFiles(lib)) = Cardinality(DOMAIN lib)

IndexOf(lib) ==
  [order |-> SortedFiles(lib),
   all   |-> [f \in DOMAIN lib |-> TransitiveDepends(lib, f)]]

Known(index) == ToSet(index.order)

InIndexOrder(index, S) == Kept(index.order, S)

\* The stems of S the index knows, and what it says they need.
Expansion(S, index) ==
  LET known == S \cap Known(index)
  IN  known \cup UNION {index.all[s] : s \in known}

\* A text a compiler can take: each file once, behind what it depends on.
Complete(text, lib) ==
  \A i \in 1..Len(text) :
    /\ text[i] \in DOMAIN lib
    /\ \A j \in 1..Len(text) : text[i] = text[j] => i = j
    /\ lib[text[i]] \subseteq {text[j] : j \in 1..(i - 1)}
=============================================================================
