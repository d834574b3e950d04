-------------------------- MODULE DependencyIndex --------------------------
(***************************************************************************)
(* The dependency index of a library and the three loaders that assemble   *)
(* the part of a library one kernel needs: load_library_for_kernel in R,   *)
(* its namesake in C++ and load_library_for_kernel_cross_package.  They    *)
(* are operators here; the modules that EXTEND this one say when the index *)
(* and the tags they read are written.                                     *)
(***************************************************************************)
EXTENDS LibraryOrder

CONSTANTS
  Stem,      \* the stems a library may hold
  NoIndex,   \* there is no index
  NoTag,     \* a kernel has no line with the tag
  Failure    \* a loader stopped with an error instead of a text

ASSUME StemAssumption == Stem \subseteq Int /\ IsFiniteSet(Stem)

Libraries == UNION {[F -> SUBSET Stem] : F \in SUBSET Stem}

\* An index without the fields no loader reads.
Indexes == [order : Seq(Stem), all : UNION {[F -> SUBSET Stem] : F \in SUBSET Stem}]

ASSUME AbsentAssumption ==
  /\ NoIndex \notin Indexes
  /\ \A S \in SUBSET Stem : NoTag # S
  /\ Failure \notin Seq(Stem)

-----------------------------------------------------------------------------

\* Mutant: an empty list is written, too.
ExpandedTag_WritesEmpty(stems, index) == Expansion(stems, index)

(***************************************************************************)
(* What attach_cross_library_tags makes of a kernel's @depends stems: those*)
(* the index does not know are left out with a warning, "(none)" among     *)
(* them; an empty list is not written, only its count is.                  *)
(***************************************************************************)
ExpandedTag(stems, index) ==
  LET needed == Expansion(stems, index)
  IN  IF needed = {} THEN NoTag ELSE needed

-----------------------------------------------------------------------------

\* The stems a loader reads from a kernel's @all_depends_<library> line.
Listed(tag) == IF tag = NoTag THEN {} ELSE tag

\* Mutant: the stems stay in the order intersect() leaves them in.
RSubset_Unordered(tag, index, files) ==
  IF index = NoIndex THEN Failure
  ELSE Ascending(Listed(tag) \cap Known(index) \cap files)

(***************************************************************************)
(* load_library_for_kernel in R reads the index before it looks at the     *)
(* tag, warns of unknown stems and of files that are not there, and leaves *)
(* both out.                                                               *)
(***************************************************************************)
RSubset(tag, index, files) ==
  IF index = NoIndex THEN Failure
  ELSE InIndexOrder(index, Listed(tag) \cap files)

(***************************************************************************)
(* parse_cl_tag looks for the tag anywhere in a line and takes whatever    *)
(* follows it up to a colon for a part of the tag: lines of a longer tag   *)
(* with the same beginning are read too (alike).                           *)
(***************************************************************************)
CppListed(tag, alike) == Listed(tag) \cup alike

(***************************************************************************)
(* load_library_for_kernel in C++ drops unknown stems without a word.  One *)
(* of them is the number of the _count line (counted), with which even a   *)
(* kernel that needs nothing has its index read.                           *)
(***************************************************************************)
CppSubset(tag, alike, counted, index, files) ==
  IF CppListed(tag, alike) = {} /\ ~ counted THEN <<>>
  ELSE IF index = NoIndex THEN Failure
  ELSE LET stems == InIndexOrder(index, CppListed(tag, alike))
       IN  IF ToSet(stems) \subseteq files THEN stems ELSE Failure

\* load_library_for_kernel_cross_package throws on unknown stems.
CrossSubset(tag, index, files) ==
  IF Listed(tag) = {} THEN <<>>
  ELSE IF index = NoIndex \/ ~ (Listed(tag) \subseteq Known(index)) THEN Failure
  ELSE LET stems == InIndexOrder(index, Listed(tag))
       IN  IF ToSet(stems) \subseteq files THEN stems ELSE Failure
=============================================================================
