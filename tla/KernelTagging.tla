--------------------------- MODULE KernelTagging ---------------------------
(***************************************************************************)
(* The tools around a library that is being ported and the kernels that    *)
(* use it: write_kernel_dependency_index keeps the index, in two files;    *)
(* attach_kernel_call_tags writes what a kernel calls into the kernel, and *)
(* attach_cross_library_tags expands that with an index.  The loaders of   *)
(* DependencyIndex read the outcome.  Library and kernels are edited at    *)
(* any time, and an R session can hold an index that is no longer the one  *)
(* on disk.  Every file of the library provides one symbol, which goes by  *)
(* the name of its stem.                                                   *)
(***************************************************************************)
EXTENDS DependencyIndex

CONSTANTS
  Kernel,          \* the kernels
  Called,          \* the sets of symbols a kernel's source may call
  Alike,           \* what a longer tag of the same beginning may list
  Dependencies,    \* the @depends lists that occur in the library
  OutputPath,      \* the paths a caller names for the rds
  MaxVersion,      \* bound: edits of the library
  MaxKernelEdits,  \* bound: edits of a kernel's source
  MaxCrashes       \* bound: R sessions that die

ASSUME StemsAssumption ==
  Called \subseteq SUBSET Stem /\ Alike \subseteq SUBSET Stem /\ Dependencies \subseteq SUBSET Stem
ASSUME PathAssumption == OutputPath \subseteq [name : STRING, ending : STRING]
ASSUME BoundsAssumption == MaxVersion \in Nat /\ MaxKernelEdits \in Nat /\ MaxCrashes \in Nat

VARIABLES
  lib,       \* the files of the library and their @depends
  source,    \* [Kernel -> the symbols its source calls]
  alike,     \* [Kernel -> the stems under a longer tag], never changed
  calls,     \* [Kernel -> @depends_<library>, or NoTag]; {} is "(none)"
  all,       \* [Kernel -> @all_depends_<library>, or NoTag]
  counted,   \* [Kernel -> whether it has @all_depends_<library>_count]
  disk,      \* [path -> what is stored there]
  held,      \* the index object the R session holds
  writing,   \* the write in progress: its path and its index

  \* History, which no code reads:
  version,   \* how often the library was edited
  edits,     \* [Kernel -> how often its source was edited]
  crashes,
  builtAt,   \* the version that held was built from
  storedAt,  \* [path -> the version the index there was built from]
  calledAt,  \* [Kernel -> library version and edits calls was made from]
  allAt,     \* [Kernel -> the version of the index all was made with]
  torn       \* a write beside the library was interrupted, and none completed since

tags == <<calls, all, counted, calledAt, allAt>>
index == <<disk, held, writing, builtAt, storedAt, torn>>
sources == <<lib, source, alike, version, edits>>
vars == <<tags, index, sources, crashes>>

(***************************************************************************)
(* A path is a name and what follows its last dot, with the dot.           *)
(***************************************************************************)
Rds == [name |-> "kernel_dependency_index", ending |-> ".rds"]
Tsv == [name |-> "kernel_dependency_index", ending |-> ".tsv"]

\* ".rds" for a pattern that ignores case.
RdsEnding == {".rds", ".rdS", ".rDs", ".rDS", ".Rds", ".RdS", ".RDs", ".RDS"}

\* The tsv's path: with another ending it is that of the rds itself.
TsvFor(path) ==
  [path EXCEPT !.ending = IF path.ending \in RdsEnding THEN ".tsv" ELSE path.ending]

Path == {Rds, Tsv} \cup OutputPath \cup {TsvFor(path) : path \in OutputPath}

Stored == [format : {"rds", "tsv"}, index : Indexes]

ASSUME StoredAssumption == NoIndex \notin Stored

NoWrite == [path |-> Rds, index |-> NoIndex, at |-> 0]

\* The files beside the library are being written, the default.
WritingBeside == writing # NoWrite /\ writing.path = Rds

\* .cl_load_index without an index, and read_tsv_index.
Disk(path) == IF disk[path] = NoIndex THEN NoIndex ELSE disk[path].index

-----------------------------------------------------------------------------

Init ==
  /\ lib \in UNION {[F -> Dependencies] : F \in SUBSET Stem}
  /\ source \in [Kernel -> Called]
  /\ alike \in [Kernel -> Alike]
  /\ calls = [k \in Kernel |-> NoTag]
  /\ all = [k \in Kernel |-> NoTag]
  /\ counted = [k \in Kernel |-> FALSE]
  /\ disk = [p \in Path |-> NoIndex]
  /\ held = NoIndex
  /\ writing = NoWrite
  /\ version = 0
  /\ edits = [k \in Kernel |-> 0]
  /\ crashes = 0
  /\ builtAt = -1
  /\ storedAt = [p \in Path |-> -1]
  /\ calledAt = [k \in Kernel |-> <<-1, -1>>]
  /\ allAt = [k \in Kernel |-> -1]
  /\ torn = FALSE

-----------------------------------------------------------------------------
(***************************************************************************)
(* The people at work.                                                     *)
(***************************************************************************)

EditLibrary(newLib) ==
  /\ version < MaxVersion
  /\ newLib # lib
  /\ lib' = newLib
  /\ version' = version + 1
  /\ UNCHANGED <<tags, index, source, alike, edits, crashes>>

AddOrChange(f, d) == EditLibrary([g \in DOMAIN lib \cup {f} |-> IF g = f THEN d ELSE lib[g]])

RemoveFile(f) == EditLibrary([g \in DOMAIN lib \ {f} |-> lib[g]])

EditKernel(k, S) ==
  /\ edits[k] < MaxKernelEdits
  /\ source[k] # S
  /\ source' = [source EXCEPT ![k] = S]
  /\ edits' = [edits EXCEPT ![k] = @ + 1]
  /\ UNCHANGED <<tags, index, lib, alike, version, crashes>>

Crash ==
  /\ crashes < MaxCrashes
  /\ crashes' = crashes + 1
  /\ held' = NoIndex
  /\ builtAt' = -1
  /\ writing' = NoWrite
  /\ torn' = (torn \/ WritingBeside)
  /\ UNCHANGED <<tags, sources, disk, storedAt>>

-----------------------------------------------------------------------------
(***************************************************************************)
(* The index.  What write_kernel_dependency_index writes is built from the *)
(* result of an earlier attach_kernel_dependency_tags, or on the spot:     *)
(* BuildIndex with SaveRds right behind it.                                *)
(***************************************************************************)

BuildIndex ==
  /\ writing = NoWrite
  /\ Indexable(lib)
  /\ held' = IndexOf(lib)
  /\ builtAt' = version
  /\ UNCHANGED <<tags, sources, disk, writing, storedAt, torn, crashes>>

SaveRds(path) ==
  /\ writing = NoWrite
  /\ held # NoIndex
  /\ disk' = [disk EXCEPT ![path] = [format |-> "rds", index |-> held]]
  /\ storedAt' = [storedAt EXCEPT ![path] = builtAt]
  /\ writing' = [path |-> path, index |-> held, at |-> builtAt]
  /\ UNCHANGED <<tags, sources, held, builtAt, torn, crashes>>

\* Mutant: an existing tsv is kept.
WriteTsv_KeepsOld ==
  /\ writing # NoWrite
  /\ LET path == TsvFor(writing.path)
     IN  IF disk[path] = NoIndex
           THEN /\ disk' = [disk EXCEPT ![path] = [format |-> "tsv", index |-> writing.index]]
                /\ storedAt' = [storedAt EXCEPT ![path] = writing.at]
           ELSE UNCHANGED <<disk, storedAt>>
  /\ writing' = NoWrite
  /\ torn' = (torn /\ writing.path # Rds)
  /\ UNCHANGED <<tags, sources, held, builtAt, crashes>>

WriteTsv ==
  /\ writing # NoWrite
  /\ LET path == TsvFor(writing.path)
     IN  /\ disk' = [disk EXCEPT ![path] = [format |-> "tsv", index |-> writing.index]]
         /\ storedAt' = [storedAt EXCEPT ![path] = writing.at]
  /\ writing' = NoWrite
  /\ torn' = (torn /\ writing.path # Rds)
  /\ UNCHANGED <<tags, sources, held, builtAt, crashes>>

\* A session reads the index once, to pass it on as index =.
ReadRds ==
  /\ writing = NoWrite
  /\ disk[Rds] # NoIndex
  /\ held' = Disk(Rds)
  /\ builtAt' = storedAt[Rds]
  /\ UNCHANGED <<tags, sources, disk, writing, storedAt, torn, crashes>>

-----------------------------------------------------------------------------
(***************************************************************************)
(* The tags of a kernel.                                                   *)
(***************************************************************************)

\* Mutant: the @all_depends line is not among those the tool replaces.
TagCalls_KeepsAll(k, overwrite) ==
  /\ writing = NoWrite
  /\ DOMAIN lib # {}
  /\ overwrite \/ calls[k] = NoTag
  /\ calls' = [calls EXCEPT ![k] = source[k] \cap DOMAIN lib]
  /\ calledAt' = [calledAt EXCEPT ![k] = <<version, edits[k]>>]
  /\ UNCHANGED <<index, sources, crashes, all, counted, allAt>>

(***************************************************************************)
(* attach_kernel_call_tags, of one kernel: it leaves a tagged kernel alone *)
(* unless it may overwrite, and takes the expanded tags and their count    *)
(* away.                                                                   *)
(***************************************************************************)
TagCalls(k, overwrite) ==
  /\ writing = NoWrite
  /\ DOMAIN lib # {}
  /\ overwrite \/ calls[k] = NoTag
  /\ calls' = [calls EXCEPT ![k] = source[k] \cap DOMAIN lib]
  /\ calledAt' = [calledAt EXCEPT ![k] = <<version, edits[k]>>]
  /\ all' = [all EXCEPT ![k] = NoTag]
  /\ counted' = [counted EXCEPT ![k] = FALSE]
  /\ allAt' = [allAt EXCEPT ![k] = -1]
  /\ UNCHANGED <<index, sources, crashes>>

(***************************************************************************)
(* attach_cross_library_tags, of one kernel: nothing without a @depends    *)
(* tag.                                                                    *)
(***************************************************************************)
CrossTags(k, idx, at) ==
  /\ writing = NoWrite
  /\ idx # NoIndex
  /\ calls[k] # NoTag
  /\ all' = [all EXCEPT ![k] = ExpandedTag(calls[k], idx)]
  /\ counted' = [counted EXCEPT ![k] = TRUE]
  /\ allAt' = [allAt EXCEPT ![k] = at]
  /\ UNCHANGED <<index, sources, crashes, calls, calledAt>>

Next ==
  \/ \E f \in Stem, d \in Dependencies : AddOrChange(f, d)
  \/ \E f \in DOMAIN lib : RemoveFile(f)
  \/ \E k \in Kernel, S \in Called : EditKernel(k, S)
  \/ Crash
  \/ BuildIndex \/ (\E path \in OutputPath : SaveRds(path)) \/ WriteTsv \/ ReadRds
  \/ \E k \in Kernel :
       \/ \E overwrite \in BOOLEAN : TagCalls(k, overwrite)
       \/ CrossTags(k, held, builtAt)
       \/ CrossTags(k, Disk(Rds), storedAt[Rds])

Spec == Init /\ [][Next]_vars

\* A write in progress continues unless the session dies.
FairSpec == Spec /\ WF_vars(WriteTsv)

-----------------------------------------------------------------------------

TypeOK ==
  /\ lib \in Libraries
  /\ source \in [Kernel -> SUBSET Stem]
  /\ alike \in [Kernel -> SUBSET Stem]
  /\ calls \in [Kernel -> (SUBSET Stem) \cup {NoTag}]
  /\ all \in [Kernel -> ((SUBSET Stem) \ {{}}) \cup {NoTag}]
  /\ \A p \in Path : disk[p] \in Stored \cup {NoIndex}
  /\ counted \in [Kernel -> BOOLEAN]
  /\ held \in Indexes \cup {NoIndex}
  /\ writing = NoWrite \/ (writing.path \in OutputPath /\ writing.index \in Indexes)
  /\ version \in 0..MaxVersion
  /\ edits \in [Kernel -> 0..MaxKernelEdits]
  /\ crashes \in 0..MaxCrashes
  /\ torn \in BOOLEAN

RText(k) == RSubset(all[k], Disk(Rds), DOMAIN lib)
CppText(k) == CppSubset(all[k], alike[k], counted[k], Disk(Tsv), DOMAIN lib)
CrossText(k) == CrossSubset(all[k], Disk(Tsv), DOMAIN lib)

(***************************************************************************)
(* A kernel whose calls were tagged since it and the library were last     *)
(* edited, and then expanded with an index of this library, gets from the  *)
(* index on disk, if that is of this library too, a text with everything   *)
(* it calls in a compilable order.  It does not matter in which order, how *)
(* often or with which index the tools ran before.                         *)
(***************************************************************************)
Serves(text, k) ==
  /\ text # Failure
  /\ Complete(text, lib)
  /\ source[k] \cap DOMAIN lib \subseteq ToSet(text)

TextServesKernel ==
  \A k \in Kernel :
    /\ calledAt[k] = <<version, edits[k]>>
    /\ allAt[k] = version
    /\ storedAt[Tsv] = version
    => Serves(CrossText(k), k)

(***************************************************************************)
(* Over one index the loaders agree: what the strict loader accepts, the   *)
(* lenient ones return as well, unless the kernel has a longer tag of the  *)
(* same beginning, which the C++ loader of one package cannot tell apart.  *)
(***************************************************************************)
LoadersAgree ==
  Disk(Rds) = Disk(Tsv) /\ Disk(Rds) # NoIndex =>
    \A k \in Kernel : CrossText(k) # Failure =>
      /\ RText(k) = CrossText(k)
      /\ alike[k] \subseteq Listed(all[k]) => CppText(k) = CrossText(k)

(***************************************************************************)
(* Every index there is, of whatever version, lists each stem's needs with *)
(* their own needs, and puts them before the stem.                         *)
(***************************************************************************)
Sound(idx) ==
  idx # NoIndex =>
    /\ Known(idx) = DOMAIN idx.all
    /\ Len(idx.order) = Cardinality(Known(idx))
    /\ \A i \in 1..Len(idx.order) :
         LET needs == idx.all[idx.order[i]]
         IN  /\ needs \subseteq {idx.order[j] : j \in 1..(i - 1)}
             /\ \A d \in needs : idx.all[d] \subseteq needs

IndexesSound == Sound(held) /\ \A p \in Path : Sound(Disk(p))

(***************************************************************************)
(* R and C++ read different files.  They differ only while both are being  *)
(* written, or after a write that was interrupted.                         *)
(***************************************************************************)
FilesDifferOnlyTorn ==
  Disk(Rds) # Disk(Tsv) => torn \/ WritingBeside

(***************************************************************************)
(* write_kernel_dependency_index.R, lines 6-10: it writes two companion    *)
(* files, the RDS helper and the .tsv map, "and are always written         *)
(* together"; line 16 calls output_path the "Path for the RDS file".       *)
(* Violated: for a path that does not end in .rds the tsv has the same     *)
(* name and replaces the rds that was just saved.                          *)
(***************************************************************************)
WriteLeavesRds ==
  [][writing # NoWrite /\ writing' = NoWrite /\ ~ torn'
       => disk'[writing.path].format = "rds"]_vars
=============================================================================
