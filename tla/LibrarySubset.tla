--------------------------- MODULE LibrarySubset ---------------------------
(***************************************************************************)
(* extract_library_subset: copy the files a set of kernels needs, and the  *)
(* index, from a library into a directory of the project, one by one, over *)
(* what earlier and perhaps interrupted calls left there.  Releases of the *)
(* library come with an index; kernels are tagged anew only when somebody  *)
(* does it.  The directory is loaded with the loaders of DependencyIndex   *)
(* or, as a whole, with load_kernel_library.                               *)
(*                                                                         *)
(* file.copy creates the target and then appends the source to it.  Either *)
(* may fail: the target is then as it was, or without its contents (torn). *)
(* The answer FALSE is looked at by nobody, and the call goes on.          *)
(***************************************************************************)
EXTENDS DependencyIndex

CONSTANTS
  Kernel,         \* the kernels
  Called,         \* the sets of stems a kernel may call directly
  Dependencies,   \* the @depends lists that occur in the library
  MaxVersion,     \* bound: releases of the library
  MaxCalls,       \* bound: calls of extract_library_subset
  MaxFailures     \* bound: copies that fail

ASSUME StemsAssumption == Called \subseteq SUBSET Stem /\ Dependencies \subseteq SUBSET Stem
ASSUME BoundsAssumption ==
  MaxVersion \in Nat /\ MaxCalls \in Nat /\ MaxFailures \in Nat

VARIABLES
  lib,         \* the library
  index,       \* the index that is released with it, in both files
  version,     \* which release it is
  calls,       \* [Kernel -> the stems it calls], never changed
  all,         \* [Kernel -> @all_depends_<library>, or NoTag]
  dest,        \* the files in dest_dir: what each depends on, whose release
  destRds, destTsv,   \* the index files there
  pc,          \* "idle", "files", "rds", "tsv"
  queue,       \* stems_to_copy, from the next one on
  overwrite,
  count,       \* how many calls were made

  \* History, which no code reads:
  kernels,     \* the kernels of the call in progress
  clean,       \* nothing but this release will be where that call copies to
  failures,    \* how many copies have failed
  refused,     \* the stems among them
  mixed,       \* files were copied by tags of another release than theirs
  served       \* the kernels whose extraction is complete and current

source == <<lib, index, version, calls, all>>
directory == <<dest, destRds, destTsv>>
call == <<pc, queue, overwrite, kernels, clean>>
history == <<mixed, failures, refused, served>>
vars == <<source, directory, call, count, history>>

\* A file or an index of the release at hand.
Released(what) == [of |-> version, is |-> what]

NoFile == [of |-> -1, is |-> NoIndex]

\* What a copy that was begun has left of a file or of an index.
TornFile == [of |-> -2, is |-> {}]
TornIndex == [of |-> -2, is |-> NoIndex]

-----------------------------------------------------------------------------

Init ==
  /\ lib \in {l \in UNION {[F -> Dependencies] : F \in SUBSET Stem} : Indexable(l)}
  /\ index = IndexOf(lib)
  /\ version = 0
  /\ calls \in [Kernel -> Called]
  /\ all = [k \in Kernel |-> ExpandedTag(calls[k], index)]
  /\ dest = <<>>
  /\ destRds = NoFile
  /\ destTsv = NoFile
  /\ pc = "idle"
  /\ queue = <<>>
  /\ overwrite = FALSE
  /\ count = 0
  /\ kernels = {}
  /\ clean = TRUE
  /\ mixed = FALSE
  /\ failures = 0
  /\ refused = {}
  /\ served = {}

\* The library's package is updated; a copy in progress is then of both.
Release(newLib) ==
  /\ version < MaxVersion
  /\ newLib # lib
  /\ Indexable(newLib)
  /\ lib' = newLib
  /\ index' = IndexOf(newLib)
  /\ version' = version + 1
  /\ mixed' = (mixed \/ pc # "idle")
  /\ clean' = (pc = "idle")
  /\ served' = {}
  /\ UNCHANGED <<calls, all, directory, pc, queue, overwrite, kernels, count>>
  /\ UNCHANGED <<failures, refused>>

Change(f, d) == Release([g \in DOMAIN lib \cup {f} |-> IF g = f THEN d ELSE lib[g]])

\* attach_cross_library_tags with the index of this release.
Retag(k) ==
  /\ pc = "idle"
  /\ all' = [all EXCEPT ![k] = ExpandedTag(calls[k], index)]
  /\ all' # all
  /\ UNCHANGED <<lib, index, version, calls, directory, call, count, history>>

-----------------------------------------------------------------------------

\* The kernels' tags together, and what of them the index knows.
Needed(K) == UNION {Listed(all[k]) : k \in K}

Current(k) == all[k] = ExpandedTag(calls[k], index)

\* Mutant: the files are copied in the order of their names.
StemsToCopy_ByName(K) == Ascending(Needed(K) \cap DOMAIN lib)

StemsToCopy(K) == InIndexOrder(index, Needed(K))

OfThisRelease == \A f \in DOMAIN dest : dest[f].of = version

\* With nothing to copy the call returns before it looks at dest_dir.
Extract(K, over) ==
  /\ pc = "idle"
  /\ count < MaxCalls
  /\ StemsToCopy(K) # <<>>
  /\ queue' = StemsToCopy(K)
  /\ overwrite' = over
  /\ kernels' = {k \in K : Current(k)}
  /\ clean' = (over \/ (OfThisRelease /\ {destRds.of, destTsv.of} \subseteq {-1, version}))
  /\ mixed' = (mixed \/ kernels' # K)
  /\ pc' = "files"
  /\ count' = count + 1
  /\ UNCHANGED <<source, directory, failures, refused, served>>

\* file.copy fails, and is not asked.
Fail ==
  /\ failures < MaxFailures
  /\ failures' = failures + 1
  /\ UNCHANGED <<source, count, mixed>>

\* The call returns or dies, and its variables with it.
EndCall ==
  /\ pc' = "idle"
  /\ queue' = <<>>
  /\ overwrite' = FALSE
  /\ kernels' = {}
  /\ clean' = TRUE
  /\ UNCHANGED count

\* A stem without a file in the library is skipped with a warning, and one
\* that is there already without overwrite.
Wanted(f) == f \in DOMAIN lib /\ (overwrite \/ f \notin DOMAIN dest)

Written(f, what) == [g \in DOMAIN dest \cup {f} |-> IF g = f THEN what ELSE dest[g]]

CopyFile ==
  /\ pc = "files"
  /\ queue # <<>>
  /\ LET f == Head(queue)
     IN  dest' = IF Wanted(f) THEN Written(f, Released(lib[f])) ELSE dest
  /\ queue' = Tail(queue)
  /\ UNCHANGED <<source, destRds, destTsv, pc, overwrite, kernels, clean, count, history>>

\* What needs the file is copied all the same.
CopyFileFails(torn) ==
  /\ pc = "files"
  /\ queue # <<>>
  /\ Fail
  /\ LET f == Head(queue)
     IN  /\ Wanted(f)
         /\ refused' = refused \cup {f}
         /\ dest' = IF torn THEN Written(f, TornFile) ELSE dest
         /\ served' = IF torn THEN {k \in served : f \notin Listed(all[k])} ELSE served
  /\ queue' = Tail(queue)
  /\ clean' = FALSE
  /\ UNCHANGED <<destRds, destTsv, pc, overwrite, kernels>>

\* Mutant: the index is copied when one file is.
EndFiles_Early ==
  /\ pc = "files"
  /\ pc' = "rds"
  /\ UNCHANGED <<source, directory, queue, overwrite, kernels, clean, count, history>>

EndFiles ==
  /\ pc = "files"
  /\ queue = <<>>
  /\ pc' = "rds"
  /\ UNCHANGED <<source, directory, queue, overwrite, kernels, clean, count, history>>

CopyRds ==
  /\ pc = "rds"
  /\ destRds' = IF overwrite \/ destRds = NoFile THEN Released(index) ELSE destRds
  /\ pc' = "tsv"
  /\ UNCHANGED <<source, dest, destTsv, queue, overwrite, kernels, clean, count, history>>

CopyRdsFails(torn) ==
  /\ pc = "rds"
  /\ Fail
  /\ overwrite \/ destRds = NoFile
  /\ destRds' = IF torn THEN TornIndex ELSE destRds
  /\ served' = IF torn THEN {} ELSE served
  /\ pc' = "tsv"
  /\ clean' = FALSE
  /\ UNCHANGED <<dest, destTsv, queue, overwrite, kernels, refused>>

\* Mutant: only the rds is refreshed over an older copy.
CopyTsv_KeepsOld ==
  /\ pc = "tsv"
  /\ destTsv' = IF destTsv = NoFile THEN Released(index) ELSE destTsv
  /\ served' = IF clean THEN served \cup kernels ELSE served
  /\ EndCall
  /\ UNCHANGED <<source, dest, destRds, mixed, failures, refused>>

CopyTsv ==
  /\ pc = "tsv"
  /\ destTsv' = IF overwrite \/ destTsv = NoFile THEN Released(index) ELSE destTsv
  /\ served' = IF clean THEN served \cup kernels ELSE served
  /\ EndCall
  /\ UNCHANGED <<source, dest, destRds, mixed, failures, refused>>

CopyTsvFails(torn) ==
  /\ pc = "tsv"
  /\ Fail
  /\ overwrite \/ destTsv = NoFile
  /\ destTsv' = IF torn THEN TornIndex ELSE destTsv
  /\ served' = IF torn THEN {} ELSE served
  /\ EndCall
  /\ UNCHANGED <<dest, destRds, refused>>

Interrupt ==
  /\ pc # "idle"
  /\ EndCall
  /\ UNCHANGED <<source, directory, history>>

Next ==
  \/ \E f \in Stem, d \in Dependencies : Change(f, d)
  \/ \E f \in DOMAIN lib : Release([g \in DOMAIN lib \ {f} |-> lib[g]])
  \/ \E k \in Kernel : Retag(k)
  \/ \E K \in SUBSET Kernel, over \in BOOLEAN : Extract(K, over)
  \/ CopyFile \/ EndFiles \/ CopyRds \/ CopyTsv \/ Interrupt
  \/ \E torn \in BOOLEAN : CopyFileFails(torn) \/ CopyRdsFails(torn) \/ CopyTsvFails(torn)

Spec == Init /\ [][Next]_vars

-----------------------------------------------------------------------------

TypeOK ==
  /\ lib \in Libraries
  /\ index \in Indexes
  /\ version \in 0..MaxVersion
  /\ calls \in [Kernel -> SUBSET Stem]
  /\ all \in [Kernel -> ((SUBSET Stem) \ {{}}) \cup {NoTag}]
  /\ DOMAIN dest \subseteq Stem
  /\ \A f \in DOMAIN dest : dest[f] \in [of : 0..MaxVersion, is : SUBSET Stem] \cup {TornFile}
  /\ destRds \in [of : 0..MaxVersion, is : Indexes] \cup {NoFile, TornIndex}
  /\ destTsv \in [of : 0..MaxVersion, is : Indexes] \cup {NoFile, TornIndex}
  /\ pc \in {"idle", "files", "rds", "tsv"}
  /\ queue \in Seq(Stem)
  /\ pc \in {"idle", "rds", "tsv"} => queue = <<>>
  /\ count \in 0..MaxCalls
  /\ kernels \in SUBSET Kernel
  /\ failures \in 0..MaxFailures
  /\ refused \in SUBSET Stem
  /\ served \in SUBSET Kernel
  /\ overwrite \in BOOLEAN /\ clean \in BOOLEAN /\ mixed \in BOOLEAN

DestLibrary == [f \in DOMAIN dest |-> dest[f].is]

(***************************************************************************)
(* As long as kernels are extracted by tags of the release that is copied, *)
(* dest_dir is at every moment a library that load_kernel_library can load *)
(* as a whole: after an interrupt, over the files of earlier releases, and *)
(* with or without overwriting them.  It rests on copying in dependency    *)
(* order: what is there already never waits for what is still to come.     *)
(* A copy that fails makes the exception: what it leaves missing is never  *)
(* more than the stems it failed for, and with these copied after all, and *)
(* everything of this release, dest_dir can be loaded again.               *)
(***************************************************************************)
DestLoadable ==
  ~ mixed =>
    /\ \A f \in DOMAIN dest : dest[f].is \subseteq DOMAIN dest \cup refused
    /\ refused = {} \/ (refused \subseteq DOMAIN dest /\ OfThisRelease) =>
         DOMAIN dest = {} \/ Indexable(DestLibrary)

(***************************************************************************)
(* A complete extraction, over nothing but this release or with overwrite  *)
(* and with no copy that failed, gives its kernels from dest_dir what they *)
(* get from the library.  Later calls for other kernels, complete or not,  *)
(* leave that as it is, unless a copy of theirs tears a file it needs.     *)
(***************************************************************************)
SubsetServes ==
  \A k \in served : Current(k) =>
    LET text == CrossSubset(all[k], index, DOMAIN lib)
    IN  /\ CrossSubset(all[k], destTsv.is, DOMAIN dest) = text
        /\ RSubset(all[k], destRds.is, DOMAIN dest) = text
        /\ \A s \in Listed(all[k]) : dest[s].is = lib[s]
=============================================================================
