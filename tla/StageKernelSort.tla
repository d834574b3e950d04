-------------------------- MODULE StageKernelSort --------------------------
(***************************************************************************)
(* stage_kernel_dependency_sort: the sort of a library written out for a   *)
(* porter, as a directory of numbered copies, one of the files that could  *)
(* not be placed, and two reports.  The directory may be there already,    *)
(* from a call that ended or from one that was cut off.  A session that    *)
(* dies during a call is a behaviour that stops there.  file.copy may      *)
(* refuse a copy (the source is gone, the disk full, the target not to be  *)
(* written): it answers FALSE, which no line of the call looks at, and the *)
(* call goes on.  What it then leaves at the target, nothing or an empty   *)
(* file, is not told apart: either is a file that is not there to load.    *)
(***************************************************************************)
EXTENDS RDependencySort

CONSTANT MaxRefused       \* how many copies of a call may be refused (a bound)
ASSUME MaxRefusedAssumption == MaxRefused \in Nat

VARIABLES
  outdir,       \* output_dir: "absent", of an "earlier" call, or this call's "own"
  copied,       \* how many of the sorted files the copying has gone through
  staged,       \* the numbers of the copies made in output_dir/sorted
  leftover,     \* the copies made in output_dir/unresolved
  refused,      \* history: the files whose copy was refused
  reports,      \* the reports this call has written
  stage

copyVars == <<copied, staged, leftover, refused>>
stageVars == <<outdir, copied, staged, leftover, refused, reports, stage>>
stagedSortVars == <<sortVars, stageVars>>

-----------------------------------------------------------------------------

StageInit ==
  /\ \E library \in Library(Header) : BeginSort(Records(library))
  /\ outdir \in {"absent", "earlier"}
  /\ copied = 0
  /\ staged = {}
  /\ leftover = {}
  /\ refused = {}
  /\ reports = {}
  /\ stage = "called"

\* "`output_dir` already exists": without overwrite nothing is touched.
RefuseDirectory ==
  /\ stage = "called"
  /\ outdir = "earlier"
  /\ stage' = "stopped"
  /\ UNCHANGED <<sortVars, outdir, copyVars, reports>>

\* Mutant: the two directories are made, and an earlier one stays.
MakeDirectory_Keeps ==
  /\ stage = "called"
  /\ outdir' = IF outdir = "absent" THEN "own" ELSE outdir
  /\ stage' = "made"
  /\ UNCHANGED <<sortVars, copyVars, reports>>

\* unlink, with overwrite, and dir.create.
MakeDirectory ==
  /\ stage = "called"
  /\ outdir' = "own"
  /\ stage' = "made"
  /\ UNCHANGED <<sortVars, copyVars, reports>>

\* "No .cl files found": what was there before is gone by then.
ReadRecords ==
  /\ stage = "made"
  /\ stage' = IF Files = {} THEN "stopped" ELSE "sorting"
  /\ UNCHANGED <<sortVars, outdir, copyVars, reports>>

StageSort ==
  /\ stage = "sorting"
  /\ SortNext
  /\ stage' = IF sortpc' = "done" THEN "copying" ELSE stage
  /\ UNCHANGED <<outdir, copyVars, reports>>

\* One turn of the loop over the sorted files: a refused copy leaves a hole.
CopySorted(made) ==
  /\ stage = "copying"
  /\ copied < Len(sorted)
  /\ made \/ Cardinality(refused) < MaxRefused
  /\ copied' = copied + 1
  /\ staged' = IF made THEN staged \cup {copied'} ELSE staged
  /\ refused' = IF made THEN refused ELSE refused \cup {sorted[copied']}
  /\ UNCHANGED <<sortVars, outdir, leftover, reports, stage>>

CopyUnresolved(f, made) ==
  /\ stage = "copying"
  /\ copied = Len(sorted)
  /\ First(f, remaining \ (leftover \cup refused))
  /\ made \/ Cardinality(refused) < MaxRefused
  /\ leftover' = IF made THEN leftover \cup {f} ELSE leftover
  /\ refused' = IF made THEN refused ELSE refused \cup {f}
  /\ UNCHANGED <<sortVars, outdir, copied, staged, reports, stage>>

WriteReport(name) ==
  /\ stage = "copying"
  /\ copied = Len(sorted)
  /\ remaining \subseteq leftover \cup refused
  /\ name = IF reports = {} THEN "sorted_files.csv" ELSE "unresolved_files.csv"
  /\ reports' = reports \cup {name}
  /\ stage' = IF reports = {} THEN stage ELSE "done"
  /\ UNCHANGED <<sortVars, outdir, copyVars>>

StageStep ==
  \/ MakeDirectory \/ ReadRecords \/ StageSort
  \/ \E made \in BOOLEAN :
        CopySorted(made) \/ \E f \in Files : CopyUnresolved(f, made)
  \/ \E name \in {"sorted_files.csv", "unresolved_files.csv"} : WriteReport(name)

StageNext == RefuseDirectory \/ StageStep

StageSpec == StageInit /\ [][StageNext]_stagedSortVars

\* A call is sequential and waits for nothing.
FairStageSpec == StageSpec /\ WF_stagedSortVars(StageNext)

-----------------------------------------------------------------------------

Staged == {sorted[i] : i \in staged}

(***************************************************************************)
(* At any moment what a copy needs is copied under a lower number, but for *)
(* the files whose copy was refused; nothing of an earlier call lies among *)
(* the copies, and no file put aside could have been placed.  A report is  *)
(* written only when every file of the library is in one directory and in  *)
(* one only, or was refused: without a refusal the staged directory is     *)
(* complete and loads in the order of its numbers.                         *)
(***************************************************************************)
StagedAsSorted ==
  /\ \A i \in staged :
       records[sorted[i]] \subseteq {sorted[j] : j \in {k \in staged : k < i}} \cup refused
  /\ Staged \cup leftover # {} => outdir = "own"
  /\ \A f \in leftover : ~ (records[f] \subseteq Sorted)
  /\ Staged \cap leftover = {}
  /\ refused \cap (Staged \cup leftover) = {}
  /\ reports # {} => Staged \cup leftover \cup refused = Files

\* The call ends, with a complete directory or with an error.
StageEnds == <>(stage \in {"stopped", "done"})
=============================================================================
