------------------------ MODULE AttachDependencyTags ------------------------
(***************************************************************************)
(* attach_kernel_dependency_tags: sort a library and write @load_order,    *)
(* @all_depends and @all_depends_count into each of its files.  A library  *)
(* lives through many runs: sources are edited between and during them,    *)
(* runs are dry or interrupted, and the files are rewritten one by one.    *)
(***************************************************************************)
EXTENDS RDependencySort, Ordering

CONSTANTS
  MaxRuns,     \* bound: calls of attach_kernel_dependency_tags
  MaxEdits     \* bound: edits of a file's @depends line

ASSUME MaxRunsAssumption == MaxRuns \in Nat
ASSUME MaxEditsAssumption == MaxEdits \in Nat

VARIABLES
  library,     \* [files -> Header]: the @depends lines on disk
  tag,         \* [files -> Tag]: the derived tags on disk
  pc,          \* "idle", "sort", "walk"
  dryRun,
  at,          \* the files before sorted[at] have been tagged
  seen, stack, \* transitive_depends_for_file: the stack as a set, since what
               \* it collects does not depend on the order of the visits
  runs, edits,
  settled      \* the last run wrote all tags from the @depends lines that
               \* are still on disk

tagVars == <<library, tag, pc, dryRun, at, seen, stack, runs, edits, settled>>

vars == <<sortVars, tagVars>>

\* A file's tag lines: 0, <<>> and -1 stand for a line that is not there.
Tag == [order : Nat, all : Seq(Stem), count : Int]

NoTag == [order |-> 0, all |-> <<>>, count |-> -1]

-----------------------------------------------------------------------------

Init ==
  /\ library \in Library(Header)
  /\ tag = [f \in DOMAIN library |-> NoTag]
  /\ pc = "idle"
  /\ dryRun = FALSE
  /\ at = 1
  /\ seen = {}
  /\ stack = {}
  /\ runs = 0
  /\ edits = 0
  /\ settled = FALSE
  /\ BeginSort(Records(library))

\* Mutant: the position is left where the run before stopped.
Start_KeepsPosition(dry) ==
  /\ pc = "idle"
  /\ runs < MaxRuns
  /\ DOMAIN library # {}
  /\ LET read == Records(library)
     IN  /\ records' = read
         /\ sorted' = <<>>
         /\ remaining' = DOMAIN read
         /\ todo' = DOMAIN read
         /\ promoted' = {}
         /\ sortpc' = "pass"
  /\ dryRun' = dry
  /\ runs' = runs + 1
  /\ pc' = "sort"
  /\ UNCHANGED <<library, tag, at, seen, stack, edits, settled>>

\* "No .cl files found": a call on an empty directory changes nothing.
Start(dry) ==
  /\ pc = "idle"
  /\ runs < MaxRuns
  /\ DOMAIN library # {}
  /\ LET read == Records(library)
     IN  /\ records' = read
         /\ sorted' = <<>>
         /\ remaining' = DOMAIN read
         /\ todo' = DOMAIN read
         /\ promoted' = {}
         /\ sortpc' = "pass"
  /\ dryRun' = dry
  /\ at' = 1
  /\ runs' = runs + 1
  /\ pc' = "sort"
  /\ UNCHANGED <<library, tag, seen, stack, edits, settled>>

SortStep == pc = "sort" /\ SortNext /\ UNCHANGED tagVars

\* ok = FALSE: unresolved files remain, and nothing is written.
Refuse ==
  /\ pc = "sort"
  /\ sortpc = "done"
  /\ remaining # {}
  /\ pc' = "idle"
  /\ UNCHANGED <<sortVars, library, tag, dryRun, at, seen, stack, runs, edits, settled>>

\* The lapply over sorted_names, from its start or after a file's tags.
NextFile(position) ==
  IF position <= Len(sorted)
    THEN pc' = "walk" /\ seen' = {} /\ stack' = Local(sorted[position])
    ELSE pc' = "idle" /\ UNCHANGED <<seen, stack>>

\* Mutant: unresolved files do not stop the run.
BeginTags_Partial ==
  /\ pc = "sort"
  /\ sortpc = "done"
  /\ NextFile(at)
  /\ UNCHANGED <<sortVars, library, tag, dryRun, at, runs, edits, settled>>

BeginTags ==
  /\ pc = "sort"
  /\ sortpc = "done"
  /\ remaining = {}
  /\ NextFile(at)
  /\ UNCHANGED <<sortVars, library, tag, dryRun, at, runs, edits, settled>>

\* Mutant: the dependencies of a dependency are not pushed.
Visit_DirectOnly(d) ==
  /\ pc = "walk"
  /\ d \in stack
  /\ stack' = stack \ {d}
  /\ seen' = seen \cup {d}
  /\ UNCHANGED <<sortVars, library, tag, pc, dryRun, at, runs, edits, settled>>

\* Mutant: the stack is looked at and never popped.
Visit_Peeks(d) ==
  /\ pc = "walk"
  /\ d \in stack
  /\ stack' = stack \cup Local(d)
  /\ seen' = seen \cup {d}
  /\ UNCHANGED <<sortVars, library, tag, pc, dryRun, at, runs, edits, settled>>

Visit(d) ==
  /\ pc = "walk"
  /\ d \in stack
  /\ IF d \in seen
       THEN stack' = stack \ {d} /\ seen' = seen
       ELSE stack' = (stack \ {d}) \cup Local(d) /\ seen' = seen \cup {d}
  /\ UNCHANGED <<sortVars, library, tag, pc, dryRun, at, runs, edits, settled>>

\* Mutant: sorted by name.
InLoadOrder_ByName(S) == Ascending(S)

\* sort_by_order
InLoadOrder(S) == Kept(sorted, S)

\* Mutant: the old line of the tag is read on, not replaced.
NewTag_Appends ==
  LET all == tag[sorted[at]].all \o InLoadOrder(seen)
  IN  [order |-> at, all |-> all, count |-> Len(all)]

\* set_port_annotation, three times: each removes the old line of its tag and
\* writes the new one, except that an empty @all_depends is not written.
NewTag == [order |-> at, all |-> InLoadOrder(seen), count |-> Len(InLoadOrder(seen))]

WriteTags ==
  /\ pc = "walk"
  /\ stack = {}
  /\ tag' = IF dryRun THEN tag ELSE [tag EXCEPT ![sorted[at]] = NewTag]
  /\ at' = at + 1
  /\ NextFile(at + 1)
  /\ settled' = IF at = Len(sorted) /\ ~ dryRun
                  THEN Records(library) = records
                  ELSE settled
  /\ UNCHANGED <<sortVars, library, dryRun, runs, edits>>

Run ==
  SortStep \/ Refuse \/ BeginTags \/ (\E d \in stack : Visit(d)) \/ WriteTags

\* The user interrupts the call, or the R session dies.
Interrupt ==
  /\ pc # "idle"
  /\ pc' = "idle"
  /\ UNCHANGED <<sortVars, library, tag, dryRun, at, seen, stack, runs, edits, settled>>

\* The porter edits the @depends line of a file.
Edit(f, h) ==
  /\ edits < MaxEdits
  /\ library' = [library EXCEPT ![f] = h]
  /\ RDepends(h) # RDepends(library[f])
  /\ edits' = edits + 1
  /\ settled' = FALSE
  /\ UNCHANGED <<sortVars, tag, pc, dryRun, at, seen, stack, runs>>

Next ==
  \/ Run \/ Interrupt
  \/ \E dry \in BOOLEAN : Start(dry)
  \/ \E f \in DOMAIN library, h \in Header : Edit(f, h)

Spec == Init /\ [][Next]_vars

\* A call in progress continues; nobody has to call, edit or interrupt.
FairSpec == Spec /\ WF_vars(Run)

-----------------------------------------------------------------------------

TypeOK ==
  /\ SortTypeOK
  /\ library \in [Files -> Header]
  /\ tag \in [Files -> Tag]
  /\ pc \in {"idle", "sort", "walk"}
  /\ dryRun \in BOOLEAN
  /\ at \in 1..(Len(sorted) + 1)
  /\ seen \subseteq Files
  /\ stack \subseteq Files
  /\ runs \in 0..MaxRuns
  /\ edits \in 0..MaxEdits
  /\ settled \in BOOLEAN

(***************************************************************************)
(* What a file needs, with no walk: the least set of files that holds what *)
(* it depends on and whatever a member of the set depends on.              *)
(***************************************************************************)
ClosedUnder(S) == \A d \in S : Local(d) \subseteq S

Needs(f) ==
  {d \in Files : \A S \in SUBSET Files :
     Local(f) \subseteq S /\ ClosedUnder(S) => d \in S}

\* The walk ends with exactly what the file at hand needs, itself excluded.
WalkFindsNeeds ==
  pc = "walk" /\ stack = {} =>
    /\ seen = Needs(sorted[at])
    /\ seen \subseteq {sorted[i] : i \in 1..(at - 1)}

(***************************************************************************)
(* While nobody edits a @depends line, the tags of the last complete run   *)
(* agree with the files: the ranks are a permutation, and @all_depends     *)
(* lists what a file needs, each once, in the order of their ranks, behind *)
(* which the file itself comes.  A later run, even an interrupted one,     *)
(* does not spoil that.                                                    *)
(***************************************************************************)
SettledTagsAgree ==
  settled =>
    LET lib == Records(library)
    IN  /\ {tag[f].order : f \in Files} = 1..Cardinality(Files)
        /\ \A f \in Files :
             LET all == tag[f].all
                 listed == {all[i] : i \in 1..Len(all)}
             IN  /\ tag[f].count = Len(all)
                 /\ lib[f] \subseteq listed
                 /\ \A d \in listed : lib[d] \subseteq listed
                 /\ \A i \in 1..Len(all) : tag[all[i]].order < tag[f].order
                 /\ \A i, j \in 1..Len(all) :
                      i < j => tag[all[i]].order < tag[all[j]].order

\* A run over a library that has not changed since its tags were written
\* rewrites no file.
RerunChangesNothing == [][settled /\ settled' => tag' = tag]_vars

\* Tags are written only when every file could be sorted, and not in a dry run.
WritesOnlyResolved ==
  [][tag' # tag => ~ dryRun /\ Sorted = Files]_vars

\* A call ends.
RunEnds == pc # "idle" ~> pc = "idle"
=============================================================================
