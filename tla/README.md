# opencltools: a TLA+ model

`opencltools` is an R package with a C++ core. It assembles OpenCL programs
from a library of `.cl` files whose dependencies stand in comment lines
(`// @depends: a, b`), keeps derived dependency tags and index files up to
date, chooses the OpenCL device that computes in double precision, and
helps to port CUDA-style packages. These modules model the parts of it that keep
state over several steps: sorting, staging, tagging, indexing, extracting, preloading,
the porting of build files, the calls of native packages and the device cache. TLC checks
them on small instances; TLAPS proves every safety property the runs check, for every number of files,
kernels, rows, edits, threads and devices (section 5). Liveness is left to TLC.

Paths below are relative to the repository root (`src/` is the C++ code,
`R/` the R code), line numbers are in `PROJECT.json`, under `map`.

## 1. The system

| component | code | state it keeps | operations |
|---|---|---|---|
| C++ library loader | `src/kernel_loader.cpp` | none between calls; during one, `file_map`, `sorted`, `unsorted_set`, `newly_sorted` | `load_kernel_library`, `load_kernel_source` |
| R dependency sort | `R/stage_kernel_dependency_sort.R` | the records read, `sorted`, `remaining` | `dependency_sort_prefix`, the cycle report, `stage_kernel_dependency_sort` into a directory |
| dependency tags | `R/attach_kernel_dependency_tags.R` | `@load_order`, `@all_depends`, `@all_depends_count` in every library file | `attach_kernel_dependency_tags` |
| dependency index | `R/write_kernel_dependency_index.R`, `R/cl_library_internals.R` | `kernel_dependency_index.rds` and `.tsv` | `write_kernel_dependency_index`, the two readers |
| tags of kernels | `R/attach_kernel_call_tags.R`, `R/attach_cross_library_tags.R` | `@depends_<lib>`, `@calls_<lib>`, `@all_depends_<lib>` in a kernel | the two attach functions |
| loaders of a subset | `R/load_library_for_kernel*.R`, `src/kernel_loader.cpp` | none | three loaders with different rules |
| extraction | `R/extract_library_subset.R` | a directory of copies with an index | `extract_library_subset` |
| program preload | `R/load_program_preload.R`, `R/program_preload_internals.R`, `src/kernel_loader.cpp` | `program_preload.tsv` and `.rds` | read, write, load, from R and natively |
| fp64 selection | `src/opencl_device_selection.cpp` | `g_cache`, `g_fp64_sel_initialized`, behind `g_fp64_sel_mutex` | ensure, force, reset, `opencl_device_info` |
| porting of configure scripts | `R/port_to_opencl_configure.R`, `R/use_opencl_configure.R`, templates | `configure`, `configure.win`, `src/Makevars`, `src/Makevars.win` and their `.in` templates | `port_to_opencl_configure`, `use_opencl_configure`, an installation |
| C ABI | `src/opencltools_ccallables.cpp`, `inst/include/opencltools/opencltools_capi.h`, `R/zzz.R` | the registration, the static pointers of the accessors, the blocks handed to callers | registration, lookup, string routines, `opencltools_free_cstr` |
| diagnostics, PATH, linker flags | `R/gpu_diagnostics.R`, `R/add_to_path.R`, `R/opencltools_ldflags.R` | environment variables, shell profiles | not modelled, see section 7 |
| bindings, enumeration, hints, printing, package build, ported libraries | see `PROJECT.json` | none of their own | not modelled, see section 7 |

How they interact. Components never call each other while they work; they meet
in files. A porter edits `@depends` lines in library files. The R sort reads
them, and its result feeds the tags of the library and the index. The index is
two files with one content: R reads the rds, C++ reads the tsv. A kernel's
calls are written into the kernel, expanded with the index, and read back by
three loaders, which need the tag, the index and the library files to agree.
The extraction copies library and index into a project, where the same loaders
and `load_kernel_library` run again. The preload concatenates files
and whole libraries with `load_kernel_source` and `load_kernel_library`. A native
package gets the same texts through registered C routines, as blocks it has to free.
The device cache is separate: the R thread and native callers share it. The porting
tools work on another package's build files, which the scripts they leave
rewrite at every installation.

What is hard. Only the device cache has real threads. The rest is one
session at a time over files that outlive it, and that is where the difficulty
lies: tools run in any order and some are forgotten, people edit between and
during runs, files are written one by one and sessions die in between, pairs of
files are meant to agree and are written in two steps, a copy that fails is not noticed, and the same
question ("what does this kernel need?", "what is the manifest?") is answered
by R code and by C++ code with different parsers and rules. In the sorts the hazard
is in the loops: sets that grow while they are iterated, and a `repeat` or
`while` whose only exit is a progress test.

What makes each component correct:

- sorts: every file once and behind everything it depends on; success exactly
  when the library can be sorted; both languages agree on that; termination;
- cycle report: no cycle of two to four files is missing;
- tags and index: exactly the transitive needs, in load order; a complete run makes
  all tags agree; a repeated run changes nothing; nothing partial is written;
- kernel tags and loaders: fresh tags and a fresh index give a complete,
  compilable text, whatever was done before; the loaders agree over one index;
- extraction: the directory is loadable at any moment, but for what a failed copy left out;
- preload: the text is the manifest's; R and C++ read the same one after a write;
- staging: what lies in the directory can be loaded in the order of its numbers, at any moment, but for
  files whose copy was refused;
- porting: what the developer's `=` lines set reaches the builds, and no line is lost, whatever is repeated,
  interrupted, cloned or installed; a repeated call mends an interrupted one;
- C ABI: a text or NULL for every call, a block exactly for each text, no failed lookup kept;
- device cache: what is seen is a whole selection, the documented one, and it
  sticks; no call hangs.

## 2. The modules

    PortAnnotations          files, @depends lines, what each parser reads
      CppLibrarySort         load_kernel_library, one call
        NativeLibraryCall    a C++ package that calls it, and the other loaders
        MCCommaLists         a sentence of its documentation
      RDependencySort        dependency_sort_prefix and the cycle report
        StageKernelSort      the sorted library written into a directory
        AttachDependencyTags many runs of the tagging tool over one library
    LoadOrder                abstract: what a dependency sort promises;
                             implemented by both sorts
    Ordering                 ascending lists, and lists in the order of another one
    LibraryOrder             the sort and the index as functions of the library
    DependencyIndex          expanded tags and the three loaders (operators)
      KernelTagging          index files, kernel tags, edits, crashes
      LibrarySubset          extraction into a directory, over several releases
    ProgramPreload           manifest files, their readers, the load calls
    Fp64Selection            the device cache with several threads
    ConfigurePort            the build files of a package that is being ported
    MC*                      small instances and their constants
    SequenceFacts            facts about sequences, recursive functions and LibraryOrder
    *_proof                  the theorems, one module per component:
                             CppLibrarySort (with LoadOrder and NativeLibraryCall),
                             RDependencySort (with StageKernelSort and AttachDependencyTags),
                             KernelTagging, LibrarySubset, ProgramPreload, Fp64Selection,
                             ConfigurePort

**Common conventions.** A stem is an integer, its alphabetical place: both
`std::map` and `list.files` deliver files in that order. A text is the sequence
of the stems whose contents it concatenates. One symbol stands for each library file and goes by
its stem. Writing, copying or reading one file is one step; a session can die between
two. Variables called *history* in a module are read by properties only, never by
an action's guard. Definitions whose name has a suffix behind an underscore
(`EndPass_OnlyOne`) are plausible mistakes; no action uses them, and each property
is shown to fail when one takes the place of the definition it is named for.

**PortAnnotations.** A file's header is the form of its annotation line and the
names on it. `CppDepends` and `RDepends` are what the two parsers make of it:
the C++ scan splits at blanks and drops commas, so `a,b` is one foreign name; the R parser
splits at commas but wants the tag at the start of the line. `Foreign` is any token
that names no file.

**CppLibrarySort.** `ScanDirectory`, `PlaceIndependent`/`Defer` (the first
loop), `BeginPass`/`Promote`/`Skip`/`EndPass` (a pass over `unsorted_set` while
`sorted_set` grows), `AppendSource`/`ReturnText` (the second opening of each
file). `pc` has one end state per exception of the code. `RemoveFile` is another process.

**NativeLibraryCall** puts a native caller around it. `OnLoad` registers all routines; each
accessor keeps a pointer once R has found it (`Resolve`), and a call before that ends in
`Rf_error` (`LookupFails`). `CallLibrary` enters `load_kernel_library`, whose steps follow as
`LoadStep`; then `CopyText` allocates a block, or finds no memory, and `CatchAll` turns every
exception into NULL. The other loaders are text or NULL in one step; `GivesNull` is also the
NULL argument. `FreeText` gives the block back. A caller holds at most one text of each loader.

**RDependencySort.** The R version of the same: all files in every pass, a break
when a pass promotes nothing or everything, the last removal behind the loop.
`CycleReport` follows the nested loops of `cycle_report_from_unresolved`; a cycle's
key is the set of its rotations in both directions, of which the code keeps the least.

**StageKernelSort** extends it: `RefuseDirectory` or `MakeDirectory` (which removes an earlier one),
`ReadRecords` (where an empty library stops the call, too late for the earlier
directory), the sort step by step, `CopySorted` and `CopyUnresolved` file by file, and
the two reports. Both copy with `file.copy`, whose answer FALSE is ignored: a copy that is not
`made` leaves a hole in the numbers, or a file in neither directory, and the call goes on (`refused` remembers
the file). A session that dies is a behaviour that stops.

**AttachDependencyTags** extends it too: `Start` (dry or not), the sort step by step,
`Refuse` or `BeginTags`, the stack walk of `transitive_depends_for_file` (`Visit`;
the stack is a set, because what the walk collects does not depend on the order of
visits), `WriteTags` per file, and `Interrupt` and `Edit` at any moment.

**LibraryOrder** has no variables: `SortedFiles` makes as many passes (`OnePass`) over the
files as there are files, `Indexable` says that all are placed, and `IndexOf` is the record
`write_kernel_dependency_index` writes. `TransitiveDepends` is the least set closed under
dependencies; that the code's stack walk ends with it is proved of `AttachDependencyTags`.
`Ordering` defines `Ascending` and `Kept` by what they return and not by a sorting or filtering
operator, of which the provers know nothing.

**DependencyIndex** is made of operators, too. `ExpandedTag` is what `attach_cross_library_tags` writes, `RSubset`, `CppSubset`
and `CrossSubset` are the three loaders with their rules for unknown stems,
missing files and missing indexes, and with the tag prefix match of
`parse_cl_tag` (`alike`, and `counted` for the `_count` line, whose number makes the C++ loader read the index for
a kernel that needs nothing).

**KernelTagging** has the two index files, the index object of a session, kernels
with their two tags, and as actions the tools (`BuildIndex`, `SaveRds`, `WriteTsv`,
`ReadRds`, `TagCalls`, `CrossTags`), people (`AddOrChange`, `RemoveFile`,
`EditKernel`) and `Crash`. A path is a name and an ending; `TsvFor` replaces the ending `.rds`, in any
letter case, and leaves every other.

**LibrarySubset** has one library in several releases, kernels with tags of any of
them, and a directory: `Extract`, `CopyFile` per stem, `CopyRds`, `CopyTsv`, with
`overwrite` or without, and `Interrupt`, `Release`, `Retag`. Each copy may fail (`CopyFileFails`,
`CopyRdsFails`, `CopyTsvFails`), its target left as it was or without contents, and the call goes on as the code
does, which ignores what `file.copy` answers.

**ProgramPreload** has the two manifest files, the pieces' state (text, empty,
missing) and one session: `StartWrite`/`WriteTsv`/`WriteRds`, `ReadManifest`,
`LoadFromR`, `LoadNative`, `LoadWithManifest`, `ReadTsv`, `AppendPiece`,
`Return`; people edit the tsv and the pieces; `Crash`. A rank below one stands for every mistake both
languages refuse; a rank with a fraction is what `as.integer` cuts off and
`std::stoi` leaves characters of.

**Fp64Selection** has threads that call ensure, force, reset or info. `Reuse` and
`BeginRefresh` take the mutex; `Enumerate`, `PlatformsFail`, `ProbeSucceeds`,
`ProbeFails`, `StoreDevice` are `refresh_selection_unlocked`, with the cache
written in the pieces the code writes it in; `Unlock` leads back to the second
lock of `opencl_device_info`; `ReadHead` and `ReadBody` read through the returned
reference, outside the mutex. Devices, drivers and variables change under `Change`.

**ConfigurePort** has, for Unix and for Windows, the Makevars, its template and the
configure script, each with what the tools tell apart: whose base flags a Makevars holds,
whether it has `+=` lines and OpenCL's flags; whether a script is the developer's own, the
generic one or the ported one. A call is `StartPort` (which refuses or hands over)
or `StartUse`, then `WriteScript` and `KeepTemplate` per platform, with `Interrupt` between
any two. `Install` runs a script, OpenCL found or not (`Configured`, `Merged`); `EditFlags` is the
developer, who edits the template once there is one; `FreshClone` drops the files the tools
advise to ignore.

**LoadOrder** places files one at a time, each when everything it depends on is placed, in any
order among those that are ready, and ends when all are placed or none can be. It is
what lets a C++ text be expected to sort whenever the R tools accepted the library, provided both
parsers read the same names.

## 3. The runs

| run | question | bounds |
|---|---|---|
| `cpp_sort` (NativeLibraryCall) | Is a returned text whole and ordered, is the outcome the library's, does every behaviour refine `LoadOrder`, is every native call answered, with a block exactly for a text? | all libraries of up to 3 files, 4 header forms, up to 2 names per line, files removed at any moment of the concatenation, one other loader |
| `r_sort` (StageKernelSort) | The same for R; does the cycle report miss a cycle, and what may the staged directory lack to be loadable at any moment? | all libraries of up to 4 files, up to 2 names each, with and without an earlier directory, 1 refused copy |
| `attach_tags` | Are the transitive needs right, and what can be relied on after edits, interrupts and repeated runs? | 3 files, 2 runs, 1 edit, interrupts unlimited |
| `kernel_tagging` | When does a kernel get a complete text, when do loaders and index files agree? | 3 stems, 1 kernel that calls none or one, at most 1 dependency per file, 1 edit of the library, 1 of the kernel, 1 crash, the default `output_path` |
| `library_subset` | What may the directory lack to be loadable, and does it serve the kernels it was made for? | 3 stems, 2 interchangeable kernels (symmetry), 2 calls, 2 releases, 1 failed copy, interrupts unlimited |
| `preload` | What does a returned text hold, and when do R and C++ read one manifest? | 2 rows, 2 pieces, 4 kinds of rank, 1 edit, 2 calls, crashes unlimited |
| `fp64` | Whole, current and sticking selections; do all calls end? | 2 threads, 3 device slots on 2 platforms, 2 calls, 1 change of the machine |
| `configure_port` | Which of the developer's lines reach the builds, what can lose them, can a call be repeated? | 2 platforms, 2 edits of the flags; calls, interrupts, clones and installations unlimited |
| `comma_lists`, `candidates`, `index_path`, `rerun_port` | four sentences of the documentation, refuted (section 4) | the smallest instance that shows it |

Why these bounds. The sorts' hazards need a chain of two (promotion in the same
pass or in the next), a cycle of two and of three, a self-dependency, a
foreign name and an independent file at either end of the alphabet: three files
have all of them; the fourth in `r_sort` gives cycles of four, the longest the report
looks for, and diamonds with a tail. That both sorts, the report and the walk are right beyond these sizes is not left
to the bound, and neither is the cache with more threads or devices: they are proved. For the tools a single edit, a single crash and two
runs suffice to make each of the files involved older than each other one; one
copy that fails leaves a hole before files that are there and after them; two
calls of the cache are one reader and one disturber, with `opencl_device_info`
locking twice within its call. In `configure_port` two edits tell the first flags, the ones a
template was made from and the present ones apart. The native caller's four header forms leave out
`spaced`, which the C++ parser reads as it reads `qualified`. `kernel_tagging` has one kernel because no tool relates two kernels to each
other; `library_subset` has two because there extraction does.

`CHECK_DEADLOCK FALSE` is in every cfg but those of `ConfigurePort`: a call that returned, and a session that
has used up its bounded edits and calls, really stop.

### Fairness

Only a call in progress is fair: `WF(Running)` in `NativeLibraryCall`, `WF(StageNext)` in `StageKernelSort`
(one call, nothing else), `WF(Run)` in `AttachDependencyTags`, and in
`Fp64Selection` `WF(Step(t))` for every thread. The code in these is sequential and waits for
nothing but the mutex, so the process scheduler is all it takes. For the mutex
weak fairness is enough *because* calls are bounded: when the other threads'
calls are used up, nobody competes for it. No people, crash, interrupt
or change of the machine is ever fair, and starting a call is not either.
`KernelTagging` states `WF(WriteTsv)` only for the run `index_path`, so that
its counterexample is of a system that does not stop half-way.

## 4. Where code and documentation disagree

Each is a run of its own that TLC refutes, with both places quoted in `PROJECT.json` under `findings`.

1. `comma_lists`: the manual page of `load_kernel_library` specifies a comma-separated list
   and says a failed sort means cycles or missing files; `a,b` without a blank fails the C++
   sort with neither, while the R tools accept it.
2. `candidates`: `opencl_device_info(details = TRUE)` is said to list every
   platform/device pair; with `NMATHOPENCL_PLATFORM_INDEX` set it lists one platform.
3. `index_path`: `output_path` is said to be the path of the rds; a name without
   `.rds` is overwritten by the tsv in the same call.
4. `rerun_port`: the porting tool advises to ignore `src/Makevars`, to maintain the template
   and to run it again with `overwrite = TRUE` after changes. In a fresh clone, where there is no
   `src/Makevars`, that call is handed over to `use_opencl_configure` and replaces the ported
   script by the generic one. The same happens to `configure.win` alone where a clone has
   no `src/Makevars.win`.

Known from reading, without a run of their own:

- the manual page of `load_kernel_library` says the library header is loaded first; the code
  only puts files without dependencies first, in alphabetical order (`IndependentFirst`
  states what does hold);
- a test expects `load_program_preload(manifest =)` to match the C++ loader; R prefers the
  rds, C++ reads the tsv, and after an edit of the tsv they differ (`WrittenFilesAgree`
  states until when they agree);
- the porting page says an existing `configure.win` is kept without `overwrite`; with a
  `src/Makevars.win` it is rewritten (`WriteScript`);
- `+=` lines are said to be preserved verbatim (`R/port_to_opencl_configure.R:119-123`); an
  installation that finds OpenCL drops them, an installation without it keeps them (`FlagsReachBuild` states which);
- `copied` is said to be TRUE for the files that were copied (`R/extract_library_subset.R:62-64`); it is TRUE
  for those that were to be copied, whether `file.copy` succeeded or not (line 168). The reports of
  `stage_kernel_dependency_sort` list a file as sorted or unresolved in the same way (lines 140 and 148);
- with `backup = FALSE` the page has `src/Makevars` left in place; the ported script finds no
  template, and an installation with OpenCL truncates it (`FlagsLostOnlyUnkept` names the case).

## 5. What is proved

Every invariant and action property that a passing run checks is a theorem, for all values of the
constants that satisfy the named assumptions; what is left to TLC stands at the end of this section.
A theorem module per component extends the component's module and `SequenceFacts`.

The assumptions, which TLC evaluates in every run:

- `PortAnnotations`: stems are integers, the foreign token is none of them, the forms are those listed;
- `DependencyIndex`: the stems that may occur are finitely many integers, and the three values for
  "no index", "no tag" and "failure" are none of the things they stand in place of (`AbsentAssumption`).
  Finiteness is that of a directory; the number of passes is the number of files;
- `KernelTagging`, `LibrarySubset`: calls and dependencies are sets of stems; a path has a name and an ending;
- `ProgramPreload`: rows have an integer rank, and a row whose rank loses its fraction is
  a row again (`RowAssumption`), since `as.integer` makes one;
- `Fp64Selection`: `NoThread` is no thread, a device is a pair of a platform's number and its own,
  GPUs are devices, the environment's values are numbers;
- every bound is a natural number.

One theorem has a hypothesis besides: `FilesDiffer` assumes `OneTsv`, that no `output_path` but the default
has its tsv where the default has it. Two kinds of path are thereby excluded, that of the tsv itself
and the default with `.RDS` for `.rds`: a call with one of them replaces the tsv and leaves the rds that R reads.

**SequenceFacts.** The index is computed by recursive functions over the library, so its theorems need
induction. For these it is available: `IntervalInduction` is induction over `0..n` for a set instead of a
predicate, and `Recursion` says that a function defined by a base value and a step over `0..n` is a
run of the step from that value (`Runs`). From `VisitedFacts` over `OnePassFacts` to `SortedFacts` each
visit, pass and sort keeps a list complete (`Orders`); a pass that leaves something unplaced although the library is
`Loadable` places at least one file (`PassPlaces`), hence **SortSucceeds**: as many passes as files place everything
exactly when every set of files has a member that depends on no other member and all dependencies are
there. `KeptComplete` and `ExpansionLoads` carry completeness over to the part of the list a kernel needs.
`AscendingFacts` and `KeptFacts` say that the two orders of `Ordering` exist.

**LoadOrder** (in `CppLibrarySort_proof`, over variables of its own). `SortInv` is `TypeOK`,
`TopologicalOrder`, `PlacedSortable` (what is placed lies in every closed set of files) and
`EndedComplete`. The second and fourth are needed because `EndsAtSortable` says something about a least set:
`Placed` is contained in every closed set by induction over the steps, and at
the end it is itself closed, since nothing is ready any more. Hence
`OrderIsTopological` and `AbstractOutcome`: two sorts that implement
`LoadOrder` never disagree on a library.

**CppLibrarySort_proof.** `TypeOK` and the properties are far from inductive; the
invariant adds what the loops keep:

- `Ordered`: what is in `sorted` stands once and behind its dependencies;
- `Split`: during the first loop every file is placed, deferred or still to be visited;
- `Between`: between passes, `unsorted` is exactly what is not placed;
- `Pass`: during a pass, `newly` is what was placed since it began, and if that
  is nothing, every file visited so far was not ready, and still is not. This is what makes "no progress"
  mean "stuck" although `sorted_set` grows under the iteration;
- `Done`: what each end of the sort says about `sorted`;
- `Text`: the output is a prefix of `sorted`.

From it follow `TypeCorrect`, `ReturnedTextIsWhole` (a removed file ends the call
and never shortens a text) and `OutcomeIsTheLibrarys`. `IndependentFilesFirst` needs one
more invariant, `DependentsBehind`. `Refinement` maps `sorted` to `order` and the phases to `outcome`; each
step of the call places one file, ends the sort, or is a stutter. Native callers:
`NativeCallsAreCalls` shows that every native behaviour is one of
`CppLibrarySort`, so that what is proved of the call holds of the native one (`NativeTextIsWhole`,
`NativeOutcome`, `NativeIndependentFirst`, `NativeRefinement`).
`NativeInv` adds `NativeTypeOK` and `NativeAnswers`: a block
for the library's text can only be compared with `output` because a call that has returned changes
nothing any more.

**RDependencySort_proof.** The same argument for the R loops, with `Ordered`, `Pass` and `Done`;
`Done` has to make good the removal behind the loop. `CyclesReported` needs
no more than that: the files outside a cycle are closed under dependencies if all
sorted files lie outside it, so no file of a cycle is ever sorted, all stay in
`remaining`, and the nested loops visit every path of two to four of them. With
`Refinement` on both sides the two languages agree on every library
that their parsers read alike.

*Staging.* `StageInv` says in which stage the sort has its invariant (`Sorting`; before there is a record
it has none) and what was written so far (`Copying`: a prefix of the load order, then a part of
what remains, then the reports), each file of which is copied or refused. It gives `StagedCopiesAreSorted` and the
sort's theorems for a staging call, for any number of refused copies.

*Tags.* `RunInv` carries the sort's invariant through many runs:
`IInv` holds only while a call is in progress, since an interrupt leaves the sort's variables
half-way until the next `Start`. `Walk` says what the stack walk keeps: what was seen
and what is on the stack are needs of the file, its own dependencies are among them, and
what was seen has its dependencies seen or on the stack. At the empty stack the seen set is
therefore closed, and `Needs` is the least such set (`WalkIsExact`). That a file's needs
stand before it follows from `Ordered`. What is on disk is the harder part: a run that repeats
an interrupted one must write the same tags, although it sorts anew. `ByPasses` says which file may
follow which in a load order, and from it that two complete load orders of one library are
equal. `Written` (what this run has written) and `Settled` (what the last complete run wrote) then speak of the same
list, which gives `RerunIsIdle` and `SettledTagsAreRight`.

*The sort and the index.* `LibraryOrder` computes a library's order in one go and in as many passes as
there are files; the loop leaves placed files out of its later passes and stops at the first one that
promotes nothing. `VisitMidway` and `PassRested` show that the function's list satisfies `ByPasses`, too,
and `PassGrows` that in the end it can place no more; two such lists are the same (`SameEnds`). So the loop
ends with `SortedFiles`, whether it resolves the library or not (`SortIsSortedFiles`; that it ends at all only for a
finite library is `Counted`), and, as `Needs` is `TransitiveDepends`, the tags in the files are what the
index of the library says (`TagsAgreeWithIndex`). These theorems bind the modules built on `DependencyIndex`
to the ones that model the loops.

**KernelTagging_proof.** The tools run in any order, with index objects and files of any age, so the invariant is
about what was made from what, and when. `Accurate`: whatever claims to be made from the library as it is, an index in the
session, in a file or about to be written, *is* `IndexOf(lib)`, and tags that claim it are what that index expands
the kernel's present calls to. `Past`: no claim is ahead of the present version, so an edit voids all of them at
once. `AllSound`: every index, of whatever version, is sound. `Histories` has the types of the claims. They give
`StoredIndexesAreSound` and, with `ExpandedLoads` (a kernel's calls, expanded and loaded by the library's index,
make a complete text), `FreshTagsServe`. `OneIndexOneText` needs only that an index is sound; `FilesTogether`,
which says what a write in progress has done so far, is the further invariant behind `FilesDiffer`.

**LibrarySubset_proof.** `Indexed`: the index is the release's. `Dated`: nothing in dest_dir is newer than the release, and what is
of this release is as in the release. `CleanCall`: a call that found (or replaces) nothing older has copied what is not in its queue any
more. `Serving`: what served kernels were promised. `Copying`: dest_dir is loadable and, during a copy, the queue
is what remains of a dependency-ordered list from some place on (`Progress`), all before that place being in dest_dir. That
one more file keeps a directory of several releases loadable is `CopyKeepsLoadable`: without `overwrite`
a file that is there keeps its old, closed dependencies, and with it all it now depends on has just
been replaced as well, unless its copy failed; `SortSucceeds` turns loadable into "the sort succeeds" for `DestStaysLoadable`.
`Closed` is what failed copies leave of it: nothing is missing but the stems they failed for.

**ProgramPreload_proof.** `Writing`: what is about to be stored was validated, and is in the tsv before it
is in the rds. `Loading`: the text so far is a prefix of the plan, which is ascending in rank. `Agreeing`: after a
complete write both files hold one accepted manifest, and an undisturbed call works with it. That the manifest by rank has every row
once, for any number of rows, is `ByRankFacts`.

**Fp64Selection_proof.** `Exclusion` ties the critical program counters to the mutex.
`Progress` says, for each point of a refresh, what the holder has made of the cache so
far; `Released` is what it must be when the mutex is free; these give
`SelectionIsWhole`. `Reading` is the part of a thread that reads outside the mutex: as
long as no forced call or reset overlapped it, the cache is the one it was given, because
all others only reuse it. `Discovery` (separate, and only while the machine is
unchanged) says that no device that qualifies was passed over by a probe, and that the one to be
stored is the first of the remaining candidates and supports fp64; it gives `SelectionIsDocumented`.

**ConfigurePort_proof.** Four facts make the properties inductive. `TemplateCurrent`: a template that exists has the
flags as maintained, wherever the Makevars still has them, because edits go to the template once there is
one. `Settled`: what a complete call with backup has ported still has its template, since
no tool removes or rewrites one. `Porting`: a call that ports began with a Makevars, and is the one
whose outcome is expected. `Repeatable` itself: the outcome of a repeated call hangs on nothing
that a call changes, except on a template it has made already. From them follow `PortedFlagsReachBuilds`,
`PortingIsRepeatable` and `OnlyUnkeptFlagsAreLost`.

**Only model-checked.** Liveness (`CallAnswered`, `StageEnds`, `RunEnds`,
`CallsEnd`) under fairness, which is outside what the prover handles, and the four refuted sentences of
section 4.

## 6. Things the properties leave open, on purpose

- `InfoConsistent` excludes calls that a forced call or a reset overlapped: there the code reads
  a cache that another thread is writing, which has no defined
  result. The model does let those reads return torn values.
- A copy that fails costs what `StagedAsSorted`, `DestLoadable` and `SubsetServes` say: no more than the file itself is
  missing, nothing is put in a wrong place, and an extraction with a failure makes no promise to its own kernels.
  That the call ends as if nothing had happened is what the code does.
- `FilesDifferOnlyTorn` and `WrittenFilesAgree` hold *except* after an interrupted
  write or a manual edit: these exceptions are real, and reachable in the runs.
- `DestLoadable` is about extractions with tags of the release at hand; with
  tags of another release the copied files need not be closed under dependencies.
- `FlagsReachBuild` asks for a complete call with backup and for the ported script to be still
  there; `FlagsLostOnlyUnkept` names the installations that do lose flags: under a generic
  script, which knows none, and under a ported one whose template was never made. Both are
  reachable in the run. A call is judged by the flags the developer maintains, so a
  `src/Makevars` that already is a build artifact when first ported is outside the model.
- `Repeatable` is about repetitions before the next edit, clone or installation;
  `rerun_port` shows why it cannot go further.
- `StagedAsSorted` does not promise the earlier directory back when a call stops at an empty library.
- `TextServesKernel` asks for calls, expansion and index of the current library,
  and nothing about the order or number of tool runs before.

## 7. What is not modelled, and why

- GPU diagnostics: calls of system tools whose output is matched and worded into advice, with
  nothing kept between them. What the tools print is not in the source, so a model would
  check its own assumptions.
- PATH helpers and linker flags: one-shot edits of a profile or of environment variables. Two
  observations: `add_to_path_windows` rewrites the PATH in a loop from the value read before it, so
  only the last directory stays; the edits of `~/.bashrc` are appended again at every call.
- Rcpp glue and the enumeration helpers keep no state; their calls
  of the cache are the second thread of `Fp64Selection`.
- Known-failure hints, printing, the build of the package itself: wording and
  layout, or one-off shell scripts.
- `inst/cl`: ported numerical OpenCL code, the data of these tools.
- In modelled components: texts of messages and warnings, metadata of returned
  records, the recognition of calls in C text (a kernel *has* the set of symbols it
  calls), file encodings, and an editor that overwrites a file while a tool rewrites it.

## 8. Plan

1. Done: every component that keeps state over several steps has its module, and every safety
   property of the runs its theorem.
2. Next: that the three loaders' texts can be compiled from dest_dir as from the library, for kernels
   of several libraries.
3. Properties that a theorem covers can leave the runs when others need the room.
