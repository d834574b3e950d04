------------------------ MODULE LibrarySubset_proof ------------------------
(***************************************************************************)
(* Proofs about the extraction of library subsets, for every set of stems  *)
(* and kernels, every order of the calls and every place of an interrupt.  *)
(***************************************************************************)
EXTENDS LibrarySubset, SequenceFacts

(***************************************************************************)
(* Libraries that are changed one file at a time.                          *)
(***************************************************************************)

\* A file that is added to a loadable library, where all it depends on is.
LEMMA AddReady ==
  ASSUME NEW l, Loadable(l), NEW m, NEW f, f \notin DOMAIN l,
         DOMAIN m = DOMAIN l \cup {f}, \A g \in DOMAIN l : m[g] = l[g],
         m[f] \subseteq DOMAIN l
  PROVE  Loadable(m)
<1>1. \A g \in DOMAIN l : l[g] \subseteq DOMAIN l
  BY DEF Loadable
<1>2. ASSUME NEW S \in SUBSET DOMAIN m, S # {} PROVE \E g \in S : m[g] \cap S = {}
  <2>1. CASE S \cap DOMAIN l = {}
    BY <1>2, <2>1
  <2>2. CASE S \cap DOMAIN l # {}
    <3>1. PICK g \in S \cap DOMAIN l : l[g] \cap (S \cap DOMAIN l) = {}
      BY <2>2 DEF Loadable
    <3>. QED  BY <1>1, <3>1
  <2>. QED  BY <2>1, <2>2
<1>. QED  BY <1>1, <1>2 DEF Loadable

\* A loadable part with no dependency outside it replaces what was there.
LEMMA Overlay ==
  ASSUME NEW l, Loadable(l), NEW P, NEW m, DOMAIN m = DOMAIN l \cup P,
         \A g \in DOMAIN l \ P : m[g] = l[g],
         \A g \in P : m[g] \subseteq P,
         \A S \in SUBSET P : S # {} => \E g \in S : m[g] \cap S = {}
  PROVE  Loadable(m)
<1>1. \A g \in DOMAIN m : m[g] \subseteq DOMAIN m
  BY DEF Loadable
<1>2. ASSUME NEW S \in SUBSET DOMAIN m, S # {} PROVE \E g \in S : m[g] \cap S = {}
  <2>1. CASE S \cap P = {}
    <3>1. S \in SUBSET DOMAIN l
      BY <2>1
    <3>2. PICK g \in S : l[g] \cap S = {}
      BY <1>2, <3>1 DEF Loadable
    <3>. QED  BY <2>1, <3>1, <3>2
  <2>2. CASE S \cap P # {}
    <3>1. PICK g \in S \cap P : m[g] \cap (S \cap P) = {}
      BY <2>2
    <3>. QED  BY <3>1
  <2>. QED  BY <2>1, <2>2
<1>. QED  BY <1>1, <1>2 DEF Loadable

\* What a library is made of.
LEMMA LibraryFacts ==
  ASSUME NEW l \in Libraries
  PROVE  /\ DOMAIN l \in SUBSET Stem /\ DOMAIN l \in SUBSET Int
         /\ IsFiniteSet(DOMAIN l)
         /\ l \in [DOMAIN l -> SUBSET Stem]
<1>1. PICK F \in SUBSET Stem : l \in [F -> SUBSET Stem]
  BY Zenon DEF Libraries
<1>2. DOMAIN l = F
  BY <1>1
<1>3. Stem \subseteq Int /\ IsFiniteSet(Stem)
  BY StemAssumption
<1>. QED  BY <1>1, <1>2, <1>3, FS_Subset

\* The index of a library is one.
LEMMA IndexType ==
  ASSUME NEW l \in Libraries, Indexable(l)
  PROVE  IndexOf(l) \in Indexes
<1>1. /\ DOMAIN l \in SUBSET Stem /\ DOMAIN l \in SUBSET Int
      /\ IsFiniteSet(DOMAIN l)
  BY LibraryFacts
<1>2. SortedFiles(l) \in Seq(Stem)
  <2>1. SortedFiles(l) \in Seq(DOMAIN l)
    BY <1>1, SortedFacts DEF Orders
  <2>. QED  BY <1>1, <2>1
<1>3. [f \in DOMAIN l |-> TransitiveDepends(l, f)] \in [DOMAIN l -> SUBSET Stem]
  <2>1. \A f : TransitiveDepends(l, f) \in SUBSET DOMAIN l
    BY Zenon DEF TransitiveDepends
  <2>. QED  BY <1>1, <2>1
<1>. QED  BY <1>1, <1>2, <1>3 DEF IndexOf, Indexes

(***************************************************************************)
(* The invariant.                                                          *)
(***************************************************************************)

\* The release has an index of its own.
Indexed == Indexable(lib) /\ index = IndexOf(lib)

\* What is of this release in dest_dir is what the release has.
IndexDated(copy) == copy.of <= version /\ (copy.of = version => copy.is = index)

Dated ==
  /\ \A f \in DOMAIN dest :
       /\ dest[f].of <= version
       /\ dest[f].of = version => f \in DOMAIN lib /\ dest[f].is = lib[f]
  /\ IndexDated(destRds)
  /\ IndexDated(destTsv)

Copied(k) == \A s \in Listed(all[k]) : s \in DOMAIN dest /\ dest[s].is = lib[s]

\* A call that finds or leaves nothing of another release has copied what is
\* no longer in its queue.
CleanCall ==
  pc # "idle" /\ clean =>
    /\ overwrite \/ (OfThisRelease /\ {destRds.of, destTsv.of} \subseteq {-1, version})
    /\ ToSet(queue) \subseteq DOMAIN lib
    /\ \A k \in kernels :
         /\ Current(k)
         /\ \A s \in Listed(all[k]) :
              s \in ToSet(queue) \/ (s \in DOMAIN dest /\ dest[s].is = lib[s])
    /\ pc = "tsv" => destRds.is = index

Serving ==
  \A k \in served :
    Current(k) /\ Copied(k) /\ destRds.is = index /\ destTsv.is = index

\* How far the queue is: c of the stems are copied, or their copy has failed.
Progress(st, c) ==
  /\ Len(queue) = Len(st) - c
  /\ \A i \in 1..Len(queue) : queue[i] = st[c + i]
  /\ \A i \in 1..c :
       /\ st[i] \in DOMAIN dest \cup refused
       /\ overwrite /\ refused = {} => dest[st[i]].is = lib[st[i]]

\* What a file depends on is there, too, or its copy has failed.
Closed == \A f \in DOMAIN dest : dest[f].is \subseteq DOMAIN dest \cup refused

\* While files are copied by tags of their release, and no copy fails,
\* dest_dir can be loaded.
Copying ==
  ~ mixed =>
    /\ Closed
    /\ refused = {} => Loadable(DestLibrary)
    /\ pc = "files" =>
         /\ \A k \in kernels : Current(k)
         /\ \E c \in 0..Len(StemsToCopy(kernels)) : Progress(StemsToCopy(kernels), c)

Inv == TypeOK /\ Indexed /\ Dated /\ CleanCall /\ Serving /\ Copying

-----------------------------------------------------------------------------

\* A tag of this release lists files of the library and all they depend on.
LEMMA TagFacts ==
  ASSUME TypeOK, Indexed, NEW S \in SUBSET Stem
  PROVE  /\ ExpandedTag(S, index) \in ((SUBSET Stem) \ {{}}) \cup {NoTag}
         /\ Listed(ExpandedTag(S, index)) \in SUBSET DOMAIN lib
         /\ \A f \in Listed(ExpandedTag(S, index)) :
              lib[f] \subseteq Listed(ExpandedTag(S, index))
<1>. DEFINE needed == Expansion(S, index)
<1>1. /\ DOMAIN lib \in SUBSET Stem /\ DOMAIN lib \in SUBSET Int
      /\ IsFiniteSet(DOMAIN lib)
  BY LibraryFacts DEF TypeOK
<1>2. needed \in SUBSET DOMAIN lib /\ \A f \in needed : lib[f] \subseteq needed
  BY <1>1, ExpansionFacts DEF Indexed
<1>3. ExpandedTag(S, index) = IF needed = {} THEN NoTag ELSE needed
  BY DEF ExpandedTag
<1>. HIDE DEF needed
<1>4. Listed(ExpandedTag(S, index)) = needed
  BY <1>1, <1>2, <1>3, AbsentAssumption DEF Listed
<1>. QED  BY <1>1, <1>2, <1>3, <1>4

\* The stems to copy are files of the library; if the tags are of this release
\* they are all that is needed, in dependency order.
LEMMA StemsFacts ==
  ASSUME TypeOK, Indexed, NEW K \in SUBSET Kernel
  PROVE  /\ StemsToCopy(K) \in Seq(DOMAIN lib)
         /\ ToSet(StemsToCopy(K)) = Needed(K) \cap DOMAIN lib
         /\ (\A k \in K : Current(k)) => StemsToCopy(K) \in Orders(lib)
<1>1. /\ DOMAIN lib \in SUBSET Stem /\ DOMAIN lib \in SUBSET Int
      /\ IsFiniteSet(DOMAIN lib)
  BY LibraryFacts DEF TypeOK
<1>2. /\ SortedFiles(lib) \in Orders(lib) /\ ToSet(SortedFiles(lib)) = DOMAIN lib
      /\ SortedFiles(lib) \in Seq(DOMAIN lib)
  BY <1>1, IndexableFacts DEF Indexed, Orders
<1>3. StemsToCopy(K) = Kept(SortedFiles(lib), Needed(K))
  BY DEF StemsToCopy, InIndexOrder, Indexed, IndexOf
<1>4. StemsToCopy(K) \in Seq(DOMAIN lib)
  BY <1>2, <1>3, KeptFacts
<1>5. ToSet(StemsToCopy(K)) = Needed(K) \cap DOMAIN lib
  BY <1>2, <1>3, KeptMembers
<1>6. ASSUME \A k \in K : Current(k) PROVE StemsToCopy(K) \in Orders(lib)
  <2>1. ASSUME NEW f \in Needed(K) \cap DOMAIN lib PROVE lib[f] \subseteq Needed(K)
    <3>1. PICK k \in K : f \in Listed(all[k])
      BY DEF Needed
    <3>2. calls[k] \in SUBSET Stem /\ all[k] = ExpandedTag(calls[k], index)
      BY <1>6, <3>1 DEF TypeOK, Current
    <3>3. lib[f] \subseteq Listed(all[k])
      BY <3>1, <3>2, TagFacts
    <3>. QED  BY <3>3 DEF Needed
  <2>2. Kept(SortedFiles(lib), Needed(K)) \in Orders(lib)
    BY <1>2, <2>1, KeptComplete
  <2>. QED  BY <1>3, <2>2
<1>. QED  BY <1>4, <1>5, <1>6

-----------------------------------------------------------------------------

\* Nothing is extracted, and the first release has its index.
LEMMA InitInv == Init => Inv
<1>. SUFFICES ASSUME Init PROVE Inv
  OBVIOUS
<1>1. lib \in Libraries /\ Indexed
  <2>1. PICK F \in SUBSET Stem : lib \in [F -> Dependencies]
    BY DEF Init
  <2>2. lib \in [F -> SUBSET Stem]
    BY <2>1, StemsAssumption
  <2>. QED  BY <2>2 DEF Init, Libraries, Indexed
<1>2. index \in Indexes
  BY <1>1, IndexType DEF Indexed
<1>3. calls \in [Kernel -> SUBSET Stem]
  BY StemsAssumption DEF Init
<1>4. \A k \in Kernel : ExpandedTag(calls[k], index) \in ((SUBSET Stem) \ {{}}) \cup {NoTag}
  <2>1. ASSUME NEW S \in SUBSET Stem
        PROVE  ExpandedTag(S, index) \in ((SUBSET Stem) \ {{}}) \cup {NoTag}
    <3>1. /\ DOMAIN lib \in SUBSET Stem /\ DOMAIN lib \in SUBSET Int
          /\ IsFiniteSet(DOMAIN lib)
      BY <1>1, LibraryFacts
    <3>2. Expansion(S, index) \in SUBSET DOMAIN lib
      BY <1>1, <3>1, ExpansionFacts DEF Indexed
    <3>. QED  BY <3>1, <3>2 DEF ExpandedTag
  <2>. QED  BY <1>3, <2>1
<1>5. TypeOK
  <2>1. all \in [Kernel -> ((SUBSET Stem) \ {{}}) \cup {NoTag}]
    BY <1>4 DEF Init
  <2>2. version \in 0..MaxVersion /\ count \in 0..MaxCalls /\ failures \in 0..MaxFailures
    BY BoundsAssumption DEF Init
  <2>3. DOMAIN dest = {} /\ queue = <<>> /\ queue \in Seq(Stem)
    BY DEF Init
  <2>. QED  BY <1>1, <1>2, <1>3, <2>1, <2>2, <2>3 DEF Init, TypeOK
<1>6. DOMAIN dest = {}
  BY DEF Init
<1>7. Dated
  BY <1>6 DEF Init, Dated, IndexDated, NoFile
<1>8. CleanCall /\ Serving
  BY DEF Init, CleanCall, Serving
<1>9. Copying
  BY <1>6 DEF Init, Copying, Closed, Loadable, DestLibrary
<1>. QED  BY <1>1, <1>5, <1>7, <1>8, <1>9 DEF Inv

\* With a new release every copy is of another one, and the kernels' tags may be.
LEMMA ReleaseInv ==
  ASSUME Inv, NEW newLib \in Libraries, Release(newLib)
  PROVE  Inv'
<1>0. TypeOK /\ Dated /\ Copying
  BY DEF Inv
<1>1. /\ version < MaxVersion /\ version' = version + 1
      /\ Indexable(newLib) /\ lib' = newLib /\ index' = IndexOf(newLib)
      /\ mixed' = (mixed \/ pc # "idle") /\ clean' = (pc = "idle") /\ served' = {}
      /\ UNCHANGED <<calls, all, dest, destRds, destTsv, pc, queue, overwrite, kernels, count>>
      /\ UNCHANGED <<failures, refused>>
  BY DEF Release, directory
<1>2. version \in Nat /\ version' \in 0..MaxVersion
  <2>1. version \in 0..MaxVersion
    BY <1>0 DEF TypeOK
  <2>. QED  BY <1>1, <2>1, BoundsAssumption
<1>3. TypeOK'
  <2>1. index' \in Indexes
    BY <1>1, IndexType
  <2>2. mixed' \in BOOLEAN /\ clean' \in BOOLEAN
    BY <1>0, <1>1 DEF TypeOK
  <2>3. NoFile' = NoFile /\ TornFile' = TornFile /\ TornIndex' = TornIndex
    BY DEF NoFile, TornFile, TornIndex
  <2>. QED  BY <1>0, <1>1, <1>2, <2>1, <2>2, <2>3 DEF TypeOK
<1>4. Indexed'
  BY <1>1 DEF Indexed
<1>5. Dated'
  <2>1. ASSUME NEW n \in Int, n <= version PROVE n <= version' /\ n # version'
    BY <1>1, <1>2, <2>1
  <2>2. \A f \in DOMAIN dest : dest[f].of \in Int /\ dest[f].of <= version
    BY <1>0 DEF TypeOK, TornFile, Dated
  <2>3. destRds.of \in Int /\ destTsv.of \in Int
    BY <1>0 DEF TypeOK, NoFile, TornIndex
  <2>4. destRds.of <= version /\ destTsv.of <= version
    BY <1>0 DEF Dated, IndexDated
  <2>. QED  BY <1>1, <2>1, <2>2, <2>3, <2>4 DEF Dated, IndexDated
<1>6. CleanCall' /\ Serving'
  BY <1>1 DEF CleanCall, Serving
<1>7. Copying'
  <2>1. DestLibrary' = DestLibrary
    BY <1>1 DEF DestLibrary
  <2>2. ~ mixed' => ~ mixed /\ pc' # "files"
    BY <1>0, <1>1 DEF TypeOK
  <2>3. ~ mixed' => Closed' /\ (refused' = {} => Loadable(DestLibrary'))
    BY <1>0, <1>1, <2>1, <2>2 DEF Copying, Closed
  <2>. QED  BY <2>2, <2>3 DEF Copying
<1>. QED  BY <1>3, <1>4, <1>5, <1>6, <1>7 DEF Inv

\* A kernel that is tagged anew is tagged for this release.
LEMMA RetagInv == ASSUME Inv, NEW k \in Kernel, Retag(k) PROVE Inv'
<1>0. TypeOK /\ Indexed /\ Dated /\ Serving /\ Copying
  BY DEF Inv
<1>. DEFINE tag == ExpandedTag(calls[k], index)
<1>1. /\ pc = "idle" /\ all' = [all EXCEPT ![k] = tag] /\ all' # all
      /\ UNCHANGED <<lib, index, version, calls>> /\ UNCHANGED <<dest, destRds, destTsv>>
      /\ UNCHANGED <<pc, queue, overwrite, kernels, clean>>
      /\ UNCHANGED <<count, mixed, failures, refused, served>>
  BY DEF Retag, directory, call, history
<1>2. tag \in ((SUBSET Stem) \ {{}}) \cup {NoTag}
  <2>1. calls[k] \in SUBSET Stem
    BY <1>0 DEF TypeOK
  <2>. QED  BY <1>0, <2>1, TagFacts
<1>. HIDE DEF tag
<1>3. all' \in [Kernel -> ((SUBSET Stem) \ {{}}) \cup {NoTag}]
  BY <1>0, <1>1, <1>2 DEF TypeOK
<1>4. TypeOK'
  BY <1>0, <1>1, <1>3 DEF TypeOK, NoFile, TornFile, TornIndex
<1>5. Indexed' /\ Dated' /\ CleanCall'
  BY <1>0, <1>1 DEF Indexed, Dated, IndexDated, CleanCall
<1>6. Serving'
  <2>1. ASSUME NEW j \in served PROVE all'[j] = all[j]
    <3>1. CASE j # k
      BY <1>0, <1>1, <3>1 DEF TypeOK
    <3>2. CASE j = k
      BY <1>0, <1>1, <3>2 DEF TypeOK, Serving, Current, tag
    <3>. QED  BY <3>1, <3>2
  <2>. QED  BY <1>0, <1>1, <2>1 DEF Serving, Current, Copied
<1>7. Copying'
  <2>1. DestLibrary' = DestLibrary
    BY <1>1 DEF DestLibrary
  <2>2. ~ mixed => Closed' /\ (refused = {} => Loadable(DestLibrary'))
    BY <1>0, <1>1, <2>1 DEF Copying, Closed
  <2>. QED  BY <1>1, <2>2 DEF Copying
<1>. QED  BY <1>4, <1>5, <1>6, <1>7 DEF Inv

\* A call that begins has everything still to copy.
LEMMA ExtractInv ==
  ASSUME Inv, NEW K \in SUBSET Kernel, NEW over \in BOOLEAN, Extract(K, over)
  PROVE  Inv'
<1>0. TypeOK /\ Indexed /\ Dated /\ Serving /\ Copying
  BY DEF Inv
<1>. DEFINE st == StemsToCopy(K)
<1>1. /\ pc = "idle" /\ count < MaxCalls
      /\ queue' = st /\ overwrite' = over /\ kernels' = {k \in K : Current(k)}
      /\ clean' = (over \/ (OfThisRelease /\ {destRds.of, destTsv.of} \subseteq {-1, version}))
      /\ mixed' = (mixed \/ kernels' # K)
      /\ pc' = "files" /\ count' = count + 1
      /\ UNCHANGED <<lib, index, version, calls, all, served>>
      /\ UNCHANGED <<dest, destRds, destTsv, failures, refused>>
  BY DEF Extract, source, directory
<1>2. /\ st \in Seq(DOMAIN lib) /\ ToSet(st) = Needed(K) \cap DOMAIN lib
      /\ DOMAIN lib \in SUBSET Stem
  BY <1>0, StemsFacts, LibraryFacts DEF TypeOK
<1>. HIDE DEF st
<1>3. TypeOK'
  <2>1. queue' \in Seq(Stem)
    BY <1>1, <1>2
  <2>2. count' \in 0..MaxCalls
    BY <1>0, <1>1, BoundsAssumption DEF TypeOK
  <2>3. clean' \in BOOLEAN /\ mixed' \in BOOLEAN /\ kernels' \in SUBSET Kernel
    BY <1>0, <1>1 DEF TypeOK
  <2>. QED  BY <1>0, <1>1, <2>1, <2>2, <2>3 DEF TypeOK, NoFile, TornFile, TornIndex
<1>4. Indexed' /\ Dated'
  BY <1>0, <1>1 DEF Indexed, Dated, IndexDated
<1>5. CleanCall'
  <2>1. ASSUME NEW k \in kernels'
        PROVE  Current(k) /\ Listed(all[k]) \subseteq ToSet(queue')
    <3>1. k \in K /\ Current(k) /\ calls[k] \in SUBSET Stem
      BY <1>0, <1>1, <2>1 DEF TypeOK
    <3>2. Listed(all[k]) \in SUBSET DOMAIN lib
      BY <1>0, <3>1, TagFacts DEF Current
    <3>. QED  BY <1>1, <1>2, <3>1, <3>2 DEF Needed
  <2>2. \A k \in kernels' : Current(k)' /\ \A s \in Listed(all'[k]) : s \in ToSet(queue')
    BY <1>1, <2>1 DEF Current
  <2>3. clean' => over \/ (OfThisRelease' /\ {destRds.of, destTsv.of} \subseteq {-1, version})
    BY <1>1 DEF OfThisRelease
  <2>. QED  BY <1>1, <1>2, <2>2, <2>3 DEF CleanCall
<1>6. Serving'
  BY <1>0, <1>1 DEF Serving, Current, Copied
<1>7. Copying'
  <2>. SUFFICES ASSUME ~ mixed' PROVE Copying'
    BY DEF Copying
  <2>1. kernels' = K /\ ~ mixed
    BY <1>1
  <2>2. Closed' /\ (refused' = {} => Loadable(DestLibrary'))
    BY <1>0, <1>1, <2>1 DEF Copying, Closed, DestLibrary
  <2>3. \A k \in kernels' : Current(k)'
    BY <1>1, <2>1 DEF Current
  <2>4. StemsToCopy(kernels)' = st
    BY <1>1, <2>1 DEF StemsToCopy, Needed, st
  <2>5. Len(queue') = Len(st) - 0 /\ \A i \in 1..Len(queue') : queue'[i] = st[0 + i]
    BY <1>1, <1>2
  <2>6. 0 \in 0..Len(st)
    BY <1>2
  <2>7. \E c \in 0..Len(StemsToCopy(kernels)') : Progress(StemsToCopy(kernels), c)'
    BY <2>4, <2>5, <2>6 DEF Progress
  <2>. QED  BY <2>2, <2>3, <2>7 DEF Copying
<1>. QED  BY <1>3, <1>4, <1>5, <1>6, <1>7 DEF Inv

\* What the next file needs is among those before it.
LEMMA NeedsBefore ==
  ASSUME NEW st \in Orders(lib), NEW c \in 0..Len(st), c < Len(st)
  PROVE  lib[st[c + 1]] \subseteq {st[j] : j \in 1..c}
<1>1. st \in Seq(DOMAIN lib) /\ Complete(st, lib) /\ Len(st) \in Nat /\ c + 1 \in 1..Len(st)
  BY DEF Orders
<1>2. lib[st[c + 1]] \subseteq {st[j] : j \in 1..((c + 1) - 1)}
  BY <1>1 DEF Complete
<1>3. (c + 1) - 1 = c
  OBVIOUS
<1>. QED  BY <1>2, <1>3

\* The first in the queue is the next of the stems, and the queue then starts
\* behind it.
LEMMA NextInQueue ==
  ASSUME queue \in Seq(Stem), queue # <<>>, queue' = Tail(queue),
         NEW st \in Orders(lib), NEW c \in 0..Len(st), Progress(st, c)
  PROVE  /\ c < Len(st) /\ c + 1 \in 1..Len(st) /\ c + 1 \in 0..Len(st)
         /\ Head(queue) = st[c + 1] /\ Head(queue) \in DOMAIN lib
         /\ Len(queue') = Len(st) - (c + 1)
         /\ \A i \in 1..Len(queue') : queue'[i] = st[(c + 1) + i]
         /\ \A i \in 1..(c + 1) : i \in 1..c \/ st[i] = Head(queue)
<1>1. st \in Seq(DOMAIN lib) /\ Len(st) \in Nat
  BY DEF Orders
<1>2. /\ Len(queue) \in Nat /\ Len(queue) # 0 /\ Head(queue) = queue[1]
      /\ Len(queue') = Len(queue) - 1 /\ \A i \in 1..Len(queue') : queue'[i] = queue[i + 1]
  OBVIOUS
<1>3. Len(queue) = Len(st) - c /\ \A i \in 1..Len(queue) : queue[i] = st[c + i]
  BY DEF Progress
<1>4. c < Len(st) /\ c + 1 \in 1..Len(st) /\ c + 1 \in 0..Len(st)
  BY <1>1, <1>2, <1>3
<1>5. 1 \in 1..Len(queue) /\ queue[1] = st[c + 1]
  BY <1>2, <1>3
<1>6. Len(queue') = Len(st) - (c + 1)
  BY <1>1, <1>2, <1>3
<1>7. ASSUME NEW i \in 1..Len(queue') PROVE queue'[i] = st[(c + 1) + i]
  <2>1. i + 1 \in 1..Len(queue) /\ c + (i + 1) = (c + 1) + i
    BY <1>2
  <2>. QED  BY <1>2, <1>3, <2>1
<1>8. \A i \in 1..(c + 1) : i \in 1..c \/ i = c + 1
  OBVIOUS
<1>. QED  BY <1>1, <1>2, <1>4, <1>5, <1>6, <1>7, <1>8

(***************************************************************************)
(* One file more in dest_dir keeps it loadable: a new file comes after all *)
(* it depends on; one that is overwritten belongs to the part that was     *)
(* copied before, which needs nothing else.                                *)
(***************************************************************************)
LEMMA CopyKeepsLoadable ==
  ASSUME Indexed, lib \in Libraries, Loadable(DestLibrary), refused = {},
         NEW st \in Orders(lib), NEW c \in 0..Len(st), Progress(st, c), c < Len(st),
         NEW m, DOMAIN m = DOMAIN dest \cup {st[c + 1]},
         m[st[c + 1]] = lib[st[c + 1]],
         \A g \in DOMAIN dest \ {st[c + 1]} : m[g] = dest[g].is,
         overwrite \/ st[c + 1] \notin DOMAIN dest
  PROVE  Loadable(m)
<1>. DEFINE f == st[c + 1]
            l == DestLibrary
<1>1. st \in Seq(DOMAIN lib) /\ Complete(st, lib) /\ Len(st) \in Nat /\ c + 1 \in 1..Len(st)
  BY DEF Orders
<1>2. DOMAIN l = DOMAIN dest /\ \A g \in DOMAIN dest : l[g] = dest[g].is
  BY DEF DestLibrary
<1>3. \A i \in 1..c : st[i] \in DOMAIN dest /\ (overwrite => dest[st[i]].is = lib[st[i]])
  BY DEF Progress
<1>4. lib[f] \subseteq {st[j] : j \in 1..c}
  BY NeedsBefore
<1>. HIDE DEF l
<1>5. CASE f \notin DOMAIN dest
  <2>1. m[f] \subseteq DOMAIN l
    BY <1>2, <1>3, <1>4
  <2>2. f \notin DOMAIN l /\ DOMAIN m = DOMAIN l \cup {f} /\ \A g \in DOMAIN l : m[g] = l[g]
    BY <1>2, <1>5
  <2>. HIDE DEF f
  <2>. QED  BY <2>1, <2>2, AddReady DEF l
<1>6. CASE overwrite /\ f \in DOMAIN dest
  <2>. DEFINE P == {st[i] : i \in 1..(c + 1)}
  <2>1. \A i \in 1..(c + 1) : i \in 1..c \/ i = c + 1
    OBVIOUS
  <2>2. \A i \in 1..(c + 1) : st[i] \in DOMAIN dest /\ m[st[i]] = lib[st[i]]
    <3>1. ASSUME NEW i \in 1..c PROVE st[i] \in DOMAIN dest /\ m[st[i]] = lib[st[i]]
      <4>1. i \in 1..Len(st) /\ i # c + 1
        BY <1>1
      <4>2. st[i] # f
        BY <1>1, <4>1 DEF Complete
      <4>. QED  BY <1>3, <1>6, <4>2
    <3>. QED  BY <1>6, <2>1, <3>1
  <2>3. P \in SUBSET DOMAIN dest /\ P \in SUBSET DOMAIN lib /\ \A g \in P : m[g] = lib[g]
    <3>1. \A i \in 1..(c + 1) : i \in 1..Len(st)
      BY <1>1
    <3>. QED  BY <1>1, <2>2, <3>1
  <2>4. \A g \in P : m[g] \subseteq P
    <3>1. SUFFICES ASSUME NEW i \in 1..(c + 1) PROVE lib[st[i]] \subseteq P
      BY <2>3
    <3>2. i \in 1..Len(st) /\ \A j \in 1..(i - 1) : j \in 1..(c + 1)
      BY <1>1
    <3>3. lib[st[i]] \subseteq {st[j] : j \in 1..(i - 1)}
      BY <1>1, <3>2 DEF Complete
    <3>. QED  BY <3>2, <3>3
  <2>5. Loadable(lib)
    <3>1. DOMAIN lib \in SUBSET Int /\ IsFiniteSet(DOMAIN lib)
      BY LibraryFacts
    <3>. QED  BY <3>1, SortSucceeds DEF Indexed
  <2>6. f \in P
    BY <1>1
  <2>. HIDE DEF P, f
  <2>7. DOMAIN m = DOMAIN l \cup P
    BY <1>2, <1>6, <2>3 DEF f
  <2>8. \A g \in DOMAIN l \ P : m[g] = l[g]
    BY <1>2, <2>6 DEF f
  <2>9. \A S \in SUBSET P : S # {} => \E g \in S : m[g] \cap S = {}
    <3>1. SUFFICES ASSUME NEW S \in SUBSET P, S # {} PROVE \E g \in S : m[g] \cap S = {}
      OBVIOUS
    <3>2. S \in SUBSET DOMAIN lib
      BY <2>3
    <3>3. PICK g \in S : lib[g] \cap S = {}
      BY <2>5, <3>1, <3>2 DEF Loadable
    <3>. QED  BY <2>3, <3>3
  <2>. QED  BY <2>4, <2>7, <2>8, <2>9, Overlay DEF l
<1>. QED  BY <1>5, <1>6

\* The first in the queue is copied, or is already there.
LEMMA CopyFileInv == ASSUME Inv, CopyFile PROVE Inv'
<1>0. TypeOK /\ Indexed /\ Dated /\ CleanCall /\ Serving /\ Copying
  BY DEF Inv
<1>. DEFINE f == Head(queue)
            new == Wanted(f)
<1>1. /\ pc = "files" /\ queue # <<>> /\ queue' = Tail(queue)
      /\ dest' = IF new THEN [g \in DOMAIN dest \cup {f} |->
                                IF g = f THEN Released(lib[f]) ELSE dest[g]]
                        ELSE dest
      /\ UNCHANGED <<lib, index, version, calls, all, destRds, destTsv, pc, overwrite>>
      /\ UNCHANGED <<kernels, clean, count, mixed, failures, refused, served>>
  BY DEF CopyFile, Written, source, history
<1>2. /\ queue \in Seq(Stem) /\ f \in Stem /\ Tail(queue) \in Seq(Stem)
      /\ Len(queue) \in Nat /\ Len(queue) # 0 /\ f = queue[1]
      /\ Len(queue') = Len(queue) - 1 /\ \A i \in 1..Len(queue') : queue'[i] = queue[i + 1]
  BY <1>0, <1>1 DEF TypeOK
<1>3. ToSet(queue) = {f} \cup ToSet(queue')
  <2>1. ToSet(queue) = {queue[i] : i \in 1..Len(queue)}
    BY <1>2, ElementsOf
  <2>2. ToSet(queue') = {queue'[i] : i \in 1..Len(queue')}
    <3>1. queue' \in Seq(Stem)
      BY <1>1, <1>2
    <3>. QED  BY <3>1, ElementsOf
  <2>3. \A i \in 1..Len(queue) : i = 1 \/ (i - 1 \in 1..Len(queue') /\ (i - 1) + 1 = i)
    BY <1>2
  <2>4. \A i \in 1..Len(queue') : i + 1 \in 1..Len(queue)
    BY <1>2
  <2>5. 1 \in 1..Len(queue)
    BY <1>2
  <2>6. ASSUME NEW i \in 1..Len(queue) PROVE queue[i] \in {f} \cup ToSet(queue')
    <3>1. CASE i = 1
      BY <1>2, <3>1
    <3>2. CASE i # 1
      <4>1. i - 1 \in 1..Len(queue') /\ (i - 1) + 1 = i
        BY <2>3, <3>2
      <4>2. queue'[i - 1] = queue[i]
        BY <1>2, <4>1
      <4>. QED  BY <2>2, <4>1, <4>2
    <3>. QED  BY <3>1, <3>2
  <2>7. ASSUME NEW i \in 1..Len(queue') PROVE queue'[i] \in ToSet(queue)
    BY <1>2, <2>1, <2>4
  <2>8. f \in ToSet(queue)
    BY <1>2, <2>1, <2>5
  <2>. QED  BY <2>1, <2>2, <2>6, <2>7, <2>8
<1>. HIDE DEF f
<1>4. /\ DOMAIN dest' = DOMAIN dest \cup (IF new THEN {f} ELSE {})
      /\ \A g \in DOMAIN dest' : dest'[g] = IF new /\ g = f THEN Released(lib[f]) ELSE dest[g]
  BY <1>1
<1>. HIDE DEF new
<1>5. new => Released(lib[f]) = [of |-> version, is |-> lib[f]]
  BY DEF Released
<1>6. TypeOK'
  <2>1. version \in 0..MaxVersion /\ (f \in DOMAIN lib => lib[f] \in SUBSET Stem)
    BY <1>0, LibraryFacts DEF TypeOK
  <2>2. new => Released(lib[f]) \in [of : 0..MaxVersion, is : SUBSET Stem]
    BY <1>5, <2>1 DEF new, Wanted
  <2>3. DOMAIN dest' \subseteq Stem
    BY <1>0, <1>2, <1>4 DEF TypeOK
  <2>4. \A g \in DOMAIN dest' :
          dest'[g] \in [of : 0..MaxVersion, is : SUBSET Stem] \cup {TornFile}
    BY <1>0, <1>4, <2>2 DEF TypeOK
  <2>. QED  BY <1>0, <1>1, <1>2, <2>3, <2>4 DEF TypeOK, NoFile, TornFile, TornIndex
<1>7. Indexed'
  BY <1>0, <1>1 DEF Indexed
<1>8. Dated'
  <2>0. version \in Int
    BY <1>0 DEF TypeOK
  <2>1. ASSUME NEW g \in DOMAIN dest'
        PROVE  /\ dest'[g].of <= version
               /\ dest'[g].of = version => g \in DOMAIN lib /\ dest'[g].is = lib[g]
    <3>1. CASE new /\ g = f
      BY <1>4, <1>5, <2>0, <3>1 DEF new, Wanted
    <3>2. CASE ~ (new /\ g = f)
      BY <1>0, <1>4, <3>2 DEF Dated
    <3>. QED  BY <3>1, <3>2
  <2>. QED  BY <1>0, <1>1, <2>1 DEF Dated, IndexDated
<1>9. CleanCall'
  <2>. SUFFICES ASSUME clean PROVE CleanCall'
    BY <1>1 DEF CleanCall
  <2>1. /\ overwrite \/ (OfThisRelease /\ {destRds.of, destTsv.of} \subseteq {-1, version})
        /\ ToSet(queue) \subseteq DOMAIN lib
        /\ \A k \in kernels :
             /\ Current(k)
             /\ \A s \in Listed(all[k]) :
                  s \in ToSet(queue) \/ (s \in DOMAIN dest /\ dest[s].is = lib[s])
    BY <1>0, <1>1 DEF CleanCall
  <2>2. OfThisRelease => OfThisRelease'
    BY <1>1, <1>4, <1>5 DEF OfThisRelease
  <2>3. f \in DOMAIN lib
    BY <1>3, <2>1
  <2>4. f \in DOMAIN dest' /\ dest'[f].is = lib[f]
    <3>1. CASE new
      BY <1>4, <1>5, <3>1
    <3>2. CASE ~ new
      <4>1. f \in DOMAIN dest /\ OfThisRelease
        BY <2>1, <2>3, <3>2 DEF new, Wanted
      <4>2. dest[f].is = lib[f]
        BY <1>0, <4>1 DEF OfThisRelease, Dated
      <4>. QED  BY <1>4, <3>2, <4>1, <4>2
    <3>. QED  BY <3>1, <3>2
  <2>5. ASSUME NEW k \in kernels, NEW s \in Listed(all[k])
        PROVE  s \in ToSet(queue') \/ (s \in DOMAIN dest' /\ dest'[s].is = lib[s])
    BY <1>3, <1>4, <2>1, <2>4, <2>5
  <2>6. \A k \in kernels : Current(k)'
    BY <1>1, <2>1 DEF Current
  <2>. QED  BY <1>1, <1>3, <2>1, <2>2, <2>5, <2>6 DEF CleanCall
<1>10. Serving'
  <2>1. ASSUME NEW k \in served, NEW s \in Listed(all[k])
        PROVE  s \in DOMAIN dest' /\ dest'[s].is = lib[s]
    BY <1>0, <1>4, <1>5, <2>1 DEF Serving, Copied
  <2>. QED  BY <1>0, <1>1, <2>1 DEF Serving, Current, Copied
<1>11. Copying'
  <2>. SUFFICES ASSUME ~ mixed PROVE Copying'
    BY <1>1 DEF Copying
  <2>0. kernels \in SUBSET Kernel
    BY <1>0 DEF TypeOK
  <2>1. /\ Closed /\ (refused = {} => Loadable(DestLibrary))
        /\ \A k \in kernels : Current(k)
    BY <1>0, <1>1 DEF Copying
  <2>2. PICK st : st = StemsToCopy(kernels)
    OBVIOUS
  <2>3. PICK c \in 0..Len(st) : Progress(st, c)
    BY <1>0, <1>1, <2>2 DEF Copying
  <2>4. st \in Orders(lib)
    BY <1>0, <2>0, <2>1, <2>2, StemsFacts
  <2>5. StemsToCopy(kernels)' = st
    BY <1>1, <2>2 DEF StemsToCopy, Needed
  <2>6. /\ c < Len(st) /\ c + 1 \in 1..Len(st) /\ c + 1 \in 0..Len(st)
        /\ f = st[c + 1] /\ f \in DOMAIN lib /\ Len(queue') = Len(st) - (c + 1)
        /\ \A i \in 1..Len(queue') : queue'[i] = st[(c + 1) + i]
        /\ \A i \in 1..(c + 1) : i \in 1..c \/ st[i] = f
    BY <1>1, <1>2, <2>3, <2>4, NextInQueue DEF f
  <2>7. \A i \in 1..c : st[i] \in DOMAIN dest \cup refused
    BY <2>3 DEF Progress
  <2>8. Closed'
    <3>1. lib[f] \subseteq DOMAIN dest \cup refused
      BY <2>4, <2>6, <2>7, NeedsBefore
    <3>2. ASSUME NEW g \in DOMAIN dest' PROVE dest'[g].is \subseteq DOMAIN dest \cup refused
      <4>1. CASE new /\ g = f
        BY <1>4, <1>5, <3>1, <4>1
      <4>2. CASE ~ (new /\ g = f)
        BY <1>4, <2>1, <4>2 DEF Closed
      <4>. QED  BY <4>1, <4>2
    <3>. QED  BY <1>1, <1>4, <3>2 DEF Closed
  <2>9. ASSUME refused = {} PROVE Loadable(DestLibrary')
    <3>1. CASE new
      <4>. DEFINE m == DestLibrary'
      <4>1. /\ DOMAIN m = DOMAIN dest \cup {f} /\ m[f] = lib[f]
            /\ \A g \in DOMAIN dest \ {f} : m[g] = dest[g].is
        BY <1>4, <1>5, <3>1 DEF DestLibrary
      <4>2. overwrite \/ f \notin DOMAIN dest
        BY <3>1 DEF new, Wanted
      <4>3. lib \in Libraries
        BY <1>0 DEF TypeOK
      <4>. HIDE DEF m
      <4>4. Loadable(m)
        BY <1>0, <2>1, <2>3, <2>4, <2>6, <2>9, <4>1, <4>2, <4>3, CopyKeepsLoadable
      <4>. QED  BY <4>4 DEF m
    <3>2. CASE ~ new
      <4>1. DestLibrary' = DestLibrary
        BY <1>1, <3>2 DEF DestLibrary, new
      <4>. QED  BY <2>1, <2>9, <4>1
    <3>. QED  BY <3>1, <3>2
  <2>10. Progress(st, c + 1)'
    <3>1. ASSUME NEW i \in 1..(c + 1)
          PROVE  /\ st[i] \in DOMAIN dest' \cup refused
                 /\ overwrite /\ refused = {} => dest'[st[i]].is = lib[st[i]]
      <4>1. CASE st[i] = f
        BY <1>4, <1>5, <2>6, <4>1 DEF new, Wanted
      <4>2. CASE st[i] # f
        <5>1. i \in 1..c
          BY <2>6, <4>2
        <5>2. /\ st[i] \in DOMAIN dest \cup refused
              /\ overwrite /\ refused = {} => dest[st[i]].is = lib[st[i]]
          BY <2>3, <5>1 DEF Progress
        <5>. QED  BY <1>4, <4>2, <5>2
      <4>. QED  BY <4>1, <4>2
    <3>. QED  BY <1>1, <2>5, <2>6, <3>1 DEF Progress
  <2>11. \A k \in kernels : Current(k)'
    BY <1>1, <2>1 DEF Current
  <2>12. \E d \in 0..Len(StemsToCopy(kernels)') : Progress(StemsToCopy(kernels), d)'
    BY <2>5, <2>6, <2>10 DEF Progress
  <2>. QED  BY <1>1, <2>8, <2>9, <2>11, <2>12 DEF Copying
<1>. QED  BY <1>6, <1>7, <1>8, <1>9, <1>10, <1>11 DEF Inv

\* A copy that fails leaves its stem to be missed, and serves nobody with it.
LEMMA CopyFileFailsInv ==
  ASSUME Inv, NEW torn \in BOOLEAN, CopyFileFails(torn) PROVE Inv'
<1>0. TypeOK /\ Indexed /\ Dated /\ Serving /\ Copying
  BY DEF Inv
<1>. DEFINE f == Head(queue)
<1>1. /\ pc = "files" /\ queue # <<>> /\ queue' = Tail(queue) /\ Wanted(f)
      /\ failures < MaxFailures /\ failures' = failures + 1
      /\ refused' = refused \cup {f} /\ clean' = FALSE
      /\ dest' = IF torn THEN [g \in DOMAIN dest \cup {f} |->
                                 IF g = f THEN TornFile ELSE dest[g]]
                         ELSE dest
      /\ served' = IF torn THEN {k \in served : f \notin Listed(all[k])} ELSE served
      /\ UNCHANGED <<lib, index, version, calls, all, destRds, destTsv, pc, overwrite>>
      /\ UNCHANGED <<kernels, count, mixed>>
  BY DEF CopyFileFails, Fail, Written, source
<1>2. queue \in Seq(Stem) /\ f \in Stem /\ Tail(queue) \in Seq(Stem)
  BY <1>0, <1>1 DEF TypeOK
<1>. HIDE DEF f
<1>3. /\ DOMAIN dest' = DOMAIN dest \cup (IF torn THEN {f} ELSE {})
      /\ \A g \in DOMAIN dest' : dest'[g] = IF torn /\ g = f THEN TornFile ELSE dest[g]
  BY <1>1
<1>4. TypeOK'
  <2>1. DOMAIN dest' \subseteq Stem
    BY <1>0, <1>2, <1>3 DEF TypeOK
  <2>2. \A g \in DOMAIN dest' :
          dest'[g] \in [of : 0..MaxVersion, is : SUBSET Stem] \cup {TornFile}
    BY <1>0, <1>3 DEF TypeOK
  <2>3. failures' \in 0..MaxFailures
    BY <1>0, <1>1, BoundsAssumption DEF TypeOK
  <2>4. refused' \in SUBSET Stem /\ served' \in SUBSET Kernel
    BY <1>0, <1>1, <1>2 DEF TypeOK
  <2>. QED  BY <1>0, <1>1, <1>2, <2>1, <2>2, <2>3, <2>4 DEF TypeOK, NoFile, TornFile, TornIndex
<1>5. Indexed' /\ CleanCall'
  BY <1>0, <1>1 DEF Indexed, CleanCall
<1>6. Dated'
  <2>1. version \in Nat
    BY <1>0 DEF TypeOK
  <2>2. ASSUME NEW g \in DOMAIN dest'
        PROVE  /\ dest'[g].of <= version
               /\ dest'[g].of = version => g \in DOMAIN lib /\ dest'[g].is = lib[g]
    <3>1. CASE torn /\ g = f
      BY <1>3, <2>1, <3>1 DEF TornFile
    <3>2. CASE ~ (torn /\ g = f)
      BY <1>0, <1>3, <3>2 DEF Dated
    <3>. QED  BY <3>1, <3>2
  <2>. QED  BY <1>0, <1>1, <2>2 DEF Dated, IndexDated
<1>7. Serving'
  <2>1. ASSUME NEW k \in served', NEW s \in Listed(all[k])
        PROVE  s \in DOMAIN dest' /\ dest'[s].is = lib[s]
    BY <1>0, <1>1, <1>3, <2>1 DEF Serving, Copied
  <2>2. served' \subseteq served
    BY <1>1
  <2>. QED  BY <1>0, <1>1, <2>1, <2>2 DEF Serving, Current, Copied
<1>8. Copying'
  <2>. SUFFICES ASSUME ~ mixed PROVE Copying'
    BY <1>1 DEF Copying
  <2>0. kernels \in SUBSET Kernel
    BY <1>0 DEF TypeOK
  <2>1. Closed /\ \A k \in kernels : Current(k)
    BY <1>0, <1>1 DEF Copying
  <2>2. PICK st : st = StemsToCopy(kernels)
    OBVIOUS
  <2>3. PICK c \in 0..Len(st) : Progress(st, c)
    BY <1>0, <1>1, <2>2 DEF Copying
  <2>4. st \in Orders(lib)
    BY <1>0, <2>0, <2>1, <2>2, StemsFacts
  <2>5. StemsToCopy(kernels)' = st
    BY <1>1, <2>2 DEF StemsToCopy, Needed
  <2>6. /\ c + 1 \in 0..Len(st) /\ Len(queue') = Len(st) - (c + 1)
        /\ \A i \in 1..Len(queue') : queue'[i] = st[(c + 1) + i]
        /\ \A i \in 1..(c + 1) : i \in 1..c \/ st[i] = f
    BY <1>1, <1>2, <2>3, <2>4, NextInQueue DEF f
  <2>7. Closed'
    <3>1. ASSUME NEW g \in DOMAIN dest' PROVE dest'[g].is \subseteq DOMAIN dest \cup refused
      BY <1>3, <2>1 DEF Closed, TornFile
    <3>. QED  BY <1>1, <1>3, <3>1 DEF Closed
  <2>8. Progress(st, c + 1)'
    <3>1. refused' # {}
      BY <1>1
    <3>2. \A i \in 1..(c + 1) : st[i] \in DOMAIN dest' \cup refused'
      BY <1>1, <1>3, <2>3, <2>6 DEF Progress
    <3>. QED  BY <1>1, <2>5, <2>6, <3>1, <3>2 DEF Progress
  <2>9. \A k \in kernels : Current(k)'
    BY <1>1, <2>1 DEF Current
  <2>10. \E d \in 0..Len(StemsToCopy(kernels)') : Progress(StemsToCopy(kernels), d)'
    BY <2>5, <2>6, <2>8 DEF Progress
  <2>. QED  BY <1>1, <2>7, <2>9, <2>10 DEF Copying
<1>. QED  BY <1>4, <1>5, <1>6, <1>7, <1>8 DEF Inv

\* What both index files become: the release's, or what was there.
LEMMA IndexCopied ==
  ASSUME TypeOK, Dated, NEW copy \in [of : 0..MaxVersion, is : Indexes] \cup {NoFile, TornIndex},
         IndexDated(copy),
         NEW new, new = IF overwrite \/ copy = NoFile THEN Released(index) ELSE copy
  PROVE  /\ new \in [of : 0..MaxVersion, is : Indexes] \cup {NoFile, TornIndex}
         /\ IndexDated(new)
         /\ copy.is = index => new.is = index
         /\ overwrite \/ copy.of \in {-1, version} => new.is = index /\ new.of = version
<1>1. version \in 0..MaxVersion /\ index \in Indexes
  BY DEF TypeOK
<1>2. /\ Released(index) \in [of : 0..MaxVersion, is : Indexes]
      /\ Released(index).of = version /\ Released(index).is = index
  BY <1>1 DEF Released
<1>3. version \in Int
  BY <1>1
<1>4. CASE overwrite \/ copy = NoFile
  <2>1. new = Released(index)
    BY <1>4
  <2>. QED  BY <1>2, <1>3, <2>1 DEF IndexDated
<1>5. CASE ~ (overwrite \/ copy = NoFile)
  <2>1. new = copy /\ copy.of # -1
    BY <1>5 DEF TornIndex
  <2>. QED  BY <1>5, <2>1 DEF IndexDated
<1>. QED  BY <1>4, <1>5

\* The steps that leave the library, the tags and the files in dest_dir alone
\* and no file in the queue.
LEMMA IndexStepInv ==
  ASSUME Inv, UNCHANGED <<lib, index, version, calls, all, dest, count, mixed, refused>>,
         overwrite' \in BOOLEAN, clean' \in BOOLEAN, kernels' \in SUBSET Kernel,
         failures' \in 0..MaxFailures, queue' = <<>>, pc' \in {"idle", "rds", "tsv"},
         destRds' \in [of : 0..MaxVersion, is : Indexes] \cup {NoFile, TornIndex},
         destTsv' \in [of : 0..MaxVersion, is : Indexes] \cup {NoFile, TornIndex},
         IndexDated(destRds'), IndexDated(destTsv'),
         CleanCall', Serving', served' \in SUBSET Kernel
  PROVE  Inv'
<1>0. TypeOK /\ Indexed /\ Dated /\ Copying
  BY DEF Inv
<1>1. TypeOK'
  BY <1>0 DEF TypeOK, NoFile, TornFile, TornIndex
<1>2. Indexed' /\ Dated'
  BY <1>0 DEF Indexed, Dated, IndexDated
<1>3. Copying'
  <2>1. DestLibrary' = DestLibrary
    BY DEF DestLibrary
  <2>. QED  BY <1>0, <2>1 DEF Copying, Closed
<1>. QED  BY <1>1, <1>2, <1>3 DEF Inv

\* With the queue at its end every kernel's files are there.
LEMMA EndFilesInv == ASSUME Inv, EndFiles PROVE Inv'
<1>0. TypeOK /\ Dated /\ CleanCall /\ Serving
  BY DEF Inv
<1>1. /\ pc = "files" /\ queue = <<>> /\ pc' = "rds" /\ queue' = queue
      /\ UNCHANGED <<lib, index, version, calls, all, dest, count, mixed, failures, refused>>
      /\ UNCHANGED <<destRds, destTsv, overwrite, kernels, clean, served>>
  BY DEF EndFiles, source, directory, history
<1>2. CleanCall'
  BY <1>0, <1>1 DEF CleanCall, OfThisRelease, Current
<1>3. Serving'
  BY <1>0, <1>1 DEF Serving, Current, Copied
<1>. QED
  BY <1>0, <1>1, <1>2, <1>3, IndexStepInv DEF TypeOK, Dated

\* The rds is the release's after its copy, where nothing else was there.
LEMMA CopyRdsInv == ASSUME Inv, CopyRds PROVE Inv'
<1>0. TypeOK /\ Dated /\ CleanCall /\ Serving
  BY DEF Inv
<1>1. /\ pc = "rds" /\ pc' = "tsv" /\ queue' = queue
      /\ destRds' = IF overwrite \/ destRds = NoFile THEN Released(index) ELSE destRds
      /\ UNCHANGED <<lib, index, version, calls, all, dest, count, mixed, failures, refused>>
      /\ UNCHANGED <<destTsv, overwrite, kernels, clean, served>>
  BY DEF CopyRds, source, history
<1>2. queue = <<>> /\ destRds \in [of : 0..MaxVersion, is : Indexes] \cup {NoFile, TornIndex}
  BY <1>0, <1>1 DEF TypeOK
<1>3. IndexDated(destRds) /\ IndexDated(destTsv)
  BY <1>0 DEF Dated
<1>4. /\ destRds' \in [of : 0..MaxVersion, is : Indexes] \cup {NoFile, TornIndex}
      /\ IndexDated(destRds')
      /\ destRds.is = index => destRds'.is = index
      /\ overwrite \/ destRds.of \in {-1, version} =>
           destRds'.is = index /\ destRds'.of = version
  BY <1>0, <1>1, <1>2, <1>3, IndexCopied
<1>5. CleanCall'
  BY <1>0, <1>1, <1>4 DEF CleanCall, OfThisRelease, Current
<1>6. Serving'
  BY <1>0, <1>1, <1>4 DEF Serving, Current, Copied
<1>7. /\ destTsv' \in [of : 0..MaxVersion, is : Indexes] \cup {NoFile, TornIndex}
      /\ served' \in SUBSET Kernel /\ kernels' \in SUBSET Kernel
      /\ overwrite' \in BOOLEAN /\ clean' \in BOOLEAN /\ failures' \in 0..MaxFailures
  BY <1>0, <1>1 DEF TypeOK
<1>. QED  BY <1>1, <1>2, <1>3, <1>4, <1>5, <1>6, <1>7, IndexStepInv

\* With the tsv a call is complete; its kernels are served if it was a clean one.
LEMMA CopyTsvInv == ASSUME Inv, CopyTsv PROVE Inv'
<1>0. TypeOK /\ Dated /\ CleanCall /\ Serving
  BY DEF Inv
<1>1. /\ pc = "tsv" /\ pc' = "idle" /\ queue' = <<>>
      /\ destTsv' = IF overwrite \/ destTsv = NoFile THEN Released(index) ELSE destTsv
      /\ served' = IF clean THEN served \cup kernels ELSE served
      /\ overwrite' = FALSE /\ kernels' = {} /\ clean' = TRUE
      /\ UNCHANGED <<lib, index, version, calls, all, dest, count, mixed, failures, refused>>
      /\ UNCHANGED destRds
  BY DEF CopyTsv, EndCall, source
<1>2. queue = <<>> /\ destTsv \in [of : 0..MaxVersion, is : Indexes] \cup {NoFile, TornIndex}
  BY <1>0, <1>1 DEF TypeOK
<1>3. IndexDated(destRds) /\ IndexDated(destTsv)
  BY <1>0 DEF Dated
<1>4. /\ destTsv' \in [of : 0..MaxVersion, is : Indexes] \cup {NoFile, TornIndex}
      /\ IndexDated(destTsv')
      /\ destTsv.is = index => destTsv'.is = index
      /\ overwrite \/ destTsv.of \in {-1, version} =>
           destTsv'.is = index /\ destTsv'.of = version
  BY <1>0, <1>1, <1>2, <1>3, IndexCopied
<1>5. CleanCall'
  BY <1>1 DEF CleanCall
<1>6. ASSUME clean, NEW k \in kernels
      PROVE  Current(k) /\ Copied(k) /\ destRds.is = index /\ destTsv'.is = index
  <2>1. ToSet(queue) = {}
    BY <1>2 DEF ToSet
  <2>2. Current(k) /\ Copied(k) /\ destRds.is = index
    BY <1>0, <1>1, <1>6, <2>1 DEF CleanCall, Copied
  <2>3. destTsv'.is = index
    BY <1>0, <1>1, <1>4, <1>6 DEF CleanCall
  <2>. QED  BY <2>2, <2>3
<1>7. Serving'
  <2>1. ASSUME NEW k \in served'
        PROVE  Current(k) /\ Copied(k) /\ destRds.is = index /\ destTsv'.is = index
    BY <1>0, <1>1, <1>4, <1>6, <2>1 DEF Serving
  <2>. QED  BY <1>1, <2>1 DEF Serving, Current, Copied
<1>8. /\ destRds' \in [of : 0..MaxVersion, is : Indexes] \cup {NoFile, TornIndex}
      /\ served' \in SUBSET Kernel /\ failures' \in 0..MaxFailures
  BY <1>0, <1>1 DEF TypeOK
<1>. QED  BY <1>1, <1>2, <1>3, <1>4, <1>5, <1>7, <1>8, IndexStepInv

\* A torn index is of no release.
LEMMA TornDated ==
  ASSUME TypeOK
  PROVE  IndexDated(TornIndex)
BY DEF TypeOK, IndexDated, TornIndex

\* An index whose copy fails is as it was, or serves nobody.
LEMMA CopyRdsFailsInv ==
  ASSUME Inv, NEW torn \in BOOLEAN, CopyRdsFails(torn) PROVE Inv'
<1>0. TypeOK /\ Dated /\ Serving
  BY DEF Inv
<1>1. /\ pc = "rds" /\ pc' = "tsv" /\ queue' = queue /\ clean' = FALSE
      /\ failures < MaxFailures /\ failures' = failures + 1
      /\ destRds' = IF torn THEN TornIndex ELSE destRds
      /\ served' = IF torn THEN {} ELSE served
      /\ UNCHANGED <<lib, index, version, calls, all, dest, count, mixed, refused>>
      /\ UNCHANGED <<destTsv, overwrite, kernels>>
  BY DEF CopyRdsFails, Fail, source
<1>2. queue = <<>>
  BY <1>0, <1>1 DEF TypeOK
<1>3. /\ destRds' \in [of : 0..MaxVersion, is : Indexes] \cup {NoFile, TornIndex}
      /\ destTsv' \in [of : 0..MaxVersion, is : Indexes] \cup {NoFile, TornIndex}
      /\ served' \in SUBSET Kernel /\ kernels' \in SUBSET Kernel
      /\ overwrite' \in BOOLEAN /\ clean' \in BOOLEAN
  BY <1>0, <1>1 DEF TypeOK
<1>4. failures' \in 0..MaxFailures
  BY <1>0, <1>1, BoundsAssumption DEF TypeOK
<1>5. IndexDated(destRds') /\ IndexDated(destTsv')
  BY <1>0, <1>1, TornDated DEF Dated
<1>6. CleanCall' /\ Serving'
  BY <1>0, <1>1 DEF CleanCall, Serving, Current, Copied
<1>. QED  BY <1>1, <1>2, <1>3, <1>4, <1>5, <1>6, IndexStepInv

\* The same of the other one.
LEMMA CopyTsvFailsInv ==
  ASSUME Inv, NEW torn \in BOOLEAN, CopyTsvFails(torn) PROVE Inv'
<1>0. TypeOK /\ Dated /\ Serving
  BY DEF Inv
<1>1. /\ pc = "tsv" /\ pc' = "idle" /\ queue' = <<>>
      /\ overwrite' = FALSE /\ kernels' = {} /\ clean' = TRUE
      /\ failures < MaxFailures /\ failures' = failures + 1
      /\ destTsv' = IF torn THEN TornIndex ELSE destTsv
      /\ served' = IF torn THEN {} ELSE served
      /\ UNCHANGED <<lib, index, version, calls, all, dest, count, mixed, refused>>
      /\ UNCHANGED destRds
  BY DEF CopyTsvFails, Fail, EndCall, source
<1>2. /\ destRds' \in [of : 0..MaxVersion, is : Indexes] \cup {NoFile, TornIndex}
      /\ destTsv' \in [of : 0..MaxVersion, is : Indexes] \cup {NoFile, TornIndex}
      /\ served' \in SUBSET Kernel
  BY <1>0, <1>1 DEF TypeOK
<1>3. failures' \in 0..MaxFailures
  BY <1>0, <1>1, BoundsAssumption DEF TypeOK
<1>4. IndexDated(destRds') /\ IndexDated(destTsv')
  BY <1>0, <1>1, TornDated DEF Dated
<1>5. CleanCall' /\ Serving'
  BY <1>0, <1>1 DEF CleanCall, Serving, Current, Copied
<1>. QED  BY <1>1, <1>2, <1>3, <1>4, <1>5, IndexStepInv

\* An interrupt leaves what is copied.
LEMMA InterruptInv == ASSUME Inv, Interrupt PROVE Inv'
<1>0. TypeOK /\ Dated /\ Serving
  BY DEF Inv
<1>1. /\ pc' = "idle" /\ queue' = <<>> /\ overwrite' = FALSE /\ kernels' = {} /\ clean' = TRUE
      /\ UNCHANGED <<lib, index, version, calls, all, dest, count, mixed, failures, refused>>
      /\ UNCHANGED <<destRds, destTsv, served>>
  BY DEF Interrupt, EndCall, source, directory, history
<1>2. CleanCall' /\ Serving'
  BY <1>0, <1>1 DEF CleanCall, Serving, Current, Copied
<1>. QED  BY <1>0, <1>1, <1>2, IndexStepInv DEF TypeOK, Dated

\* Whoever acts, and whenever a call is interrupted.
LEMMA NextInv == Inv /\ [Next]_vars => Inv'
<1>. SUFFICES ASSUME Inv, [Next]_vars PROVE Inv'
  OBVIOUS
<1>0. TypeOK
  BY DEF Inv
<1>1. DOMAIN lib \in SUBSET Stem /\ lib \in [DOMAIN lib -> SUBSET Stem]
  BY <1>0, LibraryFacts DEF TypeOK
<1>2. ASSUME NEW f \in Stem, NEW d \in Dependencies, Change(f, d) PROVE Inv'
  <2>. DEFINE newLib == [g \in DOMAIN lib \cup {f} |-> IF g = f THEN d ELSE lib[g]]
  <2>1. d \in SUBSET Stem
    BY StemsAssumption
  <2>2. newLib \in [DOMAIN lib \cup {f} -> SUBSET Stem]
    BY <1>1, <2>1
  <2>3. newLib \in Libraries
    BY <1>1, <2>2 DEF Libraries
  <2>4. Release(newLib)
    BY <1>2 DEF Change
  <2>. HIDE DEF newLib
  <2>. QED  BY <2>3, <2>4, ReleaseInv
<1>3. ASSUME NEW f \in DOMAIN lib, Release([g \in DOMAIN lib \ {f} |-> lib[g]]) PROVE Inv'
  <2>. DEFINE newLib == [g \in DOMAIN lib \ {f} |-> lib[g]]
  <2>1. newLib \in [DOMAIN lib \ {f} -> SUBSET Stem]
    BY <1>1
  <2>2. newLib \in Libraries
    BY <1>1, <2>1 DEF Libraries
  <2>3. Release(newLib)
    BY <1>3
  <2>. HIDE DEF newLib
  <2>. QED  BY <2>2, <2>3, ReleaseInv
<1>4. CASE UNCHANGED vars
  <2>1. /\ UNCHANGED <<lib, index, version, calls, all>> /\ UNCHANGED <<dest, destRds, destTsv>>
        /\ UNCHANGED <<pc, queue, overwrite, kernels, clean>> /\ UNCHANGED <<count, mixed, failures, refused, served>>
    BY <1>4 DEF vars, source, directory, call, history
  <2>2. TypeOK' /\ Indexed' /\ Dated'
    BY <2>1 DEF Inv, TypeOK, Indexed, Dated, IndexDated, NoFile, TornFile, TornIndex
  <2>3. CleanCall' /\ Serving'
    BY <2>1 DEF Inv, CleanCall, Serving, Current, Copied, OfThisRelease
  <2>4. Copying'
    <3>1. PICK st : st = StemsToCopy(kernels)
      OBVIOUS
    <3>2. StemsToCopy(kernels)' = st /\ DestLibrary' = DestLibrary
      BY <2>1, <3>1 DEF StemsToCopy, Needed, DestLibrary
    <3>3. ASSUME ~ mixed, pc = "files"
          PROVE  /\ \A k \in kernels : Current(k)'
                 /\ \E c \in 0..Len(StemsToCopy(kernels)') : Progress(StemsToCopy(kernels), c)'
      <4>1. PICK c \in 0..Len(st) : Progress(st, c)
        BY <3>1, <3>3 DEF Inv, Copying
      <4>2. Progress(StemsToCopy(kernels), c)'
        BY <2>1, <3>2, <4>1 DEF Progress
      <4>3. \A k \in kernels : Current(k)'
        BY <2>1, <3>3 DEF Inv, Copying, Current
      <4>. QED  BY <3>2, <4>1, <4>2, <4>3
    <3>. QED  BY <2>1, <3>2, <3>3 DEF Inv, Copying, Closed
  <2>. QED  BY <2>2, <2>3, <2>4 DEF Inv
<1>. QED
  BY <1>2, <1>3, <1>4, RetagInv, ExtractInv, CopyFileInv, EndFilesInv, CopyRdsInv,
     CopyTsvInv, CopyFileFailsInv, CopyRdsFailsInv, CopyTsvFailsInv, InterruptInv DEF Next

-----------------------------------------------------------------------------

(***************************************************************************)
(* What is in dest_dir can be loaded at every moment of a copy, and serves *)
(* the kernels it was extracted for when the copy is complete.             *)
(***************************************************************************)
THEOREM ExtractionInvariance == Spec => []Inv
BY InitInv, NextInv, PTL DEF Spec

\* The library, dest_dir and the call in progress keep their forms.
THEOREM ExtractionTypes == Spec => []TypeOK
<1>1. Inv => TypeOK
  BY DEF Inv
<1>. QED  BY ExtractionInvariance, <1>1, PTL

(***************************************************************************)
(* dest_dir can be loaded as a whole after every single file that is       *)
(* copied, wherever the copy is interrupted and whatever is copied over.   *)
(* Copies that fail leave their stems to be missed, and no other; dest_dir *)
(* is sound again when these are there and all of it is of this release.   *)
(***************************************************************************)
THEOREM DestStaysLoadable == Spec => []DestLoadable
<1>1. Inv => DestLoadable
  <2>. SUFFICES ASSUME Inv, ~ mixed
                PROVE  /\ Closed
                       /\ refused = {} \/ (refused \subseteq DOMAIN dest /\ OfThisRelease) =>
                            DOMAIN dest = {} \/ Indexable(DestLibrary)
    BY DEF DestLoadable, Closed
  <2>1. TypeOK /\ Indexed /\ Dated /\ Closed /\ (refused = {} => Loadable(DestLibrary))
    BY DEF Inv, Copying
  <2>2. DOMAIN DestLibrary = DOMAIN dest /\ \A f \in DOMAIN dest : DestLibrary[f] = dest[f].is
    BY DEF DestLibrary
  <2>3. DOMAIN DestLibrary \in SUBSET Int /\ IsFiniteSet(DOMAIN DestLibrary)
    BY <2>1, <2>2, StemAssumption, FS_Subset DEF TypeOK
  <2>4. ASSUME refused \subseteq DOMAIN dest, OfThisRelease PROVE Loadable(DestLibrary)
    <3>1. lib \in Libraries
      BY <2>1 DEF TypeOK
    <3>2. DOMAIN lib \in SUBSET Int /\ IsFiniteSet(DOMAIN lib)
      BY <3>1, LibraryFacts
    <3>3. Loadable(lib)
      BY <2>1, <3>2, SortSucceeds DEF Indexed
    <3>4. \A f \in DOMAIN dest : f \in DOMAIN lib /\ DestLibrary[f] = lib[f]
      BY <2>1, <2>2, <2>4 DEF Dated, OfThisRelease
    <3>5. \A f \in DOMAIN DestLibrary : DestLibrary[f] \subseteq DOMAIN DestLibrary
      BY <2>1, <2>2, <2>4 DEF Closed
    <3>6. ASSUME NEW S \in SUBSET DOMAIN DestLibrary, S # {}
          PROVE  \E f \in S : DestLibrary[f] \cap S = {}
      <4>1. S \in SUBSET DOMAIN lib
        BY <2>2, <3>4, <3>6
      <4>2. PICK f \in S : lib[f] \cap S = {}
        BY <3>3, <3>6, <4>1 DEF Loadable
      <4>. QED  BY <2>2, <3>4, <3>6, <4>2
    <3>. QED  BY <3>5, <3>6 DEF Loadable
  <2>5. ASSUME Loadable(DestLibrary), DOMAIN dest # {} PROVE Indexable(DestLibrary)
    BY <2>2, <2>3, <2>5, SortSucceeds
  <2>. QED  BY <2>1, <2>4, <2>5
<1>. QED  BY ExtractionInvariance, <1>1, PTL

(***************************************************************************)
(* A complete extraction over nothing of another release, with no copy     *)
(* that failed, gives its kernels from dest_dir what they get from the     *)
(* library, and keeps doing so until a copy tears a file they need.        *)
(***************************************************************************)
THEOREM ExtractionServes == Spec => []SubsetServes
<1>1. Inv => SubsetServes
  <2>. SUFFICES ASSUME Inv, NEW k \in served
                PROVE  LET text == CrossSubset(all[k], index, DOMAIN lib)
                       IN  /\ CrossSubset(all[k], destTsv.is, DOMAIN dest) = text
                           /\ RSubset(all[k], destRds.is, DOMAIN dest) = text
                           /\ \A s \in Listed(all[k]) : dest[s].is = lib[s]
    BY DEF SubsetServes
  <2>1. TypeOK /\ Indexed
    BY DEF Inv
  <2>2. Current(k) /\ Copied(k) /\ destRds.is = index /\ destTsv.is = index
    BY DEF Inv, Serving
  <2>. DEFINE S == Listed(all[k])
              stems == Kept(index.order, S)
  <2>3. S \in SUBSET DOMAIN lib
    <3>1. calls[k] \in SUBSET Stem
      BY <2>1 DEF TypeOK
    <3>. QED  BY <2>1, <2>2, <3>1, TagFacts DEF Current
  <2>4. S \subseteq DOMAIN dest /\ \A s \in S : dest[s].is = lib[s]
    BY <2>2 DEF Copied
  <2>5. index # NoIndex /\ index.order \in Seq(Stem)
    <3>1. index \in Indexes
      BY <2>1 DEF TypeOK
    <3>. QED  BY <3>1, AbsentAssumption DEF Indexes
  <2>6. Known(index) = DOMAIN lib
    <3>1. DOMAIN lib \in SUBSET Int /\ IsFiniteSet(DOMAIN lib)
      BY <2>1, LibraryFacts DEF TypeOK
    <3>. QED  BY <2>1, <3>1, ExpansionFacts DEF Indexed
  <2>7. ToSet(stems) \subseteq S /\ (S = {} => stems = <<>>)
    BY <2>5, KeptMembers
  <2>8. S \cap DOMAIN dest = S
    BY <2>4
  <2>. HIDE DEF stems, S
  <2>9. CrossSubset(all[k], index, DOMAIN lib) = stems
    BY <2>3, <2>5, <2>6, <2>7 DEF CrossSubset, InIndexOrder, stems, S
  <2>10. CrossSubset(all[k], index, DOMAIN dest) = stems
    BY <2>3, <2>4, <2>5, <2>6, <2>7 DEF CrossSubset, InIndexOrder, stems, S
  <2>11. RSubset(all[k], index, DOMAIN dest) = stems
    BY <2>5, <2>8 DEF RSubset, InIndexOrder, stems, S
  <2>. QED  BY <2>2, <2>4, <2>9, <2>10, <2>11 DEF S
<1>. QED  BY ExtractionInvariance, <1>1, PTL
=============================================================================
