------------------------ MODULE KernelTagging_proof ------------------------
(***************************************************************************)
(* Proofs about the index and the tags of kernels, for every set of stems  *)
(* and kernels and every order in which the tools are run.                 *)
(***************************************************************************)
EXTENDS KernelTagging, SequenceFacts

(***************************************************************************)
(* Libraries and the index made of one.                                    *)
(***************************************************************************)

\* What a library is made of.
LEMMA LibraryFacts ==
  ASSUME NEW l \in Libraries
  PROVE  /\ DOMAIN l \in SUBSET Stem /\ DOMAIN l \in SUBSET Int
         /\ IsFiniteSet(DOMAIN l)
         /\ l \in [DOMAIN l -> SUBSET Stem]
<1>1. PICK F \in SUBSET Stem : l \in [F -> SUBSET Stem]
  BY Zenon DEF Libraries
<1>2. DOMAIN l = F
  BY <1>1
<1>3. Stem \subseteq Int /\ IsFiniteSet(Stem)
  BY StemAssumption
<1>. QED  BY <1>1, <1>2, <1>3, FS_Subset

\* An index is one, and it is sound: each file's needs are complete and come
\* before the file.
LEMMA IndexFacts ==
  ASSUME NEW l \in Libraries, Indexable(l)
  PROVE  /\ IndexOf(l) \in Indexes
         /\ Known(IndexOf(l)) = DOMAIN l
         /\ Sound(IndexOf(l))
<1>. DEFINE s == SortedFiles(l)
            idx == IndexOf(l)
<1>1. /\ DOMAIN l \in SUBSET Stem /\ DOMAIN l \in SUBSET Int
      /\ IsFiniteSet(DOMAIN l)
  BY LibraryFacts
<1>2. s \in Orders(l) /\ ToSet(s) = DOMAIN l
  BY <1>1, IndexableFacts
<1>3. Len(s) = Cardinality(DOMAIN l)
  BY DEF Indexable
<1>4. idx.order = s /\ idx.all = [f \in DOMAIN l |-> TransitiveDepends(l, f)]
  BY DEF IndexOf
<1>5. s \in Seq(DOMAIN l)
  BY <1>2 DEF Orders
<1>6. \A f : TransitiveDepends(l, f) \in SUBSET DOMAIN l
  BY Zenon DEF TransitiveDepends
<1>. HIDE DEF s
<1>7. idx \in Indexes
  <2>1. s \in Seq(Stem)
    BY <1>1, <1>5
  <2>2. idx.all \in [DOMAIN l -> SUBSET Stem]
    BY <1>1, <1>4, <1>6
  <2>3. idx.all \in UNION {[F -> SUBSET Stem] : F \in SUBSET Stem}
    BY <1>1, <2>2
  <2>4. idx = [order |-> s, all |-> idx.all]
    BY <1>4 DEF IndexOf, s
  <2>. HIDE DEF idx
  <2>. QED  BY <2>1, <2>3, <2>4 DEF Indexes
<1>8. Known(idx) = DOMAIN l
  BY <1>2, <1>4 DEF Known
<1>. HIDE DEF idx
<1>9. Sound(idx)
  <2>1. Known(idx) = DOMAIN idx.all /\ Len(idx.order) = Cardinality(Known(idx))
    BY <1>3, <1>4, <1>8
  <2>2. ASSUME NEW i \in 1..Len(idx.order)
        PROVE  /\ idx.all[idx.order[i]] \subseteq {idx.order[j] : j \in 1..(i - 1)}
               /\ \A d \in idx.all[idx.order[i]] :
                    idx.all[d] \subseteq idx.all[idx.order[i]]
    <3>1. s[i] \in DOMAIN l /\ idx.order[i] = s[i]
      BY <1>4, <1>5
    <3>2. idx.all[s[i]] = TransitiveDepends(l, s[i])
      BY <1>4, <3>1
    <3>3. TransitiveDepends(l, s[i]) \subseteq {s[j] : j \in 1..(i - 1)}
      <4>1. i \in 1..Len(s)
        BY <1>4
      <4>. QED  BY <1>2, <4>1, NeedsPrecedeInOrder
    <3>4. \A d \in TransitiveDepends(l, s[i]) :
            d \in DOMAIN l /\ TransitiveDepends(l, d) \subseteq TransitiveDepends(l, s[i])
      BY TransitiveFacts
    <3>5. \A d \in TransitiveDepends(l, s[i]) : idx.all[d] = TransitiveDepends(l, d)
      BY <1>4, <3>4
    <3>. QED  BY <1>4, <3>1, <3>2, <3>3, <3>4, <3>5
  <2>. QED  BY <2>1, <2>2 DEF Sound
<1>. QED  BY <1>7, <1>8, <1>9 DEF idx

\* A tag expanded with a sound index is a list that is not empty, or absent.
LEMMA ExpandedType ==
  ASSUME NEW idx \in Indexes, Sound(idx), NEW S \in SUBSET Stem
  PROVE  ExpandedTag(S, idx) \in ((SUBSET Stem) \ {{}}) \cup {NoTag}
<1>1. PICK F \in SUBSET Stem : idx.all \in [F -> SUBSET Stem]
  BY DEF Indexes
<1>2. idx # NoIndex
  BY AbsentAssumption
<1>3. Known(idx) = F
  BY <1>1, <1>2 DEF Sound
<1>4. \A s \in S \cap Known(idx) : idx.all[s] \in SUBSET Stem
  BY <1>1, <1>3
<1>5. (S \cap Known(idx)) \cup UNION {idx.all[s] : s \in S \cap Known(idx)} \in SUBSET Stem
  BY <1>4
<1>6. Expansion(S, idx) \in SUBSET Stem
  BY <1>5 DEF Expansion
<1>. QED  BY <1>6 DEF ExpandedTag

(***************************************************************************)
(* A kernel's calls, expanded with the index of the library and loaded by  *)
(* that index, make a compilable text with all of them.                    *)
(***************************************************************************)
LEMMA ExpandedLoads ==
  ASSUME NEW l \in Libraries, Indexable(l), NEW S \in SUBSET DOMAIN l,
         NEW text, text = CrossSubset(ExpandedTag(S, IndexOf(l)), IndexOf(l), DOMAIN l)
  PROVE  text # Failure /\ Complete(text, l) /\ S \subseteq ToSet(text)
<1>. DEFINE idx == IndexOf(l)
            needed == Expansion(S, idx)
            stems == InIndexOrder(idx, needed)
<1>1. /\ DOMAIN l \in SUBSET Stem /\ DOMAIN l \in SUBSET Int
      /\ IsFiniteSet(DOMAIN l)
  BY LibraryFacts
<1>2. /\ Known(idx) = DOMAIN l
      /\ needed \in SUBSET DOMAIN l /\ S \cap DOMAIN l \subseteq needed
      /\ \A f \in needed : l[f] \subseteq needed
  BY <1>1, ExpansionFacts
<1>3. idx # NoIndex
  <2>1. idx \in Indexes
    BY IndexFacts
  <2>. QED  BY <2>1, AbsentAssumption
<1>4. text = CrossSubset(IF needed = {} THEN NoTag ELSE needed, idx, DOMAIN l)
  BY DEF ExpandedTag
<1>5. stems \in Orders(l) /\ ToSet(stems) = needed \cap DOMAIN l
  <2>. HIDE DEF needed
  <2>1. \A f \in needed \cap DOMAIN l : l[f] \subseteq needed
    BY <1>2
  <2>. QED  BY <1>1, <2>1, ExpansionLoads
<1>. HIDE DEF idx, needed, stems
<1>6. CASE needed = {}
  <2>1. text = <<>>
    BY <1>4, <1>6 DEF CrossSubset, Listed
  <2>2. <<>> \in Seq(Stem)
    OBVIOUS
  <2>3. text # Failure
    BY <2>1, <2>2, AbsentAssumption, Zenon
  <2>4. Complete(text, l)
    BY <2>1 DEF Complete
  <2>. QED  BY <1>2, <1>6, <2>3, <2>4
<1>7. CASE needed # {}
  <2>1. Listed(needed) = needed
    BY <1>1, <1>2, AbsentAssumption DEF Listed
  <2>2. text = stems
    BY <1>2, <1>3, <1>4, <1>5, <1>7, <2>1 DEF CrossSubset, stems
  <2>3. stems \in Seq(DOMAIN l) /\ Complete(stems, l)
    BY <1>5 DEF Orders
  <2>4. stems \in Seq(Stem)
    BY <1>1, <2>3
  <2>5. stems # Failure
    BY <2>4, AbsentAssumption
  <2>. QED  BY <1>2, <1>5, <2>2, <2>3, <2>5
<1>. QED  BY <1>6, <1>7

-----------------------------------------------------------------------------
(***************************************************************************)
(* The invariant of the tools.                                             *)
(***************************************************************************)

\* The types of what TypeOK leaves open: the history.
Histories ==
  /\ disk \in [Path -> Stored \cup {NoIndex}]
  /\ writing = NoWrite \/ writing \in [path : OutputPath, index : Indexes, at : Int]
  /\ builtAt \in Int
  /\ storedAt \in [Path -> Int]
  /\ calledAt \in [Kernel -> Int \X Int]
  /\ allAt \in [Kernel -> Int]

SoundIndexes == {idx \in Indexes : Sound(idx)}

\* The index that is about to be written is sound like the others.
AllSound ==
  /\ held \in SoundIndexes \cup {NoIndex}
  /\ \A p \in Path : Disk(p) \in SoundIndexes \cup {NoIndex}
  /\ writing # NoWrite => writing.index \in SoundIndexes

\* Nothing was made from a version that is still to come.
Past ==
  /\ builtAt <= version
  /\ writing # NoWrite => writing.at <= version
  /\ \A p \in Path : storedAt[p] <= version
  /\ \A k \in Kernel : /\ calledAt[k][1] <= version
                       /\ calledAt[k][2] <= edits[k]
                       /\ allAt[k] <= version

\* An index made from this version is the one of the library as it is.
Made(idx, at) == at = version => Indexable(lib) /\ idx = IndexOf(lib)

\* What was made from what is there still fits it.
Accurate ==
  /\ Made(held, builtAt)
  /\ writing # NoWrite => Made(writing.index, writing.at)
  /\ \A p \in Path : Made(Disk(p), storedAt[p])
  /\ \A k \in Kernel :
       /\ calledAt[k] = <<version, edits[k]>> => calls[k] = source[k] \cap DOMAIN lib
       /\ allAt[k] = version =>
            Indexable(lib) /\ all[k] = ExpandedTag(calls[k], IndexOf(lib))

Inv == TypeOK /\ Histories /\ AllSound /\ Past /\ Accurate

\* What is read from a path is an index, if there is one.
LEMMA DiskType ==
  ASSUME Histories, NEW p \in Path
  PROVE  Disk(p) \in Indexes \cup {NoIndex}
<1>1. disk[p] \in Stored \cup {NoIndex}
  BY DEF Histories
<1>. QED  BY <1>1 DEF Disk, Stored

\* What a write to a path changes.
LEMMA StoreFacts ==
  ASSUME Histories, NEW q \in Path, NEW f \in {"rds", "tsv"}, NEW i \in Indexes,
         disk' = [disk EXCEPT ![q] = [format |-> f, index |-> i]]
  PROVE  /\ disk' \in [Path -> Stored \cup {NoIndex}]
         /\ \A p \in Path : Disk(p)' = IF p = q THEN i ELSE Disk(p)
<1>. DEFINE r == [format |-> f, index |-> i]
<1>1. r \in Stored /\ r.index = i
  BY DEF Stored
<1>2. r # NoIndex
  BY <1>1, StoredAssumption
<1>3. disk' = [disk EXCEPT ![q] = r]
  OBVIOUS
<1>. HIDE DEF r
<1>4. disk \in [Path -> Stored \cup {NoIndex}]
  BY DEF Histories
<1>5. disk' \in [Path -> Stored \cup {NoIndex}]
  BY <1>1, <1>3, <1>4
<1>6. \A p \in Path : disk'[p] = IF p = q THEN r ELSE disk[p]
  BY <1>3, <1>4
<1>7. ASSUME NEW p \in Path PROVE Disk(p)' = IF p = q THEN i ELSE Disk(p)
  BY <1>1, <1>2, <1>6 DEF Disk
<1>. QED  BY <1>5, <1>7

\* The tools start with nothing made.
LEMMA InitInv == Init => Inv
<1>. SUFFICES ASSUME Init PROVE Inv
  OBVIOUS
<1>1. lib \in Libraries
  <2>1. PICK F \in SUBSET Stem : lib \in [F -> Dependencies]
    BY DEF Init
  <2>2. lib \in [F -> SUBSET Stem]
    BY <2>1, StemsAssumption
  <2>. QED  BY <2>2 DEF Libraries
<1>2. TypeOK
  <2>1. source \in [Kernel -> SUBSET Stem] /\ alike \in [Kernel -> SUBSET Stem]
    BY StemsAssumption DEF Init
  <2>2. version \in 0..MaxVersion /\ crashes \in 0..MaxCrashes
    BY BoundsAssumption DEF Init
  <2>3. edits \in [Kernel -> 0..MaxKernelEdits]
    BY BoundsAssumption DEF Init
  <2>4. /\ calls \in [Kernel -> (SUBSET Stem) \cup {NoTag}]
        /\ all \in [Kernel -> ((SUBSET Stem) \ {{}}) \cup {NoTag}]
        /\ counted \in [Kernel -> BOOLEAN]
        /\ \A p \in Path : disk[p] \in Stored \cup {NoIndex}
    BY DEF Init
  <2>. QED  BY <1>1, <2>1, <2>2, <2>3, <2>4 DEF Init, TypeOK
<1>3. Histories
  BY DEF Init, Histories
<1>4. \A p \in Path : Disk(p) = NoIndex
  BY DEF Init, Disk
<1>5. AllSound
  BY <1>4 DEF Init, AllSound
<1>6. Past
  BY DEF Init, Past
<1>7. Accurate
  BY DEF Init, Accurate, Made
<1>. QED  BY <1>2, <1>3, <1>5, <1>6, <1>7 DEF Inv

\* An edit of the library keeps the index and the tags, of an earlier version now.
LEMMA EditLibraryInv ==
  ASSUME Inv, NEW newLib \in Libraries, EditLibrary(newLib)
  PROVE  Inv'
<1>0. TypeOK /\ Histories /\ AllSound /\ Past /\ Accurate
  BY DEF Inv
<1>1. /\ version < MaxVersion /\ version' = version + 1 /\ lib' = newLib
      /\ UNCHANGED <<calls, all, counted, calledAt, allAt>>
      /\ UNCHANGED <<disk, held, writing, builtAt, storedAt, torn>>
      /\ UNCHANGED <<source, alike, edits, crashes>>
  BY DEF EditLibrary, tags, index
<1>2. version \in Nat /\ version' \in 0..MaxVersion
  <2>1. version \in 0..MaxVersion
    BY <1>0 DEF TypeOK
  <2>. QED  BY <1>1, <2>1, BoundsAssumption
<1>3. \A p : Disk(p)' = Disk(p)
  BY <1>1 DEF Disk
<1>4. TypeOK'
  BY <1>0, <1>1, <1>2 DEF TypeOK
<1>5. Histories'
  BY <1>0, <1>1 DEF Histories
<1>6. AllSound'
  BY <1>0, <1>1, <1>3 DEF AllSound
<1>7. /\ builtAt < version'
      /\ writing # NoWrite => writing.at < version'
      /\ \A p \in Path : storedAt[p] < version'
      /\ \A k \in Kernel : /\ calledAt[k][1] < version'
                           /\ calledAt[k][2] <= edits[k]
                           /\ allAt[k] < version'
  <2>1. builtAt < version' /\ \A p \in Path : storedAt[p] < version'
    BY <1>0, <1>1, <1>2 DEF Past, Histories
  <2>2. writing # NoWrite => writing.at < version'
    BY <1>0, <1>1, <1>2 DEF Past, Histories
  <2>3. ASSUME NEW k \in Kernel PROVE calledAt[k][1] < version' /\ allAt[k] < version'
    <3>1. calledAt[k][1] \in Int /\ allAt[k] \in Int
      BY <1>0 DEF Histories
    <3>2. calledAt[k][1] <= version /\ allAt[k] <= version
      BY <1>0 DEF Past
    <3>. QED  BY <1>1, <1>2, <3>1, <3>2
  <2>. QED  BY <1>0, <2>1, <2>2, <2>3 DEF Past
<1>8. Past'
  BY <1>0, <1>1, <1>2, <1>7 DEF Past, Histories
<1>9. Accurate'
  <2>1. builtAt # version' /\ \A p \in Path : storedAt[p] # version'
    BY <1>0, <1>2, <1>7 DEF Histories
  <2>2. writing # NoWrite => writing.at # version'
    BY <1>0, <1>2, <1>7 DEF Histories
  <2>3. ASSUME NEW k \in Kernel
        PROVE  calledAt[k] # <<version', edits[k]>> /\ allAt[k] # version'
    BY <1>0, <1>2, <1>7 DEF Histories
  <2>. QED  BY <1>1, <2>1, <2>2, <2>3 DEF Accurate, Made
<1>. QED  BY <1>4, <1>5, <1>6, <1>8, <1>9 DEF Inv

\* An edit of a kernel makes the tag of its calls one of an earlier source.
LEMMA EditKernelInv ==
  ASSUME Inv, NEW k \in Kernel, NEW S \in Called, EditKernel(k, S)
  PROVE  Inv'
<1>0. TypeOK /\ Histories /\ AllSound /\ Past /\ Accurate
  BY DEF Inv
<1>1. /\ edits[k] < MaxKernelEdits
      /\ source' = [source EXCEPT ![k] = S]
      /\ edits' = [edits EXCEPT ![k] = @ + 1]
      /\ UNCHANGED <<calls, all, counted, calledAt, allAt>>
      /\ UNCHANGED <<disk, held, writing, builtAt, storedAt, torn>>
      /\ UNCHANGED <<lib, alike, version, crashes>>
  BY DEF EditKernel, tags, index
<1>2. S \in SUBSET Stem
  BY StemsAssumption
<1>3. /\ source \in [Kernel -> SUBSET Stem] /\ edits \in [Kernel -> 0..MaxKernelEdits]
      /\ edits[k] \in Nat /\ edits[k] + 1 \in 0..MaxKernelEdits
  <2>1. source \in [Kernel -> SUBSET Stem] /\ edits \in [Kernel -> 0..MaxKernelEdits]
    BY <1>0 DEF TypeOK
  <2>2. edits[k] \in 0..MaxKernelEdits
    BY <2>1
  <2>. QED  BY <1>1, <2>1, <2>2, BoundsAssumption
<1>4. source' \in [Kernel -> SUBSET Stem] /\ edits' \in [Kernel -> 0..MaxKernelEdits]
  BY <1>1, <1>2, <1>3
<1>5. \A p : Disk(p)' = Disk(p)
  BY <1>1 DEF Disk
<1>6. TypeOK'
  BY <1>0, <1>1, <1>4 DEF TypeOK
<1>7. Histories'
  BY <1>0, <1>1 DEF Histories
<1>8. AllSound'
  BY <1>0, <1>1, <1>5 DEF AllSound
<1>9. ASSUME NEW j \in Kernel
      PROVE  /\ calledAt[j][2] <= edits'[j]
             /\ calledAt[j] = <<version, edits'[j]>> =>
                  j # k /\ calledAt[j] = <<version, edits[j]>>
  <2>1. calledAt[j][2] <= edits[j] /\ calledAt[j][2] \in Int
    BY <1>0 DEF Past, Histories
  <2>2. CASE j = k
    <3>1. edits'[j] = edits[k] + 1
      BY <1>1, <1>3, <2>2
    <3>2. calledAt[j][2] < edits'[j] /\ edits'[j] \in Int
      BY <1>3, <2>1, <2>2, <3>1
    <3>3. calledAt[j][2] # edits'[j]
      BY <2>1, <3>2
    <3>. QED  BY <2>1, <3>2, <3>3
  <2>3. CASE j # k
    BY <1>1, <1>3, <2>1, <2>3
  <2>. QED  BY <2>2, <2>3
<1>10. Past'
  BY <1>0, <1>1, <1>9 DEF Past
<1>11. Accurate'
  <2>1. ASSUME NEW j \in Kernel, calledAt[j] = <<version, edits'[j]>>
        PROVE  calls[j] = source'[j] \cap DOMAIN lib
    <3>1. source'[j] = source[j]
      BY <1>1, <1>3, <1>9, <2>1
    <3>. QED  BY <1>0, <1>9, <2>1, <3>1 DEF Accurate
  <2>. QED  BY <1>0, <1>1, <1>5, <2>1 DEF Accurate, Made
<1>. QED  BY <1>6, <1>7, <1>8, <1>10, <1>11 DEF Inv

(***************************************************************************)
(* The steps that change only what a session holds and is writing: what it *)
(* holds and writes then decides.                                          *)
(***************************************************************************)
LEMMA SessionInv ==
  ASSUME Inv, UNCHANGED <<calls, all, counted, calledAt, allAt>>,
         UNCHANGED <<lib, source, alike, version, edits>>,
         UNCHANGED <<disk, storedAt>>,
         held' \in SoundIndexes \cup {NoIndex}, builtAt' \in Int, builtAt' <= version,
         Made(held', builtAt'),
         writing' = NoWrite \/ writing' = writing,
         torn' \in BOOLEAN, crashes' \in 0..MaxCrashes
  PROVE  Inv'
<1>0. TypeOK /\ Histories /\ AllSound /\ Past /\ Accurate
  BY DEF Inv
<1>1. \A p : Disk(p)' = Disk(p)
  BY DEF Disk
<1>2. TypeOK'
  <2>1. held' \in Indexes \cup {NoIndex}
    BY DEF SoundIndexes
  <2>2. writing' = NoWrite \/ (writing'.path \in OutputPath /\ writing'.index \in Indexes)
    BY <1>0 DEF TypeOK
  <2>. QED  BY <1>0, <2>1, <2>2 DEF TypeOK
<1>3. Histories'
  BY <1>0 DEF Histories
<1>4. AllSound'
  BY <1>0, <1>1 DEF AllSound
<1>5. Past'
  BY <1>0 DEF Past
<1>6. Accurate'
  BY <1>0, <1>1 DEF Accurate, Made
<1>. QED  BY <1>2, <1>3, <1>4, <1>5, <1>6 DEF Inv

\* A session that dies holds nothing and writes nothing.
LEMMA CrashInv == ASSUME Inv, Crash PROVE Inv'
<1>0. TypeOK /\ Past /\ Accurate
  BY DEF Inv
<1>1. version \in Nat /\ torn \in BOOLEAN /\ crashes \in 0..MaxCrashes
  <2>1. version \in 0..MaxVersion /\ torn \in BOOLEAN /\ crashes \in 0..MaxCrashes
    BY <1>0 DEF TypeOK
  <2>. QED  BY <2>1, BoundsAssumption
<1>2. crashes' \in 0..MaxCrashes
  BY <1>1, BoundsAssumption DEF Crash
<1>3. /\ held' = NoIndex /\ builtAt' = -1 /\ writing' = NoWrite /\ torn' \in BOOLEAN
      /\ UNCHANGED <<calls, all, counted, calledAt, allAt>>
      /\ UNCHANGED <<lib, source, alike, version, edits>>
      /\ UNCHANGED <<disk, storedAt>>
  BY <1>1 DEF Crash, tags, sources
<1>4. builtAt' \in Int /\ builtAt' <= version /\ builtAt' # version
  BY <1>1, <1>3
<1>5. Made(held', builtAt')
  BY <1>4 DEF Made
<1>. QED  BY <1>2, <1>3, <1>4, <1>5, SessionInv

\* The index that is built is the one of the library.
LEMMA BuildIndexInv == ASSUME Inv, BuildIndex PROVE Inv'
<1>0. TypeOK
  BY DEF Inv
<1>1. /\ Indexable(lib) /\ held' = IndexOf(lib) /\ builtAt' = version
      /\ UNCHANGED <<calls, all, counted, calledAt, allAt>>
      /\ UNCHANGED <<lib, source, alike, version, edits>>
      /\ UNCHANGED <<disk, writing, storedAt, torn, crashes>>
  BY DEF BuildIndex, tags, sources
<1>2. version \in Int /\ torn \in BOOLEAN /\ crashes \in 0..MaxCrashes /\ lib \in Libraries
  BY <1>0 DEF TypeOK
<1>3. held' \in SoundIndexes
  BY <1>1, <1>2, IndexFacts DEF SoundIndexes
<1>4. Made(held', builtAt')
  BY <1>1 DEF Made
<1>. QED  BY <1>1, <1>2, <1>3, <1>4, SessionInv

\* The index that is read is the one that was stored.
LEMMA ReadRdsInv == ASSUME Inv, ReadRds PROVE Inv'
<1>0. TypeOK /\ Histories /\ AllSound /\ Past /\ Accurate
  BY DEF Inv
<1>1. /\ disk[Rds] # NoIndex /\ held' = Disk(Rds) /\ builtAt' = storedAt[Rds]
      /\ UNCHANGED <<calls, all, counted, calledAt, allAt>>
      /\ UNCHANGED <<lib, source, alike, version, edits>>
      /\ UNCHANGED <<disk, writing, storedAt, torn, crashes>>
  BY DEF ReadRds, tags, sources
<1>2. torn \in BOOLEAN /\ crashes \in 0..MaxCrashes
  BY <1>0 DEF TypeOK
<1>3. Rds \in Path
  BY DEF Path
<1>4. held' \in SoundIndexes \cup {NoIndex}
  BY <1>0, <1>1, <1>3 DEF AllSound
<1>5. builtAt' \in Int /\ builtAt' <= version
  BY <1>0, <1>1, <1>3 DEF Histories, Past
<1>6. Made(held', builtAt')
  BY <1>0, <1>1, <1>3 DEF Accurate
<1>. QED  BY <1>1, <1>2, <1>4, <1>5, <1>6, SessionInv

(***************************************************************************)
(* The steps that store an index at a path: it has to be a sound one, of   *)
(* the version it is said to be of.                                        *)
(***************************************************************************)
LEMMA StoreInv ==
  ASSUME Inv, NEW q \in Path, NEW f \in {"rds", "tsv"}, NEW i \in SoundIndexes,
         NEW at \in Int, at <= version, Made(i, at),
         disk' = [disk EXCEPT ![q] = [format |-> f, index |-> i]],
         storedAt' = [storedAt EXCEPT ![q] = at],
         writing' = NoWrite \/ writing' \in [path : OutputPath, index : {i}, at : {at}],
         torn' \in BOOLEAN,
         UNCHANGED <<calls, all, counted, calledAt, allAt>>,
         UNCHANGED <<lib, source, alike, version, edits, held, builtAt, crashes>>
  PROVE  Inv'
<1>0. TypeOK /\ Histories /\ AllSound /\ Past /\ Accurate
  BY DEF Inv
<1>1. i \in Indexes
  BY DEF SoundIndexes
<1>2. /\ disk' \in [Path -> Stored \cup {NoIndex}]
      /\ \A p \in Path : Disk(p)' = IF p = q THEN i ELSE Disk(p)
  BY <1>0, <1>1, StoreFacts
<1>3. storedAt' \in [Path -> Int] /\ \A p \in Path : storedAt'[p] = IF p = q THEN at ELSE storedAt[p]
  BY <1>0 DEF Histories
<1>4. writing' # NoWrite =>
        /\ writing' \in [path : OutputPath, index : Indexes, at : Int]
        /\ writing'.path \in OutputPath /\ writing'.index = i /\ writing'.at = at
  BY <1>1
<1>5. TypeOK'
  <2>1. \A p \in Path : disk'[p] \in Stored \cup {NoIndex}
    BY <1>2
  <2>2. writing' = NoWrite \/ (writing'.path \in OutputPath /\ writing'.index \in Indexes)
    BY <1>1, <1>4
  <2>. QED  BY <1>0, <2>1, <2>2 DEF TypeOK
<1>6. Histories'
  BY <1>0, <1>2, <1>3, <1>4 DEF Histories
<1>7. AllSound'
  BY <1>0, <1>2, <1>4 DEF AllSound
<1>8. Past'
  BY <1>0, <1>3, <1>4 DEF Past
<1>9. Accurate'
  <2>1. \A p \in Path : Made(Disk(p), storedAt[p])'
    <3>1. ASSUME NEW p \in Path PROVE storedAt'[p] = version =>
                                         Indexable(lib) /\ Disk(p)' = IndexOf(lib)
      BY <1>0, <1>2, <1>3 DEF Accurate, Made
    <3>. QED  BY <3>1 DEF Made
  <2>2. Made(held, builtAt)'
    BY <1>0 DEF Accurate, Made
  <2>3. writing' # NoWrite => Made(writing.index, writing.at)'
    BY <1>4 DEF Made
  <2>. QED  BY <1>0, <2>1, <2>2, <2>3 DEF Accurate
<1>. QED  BY <1>5, <1>6, <1>7, <1>8, <1>9 DEF Inv

\* The rds gets what the session holds.
LEMMA SaveRdsInv == ASSUME Inv, NEW path \in OutputPath, SaveRds(path) PROVE Inv'
<1>0. TypeOK /\ Histories /\ AllSound /\ Past /\ Accurate
  BY DEF Inv
<1>1. /\ held # NoIndex
      /\ disk' = [disk EXCEPT ![path] = [format |-> "rds", index |-> held]]
      /\ storedAt' = [storedAt EXCEPT ![path] = builtAt]
      /\ writing' = [path |-> path, index |-> held, at |-> builtAt]
      /\ UNCHANGED <<calls, all, counted, calledAt, allAt>>
      /\ UNCHANGED <<lib, source, alike, version, edits, held, builtAt, crashes>>
      /\ torn' = torn
  BY DEF SaveRds, tags, sources
<1>2. path \in Path /\ held \in SoundIndexes /\ builtAt \in Int /\ builtAt <= version
  BY <1>0, <1>1 DEF Path, AllSound, Past, Histories
<1>3. Made(held, builtAt)
  BY <1>0 DEF Accurate
<1>4. torn' \in BOOLEAN /\ "rds" \in {"rds", "tsv"}
  BY <1>0, <1>1 DEF TypeOK
<1>5. writing' \in [path : OutputPath, index : {held}, at : {builtAt}]
  BY <1>1
<1>. QED  BY <1>1, <1>2, <1>3, <1>4, <1>5, StoreInv

\* The tsv gets what the rds got.
LEMMA WriteTsvInv == ASSUME Inv, WriteTsv PROVE Inv'
<1>0. TypeOK /\ Histories /\ AllSound /\ Past /\ Accurate
  BY DEF Inv
<1>. DEFINE q == TsvFor(writing.path)
<1>1. /\ writing # NoWrite
      /\ disk' = [disk EXCEPT ![q] = [format |-> "tsv", index |-> writing.index]]
      /\ storedAt' = [storedAt EXCEPT ![q] = writing.at]
      /\ writing' = NoWrite
      /\ torn' = (torn /\ writing.path # Rds)
      /\ UNCHANGED <<calls, all, counted, calledAt, allAt>>
      /\ UNCHANGED <<lib, source, alike, version, edits, held, builtAt, crashes>>
  BY DEF WriteTsv, tags, sources
<1>2. /\ writing.path \in OutputPath /\ writing.at \in Int /\ writing.at <= version
      /\ writing.index \in SoundIndexes /\ Made(writing.index, writing.at)
  BY <1>0, <1>1 DEF Histories, Past, AllSound, Accurate
<1>3. q \in Path /\ "tsv" \in {"rds", "tsv"}
  BY <1>2 DEF Path
<1>4. torn' \in BOOLEAN
  BY <1>0, <1>1 DEF TypeOK
<1>. HIDE DEF q
<1>. QED  BY <1>1, <1>2, <1>3, <1>4, StoreInv

(***************************************************************************)
(* The steps that tag one kernel: the new tags have to fit what they were  *)
(* made from.                                                              *)
(***************************************************************************)
LEMMA TagInv ==
  ASSUME Inv, NEW k \in Kernel,
         NEW c \in (SUBSET Stem) \cup {NoTag}, NEW cAt \in Int \X Int,
         NEW a \in ((SUBSET Stem) \ {{}}) \cup {NoTag}, NEW aAt \in Int,
         calls' = [calls EXCEPT ![k] = c], calledAt' = [calledAt EXCEPT ![k] = cAt],
         all' = [all EXCEPT ![k] = a], allAt' = [allAt EXCEPT ![k] = aAt],
         NEW b \in BOOLEAN, counted' = [counted EXCEPT ![k] = b],
         cAt[1] <= version, cAt[2] <= edits[k], aAt <= version,
         cAt = <<version, edits[k]>> => c = source[k] \cap DOMAIN lib,
         aAt = version => Indexable(lib) /\ a = ExpandedTag(c, IndexOf(lib)),
         UNCHANGED <<disk, held, writing, builtAt, storedAt, torn>>,
         UNCHANGED <<lib, source, alike, version, edits, crashes>>
  PROVE  Inv'
<1>0. TypeOK /\ Histories /\ AllSound /\ Past /\ Accurate
  BY DEF Inv
<1>1. \A p : Disk(p)' = Disk(p)
  BY DEF Disk
<1>2. /\ calls' \in [Kernel -> (SUBSET Stem) \cup {NoTag}]
      /\ all' \in [Kernel -> ((SUBSET Stem) \ {{}}) \cup {NoTag}]
      /\ counted' \in [Kernel -> BOOLEAN]
      /\ \A j \in Kernel : /\ calls'[j] = IF j = k THEN c ELSE calls[j]
                           /\ all'[j] = IF j = k THEN a ELSE all[j]
  BY <1>0 DEF TypeOK
<1>3. /\ calledAt' \in [Kernel -> Int \X Int] /\ allAt' \in [Kernel -> Int]
      /\ \A j \in Kernel : /\ calledAt'[j] = IF j = k THEN cAt ELSE calledAt[j]
                           /\ allAt'[j] = IF j = k THEN aAt ELSE allAt[j]
  BY <1>0 DEF Histories
<1>4. TypeOK'
  BY <1>0, <1>2 DEF TypeOK
<1>5. Histories'
  BY <1>0, <1>3 DEF Histories
<1>6. AllSound'
  BY <1>0, <1>1 DEF AllSound
<1>7. Past'
  BY <1>0, <1>3 DEF Past
<1>8. Accurate'
  <2>1. ASSUME NEW j \in Kernel
        PROVE  /\ calledAt'[j] = <<version, edits[j]>> => calls'[j] = source[j] \cap DOMAIN lib
               /\ allAt'[j] = version =>
                    Indexable(lib) /\ all'[j] = ExpandedTag(calls'[j], IndexOf(lib))
    <3>1. CASE j = k
      BY <1>2, <1>3, <3>1
    <3>2. CASE j # k
      BY <1>0, <1>2, <1>3, <3>2 DEF Accurate
    <3>. QED  BY <3>1, <3>2
  <2>2. Made(held, builtAt)' /\ \A p \in Path : Made(Disk(p), storedAt[p])'
    BY <1>0, <1>1 DEF Accurate, Made
  <2>3. writing' # NoWrite => Made(writing.index, writing.at)'
    BY <1>0 DEF Accurate, Made
  <2>. QED  BY <2>1, <2>2, <2>3 DEF Accurate
<1>. QED  BY <1>4, <1>5, <1>6, <1>7, <1>8 DEF Inv

\* The calls are tagged from the source and the library as they are.
LEMMA TagCallsInv ==
  ASSUME Inv, NEW k \in Kernel, NEW overwrite, TagCalls(k, overwrite)
  PROVE  Inv'
<1>0. TypeOK
  BY DEF Inv
<1>. DEFINE c == source[k] \cap DOMAIN lib
            cAt == <<version, edits[k]>>
<1>1. /\ calls' = [calls EXCEPT ![k] = c] /\ calledAt' = [calledAt EXCEPT ![k] = cAt]
      /\ all' = [all EXCEPT ![k] = NoTag] /\ allAt' = [allAt EXCEPT ![k] = -1]
      /\ counted' = [counted EXCEPT ![k] = FALSE]
      /\ UNCHANGED <<disk, held, writing, builtAt, storedAt, torn>>
      /\ UNCHANGED <<lib, source, alike, version, edits, crashes>>
  BY DEF TagCalls, index, sources
<1>2. c \in (SUBSET Stem) \cup {NoTag}
  BY <1>0 DEF TypeOK
<1>3. version \in Nat /\ edits[k] \in Nat
  <2>1. version \in 0..MaxVersion /\ edits[k] \in 0..MaxKernelEdits
    BY <1>0 DEF TypeOK
  <2>. QED  BY <2>1, BoundsAssumption
<1>4. cAt \in Int \X Int /\ cAt[1] <= version /\ cAt[2] <= edits[k] /\ -1 <= version /\ -1 # version
  BY <1>3
<1>5. NoTag \in ((SUBSET Stem) \ {{}}) \cup {NoTag} /\ -1 \in Int
  OBVIOUS
<1>. HIDE DEF c, cAt
<1>6. cAt = <<version, edits[k]>> => c = source[k] \cap DOMAIN lib
  BY DEF c
<1>. QED  BY <1>1, <1>2, <1>4, <1>5, <1>6, TagInv

\* The tag is expanded with an index that is sound, of the version it is said
\* to be of.
LEMMA CrossTagsInv ==
  ASSUME Inv, NEW k \in Kernel, NEW idx \in SoundIndexes \cup {NoIndex}, NEW at \in Int,
         at <= version, Made(idx, at), CrossTags(k, idx, at)
  PROVE  Inv'
<1>0. TypeOK /\ Histories /\ Past /\ Accurate
  BY DEF Inv
<1>. DEFINE a == ExpandedTag(calls[k], idx)
<1>1. /\ idx # NoIndex /\ calls[k] # NoTag
      /\ all' = [all EXCEPT ![k] = a] /\ allAt' = [allAt EXCEPT ![k] = at]
      /\ counted' = [counted EXCEPT ![k] = TRUE]
      /\ calls' = calls /\ calledAt' = calledAt
      /\ UNCHANGED <<disk, held, writing, builtAt, storedAt, torn>>
      /\ UNCHANGED <<lib, source, alike, version, edits, crashes>>
  BY DEF CrossTags, index, sources
<1>2. calls[k] \in SUBSET Stem /\ calls \in [Kernel -> (SUBSET Stem) \cup {NoTag}]
  BY <1>0, <1>1 DEF TypeOK
<1>3. a \in ((SUBSET Stem) \ {{}}) \cup {NoTag}
  BY <1>1, <1>2, ExpandedType DEF SoundIndexes
<1>4. calledAt \in [Kernel -> Int \X Int] /\ calledAt[k] \in Int \X Int
  BY <1>0 DEF Histories
<1>5. calls' = [calls EXCEPT ![k] = calls[k]] /\ calledAt' = [calledAt EXCEPT ![k] = calledAt[k]]
  BY <1>1, <1>2, <1>4
<1>6. /\ calledAt[k][1] <= version /\ calledAt[k][2] <= edits[k]
      /\ calledAt[k] = <<version, edits[k]>> => calls[k] = source[k] \cap DOMAIN lib
  BY <1>0 DEF Past, Accurate
<1>7. at = version => Indexable(lib) /\ a = ExpandedTag(calls[k], IndexOf(lib))
  BY DEF Made
<1>8. calls[k] \in (SUBSET Stem) \cup {NoTag}
  BY <1>2
<1>. HIDE DEF a
<1>. QED  BY <1>1, <1>3, <1>4, <1>5, <1>6, <1>7, <1>8, TagInv

-----------------------------------------------------------------------------

\* Whatever tool runs, and whenever the library, a kernel or a session is
\* lost or edited.
LEMMA NextInv == Inv /\ [Next]_vars => Inv'
<1>. SUFFICES ASSUME Inv, [Next]_vars PROVE Inv'
  OBVIOUS
<1>0. TypeOK /\ Histories /\ AllSound /\ Past /\ Accurate
  BY DEF Inv
<1>1. ASSUME NEW f \in Stem, NEW d \in Dependencies, AddOrChange(f, d) PROVE Inv'
  <2>. DEFINE newLib == [g \in DOMAIN lib \cup {f} |-> IF g = f THEN d ELSE lib[g]]
  <2>1. DOMAIN lib \in SUBSET Stem /\ lib \in [DOMAIN lib -> SUBSET Stem]
    BY <1>0, LibraryFacts DEF TypeOK
  <2>2. d \in SUBSET Stem
    BY StemsAssumption
  <2>3. newLib \in [DOMAIN lib \cup {f} -> SUBSET Stem]
    BY <2>1, <2>2
  <2>4. newLib \in Libraries
    BY <2>1, <2>3 DEF Libraries
  <2>5. EditLibrary(newLib)
    BY <1>1 DEF AddOrChange
  <2>. HIDE DEF newLib
  <2>. QED  BY <2>4, <2>5, EditLibraryInv
<1>2. ASSUME NEW f \in DOMAIN lib, RemoveFile(f) PROVE Inv'
  <2>. DEFINE newLib == [g \in DOMAIN lib \ {f} |-> lib[g]]
  <2>1. DOMAIN lib \in SUBSET Stem /\ lib \in [DOMAIN lib -> SUBSET Stem]
    BY <1>0, LibraryFacts DEF TypeOK
  <2>2. newLib \in [DOMAIN lib \ {f} -> SUBSET Stem]
    BY <2>1
  <2>3. newLib \in Libraries
    BY <2>1, <2>2 DEF Libraries
  <2>4. EditLibrary(newLib)
    BY <1>2 DEF RemoveFile
  <2>. HIDE DEF newLib
  <2>. QED  BY <2>3, <2>4, EditLibraryInv
<1>3. ASSUME NEW k \in Kernel, CrossTags(k, held, builtAt) PROVE Inv'
  <2>1. held \in SoundIndexes \cup {NoIndex} /\ builtAt \in Int /\ builtAt <= version
    BY <1>0 DEF AllSound, Histories, Past
  <2>2. Made(held, builtAt)
    BY <1>0 DEF Accurate
  <2>. QED  BY <1>3, <2>1, <2>2, CrossTagsInv
<1>4. ASSUME NEW k \in Kernel, CrossTags(k, Disk(Rds), storedAt[Rds]) PROVE Inv'
  <2>1. Rds \in Path
    BY DEF Path
  <2>2. /\ Disk(Rds) \in SoundIndexes \cup {NoIndex}
        /\ storedAt[Rds] \in Int /\ storedAt[Rds] <= version
    BY <1>0, <2>1 DEF AllSound, Histories, Past
  <2>3. Made(Disk(Rds), storedAt[Rds])
    BY <1>0, <2>1 DEF Accurate
  <2>. QED  BY <1>4, <2>2, <2>3, CrossTagsInv
<1>5. ASSUME UNCHANGED vars PROVE Inv'
  <2>1. /\ UNCHANGED <<calls, all, counted, calledAt, allAt>>
        /\ UNCHANGED <<lib, source, alike, version, edits, crashes>>
        /\ UNCHANGED <<disk, held, writing, builtAt, storedAt, torn>>
    BY <1>5 DEF vars, tags, index, sources
  <2>2. held \in SoundIndexes \cup {NoIndex} /\ builtAt \in Int /\ builtAt <= version
    BY <1>0 DEF AllSound, Histories, Past
  <2>3. Made(held, builtAt) /\ torn \in BOOLEAN /\ crashes \in 0..MaxCrashes
    BY <1>0 DEF Accurate, TypeOK
  <2>. QED  BY <2>1, <2>2, <2>3, SessionInv
<1>. QED
  BY <1>1, <1>2, <1>3, <1>4, <1>5, EditKernelInv, CrashInv, BuildIndexInv, SaveRdsInv,
     WriteTsvInv, ReadRdsInv, TagCallsInv DEF Next

(***************************************************************************)
(* What is there was made from what was there when it was made, and        *)
(* nothing that was made from what is there now is out of date.            *)
(***************************************************************************)
THEOREM TaggingInvariance == Spec => []Inv
BY InitInv, NextInv, PTL DEF Spec

\* The library, the tags and what is stored keep the forms the tools read.
THEOREM TaggingTypes == Spec => []TypeOK
<1>1. Inv => TypeOK
  BY DEF Inv
<1>. QED  BY TaggingInvariance, <1>1, PTL

(***************************************************************************)
(* Every index a session holds or a file stores lists what a stem needs in *)
(* full and in front of the stem, of whatever version it is.               *)
(***************************************************************************)
THEOREM StoredIndexesAreSound == Spec => []IndexesSound
<1>1. Inv => IndexesSound
  <2>. SUFFICES ASSUME Inv PROVE IndexesSound
    OBVIOUS
  <2>1. AllSound
    BY DEF Inv
  <2>2. \A idx \in SoundIndexes \cup {NoIndex} : Sound(idx)
    BY DEF SoundIndexes, Sound
  <2>. QED  BY <2>1, <2>2 DEF AllSound, IndexesSound
<1>. QED  BY TaggingInvariance, <1>1, PTL

(***************************************************************************)
(* The kernel whose tags and whose index are of the present library gets a *)
(* compilable text with everything it calls, whatever ran before.          *)
(***************************************************************************)
THEOREM FreshTagsServe == Spec => []TextServesKernel
<1>1. Inv => TextServesKernel
  <2>. SUFFICES ASSUME Inv, NEW k \in Kernel,
                       calledAt[k] = <<version, edits[k]>>, allAt[k] = version,
                       storedAt[Tsv] = version
                PROVE  Serves(CrossText(k), k)
    BY DEF TextServesKernel
  <2>1. TypeOK /\ Accurate
    BY DEF Inv
  <2>2. lib \in Libraries /\ source[k] \cap DOMAIN lib \in SUBSET DOMAIN lib
    BY <2>1 DEF TypeOK
  <2>3. /\ Indexable(lib) /\ Disk(Tsv) = IndexOf(lib)
        /\ all[k] = ExpandedTag(source[k] \cap DOMAIN lib, IndexOf(lib))
    BY <2>1 DEF Accurate, Made, Path
  <2>4. CrossText(k) = CrossSubset(ExpandedTag(source[k] \cap DOMAIN lib, IndexOf(lib)),
                                   IndexOf(lib), DOMAIN lib)
    BY <2>3 DEF CrossText
  <2>. QED  BY <2>2, <2>3, <2>4, ExpandedLoads DEF Serves
<1>. QED  BY TaggingInvariance, <1>1, PTL

-----------------------------------------------------------------------------

(***************************************************************************)
(* What the strict loader accepts over an index, the lenient ones return   *)
(* over the same index.                                                    *)
(***************************************************************************)
LEMMA LoadersOverOneIndex ==
  ASSUME NEW idx \in Indexes, NEW tag \in ((SUBSET Stem) \ {{}}) \cup {NoTag},
         NEW other \in SUBSET Stem, NEW number \in BOOLEAN, NEW files,
         CrossSubset(tag, idx, files) # Failure
  PROVE  /\ RSubset(tag, idx, files) = CrossSubset(tag, idx, files)
         /\ other \subseteq Listed(tag) =>
              CppSubset(tag, other, number, idx, files) = CrossSubset(tag, idx, files)
<1>1. idx # NoIndex /\ idx.order \in Seq(Stem)
  BY AbsentAssumption DEF Indexes
<1>. DEFINE S == Listed(tag)
            text == CrossSubset(tag, idx, files)
<1>2. Known(idx) = ToSet(idx.order)
  BY DEF Known
<1>3. CASE S = {}
  <2>1. text = <<>>
    BY <1>3 DEF CrossSubset
  <2>2. S \cap files = {}
    BY <1>3
  <2>3. Kept(idx.order, S \cap files) = <<>>
    BY <1>1, <2>2, KeptMembers
  <2>4. RSubset(tag, idx, files) = <<>>
    BY <1>1, <2>3 DEF RSubset, InIndexOrder
  <2>5. ASSUME other \subseteq S PROVE CppSubset(tag, other, number, idx, files) = <<>>
    <3>1. CppListed(tag, other) = {}
      BY <1>3, <2>5 DEF CppListed
    <3>2. Kept(idx.order, {}) = <<>> /\ ToSet(<<>>) = {}
      BY <1>1, KeptMembers
    <3>. QED  BY <1>1, <3>1, <3>2 DEF CppSubset, InIndexOrder
  <2>. QED  BY <2>1, <2>4, <2>5
<1>4. CASE S # {}
  <2>. DEFINE stems == Kept(idx.order, S)
  <2>1. ToSet(stems) = ToSet(idx.order) \cap S
    BY <1>1, KeptMembers
  <2>2. S \subseteq Known(idx) /\ ToSet(stems) \subseteq files /\ text = stems
    BY <1>1, <1>4 DEF CrossSubset, InIndexOrder
  <2>3. S \cap files = S
    BY <1>2, <2>1, <2>2
  <2>4. RSubset(tag, idx, files) = stems
    BY <1>1, <2>3 DEF RSubset, InIndexOrder
  <2>5. ASSUME other \subseteq S PROVE CppSubset(tag, other, number, idx, files) = stems
    <3>1. CppListed(tag, other) = S
      BY <2>5 DEF CppListed
    <3>. QED  BY <1>1, <1>4, <2>2, <3>1 DEF CppSubset, InIndexOrder
  <2>. QED  BY <2>2, <2>4, <2>5
<1>. QED  BY <1>3, <1>4

\* The three loaders agree over one index, unless a longer tag is in the way.
THEOREM OneIndexOneText == Spec => []LoadersAgree
<1>1. Inv => LoadersAgree
  <2>. SUFFICES ASSUME Inv, Disk(Rds) = Disk(Tsv), Disk(Rds) # NoIndex,
                       NEW k \in Kernel, CrossText(k) # Failure
                PROVE  /\ RText(k) = CrossText(k)
                       /\ alike[k] \subseteq Listed(all[k]) => CppText(k) = CrossText(k)
    BY DEF LoadersAgree
  <2>1. TypeOK /\ Histories
    BY DEF Inv
  <2>2. Disk(Tsv) \in Indexes
    <3>1. Tsv \in Path
      BY DEF Path
    <3>. QED  BY <2>1, <3>1, DiskType
  <2>3. /\ all[k] \in ((SUBSET Stem) \ {{}}) \cup {NoTag}
        /\ alike[k] \in SUBSET Stem
        /\ counted[k] \in BOOLEAN
    BY <2>1 DEF TypeOK
  <2>4. CrossSubset(all[k], Disk(Tsv), DOMAIN lib) # Failure
    BY DEF CrossText
  <2>5. /\ RSubset(all[k], Disk(Tsv), DOMAIN lib) = CrossSubset(all[k], Disk(Tsv), DOMAIN lib)
        /\ alike[k] \subseteq Listed(all[k]) =>
             CppSubset(all[k], alike[k], counted[k], Disk(Tsv), DOMAIN lib)
               = CrossSubset(all[k], Disk(Tsv), DOMAIN lib)
    BY <2>2, <2>3, <2>4, LoadersOverOneIndex
  <2>. QED  BY <2>5 DEF RText, CppText, CrossText
<1>. QED  BY TaggingInvariance, <1>1, PTL

-----------------------------------------------------------------------------
(***************************************************************************)
(* The two files of the index.                                             *)
(***************************************************************************)

\* While the rds alone is written it has what the tsv will get; otherwise the
\* two agree, unless a write was interrupted.
FilesTogether ==
  /\ WritingBeside => Disk(Rds) = writing.index
  /\ ~ torn /\ ~ WritingBeside => Disk(Rds) = Disk(Tsv)

\* The tsv's path is never that of an rds, and the one beside the library is.
LEMMA PathFacts ==
  /\ Rds \in Path /\ Tsv \in Path /\ Rds # Tsv /\ TsvFor(Rds) = Tsv
  /\ \A path \in OutputPath : path \in Path /\ TsvFor(path) \in Path /\ TsvFor(path) # Rds
<1>1. ".rds" # ".tsv" /\ ".rds" \in RdsEnding /\ ".tsv" \notin RdsEnding
  BY DEF RdsEnding
<1>2. Rds \in Path /\ Tsv \in Path /\ Rds # Tsv
  BY DEF Path, Rds, Tsv
<1>3. TsvFor(Rds) = Tsv
  BY <1>1 DEF TsvFor, Rds, Tsv
<1>4. ASSUME NEW path \in OutputPath
      PROVE  path \in Path /\ TsvFor(path) \in Path /\ TsvFor(path) # Rds
  <2>1. path \in [name : STRING, ending : STRING]
    BY PathAssumption
  <2>2. TsvFor(path).ending = IF path.ending \in RdsEnding THEN ".tsv" ELSE path.ending
    BY <2>1 DEF TsvFor
  <2>3. TsvFor(path).ending # Rds.ending
    BY <1>1, <2>2 DEF Rds
  <2>. QED  BY <2>3 DEF Path
<1>. QED  BY <1>2, <1>3, <1>4

\* No other path has its tsv beside the library.
OneTsv == \A path \in OutputPath : TsvFor(path) = Tsv => path = Rds

LEMMA NextFiles ==
  ASSUME OneTsv, Inv, FilesTogether, [Next]_vars
  PROVE  FilesTogether'
<1>0. TypeOK /\ Histories
  BY DEF Inv
<1>1. Rds \in Path /\ Tsv \in Path /\ Rds # Tsv
  BY PathFacts
<1>2. ASSUME UNCHANGED disk, writing' = writing, torn' = torn PROVE FilesTogether'
  <2>1. Disk(Rds)' = Disk(Rds) /\ Disk(Tsv)' = Disk(Tsv)
    BY <1>2 DEF Disk, Rds, Tsv
  <2>. QED  BY <1>2, <2>1 DEF FilesTogether, WritingBeside, Rds
<1>3. ASSUME Crash PROVE FilesTogether'
  <2>1. disk' = disk /\ writing' = NoWrite /\ torn' = (torn \/ WritingBeside)
    BY <1>3 DEF Crash
  <2>2. Disk(Rds)' = Disk(Rds) /\ Disk(Tsv)' = Disk(Tsv)
    BY <2>1 DEF Disk, Rds, Tsv
  <2>. QED  BY <2>1, <2>2 DEF FilesTogether, WritingBeside
<1>4. ASSUME NEW path \in OutputPath, SaveRds(path) PROVE FilesTogether'
  <2>1. /\ writing = NoWrite /\ held \in Indexes
        /\ disk' = [disk EXCEPT ![path] = [format |-> "rds", index |-> held]]
        /\ writing' = [path |-> path, index |-> held, at |-> builtAt]
        /\ torn' = torn
    BY <1>0, <1>4 DEF SaveRds, TypeOK
  <2>2. path \in Path /\ "rds" \in {"rds", "tsv"}
    BY <1>4 DEF Path
  <2>7. path # Tsv
    <3>1. TsvFor(Tsv) = Tsv
      BY DEF TsvFor, Tsv, RdsEnding
    <3>. QED  BY <1>1, <3>1 DEF OneTsv
  <2>3. \A p \in Path : Disk(p)' = IF p = path THEN held ELSE Disk(p)
    BY <1>0, <2>1, <2>2, StoreFacts
  <2>4. writing'.path = path /\ writing'.index = held /\ writing' # NoWrite
    <3>1. held # NoIndex
      BY <2>1, AbsentAssumption
    <3>2. NoWrite.index = NoIndex
      BY DEF NoWrite
    <3>. QED  BY <2>1, <3>1, <3>2
  <2>5. Disk(Tsv)' = Disk(Tsv)
    BY <1>1, <2>3, <2>7
  <2>6. Disk(Rds)' = IF path = Rds THEN held ELSE Disk(Rds)
    BY <1>1, <2>3
  <2>. QED  BY <2>1, <2>4, <2>5, <2>6 DEF FilesTogether, WritingBeside
<1>5. ASSUME WriteTsv PROVE FilesTogether'
  <2>. DEFINE q == TsvFor(writing.path)
  <2>1. /\ writing # NoWrite
        /\ disk' = [disk EXCEPT ![q] = [format |-> "tsv", index |-> writing.index]]
        /\ writing' = NoWrite
        /\ torn' = (torn /\ writing.path # Rds)
    BY <1>5 DEF WriteTsv
  <2>2. writing.path \in OutputPath /\ writing.index \in Indexes
    BY <1>0, <2>1 DEF TypeOK
  <2>3. q \in Path /\ "tsv" \in {"rds", "tsv"} /\ (q = Tsv <=> writing.path = Rds) /\ q # Rds
    BY <2>2, PathFacts DEF OneTsv
  <2>. HIDE DEF q
  <2>4. \A p \in Path : Disk(p)' = IF p = q THEN writing.index ELSE Disk(p)
    BY <1>0, <2>1, <2>2, <2>3, StoreFacts
  <2>5. Disk(Rds)' = Disk(Rds)
    BY <1>1, <2>3, <2>4
  <2>6. Disk(Tsv)' = IF writing.path = Rds THEN writing.index ELSE Disk(Tsv)
    BY <1>1, <2>3, <2>4
  <2>7. ~ torn' => Disk(Rds)' = Disk(Tsv)'
    BY <2>1, <2>5, <2>6 DEF FilesTogether, WritingBeside
  <2>. QED  BY <2>1, <2>7 DEF FilesTogether, WritingBeside
<1>6. CASE BuildIndex \/ ReadRds
  BY <1>2, <1>6 DEF BuildIndex, ReadRds
<1>7. ASSUME NEW newLib, EditLibrary(newLib) PROVE FilesTogether'
  BY <1>2, <1>7 DEF EditLibrary, index
<1>8. ASSUME NEW k \in Kernel, \/ \E S \in Called : EditKernel(k, S)
                               \/ \E overwrite \in BOOLEAN : TagCalls(k, overwrite)
                               \/ \E idx, at : CrossTags(k, idx, at)
      PROVE  FilesTogether'
  BY <1>2, <1>8 DEF EditKernel, TagCalls, CrossTags, index
<1>9. CASE UNCHANGED vars
  BY <1>2, <1>9 DEF vars, index
<1>. QED
  BY <1>3, <1>4, <1>5, <1>6, <1>7, <1>8, <1>9 DEF Next, AddOrChange, RemoveFile

(***************************************************************************)
(* The index R reads and the one C++ reads differ only around a write: if  *)
(* nobody names for an rds the path of that tsv, or one with .RDS for      *)
(* .rds, whose tsv would go over the tsv of the rds R reads.               *)
(***************************************************************************)
THEOREM FilesDiffer ==
  ASSUME OneTsv
  PROVE  Spec => []FilesDifferOnlyTorn
<1>1. Init => FilesTogether
  BY DEF Init, FilesTogether, WritingBeside, Disk, Path
<1>2. Inv /\ FilesTogether /\ [Next]_vars => FilesTogether'
  BY NextFiles
<1>3. FilesTogether => FilesDifferOnlyTorn
  BY DEF FilesTogether, FilesDifferOnlyTorn
<1>. QED  BY TaggingInvariance, <1>1, <1>2, <1>3, PTL DEF Spec
=============================================================================
