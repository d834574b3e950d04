------------------------ MODULE CppLibrarySort_proof ------------------------
(***************************************************************************)
(* Proofs about load_kernel_library, for every library, every header its   *)
(* files may carry and any files removed while the call runs, about the    *)
(* native callers that reach it through the C ABI, and about the abstract  *)
(* sort that it and the R tools implement.                                 *)
(***************************************************************************)
EXTENDS NativeLibraryCall, SequenceFacts

(***************************************************************************)
(* What is in `sorted` stands there once, after its dependencies, and is   *)
(* in every closed set of files.                                           *)
(***************************************************************************)
Ordered ==
  /\ \A i, j \in 1..Len(sorted) : sorted[i] = sorted[j] => i = j
  /\ \A i \in 1..Len(sorted) :
       depends[sorted[i]] \subseteq {sorted[j] : j \in 1..(i - 1)}
  /\ \A S \in SUBSET Files : LO!Closed(S) => Sorted \subseteq S

(***************************************************************************)
(* Where the files are.  During a pass the promoted ones are in `sorted`   *)
(* and still in `unsorted`; a pass that has promoted nothing so far has    *)
(* found all it visited not ready.                                         *)
(***************************************************************************)
Split ==
  pc = "split" =>
    /\ Files = Sorted \cup unsorted \cup todo
    /\ Sorted \cap unsorted = {}
    /\ todo \cap (Sorted \cup unsorted) = {}

Between ==
  pc = "loop" =>
    /\ Files = Sorted \cup unsorted
    /\ Sorted \cap unsorted = {}
    /\ todo = {}

Pass ==
  pc = "pass" =>
    /\ Files = Sorted \cup unsorted
    /\ Sorted \cap unsorted = newly
    /\ todo \subseteq unsorted \ newly
    /\ unsorted # {}
    /\ newly = {} => \A f \in unsorted \ todo : ~ (depends[f] \subseteq Sorted)

Done ==
  /\ pc \in {"scan", "scanFailed"} => sorted = <<>> /\ unsorted = {}
  /\ pc \in {"concat", "returned", "loadFailed"} => Sorted = Files
  /\ pc = "sortFailed" =>
       /\ Sorted # Files
       /\ \A f \in Files \ Sorted : ~ (depends[f] \subseteq Sorted)

\* The text is that of the first files of the load order.
Text ==
  /\ Len(output) <= Len(sorted)
  /\ \A i \in 1..Len(output) : output[i] = sorted[i]
  /\ pc = "returned" => Len(output) = Len(sorted)

IInv == TypeOK /\ Ordered /\ Split /\ Between /\ Pass /\ Done /\ Text

-----------------------------------------------------------------------------

\* The dependencies the C++ parser reads are names.
LEMMA DependsNames ==
  ASSUME TypeOK, NEW f \in Files
  PROVE  depends[f] \subseteq Name
<1>1. header[f] \in Header
  BY DEF TypeOK
<1>2. header[f].names \subseteq Stem
  BY <1>1 DEF Header
<1>. QED  BY <1>2 DEF depends, CppDepends, Name

\* The annotations that were read do not change during the call.
LEMMA Fixed ==
  ASSUME header' = header
  PROVE  /\ Files' = Files
         /\ depends' = depends
         /\ \A S : LO!Closed(S)' <=> LO!Closed(S)
<1>1. Files' = Files
  BY DEF Files
<1>2. depends' = depends
  BY <1>1 DEF depends
<1>. QED  BY <1>1, <1>2 DEF LO!Closed, LO!Files, Files, depends

(***************************************************************************)
(* Appending a file whose dependencies are in `sorted` keeps it ordered.   *)
(***************************************************************************)
LEMMA Placing ==
  ASSUME TypeOK, Ordered,
         NEW f \in Files \ Sorted, depends[f] \subseteq Sorted,
         header' = header, sorted' = Append(sorted, f)
  PROVE  /\ Ordered'
         /\ sorted' \in Seq(Files)
         /\ Len(sorted') = Len(sorted) + 1
         /\ \A i \in 1..Len(sorted) : sorted'[i] = sorted[i]
         /\ sorted'[Len(sorted) + 1] = f
         /\ Sorted' = Sorted \cup {f}
<1>1. sorted \in Seq(Files) /\ Len(sorted) \in Nat
  BY DEF TypeOK
<1>2. /\ sorted' \in Seq(Files)
      /\ Len(sorted') = Len(sorted) + 1
      /\ \A i \in 1..Len(sorted) : sorted'[i] = sorted[i]
      /\ sorted'[Len(sorted) + 1] = f
      /\ Sorted' = Sorted \cup {f}
  BY <1>1, AppendFacts DEF Sorted
<1>3. ASSUME NEW i \in 1..Len(sorted'), NEW j \in 1..Len(sorted'),
             sorted'[i] = sorted'[j]
      PROVE  i = j
  <2>1. i \in 1..Len(sorted) \/ i = Len(sorted) + 1
    BY <1>1, <1>2
  <2>2. j \in 1..Len(sorted) \/ j = Len(sorted) + 1
    BY <1>1, <1>2
  <2>3. \A k \in 1..Len(sorted) : sorted[k] \in Sorted
    BY DEF Sorted
  <2>. QED  BY <1>2, <1>3, <2>1, <2>2, <2>3 DEF Ordered
<1>4. ASSUME NEW i \in 1..Len(sorted')
      PROVE  depends[sorted'[i]] \subseteq {sorted'[j] : j \in 1..(i - 1)}
  <2>1. CASE i \in 1..Len(sorted)
    <3>1. \A j \in 1..(i - 1) : sorted'[j] = sorted[j]
      BY <1>1, <1>2, <2>1
    <3>2. {sorted'[j] : j \in 1..(i - 1)} = {sorted[j] : j \in 1..(i - 1)}
      BY <3>1
    <3>3. depends[sorted[i]] \subseteq {sorted[j] : j \in 1..(i - 1)}
      BY <2>1 DEF Ordered
    <3>4. sorted'[i] = sorted[i]
      BY <1>2, <2>1
    <3>. QED  BY <3>2, <3>3, <3>4
  <2>2. CASE i = Len(sorted) + 1
    <3>1. i - 1 = Len(sorted)
      BY <1>1, <2>2
    <3>2. {sorted'[j] : j \in 1..(i - 1)} = Sorted
      BY <1>2, <3>1 DEF Sorted
    <3>. QED  BY <1>2, <2>2, <3>2
  <2>. QED  BY <1>1, <1>2, <2>1, <2>2
<1>5. ASSUME NEW S \in SUBSET Files, LO!Closed(S)
      PROVE  Sorted \cup {f} \subseteq S
  <2>1. Sorted \subseteq S
    BY <1>5 DEF Ordered
  <2>2. f \in S
    BY <1>5, <2>1 DEF LO!Closed, LO!Files, Files, depends
  <2>. QED  BY <2>1, <2>2
<1>6. Ordered'
  BY <1>2, <1>3, <1>4, <1>5, Fixed DEF Ordered
<1>. QED  BY <1>2, <1>6

-----------------------------------------------------------------------------

\* A call begins with nothing visited and nothing placed.
LEMMA InitIInv == Init => IInv
<1>. SUFFICES ASSUME Init PROVE IInv
  OBVIOUS
<1>1. Files \subseteq Stem /\ header \in [Files -> Header]
  BY DEF Init, Library, Files
<1>2. TypeOK
  BY <1>1 DEF Init, TypeOK, Ended
<1>3. Sorted = {}
  BY DEF Init, Sorted
<1>. QED
  BY <1>2, <1>3 DEF Init, IInv, Ordered, Split, Between, Pass, Done, Text

(***************************************************************************)
(* The steps that leave the load order alone.                              *)
(***************************************************************************)
LEMMA Untouched ==
  ASSUME TypeOK, Ordered, UNCHANGED <<header, sorted>>
  PROVE  /\ Ordered' /\ Sorted' = Sorted
         /\ Files' = Files /\ depends' = depends
<1>1. Sorted' = Sorted
  BY DEF Sorted
<1>. QED  BY <1>1, Fixed DEF Ordered

\* Every step of the call, and a removed file, preserve the invariant.
LEMMA NextIInv == IInv /\ [Next]_vars => IInv'
<1>. SUFFICES ASSUME IInv, [Next]_vars PROVE IInv'
  OBVIOUS
<1>0. TypeOK /\ Ordered /\ Split /\ Between /\ Pass /\ Done /\ Text
  BY DEF IInv
<1>1. CASE ScanDirectory
  <2>1. /\ Ordered' /\ Sorted' = Sorted /\ Files' = Files /\ depends' = depends
        /\ Sorted = {} /\ sorted = <<>>
    BY <1>0, <1>1, Untouched DEF ScanDirectory, Done, Sorted
  <2>2. TypeOK'
    BY <1>0, <1>1, <2>1 DEF ScanDirectory, TypeOK, Ended
  <2>3. (Split /\ Between /\ Pass /\ Done /\ Text)'
    BY <1>0, <1>1, <2>1
    DEF ScanDirectory, Split, Between, Pass, Done, Text
  <2>. QED  BY <2>1, <2>2, <2>3 DEF IInv
<1>2. ASSUME NEW f \in Files, PlaceIndependent(f) PROVE IInv'
  <2>1. /\ f \in Files \ Sorted /\ depends[f] \subseteq Sorted
        /\ header' = header /\ sorted' = Append(sorted, f)
        /\ pc = "split" /\ pc' = pc /\ todo' = todo \ {f}
        /\ UNCHANGED <<present, unsorted, newly, output>>
    BY <1>0, <1>2 DEF PlaceIndependent, First, Split
  <2>2. /\ Ordered' /\ Sorted' = Sorted \cup {f}
        /\ sorted' \in Seq(Files) /\ Len(sorted') = Len(sorted) + 1
        /\ \A i \in 1..Len(sorted) : sorted'[i] = sorted[i]
    BY <1>0, <2>1, Placing
  <2>3. Files' = Files /\ depends' = depends
    BY <2>1, Fixed
  <2>4. TypeOK'
    BY <1>0, <2>1, <2>2, <2>3 DEF TypeOK
  <2>5. (Split /\ Between /\ Pass /\ Done)'
    BY <1>0, <1>2, <2>1, <2>2, <2>3
    DEF PlaceIndependent, First, Split, Between, Pass, Done
  <2>6. Text'
    BY <1>0, <2>1, <2>2 DEF Text, TypeOK
  <2>. QED  BY <2>2, <2>4, <2>5, <2>6 DEF IInv
<1>3. ASSUME NEW f \in Files, Defer(f) PROVE IInv'
  <2>1. Ordered' /\ Sorted' = Sorted /\ Files' = Files /\ depends' = depends
    BY <1>0, <1>3, Untouched DEF Defer
  <2>2. TypeOK'
    BY <1>0, <1>3, <2>1 DEF Defer, TypeOK
  <2>3. (Split /\ Between /\ Pass /\ Done /\ Text)'
    BY <1>0, <1>3, <2>1 DEF Defer, First, Split, Between, Pass, Done, Text
  <2>. QED  BY <2>1, <2>2, <2>3 DEF IInv
<1>4. CASE BeginPass
  <2>1. Ordered' /\ Sorted' = Sorted /\ Files' = Files /\ depends' = depends
    BY <1>0, <1>4, Untouched DEF BeginPass
  <2>2. TypeOK'
    BY <1>0, <1>4, <2>1 DEF BeginPass, TypeOK
  <2>3. (Split /\ Between /\ Pass /\ Done /\ Text)'
    BY <1>0, <1>4, <2>1 DEF BeginPass, Split, Between, Pass, Done, Text
  <2>. QED  BY <2>1, <2>2, <2>3 DEF IInv
<1>5. CASE LeaveLoop
  <2>1. Ordered' /\ Sorted' = Sorted /\ Files' = Files /\ depends' = depends
    BY <1>0, <1>5, Untouched DEF LeaveLoop
  <2>2. TypeOK'
    BY <1>0, <1>5, <2>1 DEF LeaveLoop, TypeOK
  <2>3. (Split /\ Between /\ Pass /\ Done /\ Text)'
    BY <1>0, <1>5, <2>1 DEF LeaveLoop, Split, Between, Pass, Done, Text
  <2>. QED  BY <2>1, <2>2, <2>3 DEF IInv
<1>6. ASSUME NEW f \in Files, Promote(f) PROVE IInv'
  <2>1. /\ f \in Files \ Sorted /\ depends[f] \subseteq Sorted
        /\ header' = header /\ sorted' = Append(sorted, f)
        /\ pc = "pass" /\ pc' = pc /\ todo' = todo \ {f}
        /\ newly' = newly \cup {f}
        /\ UNCHANGED <<present, unsorted, output>>
    BY <1>0, <1>6 DEF Promote, First, Pass
  <2>2. /\ Ordered' /\ Sorted' = Sorted \cup {f}
        /\ sorted' \in Seq(Files) /\ Len(sorted') = Len(sorted) + 1
        /\ \A i \in 1..Len(sorted) : sorted'[i] = sorted[i]
    BY <1>0, <2>1, Placing
  <2>3. Files' = Files /\ depends' = depends
    BY <2>1, Fixed
  <2>4. TypeOK'
    BY <1>0, <2>1, <2>2, <2>3 DEF TypeOK
  <2>5. (Split /\ Between /\ Pass /\ Done)'
    BY <1>0, <1>6, <2>1, <2>2, <2>3
    DEF Promote, First, Split, Between, Pass, Done
  <2>6. Text'
    BY <1>0, <2>1, <2>2 DEF Text, TypeOK
  <2>. QED  BY <2>2, <2>4, <2>5, <2>6 DEF IInv
<1>7. ASSUME NEW f \in Files, Skip(f) PROVE IInv'
  <2>1. Ordered' /\ Sorted' = Sorted /\ Files' = Files /\ depends' = depends
    BY <1>0, <1>7, Untouched DEF Skip
  <2>2. TypeOK'
    BY <1>0, <1>7, <2>1 DEF Skip, TypeOK
  <2>3. (Split /\ Between /\ Pass /\ Done /\ Text)'
    BY <1>0, <1>7, <2>1 DEF Skip, First, Split, Between, Pass, Done, Text
  <2>. QED  BY <2>1, <2>2, <2>3 DEF IInv
<1>8. CASE EndPass
  <2>1. Ordered' /\ Sorted' = Sorted /\ Files' = Files /\ depends' = depends
    BY <1>0, <1>8, Untouched DEF EndPass
  <2>2. TypeOK'
    BY <1>0, <1>8, <2>1 DEF EndPass, TypeOK, Ended
  <2>3. (Split /\ Between /\ Pass /\ Done /\ Text)'
    BY <1>0, <1>8, <2>1 DEF EndPass, Split, Between, Pass, Done, Text
  <2>. QED  BY <2>1, <2>2, <2>3 DEF IInv
<1>9. CASE AppendSource
  <2>1. Ordered' /\ Sorted' = Sorted /\ Files' = Files /\ depends' = depends
    BY <1>0, <1>9, Untouched DEF AppendSource
  <2>2. /\ pc = "concat" /\ pc' \in {"concat", "loadFailed"}
        /\ UNCHANGED <<header, present, sorted, unsorted, todo, newly>>
        /\ Len(output) < Len(sorted)
        /\ output' \in {output, Append(output, sorted[Len(output) + 1])}
    BY <1>9 DEF AppendSource
  <2>3. /\ output \in Seq(Files) /\ sorted \in Seq(Files)
        /\ Len(output) \in Nat /\ Len(sorted) \in Nat
    BY <1>0 DEF TypeOK
  <2>4. sorted[Len(output) + 1] \in Files
    BY <2>2, <2>3
  <2>5. TypeOK' /\ Text'
    <3>1. CASE output' = output
      BY <1>0, <2>1, <2>2, <3>1 DEF TypeOK, Ended, Text
    <3>2. CASE output' = Append(output, sorted[Len(output) + 1])
      <4>1. /\ output' \in Seq(Files)
            /\ Len(output') = Len(output) + 1
            /\ \A i \in 1..Len(output) : output'[i] = output[i]
            /\ output'[Len(output) + 1] = sorted[Len(output) + 1]
        BY <2>3, <2>4, <3>2, AppendFacts
      <4>2. TypeOK'
        BY <1>0, <2>1, <2>2, <4>1 DEF TypeOK, Ended
      <4>3. \A i \in 1..Len(output') : i \in 1..Len(output) \/ i = Len(output) + 1
        BY <2>3, <4>1
      <4>4. Text'
        BY <1>0, <2>2, <2>3, <4>1, <4>3 DEF Text
      <4>. QED  BY <4>2, <4>4
    <3>. QED  BY <2>2, <3>1, <3>2
  <2>6. (Split /\ Between /\ Pass /\ Done)'
    BY <1>0, <2>1, <2>2 DEF Split, Between, Pass, Done
  <2>. QED  BY <2>1, <2>5, <2>6 DEF IInv
<1>10. CASE ReturnText
  <2>1. Ordered' /\ Sorted' = Sorted /\ Files' = Files /\ depends' = depends
    BY <1>0, <1>10, Untouched DEF ReturnText
  <2>2. TypeOK'
    BY <1>0, <1>10, <2>1 DEF ReturnText, TypeOK, Ended
  <2>3. (Split /\ Between /\ Pass /\ Done /\ Text)'
    BY <1>0, <1>10, <2>1 DEF ReturnText, Split, Between, Pass, Done, Text
  <2>. QED  BY <2>1, <2>2, <2>3 DEF IInv
<1>11. ASSUME NEW f \in Files, RemoveFile(f) PROVE IInv'
  <2>1. Ordered' /\ Sorted' = Sorted /\ Files' = Files /\ depends' = depends
    BY <1>0, <1>11, Untouched DEF RemoveFile
  <2>2. TypeOK'
    BY <1>0, <1>11, <2>1 DEF RemoveFile, TypeOK
  <2>3. (Split /\ Between /\ Pass /\ Done /\ Text)'
    BY <1>0, <1>11, <2>1 DEF RemoveFile, Split, Between, Pass, Done, Text
  <2>. QED  BY <2>1, <2>2, <2>3 DEF IInv
<1>12. CASE UNCHANGED vars
  <2>1. Ordered' /\ Sorted' = Sorted /\ Files' = Files /\ depends' = depends
    BY <1>0, <1>12, Untouched DEF vars
  <2>2. TypeOK'
    BY <1>0, <1>12, <2>1 DEF vars, TypeOK
  <2>3. (Split /\ Between /\ Pass /\ Done /\ Text)'
    BY <1>0, <1>12, <2>1 DEF vars, Split, Between, Pass, Done, Text
  <2>. QED  BY <2>1, <2>2, <2>3 DEF IInv
<1>. QED
  BY <1>1, <1>2, <1>3, <1>4, <1>5, <1>6, <1>7, <1>8, <1>9, <1>10, <1>11, <1>12
  DEF Next, Call

\* The loops of load_kernel_library keep IInv, for every library.
THEOREM Invariance == Spec => []IInv
BY InitIInv, NextIInv, PTL DEF Spec

-----------------------------------------------------------------------------

(***************************************************************************)
(* Every variable of the call keeps its type.                              *)
(***************************************************************************)
THEOREM TypeCorrect == Spec => []TypeOK
<1>1. IInv => TypeOK
  BY DEF IInv
<1>. QED  BY Invariance, <1>1, PTL

(***************************************************************************)
(* The text load_kernel_library returns holds every file of the library    *)
(* once, behind all its dependencies: whatever the library, its tags and   *)
(* the files that vanish during the call.                                  *)
(***************************************************************************)
THEOREM ReturnedTextIsWhole == Spec => []ReturnedText
<1>1. IInv => ReturnedText
  <2>. SUFFICES ASSUME IInv, pc = "returned"
                PROVE  /\ \A f \in Files : \E i \in 1..Len(output) :
                            /\ output[i] = f
                            /\ depends[f] \subseteq {output[j] : j \in 1..(i - 1)}
                       /\ \A i, j \in 1..Len(output) :
                            output[i] = output[j] => i = j
    BY DEF ReturnedText
  <2>0. TypeOK /\ Ordered /\ Done /\ Text
    BY DEF IInv
  <2>1. /\ Len(output) = Len(sorted)
        /\ \A i \in 1..Len(sorted) : output[i] = sorted[i]
        /\ Sorted = Files
        /\ Len(sorted) \in Nat
    BY <2>0 DEF Done, Text, TypeOK
  <2>2. \A i, j \in 1..Len(output) : output[i] = output[j] => i = j
    BY <2>0, <2>1 DEF Ordered
  <2>3. ASSUME NEW f \in Files
        PROVE  \E i \in 1..Len(output) :
                 /\ output[i] = f
                 /\ depends[f] \subseteq {output[j] : j \in 1..(i - 1)}
    <3>1. PICK i \in 1..Len(sorted) : sorted[i] = f
      BY <2>1 DEF Sorted
    <3>2. \A j \in 1..(i - 1) : output[j] = sorted[j]
      BY <2>1
    <3>3. {output[j] : j \in 1..(i - 1)} = {sorted[j] : j \in 1..(i - 1)}
      BY <3>2
    <3>4. depends[sorted[i]] \subseteq {sorted[j] : j \in 1..(i - 1)}
      BY <2>0 DEF Ordered
    <3>. QED  BY <2>1, <3>1, <3>3, <3>4
  <2>. QED  BY <2>2, <2>3
<1>. QED  BY Invariance, <1>1, PTL

(***************************************************************************)
(* Whether the call can sort a library is a fact about the library.        *)
(***************************************************************************)
THEOREM OutcomeIsTheLibrarys == Spec => []EndsAtSortable
<1>1. IInv => EndsAtSortable
  <2>. SUFFICES ASSUME IInv PROVE LO!EndsAtSortable
    BY DEF EndsAtSortable
  <2>0. TypeOK /\ Ordered /\ Done
    BY DEF IInv
  <2>1. LO!Placed = Sorted /\ LO!Files = Files
    BY DEF LO!Placed, LO!Files, Sorted, Files, depends
  <2>2. Sorted \subseteq Files
    BY <2>0 DEF TypeOK, Sorted
  <2>3. Sorted \subseteq LO!Sortable
    BY <2>0, <2>1, <2>2 DEF LO!Sortable, Ordered
  <2>4. /\ outcome = "sorted" => Sorted = Files
        /\ outcome = "stuck" =>
             Sorted # Files /\ \A f \in Files \ Sorted : ~ (depends[f] \subseteq Sorted)
    BY <2>0 DEF outcome, Done, TypeOK, Ended
  <2>5. ASSUME outcome \in {"sorted", "stuck"} PROVE LO!Sortable \subseteq Sorted
    <3>1. LO!Closed(Sorted)
      BY <2>1, <2>2, <2>4, <2>5 DEF LO!Closed
    <3>. QED  BY <2>1, <2>2, <3>1 DEF LO!Sortable
  <2>. QED  BY <2>1, <2>3, <2>4, <2>5 DEF LO!EndsAtSortable
<1>. QED  BY Invariance, <1>1, PTL

-----------------------------------------------------------------------------

(***************************************************************************)
(* Independent files first: the ones waiting in unsorted_set all have      *)
(* dependencies, and the first loop has placed no other.                   *)
(***************************************************************************)
DependentsBehind ==
  /\ IndependentFirst
  /\ \A f \in unsorted : depends[f] # {}
  /\ pc = "split" => \A i \in 1..Len(sorted) : depends[sorted[i]] = {}

\* The first loop places the independent files, and no pass goes before them.
LEMMA NextFront == IInv /\ DependentsBehind /\ [Next]_vars => DependentsBehind'
<1>. SUFFICES ASSUME IInv, DependentsBehind, [Next]_vars PROVE DependentsBehind'
  OBVIOUS
<1>0. TypeOK /\ Ordered /\ Split /\ Pass /\ Done
  BY DEF IInv
<1>1. ASSUME NEW f \in Files, sorted' = Append(sorted, f), header' = header,
             unsorted' = unsorted, pc' = pc,
             \/ pc = "split" /\ depends[f] = {}
             \/ pc # "split" /\ depends[f] # {}
      PROVE  DependentsBehind'
  <2>1. sorted \in Seq(Files) /\ Len(sorted) \in Nat
    BY <1>0 DEF TypeOK
  <2>2. /\ Len(sorted') = Len(sorted) + 1
        /\ \A i \in 1..Len(sorted) : sorted'[i] = sorted[i]
        /\ sorted'[Len(sorted) + 1] = f
    BY <1>1, <2>1, AppendFacts
  <2>3. \A i \in 1..Len(sorted') : i \in 1..Len(sorted) \/ i = Len(sorted) + 1
    BY <2>1, <2>2
  <2>4. depends' = depends
    BY <1>1, Fixed
  <2>5. ASSUME NEW i \in 1..Len(sorted'), NEW j \in 1..Len(sorted'),
               depends[sorted'[i]] = {}, depends[sorted'[j]] # {}
        PROVE  i < j
    <3>1. CASE i \in 1..Len(sorted) /\ j \in 1..Len(sorted)
      BY <2>2, <2>5, <3>1 DEF DependentsBehind, IndependentFirst
    <3>2. CASE i \in 1..Len(sorted) /\ j = Len(sorted) + 1
      BY <2>1, <3>2
    <3>3. CASE i = Len(sorted) + 1
      <4>1. depends[f] = {}
        BY <2>2, <2>5, <3>3
      <4>2. \A k \in 1..Len(sorted) : depends[sorted[k]] = {}
        BY <1>1, <4>1 DEF DependentsBehind
      <4>. QED  BY <2>2, <2>3, <2>5, <4>1, <4>2
    <3>. QED  BY <2>3, <3>1, <3>2, <3>3
  <2>6. IndependentFirst'
    BY <2>4, <2>5 DEF IndependentFirst
  <2>7. (\A g \in unsorted : depends[g] # {})'
    BY <1>1, <2>4 DEF DependentsBehind
  <2>8. pc = "split" => \A i \in 1..Len(sorted') : depends[sorted'[i]] = {}
    BY <1>1, <2>2, <2>3 DEF DependentsBehind
  <2>. QED  BY <1>1, <2>4, <2>6, <2>7, <2>8 DEF DependentsBehind
<1>2. ASSUME UNCHANGED <<header, sorted>>,
             \A g \in unsorted' : depends[g] # {},
             pc' = "split" => pc = "split" \/ sorted = <<>>
      PROVE  DependentsBehind'
  BY <1>0, <1>2, Fixed DEF DependentsBehind, IndependentFirst
<1>3. CASE ScanDirectory
  BY <1>0, <1>2, <1>3 DEF ScanDirectory, DependentsBehind, Done
<1>4. ASSUME NEW f \in Files, PlaceIndependent(f) PROVE DependentsBehind'
  BY <1>1, <1>4 DEF PlaceIndependent
<1>5. ASSUME NEW f \in Files, Defer(f) PROVE DependentsBehind'
  BY <1>2, <1>5 DEF Defer, DependentsBehind
<1>6. CASE BeginPass \/ LeaveLoop \/ EndPass
  <2>1. /\ UNCHANGED <<header, sorted>> /\ unsorted' \subseteq unsorted
        /\ pc' # "split"
    BY <1>6 DEF BeginPass, LeaveLoop, EndPass
  <2>. QED  BY <1>2, <2>1 DEF DependentsBehind
<1>7. ASSUME NEW f \in Files, Promote(f) PROVE DependentsBehind'
  <2>1. f \in unsorted
    BY <1>0, <1>7 DEF Promote, First, Pass
  <2>. QED  BY <1>1, <1>7, <2>1 DEF Promote, DependentsBehind
<1>8. ASSUME NEW f \in Files, Skip(f) \/ RemoveFile(f) PROVE DependentsBehind'
  BY <1>2, <1>8 DEF Skip, RemoveFile, DependentsBehind
<1>9. CASE AppendSource \/ ReturnText \/ UNCHANGED vars
  <2>1. UNCHANGED <<header, sorted, unsorted>> /\ (pc' = "split" => pc = "split")
    BY <1>9 DEF AppendSource, ReturnText, vars
  <2>. QED  BY <1>2, <2>1 DEF DependentsBehind
<1>. QED  BY <1>3, <1>4, <1>5, <1>6, <1>7, <1>8, <1>9 DEF Next, Call

(***************************************************************************)
(* The load order starts with the files that depend on nothing.            *)
(***************************************************************************)
THEOREM IndependentFilesFirst == Spec => []IndependentFirst
<1>1. Init => DependentsBehind
  BY DEF Init, DependentsBehind, IndependentFirst
<1>2. DependentsBehind => IndependentFirst
  BY DEF DependentsBehind
<1>. QED  BY Invariance, NextFront, <1>1, <1>2, PTL DEF Spec

-----------------------------------------------------------------------------

\* The scan of the directory is the abstract sort with nothing placed.
LEMMA InitRefines == Init => LO!Init
<1>. SUFFICES ASSUME Init PROVE LO!Init
  OBVIOUS
<1>1. TypeOK
  BY InitIInv DEF IInv
<1>2. Files \in SUBSET Stem /\ depends \in [Files -> SUBSET Name]
  BY <1>1, DependsNames DEF TypeOK, depends
<1>3. outcome = "sorting"
  BY DEF Init, outcome
<1>. QED  BY <1>2, <1>3 DEF Init, LO!Init

\* Every step of the call is a step of the abstract sort, or a stutter.
LEMMA NextRefines == IInv /\ [Next]_vars => [LO!Next]_(LO!vars)
<1>. SUFFICES ASSUME IInv, [Next]_vars PROVE [LO!Next]_(LO!vars)
  OBVIOUS
<1>0. TypeOK /\ Ordered /\ Split /\ Between /\ Pass /\ Done /\ Text
  BY DEF IInv
<1>1. LO!Placed = Sorted /\ LO!Files = Files
  BY DEF LO!Placed, LO!Files, Sorted, Files, depends
<1>2. ASSUME NEW f \in Files \ Sorted, depends[f] \subseteq Sorted,
             sorted' = Append(sorted, f), header' = header,
             pc \in {"split", "pass"}, pc' = pc
      PROVE  LO!Place(f) /\ f \in LO!Files
  <2>1. outcome = "sorting" /\ outcome' = outcome
    BY <1>2 DEF outcome
  <2>2. depends' = depends
    BY <1>2, Fixed
  <2>. QED  BY <1>1, <1>2, <2>1, <2>2 DEF LO!Place, LO!Ready
<1>3. ASSUME UNCHANGED <<header, sorted>>, outcome' = outcome
      PROVE  UNCHANGED LO!vars
  BY <1>3, Fixed DEF LO!vars
<1>4. CASE ScanDirectory
  <2>1. depends' = depends /\ sorted' = sorted /\ sorted = <<>> /\ header' = header
    BY <1>0, <1>4, Fixed DEF ScanDirectory, Done
  <2>2. outcome = "sorting"
    BY <1>4 DEF ScanDirectory, outcome
  <2>3. outcome' \in {"sorting", "aborted"}
    BY <1>4 DEF ScanDirectory, outcome
  <2>. QED  BY <1>3, <2>1, <2>2, <2>3 DEF LO!Next, LO!Abort
<1>5. ASSUME NEW f \in Files, PlaceIndependent(f) PROVE LO!Next
  <2>1. f \in Files \ Sorted
    BY <1>0, <1>5 DEF PlaceIndependent, First, Split
  <2>. QED  BY <1>2, <1>5, <2>1 DEF PlaceIndependent, LO!Next
<1>6. ASSUME NEW f \in Files, Promote(f) PROVE LO!Next
  <2>1. f \in Files \ Sorted
    BY <1>0, <1>6 DEF Promote, First, Pass
  <2>. QED  BY <1>2, <1>6, <2>1 DEF Promote, LO!Next
<1>7. CASE LeaveLoop
  <2>1. depends' = depends /\ sorted' = sorted
    BY <1>7, Fixed DEF LeaveLoop
  <2>2. outcome = "sorting" /\ outcome' = "sorted"
    BY <1>7 DEF LeaveLoop, outcome
  <2>3. Sorted = Files
    BY <1>0, <1>7 DEF LeaveLoop, Split, Between
  <2>. QED  BY <1>1, <2>1, <2>2, <2>3 DEF LO!Next, LO!Succeed
<1>8. CASE EndPass
  <2>1. depends' = depends /\ sorted' = sorted /\ header' = header
    BY <1>8, Fixed DEF EndPass
  <2>2. outcome = "sorting"
    BY <1>8 DEF EndPass, outcome
  <2>3. CASE newly = {}
    <3>1. outcome' = "stuck"
      BY <1>8, <2>3 DEF EndPass, outcome
    <3>2. Sorted # Files /\ \A f \in Files \ Sorted : ~ (depends[f] \subseteq Sorted)
      BY <1>0, <1>8, <2>3 DEF EndPass, Pass
    <3>. QED  BY <1>1, <2>1, <2>2, <3>1, <3>2 DEF LO!Next, LO!GetStuck, LO!Ready
  <2>4. CASE newly # {}
    <3>1. outcome' = "sorting"
      BY <1>8, <2>4 DEF EndPass, outcome
    <3>. QED  BY <1>3, <2>1, <2>2, <3>1
  <2>. QED  BY <2>3, <2>4
<1>9. ASSUME NEW f \in Files, Defer(f) \/ Skip(f) \/ RemoveFile(f)
      PROVE  UNCHANGED LO!vars
  <2>1. UNCHANGED <<header, sorted>> /\ pc' = pc
    BY <1>9 DEF Defer, Skip, RemoveFile
  <2>2. outcome' = outcome
    BY <2>1 DEF outcome
  <2>. QED  BY <1>3, <2>1, <2>2
<1>10. CASE BeginPass
  <2>1. outcome = "sorting" /\ outcome' = "sorting"
    BY <1>10 DEF BeginPass, outcome
  <2>. QED  BY <1>3, <1>10, <2>1 DEF BeginPass
<1>11. CASE AppendSource \/ ReturnText
  <2>1. /\ UNCHANGED <<header, sorted>> /\ pc = "concat"
        /\ pc' \in {"concat", "loadFailed", "returned"}
    BY <1>11 DEF AppendSource, ReturnText
  <2>2. outcome = "sorted" /\ outcome' = "sorted"
    BY <2>1 DEF outcome
  <2>. QED  BY <1>3, <2>1, <2>2
<1>12. CASE UNCHANGED vars
  <2>1. UNCHANGED <<header, sorted>> /\ pc' = pc
    BY <1>12 DEF vars
  <2>2. outcome' = outcome
    BY <2>1 DEF outcome
  <2>. QED  BY <1>3, <2>1, <2>2
<1>. QED
  BY <1>4, <1>5, <1>6, <1>7, <1>8, <1>9, <1>10, <1>11, <1>12 DEF Next, Call

(***************************************************************************)
(* The call implements the abstract sort.                                  *)
(***************************************************************************)
THEOREM Refinement == Spec => ImplementsLoadOrder
BY Invariance, InitRefines, NextRefines, PTL DEF Spec, ImplementsLoadOrder, LO!Spec

-----------------------------------------------------------------------------
(***************************************************************************)
(* Native callers.  A step of theirs is a step of the loader or none, so   *)
(* what is proved of the loader holds of the calls they make.              *)
(***************************************************************************)

\* A step of a native caller is a step of load_kernel_library, or leaves it alone.
LEMMA NativeStep ==
  ASSUME [NativeNext]_allVars
  PROVE  \/ UNCHANGED vars
         \/ InCall /\ Call /\ UNCHANGED nativeVars
         \/ (\E f \in Files : RemoveFile(f)) /\ UNCHANGED nativeVars
BY DEF NativeNext, Running, OnLoad, CallLibrary, LoadStep, CopyText, CatchAll, LookupFails,
       GivesNull, FreeText, CallOther, Invoke, allVars

(***************************************************************************)
(* The composition implements the loader's specification: every theorem    *)
(* about load_kernel_library is one about its native calls.                *)
(***************************************************************************)
THEOREM NativeCallsAreCalls == NativeSpec => Spec
<1>1. NativeInit => Init
  BY DEF NativeInit
<1>2. [NativeNext]_allVars => [Next]_vars
  BY NativeStep DEF Next
<1> QED BY <1>1, <1>2, PTL DEF NativeSpec, Spec

\* A returned text is whole for a native caller too.
THEOREM NativeTextIsWhole == NativeSpec => []ReturnedText
BY NativeCallsAreCalls, ReturnedTextIsWhole, PTL

(***************************************************************************)
(* So do the other promises of the loader: whether a native call returns a *)
(* text is decided by the library, ...                                     *)
(***************************************************************************)
THEOREM NativeOutcome == NativeSpec => []EndsAtSortable
BY NativeCallsAreCalls, OutcomeIsTheLibrarys, PTL

\* ... files without dependencies come first in it, ...
THEOREM NativeIndependentFirst == NativeSpec => []IndependentFirst
BY NativeCallsAreCalls, IndependentFilesFirst, PTL

\* ... and a native caller's behaviours implement the abstract sort as well.
THEOREM NativeRefinement == NativeSpec => ImplementsLoadOrder
BY NativeCallsAreCalls, Refinement, PTL

-----------------------------------------------------------------------------

\* What an accessor keeps is one of the package's routines.
LEMMA ResolveType ==
  ASSUME resolved \subseteq Callable, NEW n \in Callable, Resolve(n)
  PROVE  resolved' \subseteq Callable
BY DEF Resolve

\* The blocks hold texts of the library's files.
LEMMA BlockType ==
  ASSUME TypeOK, NEW l \in Loader
  PROVE  BlockOf(l) \in Block
BY DEF TypeOK, BlockOf, Block

NativeInv == IInv /\ NativeTypeOK /\ NativeAnswers

\* Before the package is loaded nothing is registered, cached or allocated.
LEMMA InitNative == NativeInit => NativeInv
BY InitIInv DEF NativeInit, NativeInv, NativeTypeOK, NativeAnswers, Loader

\* Every step of a native caller keeps the types of its state.
LEMMA NextNativeType == NativeInv /\ [NativeNext]_allVars => NativeTypeOK'
<1> SUFFICES ASSUME NativeInv, [NativeNext]_allVars PROVE NativeTypeOK'
  OBVIOUS
<1>0. NativeTypeOK /\ TypeOK
  BY DEF NativeInv, IInv
<1>1. Block' = Block
  <2>1. header' = header
    BY NativeStep
    DEF vars, Call, ScanDirectory, PlaceIndependent, Defer, BeginPass, LeaveLoop, Promote, Skip,
        EndPass, AppendSource, ReturnText, RemoveFile
  <2> QED BY <2>1, Fixed DEF Block
<1>2. LibraryLoader \in Loader /\ Loader \subseteq Callable /\ FreeRoutine \in Callable
  BY DEF Loader, Callable
<1>3. CASE OnLoad
  BY <1>0, <1>1, <1>3 DEF OnLoad, NativeTypeOK
<1>4. CASE CallLibrary
  BY <1>0, <1>1, <1>2, <1>4, ResolveType DEF CallLibrary, Invoke, NativeTypeOK
<1>5. CASE CopyText
  BY <1>0, <1>1, <1>2, <1>5, BlockType DEF CopyText, NativeTypeOK
<1>6. CASE CatchAll
  BY <1>0, <1>1, <1>2, <1>6 DEF CatchAll, NativeTypeOK
<1>7. ASSUME NEW l \in Loader, LookupFails(l) \/ GivesNull(l) PROVE NativeTypeOK'
  BY <1>0, <1>1, <1>2, <1>7, ResolveType DEF LookupFails, GivesNull, Invoke, NativeTypeOK
<1>8. ASSUME NEW l \in Loader, FreeText(l) PROVE NativeTypeOK'
  BY <1>0, <1>1, <1>2, <1>8, ResolveType DEF FreeText, NativeTypeOK
<1>9. ASSUME NEW l \in OtherLoader, CallOther(l) PROVE NativeTypeOK'
  <2>1. l \in Loader
    BY DEF Loader
  <2> QED
    BY <1>0, <1>1, <1>2, <1>9, <2>1, ResolveType, BlockType DEF CallOther, Invoke, NativeTypeOK
<1>10. CASE UNCHANGED nativeVars
  BY <1>0, <1>1, <1>10 DEF nativeVars, NativeTypeOK
<1> QED
  BY <1>3, <1>4, <1>5, <1>6, <1>7, <1>8, <1>9, <1>10
  DEF NativeNext, Running, LoadStep, allVars

\* Blocks are allocated for texts only, one for each, and freed with them.
LEMMA NextNativeAnswers == NativeInv /\ [NativeNext]_allVars => NativeAnswers'
<1> SUFFICES ASSUME NativeInv, [NativeNext]_allVars PROVE NativeAnswers'
  OBVIOUS
<1> DEFINE Held == {k \in Loader : answer[k] = "text"}
<1>0. NativeTypeOK /\ NativeAnswers
  BY DEF NativeInv
<1>1. LibraryLoader \in Loader
  BY DEF Loader
<1>2. CASE InCall /\ Call /\ UNCHANGED nativeVars
  <2>1. answer[LibraryLoader] # "text"
    BY <1>2 DEF InCall
  <2>2. \A l \in Held : BlockOf(l)' = BlockOf(l)
    BY <2>1 DEF BlockOf
  <2> QED BY <1>0, <1>2, <2>1, <2>2 DEF NativeAnswers, nativeVars
<1>3. CASE (\E f \in Files : RemoveFile(f)) /\ UNCHANGED nativeVars
  BY <1>0, <1>3 DEF NativeAnswers, nativeVars, BlockOf, RemoveFile
<1>4. ASSUME UNCHANGED <<pc, output, heap>>, {k \in Loader : answer'[k] = "text"} = Held,
             resolved' # {} => registered'
      PROVE  NativeAnswers'
  BY <1>0, <1>1, <1>4 DEF NativeAnswers, BlockOf
<1>5. CASE OnLoad
  BY <1>0, <1>4, <1>5 DEF OnLoad, vars
<1>6. ASSUME NEW n, Resolve(n), UNCHANGED registered PROVE resolved' # {} => registered'
  BY <1>0, <1>6 DEF NativeAnswers, Resolve
<1>7. CASE CallLibrary
  BY <1>0, <1>4, <1>6, <1>7 DEF CallLibrary, Invoke, NativeTypeOK, vars
<1>8. CASE CopyText
  <2>1. CASE heap' = heap /\ answer' = [answer EXCEPT ![LibraryLoader] = "null"]
    BY <1>0, <1>4, <1>8, <2>1 DEF CopyText, InCall, NativeTypeOK, NativeAnswers, vars
  <2>2. CASE /\ heap' = heap \cup {BlockOf(LibraryLoader)}
             /\ answer' = [answer EXCEPT ![LibraryLoader] = "text"]
    <3>1. {k \in Loader : answer'[k] = "text"} = Held \cup {LibraryLoader}
      BY <1>0, <1>1, <2>2 DEF NativeTypeOK
    <3>2. UNCHANGED <<pc, output>>
      BY <1>8 DEF CopyText, vars
    <3>3. heap' = {BlockOf(l)' : l \in Held \cup {LibraryLoader}}
      BY <1>0, <2>2, <3>2 DEF NativeAnswers, BlockOf
    <3> QED BY <1>0, <1>8, <3>1, <3>2, <3>3 DEF NativeAnswers, CopyText
  <2> QED BY <1>8, <2>1, <2>2 DEF CopyText
<1>9. CASE CatchAll
  BY <1>0, <1>4, <1>9 DEF CatchAll, InCall, NativeTypeOK, NativeAnswers, vars
<1>10. ASSUME NEW l \in Loader, LookupFails(l) \/ GivesNull(l) PROVE NativeAnswers'
  BY <1>0, <1>4, <1>6, <1>10 DEF LookupFails, GivesNull, Invoke, NativeTypeOK, vars
<1>11. ASSUME NEW l \in Loader, FreeText(l) PROVE NativeAnswers'
  <2>1. UNCHANGED <<pc, output, registered>>
    BY <1>11 DEF FreeText, vars
  <2>2. {k \in Loader : answer'[k] = "text"} = Held \ {l}
    BY <1>0, <1>11 DEF FreeText, NativeTypeOK
  <2>3. heap' = {BlockOf(k) : k \in Held \ {l}}
    BY <1>0, <1>11 DEF FreeText, NativeAnswers, BlockOf
  <2>4. heap' = {BlockOf(k)' : k \in Held \ {l}}
    BY <2>1, <2>3 DEF BlockOf
  <2>5. answer'[LibraryLoader] = "text" => pc' = "returned"
    BY <1>0, <1>1, <2>1, <2>2 DEF NativeAnswers
  <2>6. resolved' # {} => registered'
    BY <1>6, <1>11, <2>1 DEF FreeText
  <2> QED BY <2>2, <2>4, <2>5, <2>6 DEF NativeAnswers
<1>12. ASSUME NEW l \in OtherLoader, CallOther(l) PROVE NativeAnswers'
  <2>1. l \in Loader /\ l # LibraryLoader
    BY LoaderAssumption DEF Loader
  <2>2. UNCHANGED <<pc, output, registered>>
    BY <1>12 DEF CallOther, Invoke, vars
  <2>3. {k \in Loader : answer'[k] = "text"} = Held \cup {l}
    BY <1>0, <1>12, <2>1 DEF CallOther, NativeTypeOK
  <2>4. heap' = {BlockOf(k)' : k \in Held \cup {l}}
    BY <1>0, <1>12, <2>2 DEF CallOther, NativeAnswers, BlockOf
  <2>5. answer'[LibraryLoader] = "text" => pc' = "returned"
    BY <1>0, <1>1, <2>1, <2>2, <2>3 DEF NativeAnswers
  <2>6. resolved' # {} => registered'
    BY <1>6, <1>12, <2>2 DEF CallOther, Invoke
  <2> QED BY <2>3, <2>4, <2>5, <2>6 DEF NativeAnswers
<1>13. CASE UNCHANGED allVars
  BY <1>0, <1>4, <1>13 DEF allVars, vars, nativeVars, NativeAnswers
<1> QED
  BY <1>2, <1>3, <1>5, <1>7, <1>8, <1>9, <1>10, <1>11, <1>12, <1>13
  DEF NativeNext, Running, LoadStep

\* The native interface keeps its invariant, and the loader its own.
THEOREM NativeInvariance == NativeSpec => []NativeInv
<1>1. NativeInv /\ [NativeNext]_allVars => NativeInv'
  <2> SUFFICES ASSUME NativeInv, [NativeNext]_allVars PROVE NativeInv'
    OBVIOUS
  <2>1. [Next]_vars
    BY NativeStep DEF Next
  <2> QED BY <2>1, NextIInv, NextNativeType, NextNativeAnswers DEF NativeInv
<1> QED BY InitNative, <1>1, PTL DEF NativeSpec

\* The state of the native interface is well typed.
THEOREM NativeTypeCorrect == NativeSpec => []NativeTypeOK
<1>1. NativeInv => NativeTypeOK
  BY DEF NativeInv
<1> QED BY <1>1, NativeInvariance, PTL

\* A native caller gets whole texts in blocks of their own, and nothing leaks.
THEOREM NativeCallersAreAnswered == NativeSpec => []NativeAnswers
<1>1. NativeInv => NativeAnswers
  BY DEF NativeInv
<1> QED BY <1>1, NativeInvariance, PTL

-----------------------------------------------------------------------------
(***************************************************************************)
(* The abstract sort, over variables of its own: what every implementation *)
(* of LoadOrder inherits, for every library and every order of placing.    *)
(***************************************************************************)
VARIABLES
  library,   \* the dependencies of its files
  placed,    \* the files placed so far
  end        \* "sorting", then "sorted", "stuck" or "aborted"

Sort ==
  INSTANCE LoadOrder WITH depends <- library, order <- placed, outcome <- end

(***************************************************************************)
(* The invariant: what is placed is in every closed set, hence sortable,   *)
(* and a sort that ended has nothing left to place.                        *)
(***************************************************************************)
PlacedSortable == \A S \in SUBSET Sort!Files : Sort!Closed(S) => Sort!Placed \subseteq S

EndedComplete ==
  /\ end = "sorted" => Sort!Placed = Sort!Files
  /\ end = "stuck" => Sort!Placed # Sort!Files /\ \A f \in Sort!Files : ~ Sort!Ready(f)

SortInv ==
  /\ Sort!TypeOK
  /\ Sort!TopologicalOrder
  /\ PlacedSortable
  /\ EndedComplete

\* An empty order satisfies the invariant.
LEMMA InitAbstract == Sort!Init => SortInv
<1>. SUFFICES ASSUME Sort!Init PROVE SortInv
  OBVIOUS
<1>1. Sort!TypeOK
  BY DEF Sort!Init, Sort!TypeOK, Sort!Files
<1>2. Sort!Placed = {}
  BY DEF Sort!Init, Sort!Placed
<1>3. Sort!TopologicalOrder
  BY DEF Sort!Init, Sort!TopologicalOrder
<1>. QED  BY <1>1, <1>2, <1>3 DEF Sort!Init, SortInv, PlacedSortable, EndedComplete

\* Placing a ready file, and ending when none is left, preserve the invariant.
LEMMA NextAbstract == SortInv /\ [Sort!Next]_(Sort!vars) => SortInv'
<1>. SUFFICES ASSUME SortInv, [Sort!Next]_(Sort!vars) PROVE SortInv'
  OBVIOUS
<1>0. Sort!TypeOK /\ Sort!TopologicalOrder /\ PlacedSortable /\ EndedComplete
  BY DEF SortInv
<1>1. ASSUME NEW f \in Sort!Files, Sort!Place(f) PROVE SortInv'
  <2>1. /\ end = "sorting" /\ end' = end /\ library' = library
        /\ placed' = Append(placed, f)
        /\ f \in Sort!Files \ Sort!Placed /\ library[f] \subseteq Sort!Placed
    BY <1>1 DEF Sort!Place, Sort!Ready
  <2>2. Sort!Files' = Sort!Files
    BY <2>1 DEF Sort!Files
  <2>3. placed \in Seq(Sort!Files) /\ Len(placed) \in Nat
    BY <1>0 DEF Sort!TypeOK
  <2>4. /\ placed' \in Seq(Sort!Files)
        /\ Len(placed') = Len(placed) + 1
        /\ \A i \in 1..Len(placed) : placed'[i] = placed[i]
        /\ placed'[Len(placed) + 1] = f
        /\ Sort!Placed' = Sort!Placed \cup {f}
    BY <2>1, <2>3, AppendFacts DEF Sort!Placed
  <2>5. Sort!TypeOK'
    BY <1>0, <2>1, <2>2, <2>4 DEF Sort!TypeOK
  <2>6. Sort!TopologicalOrder'
    <3>1. ASSUME NEW i \in 1..Len(placed'), NEW j \in 1..Len(placed'),
                 placed'[i] = placed'[j]
          PROVE  i = j
      <4>1. i \in 1..Len(placed) \/ i = Len(placed) + 1
        BY <2>3, <2>4
      <4>2. j \in 1..Len(placed) \/ j = Len(placed) + 1
        BY <2>3, <2>4
      <4>3. \A k \in 1..Len(placed) : placed[k] \in Sort!Placed
        BY DEF Sort!Placed
      <4>. QED  BY <1>0, <2>1, <2>4, <3>1, <4>1, <4>2, <4>3 DEF Sort!TopologicalOrder
    <3>2. ASSUME NEW i \in 1..Len(placed')
          PROVE  library[placed'[i]] \subseteq {placed'[j] : j \in 1..(i - 1)}
      <4>1. CASE i \in 1..Len(placed)
        <5>1. \A j \in 1..(i - 1) : placed'[j] = placed[j]
          BY <2>3, <2>4, <4>1
        <5>2. {placed'[j] : j \in 1..(i - 1)} = {placed[j] : j \in 1..(i - 1)}
          BY <5>1
        <5>3. library[placed[i]] \subseteq {placed[j] : j \in 1..(i - 1)}
          BY <1>0, <4>1 DEF Sort!TopologicalOrder
        <5>4. placed'[i] = placed[i]
          BY <2>4, <4>1
        <5>. QED  BY <5>2, <5>3, <5>4
      <4>2. CASE i = Len(placed) + 1
        <5>1. i - 1 = Len(placed)
          BY <2>3, <4>2
        <5>2. {placed'[j] : j \in 1..(i - 1)} = Sort!Placed
          BY <2>4, <5>1 DEF Sort!Placed
        <5>. QED  BY <2>1, <2>4, <4>2, <5>2
      <4>. QED  BY <2>3, <2>4, <4>1, <4>2
    <3>. QED  BY <2>1, <3>1, <3>2 DEF Sort!TopologicalOrder
  <2>7. PlacedSortable'
    <3>. SUFFICES ASSUME NEW S \in SUBSET Sort!Files, Sort!Closed(S)
                  PROVE  Sort!Placed \cup {f} \subseteq S
      BY <2>1, <2>2, <2>4 DEF PlacedSortable, Sort!Closed
    <3>. QED  BY <1>0, <2>1 DEF PlacedSortable, Sort!Closed
  <2>8. EndedComplete'
    BY <2>1 DEF EndedComplete
  <2>. QED  BY <2>5, <2>6, <2>7, <2>8 DEF SortInv
<1>2. ASSUME UNCHANGED <<library, placed>>,
             end' \in {"sorting", "sorted", "stuck", "aborted"},
             end' = "sorted" => Sort!Placed = Sort!Files,
             end' = "stuck" => Sort!Placed # Sort!Files /\ \A f \in Sort!Files : ~ Sort!Ready(f)
      PROVE  SortInv'
  <2>1. Sort!Files' = Sort!Files /\ Sort!Placed' = Sort!Placed
    BY <1>2 DEF Sort!Files, Sort!Placed
  <2>2. \A f : Sort!Ready(f)' <=> Sort!Ready(f)
    BY <1>2, <2>1 DEF Sort!Ready
  <2>3. Sort!TypeOK'
    BY <1>0, <1>2, <2>1 DEF Sort!TypeOK
  <2>4. Sort!TopologicalOrder'
    BY <1>0, <1>2 DEF Sort!TopologicalOrder
  <2>5. PlacedSortable'
    BY <1>0, <1>2, <2>1 DEF PlacedSortable, Sort!Closed
  <2>6. EndedComplete'
    BY <1>2, <2>1, <2>2 DEF EndedComplete
  <2>. QED  BY <2>3, <2>4, <2>5, <2>6 DEF SortInv
<1>3. CASE Sort!Succeed
  BY <1>2, <1>3 DEF Sort!Succeed
<1>4. CASE Sort!GetStuck
  BY <1>2, <1>4 DEF Sort!GetStuck
<1>5. CASE Sort!Abort
  BY <1>2, <1>5 DEF Sort!Abort
<1>6. CASE UNCHANGED Sort!vars
  <2>1. UNCHANGED <<library, placed>> /\ end' = end
    BY <1>6 DEF Sort!vars
  <2>. QED  BY <1>0, <1>2, <2>1 DEF Sort!TypeOK, EndedComplete
<1>. QED  BY <1>1, <1>3, <1>4, <1>5, <1>6 DEF Sort!Next

(***************************************************************************)
(* Nothing left to place means that the placed files form a closed set, so *)
(* they are all there is to sort.                                          *)
(***************************************************************************)
LEMMA AbstractEnds == SortInv => Sort!EndsAtSortable
<1>. SUFFICES ASSUME SortInv PROVE Sort!EndsAtSortable
  OBVIOUS
<1>0. Sort!TypeOK /\ PlacedSortable /\ EndedComplete
  BY DEF SortInv
<1>1. Sort!Placed \subseteq Sort!Files
  BY <1>0 DEF Sort!TypeOK, Sort!Placed
<1>2. Sort!Placed \subseteq Sort!Sortable
  BY <1>0, <1>1 DEF PlacedSortable, Sort!Sortable
<1>3. ASSUME end \in {"sorted", "stuck"} PROVE Sort!Sortable \subseteq Sort!Placed
  <2>1. Sort!Closed(Sort!Placed)
    BY <1>0, <1>1, <1>3 DEF EndedComplete, Sort!Ready, Sort!Closed
  <2>. QED  BY <1>1, <2>1 DEF Sort!Sortable
<1>. QED  BY <1>0, <1>2, <1>3 DEF Sort!EndsAtSortable, EndedComplete

-----------------------------------------------------------------------------

\* What every dependency sort of the package promises while it runs.
THEOREM AbstractInvariance == Sort!Spec => []SortInv
BY InitAbstract, NextAbstract, PTL DEF Sort!Spec

(***************************************************************************)
(* A load order never places a file twice, nor before what it depends on.  *)
(***************************************************************************)
THEOREM OrderIsTopological == Sort!Spec => []Sort!TopologicalOrder
<1>1. SortInv => Sort!TopologicalOrder
  BY DEF SortInv
<1>. QED  BY AbstractInvariance, <1>1, PTL

(***************************************************************************)
(* Whatever order files are placed in, a sort that ended placed exactly    *)
(* the sortable ones.                                                      *)
(***************************************************************************)
THEOREM AbstractOutcome == Sort!Spec => []Sort!EndsAtSortable
BY AbstractInvariance, AbstractEnds, PTL
=============================================================================
