------------------------ MODULE ProgramPreload_proof ------------------------
(***************************************************************************)
(* Proofs about the program preload, for every set of pieces and rows and  *)
(* for any number of edits and calls.                                      *)
(***************************************************************************)
EXTENDS ProgramPreload, SequenceFacts

Ascends(rows) ==
  \A i, j \in 1..Len(rows) : i < j => rows[i].rank < rows[j].rank

\* A manifest that both languages accept as it is.
Accepted(rows) ==
  rows \in Manifest /\ RanksOK(rows) /\ \A i \in 1..Len(rows) : rows[i].whole

Wholed(rows) == [i \in 1..Len(rows) |-> [rows[i] EXCEPT !.whole = TRUE]]

\* What a write is about to store has been validated, and while nobody
\* interferes the tsv is a step ahead of the rds.
Writing ==
  /\ pc \in {"write_tsv", "write_rds"} => Accepted(entries)
  /\ pc = "write_rds" /\ quiet => tsv = entries

\* The text that has been put together is a prefix of what the plan says.
Loading ==
  /\ pc \in {"idle", "write_tsv", "write_rds", "manifest"} => text = <<>>
  /\ pc \in {"pieces", "returned"} =>
       /\ Ascends(plan)
       /\ \A i \in 1..Len(text) : text[i] = plan[i].piece
       /\ quiet /\ entries = <<>> => ToSet(plan) = ToSet(tsv)
  /\ pc = "returned" => Len(text) = Len(plan)

\* Both files are what one write left, and a call that nobody disturbs works
\* with one manifest although it reads two files.
Agreeing ==
  synced =>
    /\ Accepted(tsv) /\ rds = tsv
    /\ quiet /\ pc = "manifest" => entries \in {<<>>, ByRank(tsv)}
    /\ quiet /\ pc \in {"pieces", "returned"} => Len(entries) \in {0, Len(plan)}

Inv == TypeOK /\ Writing /\ Loading /\ Agreeing

-----------------------------------------------------------------------------

\* Manifests are the sequences of at most MaxRows rows.
LEMMA ManifestSeq ==
  /\ \A m \in Manifest : m \in Seq(Row) /\ Len(m) \in 0..MaxRows /\ Len(m) \in Nat
  /\ \A m \in Seq(Row) : Len(m) <= MaxRows => m \in Manifest
  /\ <<>> \in Manifest /\ Len(<<>>) = 0
<1>1. ASSUME NEW m \in Manifest
      PROVE  m \in Seq(Row) /\ Len(m) \in 0..MaxRows /\ Len(m) \in Nat
  <2>1. PICK n \in 0..MaxRows : m \in [1..n -> Row]
    BY DEF Manifest
  <2>2. n \in Nat
    OBVIOUS
  <2>3. m \in Seq(Row) /\ Len(m) = n
    BY <2>1, <2>2
  <2>. QED  BY <2>2, <2>3
<1>2. ASSUME NEW m \in Seq(Row), Len(m) <= MaxRows PROVE m \in Manifest
  <2>1. Len(m) \in Nat /\ m \in [1..Len(m) -> Row]
    OBVIOUS
  <2>2. Len(m) \in 0..MaxRows
    BY <1>2, <2>1, BoundsAssumption
  <2>. QED  BY <2>1, <2>2, Zenon DEF Manifest
<1>3. <<>> \in Seq(Row) /\ Len(<<>>) = 0
  OBVIOUS
<1>4. <<>> \in Manifest
  <2>1. 0 <= MaxRows
    BY BoundsAssumption
  <2>. QED  BY <1>2, <1>3, <2>1
<1>. QED  BY <1>1, <1>2, <1>3, <1>4, Zenon

(***************************************************************************)
(* Rows of different ranks can be put in the order of their ranks, which   *)
(* drops none of them.                                                     *)
(***************************************************************************)
LEMMA ByRankFacts ==
  ASSUME NEW rows \in Seq(Row), Distinct(rows)
  PROVE  /\ ByRank(rows) \in Seq(ToSet(rows)) /\ ByRank(rows) \in Seq(Row)
         /\ Len(ByRank(rows)) = Len(rows)
         /\ Ascends(ByRank(rows))
         /\ ToSet(ByRank(rows)) = ToSet(rows)
<1>. DEFINE n == Len(rows)
            ranks == {rows[i].rank : i \in 1..n}
            rank == [i \in 1..n |-> rows[i].rank]
            all == {rows[i] : i \in 1..n}
<1>1. n \in Nat /\ \A i \in 1..n : rows[i] \in Row /\ rows[i].rank \in Int
  <2>1. n \in Nat /\ \A i \in 1..n : rows[i] \in Row
    OBVIOUS
  <2>2. \A r \in Row : r.rank \in Int
    <3>1. ASSUME NEW r \in Row PROVE r.rank \in Int
      <4>1. r \in [rank : Int, whole : BOOLEAN, piece : Piece]
        BY RowAssumption, Zenon
      <4>. QED  BY <4>1
    <3>. QED  BY <3>1
  <2>. QED  BY <2>1, <2>2
<1>2. ToSet(rows) = all
  BY <1>1 DEF ToSet
<1>3. rank \in Seq(ranks) /\ Len(rank) = n
  BY <1>1
<1>4. \A i, j \in 1..n : rows[i].rank = rows[j].rank => i = j
  BY DEF Distinct
<1>5. ranks \in SUBSET Int
  BY <1>1
<1>6. IsFiniteSet(ranks) /\ Cardinality(ranks) = n
  <2>1. ranks = {rank[i] : i \in 1..Len(rank)}
    BY <1>3
  <2>2. \A i, j \in 1..Len(rank) : rank[i] = rank[j] => i = j
    BY <1>3, <1>4
  <2>. HIDE DEF ranks, rank, n
  <2>. QED  BY <1>3, <2>1, <2>2, ListLength
<1>7. IsFiniteSet(all) /\ Cardinality(all) = n
  <2>1. rows \in Seq(all)
    BY <1>1
  <2>2. \A i, j \in 1..Len(rows) : rows[i] = rows[j] => i = j
    BY <1>4
  <2>. QED  BY <2>1, <2>2, ListLength
<1>. DEFINE inOrder == Ascending(ranks)
            s == [k \in 1..n |-> CHOOSE r \in all : r.rank = inOrder[k]]
            b == ByRank(rows)
<1>8. /\ inOrder \in [1..n -> ranks]
      /\ \A i, j \in 1..n : i < j => inOrder[i] < inOrder[j]
  <2>. HIDE DEF ranks, n
  <2>. QED  BY <1>5, <1>6, AscendingFacts
<1>. HIDE DEF inOrder
<1>9. \A k \in 1..n : s[k] \in all /\ s[k].rank = inOrder[k]
  <2>1. ASSUME NEW k \in 1..n PROVE \E r \in all : r.rank = inOrder[k]
    <3>1. inOrder[k] \in ranks
      BY <1>8
    <3>. QED  BY <3>1
  <2>. QED  BY <2>1
<1>. HIDE DEF s
<1>10. s \in [1..n -> all]
  <2>1. s = [k \in 1..n |-> s[k]]
    BY DEF s
  <2>. QED  BY <1>9, <2>1
<1>11. \A i, j \in 1..n : i < j => s[i].rank < s[j].rank
  BY <1>8, <1>9
<1>12. b \in [1..n -> all] /\ \A i, j \in 1..n : i < j => b[i].rank < b[j].rank
  <2>. HIDE DEF all, n
  <2>1. \E t \in [1..n -> all] : \A i, j \in 1..n : i < j => t[i].rank < t[j].rank
    BY <1>10, <1>11
  <2>2. b = CHOOSE t \in [1..n -> all] :
                \A i, j \in 1..n : i < j => t[i].rank < t[j].rank
    BY <1>2 DEF ByRank, n
  <2>. QED  BY <2>1, <2>2
<1>. HIDE DEF b
<1>13. b \in Seq(all) /\ Len(b) = n
  <2>. HIDE DEF all, n
  <2>. QED  BY <1>1, <1>12
<1>14. b \in Seq(Row)
  <2>1. all \subseteq Row
    BY <1>1
  <2>. QED  BY <1>13, <2>1
<1>15. \A i, j \in 1..n : b[i] = b[j] => i = j
  <2>1. ASSUME NEW i \in 1..n, NEW j \in 1..n, b[i] = b[j] PROVE i = j
    <3>1. b[i].rank \in Int /\ i \in Int /\ j \in Int
      BY <1>12, <1>1
    <3>. QED  BY <1>12, <2>1, <3>1
  <2>. QED  BY <2>1
<1>16. {b[i] : i \in 1..n} = all
  <2>. HIDE DEF all, n
  <2>1. b \in Injection(1..n, all)
    BY <1>12, <1>15 DEF Injection, IsInjective
  <2>2. Cardinality(1..n) = n
    BY <1>1, FS_Interval
  <2>3. b \in Surjection(1..n, all)
    BY <1>7, <2>1, <2>2, FS_Injection
  <2>. QED  BY <2>3 DEF Surjection
<1>17. ToSet(b) = all
  <2>. HIDE DEF all, n
  <2>. QED  BY <1>13, <1>16 DEF ToSet
<1>. QED  BY <1>2, <1>12, <1>13, <1>14, <1>17 DEF Ascends, b

\* What ByRank makes of a manifest whose ranks are right.
LEMMA RankedManifest ==
  ASSUME NEW rows \in Manifest, RanksOK(rows)
  PROVE  /\ ByRank(rows) \in Manifest /\ RanksOK(ByRank(rows))
         /\ Ascends(ByRank(rows)) /\ ToSet(ByRank(rows)) = ToSet(rows)
         /\ Len(ByRank(rows)) = Len(rows) /\ ByRank(rows) # <<>>
         /\ Accepted(rows) => Accepted(ByRank(rows))
<1>. DEFINE b == ByRank(rows)
<1>1. rows \in Seq(Row) /\ Len(rows) \in 0..MaxRows /\ Distinct(rows) /\ rows # <<>>
  BY ManifestSeq DEF RanksOK
<1>2. /\ b \in Seq(ToSet(rows)) /\ b \in Seq(Row) /\ Len(b) = Len(rows)
      /\ Ascends(b) /\ ToSet(b) = ToSet(rows)
  BY <1>1, ByRankFacts
<1>. HIDE DEF b
<1>3. Len(b) <= MaxRows
  BY <1>1, <1>2, BoundsAssumption
<1>4. b \in Manifest
  BY <1>2, <1>3, ManifestSeq
<1>5. b # <<>>
  BY <1>1, <1>2
<1>6. ASSUME NEW k \in 1..Len(b) PROVE \E i \in 1..Len(rows) : b[k] = rows[i]
  <2>1. b[k] \in ToSet(rows)
    BY <1>2
  <2>. QED  BY <1>1, <2>1 DEF ToSet
<1>7. \A k \in 1..Len(b) : b[k].rank >= 1
  BY <1>6 DEF RanksOK
<1>8. Distinct(b)
  <2>1. \A k \in 1..Len(b) : b[k].rank \in Int
    <3>1. \A r \in Row : r.rank \in Int
      <4>1. ASSUME NEW r \in Row PROVE r.rank \in Int
        <5>1. r \in [rank : Int, whole : BOOLEAN, piece : Piece]
          BY RowAssumption, Zenon
        <5>. QED  BY <5>1
      <4>. QED  BY <4>1
    <3>2. \A k \in 1..Len(b) : b[k] \in Row
      BY <1>2
    <3>. QED  BY <3>1, <3>2
  <2>2. Len(b) \in Nat
    BY <1>2
  <2>. QED  BY <1>2, <2>1, <2>2 DEF Ascends, Distinct
<1>9. RanksOK(b)
  BY <1>5, <1>7, <1>8 DEF RanksOK
<1>10. Accepted(rows) => \A k \in 1..Len(b) : b[k].whole
  BY <1>6 DEF Accepted
<1>. QED  BY <1>2, <1>4, <1>5, <1>9, <1>10 DEF Accepted, b

\* The R validation cuts ranks off, and leaves alone what is accepted.
LEMMA WholedManifest ==
  ASSUME NEW rows \in Manifest
  PROVE  /\ Wholed(rows) \in Manifest
         /\ RanksOK(rows) => Accepted(Wholed(rows))
         /\ Accepted(rows) => Wholed(rows) = rows
<1>. DEFINE w == Wholed(rows)
<1>1. rows \in Seq(Row) /\ Len(rows) \in 0..MaxRows /\ Len(rows) \in Nat
  BY ManifestSeq
<1>2. ASSUME NEW i \in 1..Len(rows)
      PROVE  /\ w[i] \in Row /\ w[i].rank = rows[i].rank /\ w[i].whole
             /\ rows[i].whole => w[i] = rows[i]
  <2>1. rows[i] \in Row
    BY <1>1
  <2>2. rows[i] \in [rank : Int, whole : BOOLEAN, piece : Piece]
    BY <2>1, RowAssumption
  <2>3. w[i] = [rows[i] EXCEPT !.whole = TRUE]
    BY DEF Wholed
  <2>4. [rows[i] EXCEPT !.whole = TRUE] \in Row
    BY <2>1, RowAssumption
  <2>. HIDE DEF w
  <2>. QED  BY <2>2, <2>3, <2>4
<1>3. w \in Seq(Row) /\ Len(w) = Len(rows)
  <2>1. w = [i \in 1..Len(rows) |-> w[i]]
    BY DEF Wholed
  <2>. HIDE DEF w
  <2>. QED  BY <1>1, <1>2, <2>1
<1>. HIDE DEF w
<1>4. w \in Manifest
  BY <1>1, <1>3, ManifestSeq, BoundsAssumption
<1>5. RanksOK(rows) => RanksOK(w)
  BY <1>1, <1>2, <1>3 DEF RanksOK, Distinct
<1>6. Accepted(rows) => \A i \in 1..Len(rows) : w[i] = rows[i]
  BY <1>2 DEF Accepted
<1>7. Accepted(rows) => w = rows
  BY <1>1, <1>3, <1>6
<1>. QED  BY <1>2, <1>3, <1>4, <1>5, <1>7 DEF Accepted, w

\* What .program_preload_validate_entries returns is accepted by both.
LEMMA RValidFacts ==
  ASSUME NEW rows \in Manifest
  PROVE  /\ RValid(rows) # Failure =>
              Accepted(RValid(rows)) /\ Ascends(RValid(rows)) /\ RValid(rows) # <<>>
         /\ Accepted(rows) => RValid(rows) = ByRank(rows) /\ RValid(rows) # Failure
<1>1. RValid(rows) = IF RanksOK(rows) THEN ByRank(Wholed(rows)) ELSE Failure
  BY DEF RValid, Wholed
<1>2. ASSUME RanksOK(rows)
      PROVE  /\ Accepted(ByRank(Wholed(rows))) /\ Ascends(ByRank(Wholed(rows)))
             /\ ByRank(Wholed(rows)) # <<>>
  BY <1>2, WholedManifest, RankedManifest DEF Accepted
<1>3. ASSUME Accepted(rows)
      PROVE  RValid(rows) = ByRank(rows) /\ RValid(rows) # Failure
  BY <1>1, <1>2, <1>3, WholedManifest, NoManifestAssumption DEF Accepted
<1>. QED  BY <1>1, <1>2, <1>3

\* What the C++ reader returns is the tsv, by rank.
LEMMA CppFacts ==
  ASSUME TypeOK
  PROVE  /\ CppManifest # Failure =>
              /\ Accepted(tsv) /\ CppManifest = ByRank(tsv) /\ Accepted(CppManifest)
              /\ Ascends(CppManifest) /\ ToSet(CppManifest) = ToSet(tsv)
              /\ Len(CppManifest) = Len(tsv)
         /\ Accepted(tsv) => CppManifest = ByRank(tsv)
<1>1. tsv \in Manifest
  BY DEF TypeOK
<1>2. CppManifest # Failure => Accepted(tsv) /\ CppManifest = ByRank(tsv)
  BY <1>1 DEF CppManifest, Accepted
<1>3. Accepted(tsv) => CppManifest = ByRank(tsv)
  BY DEF CppManifest, Accepted
<1>. QED  BY <1>1, <1>2, <1>3, RankedManifest DEF Accepted

\* What the R reader returns is accepted by both.
LEMMA RFacts ==
  ASSUME TypeOK, RManifest # Failure
  PROVE  Accepted(RManifest) /\ RManifest # <<>>
<1>1. CASE rds # NoFile
  BY <1>1, RValidFacts DEF RManifest, TypeOK
<1>2. CASE rds = NoFile
  <2>1. CppManifest # Failure /\ RManifest = RValid(CppManifest)
    BY <1>2 DEF RManifest
  <2>2. CppManifest \in Manifest
    BY <2>1, CppFacts DEF Accepted
  <2>. QED  BY <2>1, <2>2, RValidFacts
<1>. QED  BY <1>1, <1>2

\* On files that one write left, the two readers agree.
LEMMA ReadersAgree ==
  ASSUME TypeOK, Accepted(tsv), rds = tsv
  PROVE  /\ RManifest = ByRank(tsv) /\ CppManifest = ByRank(tsv)
         /\ RManifest # Failure
<1>1. rds # NoFile /\ tsv \in Manifest
  BY NoManifestAssumption DEF TypeOK
<1>2. RManifest = RValid(tsv)
  BY <1>1 DEF RManifest
<1>. QED  BY <1>1, <1>2, RValidFacts, CppFacts

-----------------------------------------------------------------------------

\* A manifest without preload, and nobody has called.
LEMMA InitInv == Init => Inv
<1>. SUFFICES ASSUME Init PROVE Inv
  OBVIOUS
<1>1. /\ tsv \in Manifest /\ rds = NoFile /\ state = [p \in Piece |-> "text"]
      /\ held = Failure /\ pc = "idle" /\ entries = <<>> /\ plan = <<>>
      /\ text = <<>> /\ changes = 0 /\ count = 0 /\ synced = FALSE /\ quiet = TRUE
  BY DEF Init
<1>2. <<>> \in Manifest
  BY ManifestSeq
<1>3. changes \in 0..MaxEdits /\ count \in 0..MaxCalls
  BY <1>1, BoundsAssumption
<1>4. text \in Seq(Piece) /\ Len(text) <= Len(plan)
  BY <1>1
<1>5. state \in [Piece -> {"text", "empty", "missing"}]
  BY <1>1
<1>6. TypeOK
  BY <1>1, <1>2, <1>3, <1>4, <1>5 DEF TypeOK
<1>. QED  BY <1>1, <1>6 DEF Inv, Writing, Loading, Agreeing

LEMMA NextInv == Inv /\ [Next]_vars => Inv'
<1>. SUFFICES ASSUME Inv, [Next]_vars PROVE Inv'
  OBVIOUS
<1>0. TypeOK /\ Writing /\ Loading /\ Agreeing
  BY DEF Inv
<1>1. ASSUME NEW rows \in Manifest, EditTsv(rows) PROVE Inv'
  <2>1. /\ tsv' = rows /\ changes < MaxEdits /\ changes' = changes + 1
        /\ quiet' = FALSE /\ synced' = FALSE
        /\ UNCHANGED <<rds, held, pc, entries, plan, text, count, state>>
    BY <1>1 DEF EditTsv, Edited, call
  <2>2. TypeOK'
    <3>1. changes' \in 0..MaxEdits
      BY <1>0, <2>1, BoundsAssumption DEF TypeOK
    <3>. QED  BY <1>0, <2>1, <3>1 DEF TypeOK
  <2>3. Writing'
    BY <1>0, <2>1 DEF Writing
  <2>4. Loading'
    BY <1>0, <2>1 DEF Loading
  <2>. QED  BY <2>1, <2>2, <2>3, <2>4 DEF Inv, Agreeing
<1>2. ASSUME NEW p \in Piece, NEW s \in {"text", "empty", "missing"}, ChangePiece(p, s)
      PROVE  Inv'
  <2>1. /\ state' = [state EXCEPT ![p] = s]
        /\ changes < MaxEdits /\ changes' = changes + 1 /\ quiet' = FALSE
        /\ UNCHANGED <<tsv, rds, held, pc, entries, plan, text, count, synced>>
    BY <1>2 DEF ChangePiece, Edited, call
  <2>2. TypeOK'
    <3>1. changes' \in 0..MaxEdits
      BY <1>0, <2>1, BoundsAssumption DEF TypeOK
    <3>. QED  BY <1>0, <2>1, <3>1 DEF TypeOK
  <2>3. Writing'
    BY <1>0, <2>1 DEF Writing
  <2>4. Loading'
    BY <1>0, <2>1 DEF Loading
  <2>5. Agreeing'
    BY <1>0, <2>1 DEF Agreeing
  <2>. QED  BY <2>2, <2>3, <2>4, <2>5 DEF Inv
<1>3. ASSUME NEW rows \in Manifest, StartWrite(rows) PROVE Inv'
  <2>1. /\ pc = "idle" /\ pc' = "write_tsv" /\ count < MaxCalls /\ count' = count + 1
        /\ quiet' = TRUE /\ entries' = RValid(rows) /\ RValid(rows) # Failure
        /\ UNCHANGED <<tsv, rds, state, held, changes, synced, text, plan>>
    BY <1>3 DEF StartWrite, Starts, files
  <2>2. Accepted(entries')
    BY <2>1, RValidFacts
  <2>3. TypeOK'
    BY <1>0, <2>1, <2>2, BoundsAssumption DEF TypeOK, Accepted
  <2>4. Writing'
    BY <2>1, <2>2 DEF Writing
  <2>5. Loading' /\ Agreeing'
    BY <1>0, <2>1 DEF Loading, Agreeing
  <2>. QED  BY <2>3, <2>4, <2>5 DEF Inv
<1>4. CASE WriteTsv
  <2>1. /\ pc = "write_tsv" /\ pc' = "write_rds" /\ tsv' = entries /\ synced' = FALSE
        /\ UNCHANGED <<rds, state, held, entries, plan, text, changes, count, quiet>>
    BY <1>4 DEF WriteTsv
  <2>2. TypeOK'
    BY <1>0, <2>1 DEF TypeOK
  <2>3. Writing' /\ Loading' /\ Agreeing'
    BY <1>0, <2>1 DEF Writing, Loading, Agreeing
  <2>. QED  BY <2>2, <2>3 DEF Inv
<1>5. CASE WriteRds
  <2>1. /\ pc = "write_rds" /\ pc' = "idle" /\ rds' = entries
        /\ synced' = (tsv = entries)
        /\ UNCHANGED <<tsv, state, held, entries, plan, text, changes, count, quiet>>
    BY <1>5 DEF WriteRds
  <2>2. TypeOK'
    BY <1>0, <2>1 DEF TypeOK
  <2>3. Writing' /\ Loading' /\ Agreeing'
    BY <1>0, <2>1 DEF Writing, Loading, Agreeing
  <2>. QED  BY <2>2, <2>3 DEF Inv
<1>6. CASE Crash
  <2>1. /\ pc \in {"idle", "write_tsv", "write_rds"} /\ pc' = "idle" /\ held' = Failure
        /\ UNCHANGED <<tsv, rds, state, entries, plan, text, changes, count, synced, quiet>>
    BY <1>6 DEF Crash, files
  <2>2. TypeOK'
    BY <1>0, <2>1 DEF TypeOK
  <2>3. Writing' /\ Loading' /\ Agreeing'
    BY <1>0, <2>1 DEF Writing, Loading, Agreeing
  <2>. QED  BY <2>2, <2>3 DEF Inv
<1>7. CASE ReadManifest
  <2>1. /\ held' = RManifest /\ RManifest # Failure
        /\ UNCHANGED <<tsv, rds, state, pc, entries, plan, text, changes, count, synced, quiet>>
    BY <1>7 DEF ReadManifest, files, call
  <2>2. held' \in Manifest
    BY <1>0, <2>1, RFacts DEF Accepted
  <2>3. TypeOK'
    BY <1>0, <2>1, <2>2 DEF TypeOK
  <2>4. Writing' /\ Loading' /\ Agreeing'
    BY <1>0, <2>1 DEF Writing, Loading, Agreeing
  <2>. QED  BY <2>3, <2>4 DEF Inv
<1>8. CASE LoadFromR
  <2>1. /\ pc = "idle" /\ pc' = "manifest" /\ count < MaxCalls /\ count' = count + 1
        /\ quiet' = TRUE /\ entries' = RManifest /\ RManifest # Failure /\ plan' = <<>>
        /\ UNCHANGED <<tsv, rds, state, held, changes, synced, text>>
    BY <1>8 DEF LoadFromR, Starts, files
  <2>2. entries' \in Manifest /\ <<>> \in Manifest /\ text = <<>>
    BY <1>0, <2>1, RFacts, ManifestSeq DEF Accepted, Loading
  <2>3. TypeOK'
    BY <1>0, <2>1, <2>2, BoundsAssumption DEF TypeOK
  <2>4. Writing' /\ Loading'
    BY <1>0, <2>1, <2>2 DEF Writing, Loading
  <2>5. Agreeing'
    BY <1>0, <2>1, ReadersAgree DEF Agreeing
  <2>. QED  BY <2>3, <2>4, <2>5 DEF Inv
<1>9. CASE LoadNative
  <2>1. /\ pc = "idle" /\ pc' = "manifest" /\ count < MaxCalls /\ count' = count + 1
        /\ quiet' = TRUE /\ entries' = <<>> /\ plan' = <<>>
        /\ UNCHANGED <<tsv, rds, state, held, changes, synced, text>>
    BY <1>9 DEF LoadNative, Starts, files
  <2>2. <<>> \in Manifest /\ text = <<>>
    BY <1>0, <2>1, ManifestSeq DEF Loading
  <2>3. TypeOK'
    BY <1>0, <2>1, <2>2, BoundsAssumption DEF TypeOK
  <2>4. Writing' /\ Loading' /\ Agreeing'
    BY <1>0, <2>1, <2>2 DEF Writing, Loading, Agreeing
  <2>. QED  BY <2>3, <2>4 DEF Inv
<1>10. CASE LoadWithManifest
  <2>1. /\ pc = "idle" /\ pc' = "pieces" /\ count < MaxCalls /\ count' = count + 1
        /\ quiet' = TRUE /\ entries' = RValid(held) /\ plan' = RValid(held)
        /\ held # Failure /\ RValid(held) # Failure
        /\ UNCHANGED <<tsv, rds, state, held, changes, synced, text>>
    BY <1>10 DEF LoadWithManifest, Starts, files
  <2>2. held \in Manifest /\ text = <<>>
    BY <1>0, <2>1 DEF TypeOK, Loading
  <2>3. plan' \in Manifest /\ Ascends(plan') /\ plan' # <<>> /\ entries' = plan'
    BY <2>1, <2>2, RValidFacts DEF Accepted
  <2>4. Len(plan') \in Nat
    BY <2>3, ManifestSeq
  <2>5. TypeOK'
    BY <1>0, <2>1, <2>2, <2>3, <2>4, BoundsAssumption DEF TypeOK
  <2>6. Writing' /\ Loading' /\ Agreeing'
    BY <1>0, <2>1, <2>2, <2>3 DEF Writing, Loading, Agreeing
  <2>. QED  BY <2>5, <2>6 DEF Inv
<1>11. CASE ReadTsv
  <2>1. /\ pc = "manifest"
        /\ IF CppManifest = Failure
             THEN pc' = "failed" /\ plan' = plan
             ELSE pc' = "pieces" /\ plan' = CppManifest
        /\ UNCHANGED <<tsv, rds, state, held, entries, text, changes, count, synced, quiet>>
    BY <1>11 DEF ReadTsv, files
  <2>2. text = <<>>
    BY <1>0, <2>1 DEF Loading
  <2>3. CASE CppManifest = Failure
    <3>1. TypeOK'
      BY <1>0, <2>1, <2>3 DEF TypeOK
    <3>2. Writing' /\ Loading' /\ Agreeing'
      BY <1>0, <2>1, <2>2, <2>3 DEF Writing, Loading, Agreeing
    <3>. QED  BY <3>1, <3>2 DEF Inv
  <2>4. CASE CppManifest # Failure
    <3>1. /\ plan' = ByRank(tsv) /\ plan' \in Manifest /\ Ascends(plan')
          /\ ToSet(plan') = ToSet(tsv)
      BY <1>0, <2>1, <2>4, CppFacts DEF Accepted
    <3>2. Len(plan') \in Nat
      BY <3>1, ManifestSeq
    <3>3. TypeOK'
      BY <1>0, <2>1, <2>2, <2>4, <3>1, <3>2 DEF TypeOK
    <3>4. Writing' /\ Loading'
      BY <1>0, <2>1, <2>2, <2>4, <3>1 DEF Writing, Loading
    <3>5. Agreeing'
      BY <1>0, <2>1, <2>4, <3>1, ManifestSeq DEF Agreeing
    <3>. QED  BY <3>3, <3>4, <3>5 DEF Inv
  <2>. QED  BY <2>3, <2>4
<1>12. CASE AppendPiece
  <2>1. /\ pc = "pieces" /\ Len(text) < Len(plan)
        /\ UNCHANGED <<tsv, rds, state, held, entries, plan, changes, count, synced, quiet>>
    BY <1>12 DEF AppendPiece, files
  <2>. DEFINE p == plan[Len(text) + 1].piece
  <2>2. \/ pc' = "failed" /\ text' = text
        \/ pc' = pc /\ text' = Append(text, p)
    BY <1>12 DEF AppendPiece
  <2>3. text \in Seq(Piece) /\ plan \in Seq(Row) /\ Len(text) \in Nat /\ Len(plan) \in Nat
    <3>1. text \in Seq(Piece) /\ plan \in Seq(Row)
      BY <1>0, ManifestSeq DEF TypeOK
    <3>. QED  BY <3>1
  <2>4. p \in Piece
    <3>1. Len(text) + 1 \in 1..Len(plan)
      BY <2>1, <2>3
    <3>2. plan[Len(text) + 1] \in Row
      BY <2>3, <3>1
    <3>3. plan[Len(text) + 1] \in [rank : Int, whole : BOOLEAN, piece : Piece]
      BY <3>2, RowAssumption, Zenon
    <3>. QED  BY <3>3
  <2>. HIDE DEF p
  <2>5. CASE pc' = "failed" /\ text' = text
    <3>1. TypeOK'
      BY <1>0, <2>1, <2>5 DEF TypeOK
    <3>2. Writing' /\ Loading' /\ Agreeing'
      BY <1>0, <2>1, <2>5 DEF Writing, Loading, Agreeing
    <3>. QED  BY <3>1, <3>2 DEF Inv
  <2>6. CASE pc' = pc /\ text' = Append(text, p)
    <3>1. /\ text' \in Seq(Piece) /\ Len(text') = Len(text) + 1
          /\ \A i \in 1..Len(text) : text'[i] = text[i]
          /\ text'[Len(text) + 1] = p
      BY <2>3, <2>4, <2>6, AppendFacts
    <3>2. \A i \in 1..Len(text') : i \in 1..Len(text) \/ i = Len(text) + 1
      BY <2>3, <3>1
    <3>3. \A i \in 1..Len(text') : text'[i] = plan[i].piece
      BY <1>0, <2>1, <3>1, <3>2 DEF Loading, p
    <3>4. Len(text') <= Len(plan)
      BY <2>1, <2>3, <3>1
    <3>5. TypeOK'
      BY <1>0, <2>1, <2>6, <3>1, <3>4 DEF TypeOK
    <3>6. Writing' /\ Agreeing'
      BY <1>0, <2>1, <2>6 DEF Writing, Agreeing
    <3>7. Loading'
      BY <1>0, <2>1, <2>6, <3>3 DEF Loading
    <3>. QED  BY <3>5, <3>6, <3>7 DEF Inv
  <2>. QED  BY <2>2, <2>5, <2>6
<1>13. CASE Return
  <2>1. /\ pc = "pieces" /\ pc' = "returned" /\ Len(text) = Len(plan)
        /\ UNCHANGED <<tsv, rds, state, held, entries, plan, text, changes, count, synced, quiet>>
    BY <1>13 DEF Return, files
  <2>2. TypeOK'
    BY <1>0, <2>1 DEF TypeOK
  <2>3. Writing' /\ Loading' /\ Agreeing'
    BY <1>0, <2>1 DEF Writing, Loading, Agreeing
  <2>. QED  BY <2>2, <2>3 DEF Inv
<1>14. CASE NextCall
  <2>1. /\ pc' = "idle" /\ entries' = <<>> /\ plan' = <<>> /\ text' = <<>>
        /\ UNCHANGED <<tsv, rds, state, held, changes, count, synced, quiet>>
    BY <1>14 DEF NextCall, files
  <2>2. <<>> \in Manifest
    BY ManifestSeq
  <2>3. TypeOK'
    BY <1>0, <2>1, <2>2 DEF TypeOK
  <2>4. Writing' /\ Loading' /\ Agreeing'
    BY <1>0, <2>1 DEF Writing, Loading, Agreeing
  <2>. QED  BY <2>3, <2>4 DEF Inv
<1>15. CASE UNCHANGED vars
  <2>1. UNCHANGED <<tsv, rds, state, held, pc, entries, plan, text, changes, count, synced, quiet>>
    BY <1>15 DEF vars, files, call
  <2>2. TypeOK'
    BY <1>0, <2>1 DEF TypeOK
  <2>3. Writing' /\ Loading' /\ Agreeing'
    BY <1>0, <2>1 DEF Writing, Loading, Agreeing
  <2>. QED  BY <2>2, <2>3 DEF Inv
<1>. QED
  BY <1>1, <1>2, <1>3, <1>4, <1>5, <1>6, <1>7, <1>8, <1>9, <1>10, <1>11, <1>12,
     <1>13, <1>14, <1>15 DEF Next

\* The invariant holds through any number of edits, calls and crashes.
THEOREM PreloadInvariance == Spec => []Inv
BY InitInv, NextInv, PTL DEF Spec

\* The files, the call and the counters keep their types.
THEOREM PreloadTypes == Spec => []TypeOK
BY PreloadInvariance, PTL DEF Inv

(***************************************************************************)
(* A text that load_program_preload returns has the piece of every row of  *)
(* one manifest, by rank, whichever way it was asked for; a native caller  *)
(* whom nobody disturbs gets the rows of the tsv as it is.                 *)
(***************************************************************************)
THEOREM ReturnsWholeManifest == Spec => []TextFollowsManifest
<1>1. Inv => TextFollowsManifest
  <2>. SUFFICES ASSUME Inv, pc = "returned"
                PROVE  /\ \A i, j \in 1..Len(plan) : i < j => plan[i].rank < plan[j].rank
                       /\ text = [i \in 1..Len(plan) |-> plan[i].piece]
                       /\ quiet /\ entries = <<>> => ToSet(plan) = ToSet(tsv)
    BY DEF TextFollowsManifest
  <2>1. /\ Ascends(plan) /\ Len(text) = Len(plan)
        /\ \A i \in 1..Len(text) : text[i] = plan[i].piece
        /\ quiet /\ entries = <<>> => ToSet(plan) = ToSet(tsv)
        /\ text \in Seq(Piece)
    BY DEF Inv, Loading, TypeOK
  <2>2. text = [i \in 1..Len(plan) |-> plan[i].piece]
    <3>1. text = [i \in 1..Len(text) |-> text[i]]
      BY <2>1
    <3>. QED  BY <2>1, <3>1
  <2>. QED  BY <2>1, <2>2 DEF Ascends
<1>. QED  BY PreloadInvariance, <1>1, PTL

(***************************************************************************)
(* After a complete write, and until the tsv is edited, R and C++ read the *)
(* same manifest, and the number of entries R reports is that of the       *)
(* pieces in the text, although the two come from two files.               *)
(***************************************************************************)
THEOREM OneManifestTwoFiles == Spec => []WrittenFilesAgree
<1>1. Inv => WrittenFilesAgree
  <2>. SUFFICES ASSUME Inv, synced
                PROVE  /\ RManifest # Failure /\ RManifest = CppManifest
                       /\ pc = "returned" /\ quiet => Len(entries) \in {0, Len(text)}
    BY DEF WrittenFilesAgree
  <2>1. TypeOK /\ Loading /\ Agreeing
    BY DEF Inv
  <2>2. RManifest # Failure /\ RManifest = CppManifest
    BY <2>1, ReadersAgree DEF Agreeing
  <2>. QED  BY <2>1, <2>2 DEF Agreeing, Loading
<1>. QED  BY PreloadInvariance, <1>1, PTL

(***************************************************************************)
(* The rds never is ahead of the tsv: what a write stores there was in the *)
(* tsv just before.                                                        *)
(***************************************************************************)
THEOREM RdsIsBehind == Spec => RdsFollowsTsv
<1>1. Inv /\ [Next]_vars => [rds' # rds /\ quiet => rds' = tsv]_vars
  <2>. SUFFICES ASSUME Inv, Next, rds' # rds, quiet PROVE rds' = tsv
    OBVIOUS
  <2>1. WriteRds
    BY DEF Next, EditTsv, StartWrite, ChangePiece, Edited, Starts, files, call,
           ReadManifest, LoadFromR, LoadNative, LoadWithManifest, Crash, WriteTsv,
           ReadTsv, AppendPiece, Return, NextCall
  <2>. QED  BY <2>1 DEF WriteRds, Inv, Writing
<1>. QED  BY PreloadInvariance, <1>1, PTL DEF Spec, RdsFollowsTsv
=============================================================================
