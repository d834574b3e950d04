--------------------------- MODULE ProgramPreload ---------------------------
(***************************************************************************)
(* The program preload: a manifest ranks the pieces (files and libraries)  *)
(* an OpenCL program starts with.  It is kept as a .tsv, which people edit *)
(* and the C++ loader reads, and as an .rds, which                         *)
(* write_program_preload_manifest adds and the R reader prefers.           *)
(* load_program_preload takes its entries from one and its text from the   *)
(* other.  One R session calls; people edit at any time.                   *)
(***************************************************************************)
EXTENDS Integers, FiniteSets, SequencesExt

CONSTANTS
  Piece,       \* what a row can name
  Row,         \* the rows that occur, with their mistakes
  MaxRows,     \* bound: rows of a manifest
  MaxEdits,    \* bound: changes that people make
  MaxCalls,    \* bound: calls of the session
  NoFile,      \* the .rds is not there
  Failure      \* an error instead of a manifest

\* A row whose rank has been cut off is a row.
ASSUME RowAssumption ==
  \A r \in Row : /\ r \in [rank : Int, whole : BOOLEAN, piece : Piece]
                 /\ [r EXCEPT !.whole = TRUE] \in Row
ASSUME BoundsAssumption == MaxRows \in Nat /\ MaxEdits \in Nat /\ MaxCalls \in Nat

VARIABLES
  tsv, rds,    \* the two files; the tsv is there from the start
  state,       \* [Piece -> "text", "empty" or "missing"]
  held,        \* a manifest the session has read and can pass on
  pc,          \* "idle", "write_tsv", "write_rds", "manifest", "pieces",
               \* "returned", "failed"
  entries,     \* the validated rows R works with
  plan,        \* the rows whose pieces are concatenated
  text,        \* the pieces concatenated so far
  changes, count,
  synced,      \* history: both files are as one write left them
  quiet        \* history: nobody changed anything during this call

files == <<tsv, rds, state>>
call == <<pc, entries, plan, text>>
vars == <<files, held, call, changes, count, synced, quiet>>

Manifest == UNION {[1..n -> Row] : n \in 0..MaxRows}

ASSUME NoManifestAssumption == NoFile \notin Manifest /\ Failure \notin Manifest

\* The rows by rank, for rows of which no two have the same one.
ByRank(rows) ==
  CHOOSE s \in [1..Len(rows) -> ToSet(rows)] :
    \A i, j \in 1..Len(rows) : i < j => s[i].rank < s[j].rank

-----------------------------------------------------------------------------
(***************************************************************************)
(* Reading a manifest.  A rank below 1 stands for every mistake in a row   *)
(* that both languages reject (kind, rel_path).  A rank with a fraction is *)
(* not: as.integer cuts it off in R, std::stoi leaves characters over,     *)
(* which C++ rejects.                                                      *)
(***************************************************************************)
Distinct(rows) ==
  \A i, j \in 1..Len(rows) : rows[i].rank = rows[j].rank => i = j

RanksOK(rows) ==
  rows # <<>> /\ Distinct(rows) /\ \A i \in 1..Len(rows) : rows[i].rank >= 1

\* .program_preload_validate_entries
RValid(rows) ==
  IF RanksOK(rows)
    THEN ByRank([i \in 1..Len(rows) |-> [rows[i] EXCEPT !.whole = TRUE]])
    ELSE Failure

\* Mutant: the rows stay in the order of the file.
CppManifest_FileOrder ==
  IF RanksOK(tsv) /\ \A i \in 1..Len(tsv) : tsv[i].whole THEN tsv ELSE Failure

\* read_program_preload_manifest in C++
CppManifest ==
  IF RanksOK(tsv) /\ \A i \in 1..Len(tsv) : tsv[i].whole
    THEN ByRank(tsv)
    ELSE Failure

\* read_program_preload_manifest in R, without manifest_path
RManifest ==
  IF rds # NoFile
    THEN RValid(rds)
    ELSE IF CppManifest # Failure THEN RValid(CppManifest) ELSE Failure

-----------------------------------------------------------------------------

Init ==
  /\ tsv \in Manifest
  /\ rds = NoFile
  /\ state = [p \in Piece |-> "text"]
  /\ held = Failure
  /\ pc = "idle"
  /\ entries = <<>>
  /\ plan = <<>>
  /\ text = <<>>
  /\ changes = 0
  /\ count = 0
  /\ synced = FALSE
  /\ quiet = TRUE

\* People edit the tsv, or a piece.
Edited ==
  /\ changes < MaxEdits
  /\ changes' = changes + 1
  /\ quiet' = FALSE
  /\ UNCHANGED <<rds, held, call, count>>

EditTsv(rows) ==
  /\ Edited
  /\ rows # tsv
  /\ tsv' = rows
  /\ synced' = FALSE
  /\ UNCHANGED state

ChangePiece(p, s) ==
  /\ Edited
  /\ state[p] # s
  /\ state' = [state EXCEPT ![p] = s]
  /\ UNCHANGED <<tsv, synced>>

Starts(to) ==
  /\ pc = "idle"
  /\ count < MaxCalls
  /\ pc' = to
  /\ count' = count + 1
  /\ quiet' = TRUE
  /\ UNCHANGED <<files, held, changes, synced, text>>

-----------------------------------------------------------------------------
(***************************************************************************)
(* write_program_preload_manifest of the rows given, or of the tsv's own.  *)
(***************************************************************************)

\* Mutant: the rows are validated, and written as they were given.
StartWrite_AsGiven(rows) ==
  /\ RValid(rows) # Failure
  /\ Starts("write_tsv")
  /\ entries' = rows
  /\ UNCHANGED plan

StartWrite(rows) ==
  /\ RValid(rows) # Failure
  /\ Starts("write_tsv")
  /\ entries' = RValid(rows)
  /\ UNCHANGED plan

\* Mutant: a tsv that is there is kept.
WriteTsv_KeepsOld ==
  /\ pc = "write_tsv"
  /\ pc' = "write_rds"
  /\ UNCHANGED <<files, held, entries, plan, text, changes, count, synced, quiet>>

WriteTsv ==
  /\ pc = "write_tsv"
  /\ tsv' = entries
  /\ pc' = "write_rds"
  /\ synced' = FALSE
  /\ UNCHANGED <<rds, state, held, entries, plan, text, changes, count, quiet>>

WriteRds ==
  /\ pc = "write_rds"
  /\ rds' = entries
  /\ pc' = "idle"
  /\ synced' = (tsv = entries)
  /\ UNCHANGED <<tsv, state, held, entries, plan, text, changes, count, quiet>>

\* The session dies while it writes, or between two calls.
Crash ==
  /\ pc \in {"idle", "write_tsv", "write_rds"}
  /\ held # Failure \/ pc # "idle"
  /\ pc' = "idle"
  /\ held' = Failure
  /\ UNCHANGED <<files, entries, plan, text, changes, count, synced, quiet>>

-----------------------------------------------------------------------------
(***************************************************************************)
(* load_program_preload.  Without a manifest, R reads one for the metadata *)
(* and hands over to C++, which reads the tsv; a native caller goes there  *)
(* at once; with a manifest, the pieces are those of its rows.             *)
(***************************************************************************)

ReadManifest ==
  /\ pc = "idle"
  /\ RManifest # Failure
  /\ held # RManifest
  /\ held' = RManifest
  /\ UNCHANGED <<files, call, changes, count, synced, quiet>>

\* A manifest that cannot be read ends the call before it began.
LoadFromR ==
  /\ RManifest # Failure
  /\ Starts("manifest")
  /\ entries' = RManifest
  /\ plan' = <<>>

LoadNative ==
  /\ Starts("manifest")
  /\ entries' = <<>>
  /\ plan' = <<>>

LoadWithManifest ==
  /\ held # Failure
  /\ RValid(held) # Failure
  /\ Starts("pieces")
  /\ entries' = RValid(held)
  /\ plan' = RValid(held)

ReadTsv ==
  /\ pc = "manifest"
  /\ IF CppManifest = Failure
       THEN pc' = "failed" /\ plan' = plan
       ELSE pc' = "pieces" /\ plan' = CppManifest
  /\ UNCHANGED <<files, held, entries, text, changes, count, synced, quiet>>

\* load_kernel_source or load_kernel_library: missing and empty pieces throw.
AppendPiece ==
  /\ pc = "pieces"
  /\ Len(text) < Len(plan)
  /\ LET p == plan[Len(text) + 1].piece
     IN  IF state[p] # "text"
           THEN pc' = "failed" /\ text' = text
           ELSE pc' = pc /\ text' = Append(text, p)
  /\ UNCHANGED <<files, held, entries, plan, changes, count, synced, quiet>>

Return ==
  /\ pc = "pieces"
  /\ Len(text) = Len(plan)
  /\ pc' = "returned"
  /\ UNCHANGED <<files, held, entries, plan, text, changes, count, synced, quiet>>

\* Mutant: the text of the call before is still there.
NextCall_KeepsText ==
  /\ pc \in {"returned", "failed"}
  /\ pc' = "idle"
  /\ entries' = <<>>
  /\ plan' = <<>>
  /\ UNCHANGED <<files, held, text, changes, count, synced, quiet>>

NextCall ==
  /\ pc \in {"returned", "failed"}
  /\ pc' = "idle"
  /\ entries' = <<>>
  /\ plan' = <<>>
  /\ text' = <<>>
  /\ UNCHANGED <<files, held, changes, count, synced, quiet>>

Next ==
  \/ WriteTsv \/ WriteRds \/ ReadTsv \/ AppendPiece \/ Return \/ NextCall
  \/ \E rows \in Manifest : EditTsv(rows) \/ StartWrite(rows)
  \/ \E p \in Piece, s \in {"text", "empty", "missing"} : ChangePiece(p, s)
  \/ ReadManifest \/ LoadFromR \/ LoadNative \/ LoadWithManifest \/ Crash

Spec == Init /\ [][Next]_vars

-----------------------------------------------------------------------------

TypeOK ==
  /\ tsv \in Manifest
  /\ rds \in Manifest \cup {NoFile}
  /\ state \in [Piece -> {"text", "empty", "missing"}]
  /\ held \in Manifest \cup {Failure}
  /\ pc \in {"idle", "write_tsv", "write_rds", "manifest", "pieces", "returned", "failed"}
  /\ entries \in Manifest
  /\ plan \in Manifest
  /\ text \in Seq(Piece) /\ Len(text) <= Len(plan)
  /\ changes \in 0..MaxEdits
  /\ count \in 0..MaxCalls
  /\ synced \in BOOLEAN /\ quiet \in BOOLEAN

(***************************************************************************)
(* A text that is returned, by whatever way, has the piece of every row of *)
(* one manifest, by rank; for a native caller, of the tsv as it is, if     *)
(* nobody touched it meanwhile.                                            *)
(***************************************************************************)
TextFollowsManifest ==
  pc = "returned" =>
    /\ \A i, j \in 1..Len(plan) : i < j => plan[i].rank < plan[j].rank
    /\ text = [i \in 1..Len(plan) |-> plan[i].piece]
    /\ quiet /\ entries = <<>> => ToSet(plan) = ToSet(tsv)

(***************************************************************************)
(* After a complete write, and until the tsv is edited, R and C++ read the *)
(* same manifest, and the number of entries R reports with a text is that  *)
(* of the pieces in it.                                                    *)
(***************************************************************************)
WrittenFilesAgree ==
  synced =>
    /\ RManifest # Failure
    /\ RManifest = CppManifest
    /\ pc = "returned" /\ quiet => Len(entries) \in {0, Len(text)}

(***************************************************************************)
(* The rds never is ahead of the tsv: what a write stores there was in the *)
(* tsv just before, so that an interrupt leaves the file people edit as    *)
(* the newer one.                                                          *)
(***************************************************************************)
RdsFollowsTsv == [][rds' # rds /\ quiet => rds' = tsv]_vars
=============================================================================
