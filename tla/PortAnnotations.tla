-------------------------- MODULE PortAnnotations --------------------------
(***************************************************************************)
(* The dependency annotations of a kernel library: what a .cl file says    *)
(* about the files it needs, and what the two parsers of the package make  *)
(* of it.                                                                  *)
(*                                                                         *)
(* A stem (file name without .cl) is an integer: its place in the          *)
(* alphabetical order in which std::map, std::set and list.files present   *)
(* the files of a directory.  A file's header is the form of the line that *)
(* mentions @depends and the names on that line:                           *)
(*   "plain"     // @depends: a, b            as the documentation has it  *)
(*   "tight"     // @depends: a,b             no blank behind the comma    *)
(*   "spaced"    // @depends: a , b           a blank before it as well    *)
(*   "trailing"  int x;  // @depends: a, b    after code on the same line  *)
(*   "qualified" // @depends_nmath: a, b      the per-library tag that     *)
(*               attach_kernel_call_tags writes                            *)
(*   "bare"      // @depends                  nothing after the tag        *)
(* A header without names in the plain form stands for a file without any  *)
(* @depends line.                                                          *)
(***************************************************************************)
EXTENDS Integers, FiniteSets

CONSTANTS
  Stem,       \* the stems a library may hold, or its tags may mention
  Form,       \* the forms of header that occur in it
  MaxNames,   \* bound: the most names on one @depends line
  Foreign     \* a token that a parser reads and that names no file

ASSUME StemAssumption == Stem \subseteq Int
ASSUME ForeignAssumption == Foreign \notin Stem
ASSUME MaxNamesAssumption == MaxNames \in Nat
ASSUME FormAssumption ==
  Form \subseteq {"plain", "tight", "spaced", "trailing", "qualified", "bare"}

Name == Stem \cup {Foreign}

Header ==
  {h \in [form : Form, names : SUBSET Stem] :
     /\ Cardinality(h.names) <= MaxNames
     /\ h.form \in {"tight", "spaced"} => Cardinality(h.names) > 1
     /\ h.form = "bare" => h.names = {}}

\* The headers of a directory: a function on the stems present there.
Library(H) == UNION {[F -> H] : F \in SUBSET Stem}

-----------------------------------------------------------------------------

(***************************************************************************)
(* load_kernel_library looks for "@depends" anywhere in the line, skips    *)
(* one character and splits the rest at blanks, and then drops the commas  *)
(* of each token: names without a blank between them become one token, a   *)
(* comma that stands alone becomes the empty name, and the rest of a       *)
(* qualified tag is a token too.  On a bare tag std::string::substr throws *)
(* (CppUnreadable), and the scan ends.                                     *)
(***************************************************************************)
CppUnreadable(h) == h.form = "bare"

CppDepends(h) ==
  (IF h.form = "tight" THEN {} ELSE h.names)
    \cup (IF h.form \in {"tight", "spaced", "qualified"} THEN {Foreign} ELSE {})

(***************************************************************************)
(* parse_port_annotation wants the tag first on a comment line and a blank *)
(* or a colon behind it, splits at the commas and trims the names.         *)
(***************************************************************************)
RDepends(h) == IF h.form \in {"plain", "tight", "spaced"} THEN h.names ELSE {}
=============================================================================
