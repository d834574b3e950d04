------------------------- MODULE NativeLibraryCall -------------------------
(***************************************************************************)
(* A package that calls opencltools from C++ (opencltools_capi.h): every   *)
(* call looks up a registered routine once and keeps the pointer; a string *)
(* comes back in a block of memory the caller has to free, or as NULL.     *)
(* load_kernel_library runs step by step, as CppLibrarySort has it; of the *)
(* other loaders it is left open whether they return a text or throw.      *)
(***************************************************************************)
EXTENDS CppLibrarySort

CONSTANT OtherLoader   \* the other string routines the package calls

LibraryLoader == "opencltools_load_kernel_library"
FreeRoutine == "opencltools_free_cstr"

Loader == OtherLoader \cup {LibraryLoader}
Callable == Loader \cup {FreeRoutine}

ASSUME LoaderAssumption == {LibraryLoader, FreeRoutine} \cap OtherLoader = {}

VARIABLES
  registered,   \* R has the routines of opencltools
  resolved,     \* the accessors whose static `fn` is set
  answer,       \* [Loader -> what its last call came to]
  heap          \* the allocated blocks: who returned them, and their text

nativeVars == <<registered, resolved, answer, heap>>
allVars == <<vars, nativeVars>>

Block == [of : Loader, text : Seq(Files)]

\* What a loader allocates for its text; only the library's is told apart.
BlockOf(l) == [of |-> l, text |-> IF l = LibraryLoader THEN output ELSE <<>>]

-----------------------------------------------------------------------------

NativeInit ==
  /\ Init
  /\ registered = FALSE
  /\ resolved = {}
  /\ answer = [l \in Loader |-> "none"]
  /\ heap = {}

\* .onLoad registers all routines together.
OnLoad ==
  /\ ~registered
  /\ registered' = TRUE
  /\ UNCHANGED <<vars, resolved, answer, heap>>

\* Mutant: the accessor stores what it was given, found or not.
Resolve_KeepsNull(name) == resolved' = resolved \cup {name}

\* An accessor asks R at its first call, and keeps only what was found.
Resolve(name) ==
  resolved' = IF registered THEN resolved \cup {name} ELSE resolved

\* Rf_error ends the call: "check package version/load order".
Unresolved(name) == name \notin resolved /\ ~registered

InCall == answer[LibraryLoader] = "calling"

\* The caller holds no block of this loader, and calls it (again).
Invoke(l) ==
  /\ ~InCall
  /\ answer[l] # "text"
  /\ Resolve(l)
  /\ UNCHANGED <<vars, registered>>

LookupFails(l) ==
  /\ Invoke(l)
  /\ Unresolved(l)
  /\ answer' = [answer EXCEPT ![l] = "error"]
  /\ UNCHANGED heap

\* A NULL argument comes back as NULL, before anything is loaded; so does a
\* call of another loader that throws.
GivesNull(l) ==
  /\ Invoke(l)
  /\ ~Unresolved(l)
  /\ answer' = [answer EXCEPT ![l] = "null"]
  /\ UNCHANGED heap

CallLibrary ==
  /\ pc = "scan"
  /\ Invoke(LibraryLoader)
  /\ ~Unresolved(LibraryLoader)
  /\ answer' = [answer EXCEPT ![LibraryLoader] = "calling"]
  /\ UNCHANGED heap

LoadStep ==
  /\ InCall
  /\ Call
  /\ UNCHANGED nativeVars

\* malloc and memcpy; the caller gets NULL when there is no memory.
CopyText ==
  /\ InCall
  /\ pc = "returned"
  /\ \/ /\ heap' = heap \cup {BlockOf(LibraryLoader)}
        /\ answer' = [answer EXCEPT ![LibraryLoader] = "text"]
     \/ /\ heap' = heap
        /\ answer' = [answer EXCEPT ![LibraryLoader] = "null"]
  /\ UNCHANGED <<vars, registered, resolved>>

\* catch (...): no exception crosses the C interface.
CatchAll ==
  /\ InCall
  /\ pc \in Ended \ {"returned"}
  /\ answer' = [answer EXCEPT ![LibraryLoader] = "null"]
  /\ UNCHANGED <<vars, registered, resolved, heap>>

\* The same for the other loaders, when there is a text and memory for it.
CallOther(l) ==
  /\ Invoke(l)
  /\ ~Unresolved(l)
  /\ heap' = heap \cup {BlockOf(l)}
  /\ answer' = [answer EXCEPT ![l] = "text"]

\* Freeing NULL does nothing.
FreeText(l) ==
  /\ ~InCall
  /\ answer[l] \in {"text", "null"}
  /\ Resolve(FreeRoutine)
  /\ heap' = IF answer[l] = "text" THEN heap \ {BlockOf(l)} ELSE heap
  /\ answer' = [answer EXCEPT ![l] = "none"]
  /\ UNCHANGED <<vars, registered>>

Running == LoadStep \/ CopyText \/ CatchAll

NativeNext ==
  \/ OnLoad \/ CallLibrary \/ Running
  \/ \E l \in Loader : LookupFails(l) \/ GivesNull(l) \/ FreeText(l)
  \/ \E l \in OtherLoader : CallOther(l)
  \/ (\E f \in Files : RemoveFile(f)) /\ UNCHANGED nativeVars

NativeSpec == NativeInit /\ [][NativeNext]_allVars

\* A call runs to its end: nothing in it waits.  Nobody has to call.
FairNativeSpec == NativeSpec /\ WF_allVars(Running)

-----------------------------------------------------------------------------

NativeTypeOK ==
  /\ registered \in BOOLEAN
  /\ resolved \subseteq Callable
  /\ answer \in [Loader -> {"none", "error", "calling", "null", "text"}]
  /\ heap \subseteq Block

(***************************************************************************)
(* A native caller gets the text of a call that returned, and what it gets *)
(* is in a block of its own; no block exists for another call, be it one   *)
(* that threw, ran out of memory, was given NULL or was freed.  No         *)
(* accessor keeps a pointer from before the routines were registered.      *)
(***************************************************************************)
NativeAnswers ==
  /\ heap = {BlockOf(l) : l \in {k \in Loader : answer[k] = "text"}}
  /\ answer[LibraryLoader] = "text" => pc = "returned"
  /\ resolved # {} => registered

(***************************************************************************)
(* A native call is answered, whatever the library's dependencies are and  *)
(* whichever of its files disappear.                                       *)
(***************************************************************************)
CallAnswered == InCall ~> ~InCall
=============================================================================
