--------------------------- MODULE ConfigurePort ---------------------------
(***************************************************************************)
(* The build files of a package that is being ported: the static Makevars  *)
(* with the developer's flags, the configure scripts that                  *)
(* port_to_opencl_configure and use_opencl_configure leave, and what these *)
(* scripts write when the package is installed.  A call writes its files   *)
(* one by one and may be interrupted between two; developers edit their    *)
(* flags, clone the package without its ignored files, and repeat calls    *)
(* with other options.                                                     *)
(***************************************************************************)
EXTENDS Integers

CONSTANTS
  MaxEdits,   \* bound: how often the developer changes the flags
  NoFile

\* On "unix" the files are configure, src/Makevars and src/Makevars.in, on
\* "windows" configure.win, src/Makevars.win and src/Makevars.win.in.
Platform == {"unix", "windows"}

Generic == -1   \* LAPACK and BLAS only, as the generic scripts write them
Nothing == -2   \* no base flags at all

\* `base`: the values of the PKG_ variables; `append`: there are += lines;
\* `opencl`: -DUSE_OPENCL and -lOpenCL are in it.
Content ==
  [base : {Generic, Nothing} \cup 0..MaxEdits, append : BOOLEAN, opencl : BOOLEAN]

Flags == {c \in Content : c.base \in 0..MaxEdits /\ ~c.opencl}

Script == {"own", "generic", "ported"}

ASSUME BoundsAssumption == MaxEdits \in Nat

ASSUME NoFileAssumption == NoFile \notin Content \cup Script

VARIABLES
  makevars,   \* [Platform -> Content or NoFile]
  template,   \* the .in files
  script,     \* [Platform -> Script or NoFile]
  call,       \* the call in progress
  flags,      \* history: the file as the developer maintains it, or NoFile
  settled,    \* history: a complete call with backup ported these flags
  expected    \* history: what the last call is to leave, if it was to finish

vars == <<makevars, template, script, call, flags, settled, expected>>

Idle ==
  [generic |-> TRUE, backup |-> FALSE, overwrite |-> FALSE, os |-> "unix", next |-> "none"]

NoFiles == [os \in Platform |-> NoFile]

Forgotten == [live |-> FALSE, backup |-> FALSE, script |-> NoFiles, template |-> NoFiles]

\* Where a call to port_to_opencl_configure(overwrite = TRUE) leads from here.
Outcome(backup) ==
  [live |-> TRUE, backup |-> backup,
   script |-> [os \in Platform |->
     IF NoFile \in {makevars["unix"], makevars[os]} THEN "generic" ELSE "ported"],
   template |-> [os \in Platform |->
     IF backup /\ makevars["unix"] # NoFile /\ template[os] = NoFile
       THEN makevars[os] ELSE template[os]]]

-----------------------------------------------------------------------------
(***************************************************************************)
(* What the scripts do in an installation, with OpenCL found or not.       *)
(***************************************************************************)

\* Mutant: the ported script reads its base flags from the file it writes.
Merged_FromMakevars(os) ==
  [base |-> IF makevars[os] = NoFile THEN Nothing ELSE makevars[os].base,
   append |-> FALSE, opencl |-> TRUE]

\* The first `=` line of each variable is taken over; grep -v drops the rest
\* of them, and empties the file when there is no template.
Merged(os) ==
  [base |-> IF template[os] = NoFile THEN Nothing ELSE template[os].base,
   append |-> FALSE, opencl |-> TRUE]

\* A cp without a source changes nothing, and the script goes on.
Configured(os, sdk) ==
  CASE script[os] = "generic" ->
         [base |-> Generic, append |-> FALSE, opencl |-> sdk]
    [] script[os] = "ported" /\ sdk -> Merged(os)
    [] script[os] = "ported" /\ ~sdk /\ template[os] # NoFile -> template[os]
    [] OTHER -> makevars[os]

Install(os, sdk) ==
  /\ call = Idle
  /\ makevars' = [makevars EXCEPT ![os] = Configured(os, sdk)]
  /\ expected' = Forgotten
  /\ UNCHANGED <<template, script, call, flags, settled>>

-----------------------------------------------------------------------------

Init ==
  /\ flags \in [Platform -> {c \in Flags : c.base = 0} \cup {NoFile}]
  /\ makevars = flags
  /\ template = NoFiles
  /\ script \in [Platform -> {"own", NoFile}]
  /\ call = Idle
  /\ settled = [os \in Platform |-> FALSE]
  /\ expected = Forgotten

\* A configure script, but not a configure.win, makes the call refuse; with
\* no src/Makevars it is handed over to use_opencl_configure.
StartPort(backup, overwrite) ==
  /\ call = Idle
  /\ script["unix"] = NoFile \/ overwrite
  /\ call' = [generic |-> makevars["unix"] = NoFile, backup |-> backup,
              overwrite |-> overwrite, os |-> "unix", next |-> "script"]
  /\ expected' = Outcome(backup)
  /\ UNCHANGED <<makevars, template, script, flags, settled>>

StartUse(overwrite) ==
  /\ call = Idle
  /\ call' = [generic |-> TRUE, backup |-> FALSE, overwrite |-> overwrite,
              os |-> "unix", next |-> "script"]
  /\ settled' = [os \in Platform |-> settled[os] /\ ~overwrite]
  /\ expected' = Forgotten
  /\ UNCHANGED <<makevars, template, script, flags>>

\* Mutant: use_opencl_configure goes on to the templates.
AfterScript_Always(os) == [call EXCEPT !.next = "template"]

AfterScript(os) ==
  IF ~call.generic THEN [call EXCEPT !.next = "template"]
  ELSE IF os = "unix" THEN [call EXCEPT !.os = "windows"] ELSE Idle

\* A Makevars.win has its configure.win ported, overwrite or not.
WriteScript(os) ==
  /\ call.next = "script"
  /\ call.os = os
  /\ script' = [script EXCEPT ![os] =
       IF ~call.generic /\ makevars[os] # NoFile THEN "ported"
       ELSE IF script[os] = NoFile \/ call.overwrite THEN "generic" ELSE @]
  /\ call' = AfterScript(os)
  /\ UNCHANGED <<makevars, template, flags, settled, expected>>

\* What a call is to do after the template, and at its end.
AfterTemplate(os) ==
  IF os = "unix"
    THEN /\ call' = [call EXCEPT !.os = "windows", !.next = "script"]
         /\ settled' = settled
    ELSE /\ call' = Idle
         /\ settled' = [p \in Platform |->
              \/ settled[p]
              \/ /\ call.backup /\ script[p] = "ported"
                 /\ flags[p] # NoFile /\ template'[p] = flags[p]]

\* Mutant: the template is made anew from whatever src/Makevars is now.
KeepTemplate_Always(os) ==
  /\ call.next = "template"
  /\ call.os = os
  /\ template' = [template EXCEPT ![os] =
       IF call.backup /\ makevars[os] # NoFile THEN makevars[os] ELSE @]
  /\ AfterTemplate(os)
  /\ UNCHANGED <<makevars, script, flags, expected>>

\* Mutant: the file is renamed, as the manual page has it.
KeepTemplate_Renames(os) ==
  /\ call.next = "template"
  /\ call.os = os
  /\ template' = [template EXCEPT ![os] =
       IF call.backup /\ @ = NoFile THEN makevars[os] ELSE @]
  /\ makevars' = [makevars EXCEPT ![os] =
       IF call.backup /\ template[os] = NoFile THEN NoFile ELSE @]
  /\ AfterTemplate(os)
  /\ UNCHANGED <<script, flags, expected>>

KeepTemplate(os) ==
  /\ call.next = "template"
  /\ call.os = os
  /\ template' = [template EXCEPT ![os] =
       IF call.backup /\ @ = NoFile THEN makevars[os] ELSE @]
  /\ AfterTemplate(os)
  /\ UNCHANGED <<makevars, script, flags, expected>>

Interrupt ==
  /\ call # Idle
  /\ call' = Idle
  /\ UNCHANGED <<makevars, template, script, flags, settled, expected>>

\* The developer changes the flags in the template, where there is one.
EditFlags(os) ==
  /\ call = Idle
  /\ flags[os] # NoFile
  /\ flags[os].base < MaxEdits
  /\ LET new == [flags[os] EXCEPT !.base = @ + 1]
     IN  /\ flags' = [flags EXCEPT ![os] = new]
         /\ IF template[os] # NoFile
              THEN template' = [template EXCEPT ![os] = new] /\ makevars' = makevars
              ELSE makevars' = [makevars EXCEPT ![os] = new] /\ template' = template
  /\ expected' = Forgotten
  /\ UNCHANGED <<script, call, settled>>

\* A clone lacks what the tools advise to ignore: a Makevars that is made
\* from its template, or from nothing of the developer's.
FreshClone ==
  /\ call = Idle
  /\ script["unix"] \in {"generic", "ported"}
  /\ makevars' = [os \in Platform |->
       IF template[os] # NoFile \/ flags[os] = NoFile THEN NoFile ELSE makevars[os]]
  /\ expected' = Forgotten
  /\ UNCHANGED <<template, script, call, flags, settled>>

Tool ==
  \/ \E b, o \in BOOLEAN : StartPort(b, o)
  \/ \E o \in BOOLEAN : StartUse(o)
  \/ \E os \in Platform : WriteScript(os) \/ KeepTemplate(os)

Developer ==
  \/ Interrupt \/ FreshClone
  \/ \E os \in Platform : EditFlags(os)
  \/ \E os \in Platform, sdk \in BOOLEAN : Install(os, sdk)

Next == Tool \/ Developer

Spec == Init /\ [][Next]_vars

-----------------------------------------------------------------------------

Files(T) == [Platform -> T \cup {NoFile}]

Calls ==
  {c \in [generic : BOOLEAN, backup : BOOLEAN, overwrite : BOOLEAN,
          os : Platform, next : {"none", "script", "template"}] :
     /\ c.next = "template" => ~c.generic
     /\ c.next = "none" => c = Idle}

TypeOK ==
  /\ makevars \in Files(Content)
  /\ template \in Files(Content)
  /\ script \in Files(Script)
  /\ call \in Calls
  /\ flags \in Files(Flags)
  /\ settled \in [Platform -> BOOLEAN]
  /\ expected \in [live : BOOLEAN, backup : BOOLEAN,
                   script : Files(Script), template : Files(Content)]

\* What an installation makes has the values of the developer's = lines, and
\* OpenCL's exactly where OpenCL is.  Without it the file is the developer's
\* own; with it the += lines are dropped.
BuildsFlags(os) ==
  \A sdk \in BOOLEAN :
    LET made == Configured(os, sdk)
    IN  /\ made # NoFile
        /\ made.base = flags[os].base
        /\ made.append <=> flags[os].append /\ ~sdk
        /\ made.opencl = sdk
        /\ ~sdk => made = flags[os]

(***************************************************************************)
(* Once a complete call with backup has ported a developer's flags, every  *)
(* later build under the ported script has what their = lines set, as they *)
(* are maintained now: whatever was installed, cloned, repeated or         *)
(* interrupted since.  The += lines reach the builds without OpenCL and no *)
(* others, though the tool says of them that they "are preserved verbatim" *)
(* (R/port_to_opencl_configure.R:119-123).                                 *)
(***************************************************************************)
FlagsReachBuild ==
  \A os \in Platform : settled[os] /\ script[os] = "ported" => BuildsFlags(os)

\* The developer's flags are in the package, += lines included.
OnDisk(os) == flags[os] # NoFile => flags[os] \in {makevars[os], template[os]}

(***************************************************************************)
(* No call, complete or not and with whatever options, loses the flags of  *)
(* the developer, and no clone does.  Only an installation can, where a    *)
(* generic script overwrites them or a ported one finds no template.       *)
(***************************************************************************)
FlagsLostOnlyUnkept ==
  [][\A os \in Platform : OnDisk(os) /\ ~OnDisk(os)' =>
       /\ \E sdk \in BOOLEAN : Install(os, sdk)
       /\ \/ script[os] = "generic"
          \/ script[os] = "ported" /\ template[os] = NoFile]_vars

(***************************************************************************)
(* A porting call that was interrupted anywhere, or that has ended, can be *)
(* repeated with overwrite: that leaves the files which one uninterrupted  *)
(* call would have left.                                                   *)
(***************************************************************************)
Repeatable == expected.live => Outcome(expected.backup) = expected

(***************************************************************************)
(* "Maintain this file for your base build flags.  Re-run                  *)
(* port_to_opencl_configure(overwrite = TRUE) after changes."  (R/port_to_ *)
(* opencl_configure.R:160-161): the flags of a package that was ported, and *)
(* not handed to use_opencl_configure since, reach its builds.             *)
(***************************************************************************)
RerunKeepsFlags ==
  \A os \in Platform : settled[os] /\ call = Idle => BuildsFlags(os)
=============================================================================
