------------------------ MODULE ConfigurePort_proof ------------------------
(***************************************************************************)
(* The build files of a ported package keep the developer's flags, for any *)
(* number of edits, calls, interrupts, installations and clones.           *)
(***************************************************************************)
EXTENDS ConfigurePort, TLAPS

\* A template that lacks the flags was made when src/Makevars lacked them.
TemplateCurrent ==
  \A os \in Platform :
    template[os] # NoFile /\ flags[os] # NoFile =>
      template[os] = flags[os] \/ makevars[os] # flags[os]

Settled ==
  \A os \in Platform : settled[os] => flags[os] # NoFile /\ template[os] = flags[os]

\* A call that ports began with a src/Makevars, and is the one expected.
Porting ==
  ~call.generic =>
    makevars["unix"] # NoFile /\ expected.live /\ expected.backup = call.backup

IInv == TypeOK /\ TemplateCurrent /\ Settled /\ Porting /\ Repeatable

\* What a script writes into src/Makevars is a Makevars, or no file.
LEMMA ConfiguredType ==
  ASSUME TypeOK, NEW os \in Platform, NEW sdk \in BOOLEAN
  PROVE  Configured(os, sdk) \in Content \cup {NoFile}
BY NoFileAssumption DEF TypeOK, Configured, Merged, Content, Files, Platform, Generic, Nothing

\* The flags a developer maintains are a Makevars.
LEMMA FlagsAreContent == Flags \subseteq Content
BY DEF Flags

\* A package before porting is well typed.
LEMMA InitTypeOK == Init => TypeOK
BY FlagsAreContent DEF Init, TypeOK, Files, NoFiles, Forgotten, Calls, Idle, Platform, Script

\* What a repeated call would leave is made of scripts and Makevars.
LEMMA OutcomeType ==
  ASSUME TypeOK, NEW b \in BOOLEAN
  PROVE  Outcome(b) \in [live : BOOLEAN, backup : BOOLEAN,
                         script : Files(Script), template : Files(Content)]
<1>1. [os \in Platform |->
         IF NoFile \in {makevars["unix"], makevars[os]} THEN "generic" ELSE "ported"]
      \in Files(Script)
  BY DEF Files, Script
<1>2. [os \in Platform |->
         IF b /\ makevars["unix"] # NoFile /\ template[os] = NoFile
           THEN makevars[os] ELSE template[os]] \in Files(Content)
  BY DEF Files, TypeOK
<1> QED BY <1>1, <1>2 DEF Outcome

LEMMA ForgottenType ==
  Forgotten \in [live : BOOLEAN, backup : BOOLEAN,
                 script : Files(Script), template : Files(Content)]
BY DEF Forgotten, NoFiles, Files

\* Every step of a call and every act of a developer keep the types.
LEMMA NextTypeOK == TypeOK /\ [Next]_vars => TypeOK'
<1> SUFFICES ASSUME TypeOK, [Next]_vars PROVE TypeOK'
  OBVIOUS
<1> USE FlagsAreContent, ForgottenType
<1>1. ASSUME NEW b \in BOOLEAN, NEW o \in BOOLEAN, StartPort(b, o) PROVE TypeOK'
  <2>1. call' \in Calls
    BY <1>1 DEF StartPort, Calls, Platform, Idle
  <2> QED BY <1>1, <2>1, OutcomeType DEF StartPort, TypeOK
<1>2. ASSUME NEW o \in BOOLEAN, StartUse(o) PROVE TypeOK'
  <2>1. call' \in Calls
    BY <1>2 DEF StartUse, Calls, Platform, Idle
  <2>2. settled' \in [Platform -> BOOLEAN]
    BY <1>2 DEF StartUse, TypeOK
  <2> QED BY <1>2, <2>1, <2>2 DEF StartUse, TypeOK
<1>3. ASSUME NEW os \in Platform, WriteScript(os) PROVE TypeOK'
  <2>1. call' \in Calls
    BY <1>3 DEF WriteScript, AfterScript, TypeOK, Calls, Platform, Idle
  <2>2. script' \in Files(Script)
    BY <1>3 DEF WriteScript, TypeOK, Files, Script
  <2> QED BY <1>3, <2>1, <2>2 DEF WriteScript, TypeOK
<1>4. ASSUME NEW os \in Platform, KeepTemplate(os) PROVE TypeOK'
  <2>1. call' \in Calls
    <3>1. Idle \in Calls
      BY DEF Calls, Idle, Platform
    <3>2. [call EXCEPT !.os = "windows", !.next = "script"] \in Calls
      BY DEF TypeOK, Calls, Platform
    <3> QED BY <1>4, <3>1, <3>2 DEF KeepTemplate, AfterTemplate
  <2>2. template' \in Files(Content)
    BY <1>4 DEF KeepTemplate, TypeOK, Files
  <2>3. settled' \in [Platform -> BOOLEAN]
    BY <1>4 DEF KeepTemplate, AfterTemplate, TypeOK, Calls
  <2> QED BY <1>4, <2>1, <2>2, <2>3 DEF KeepTemplate, TypeOK
<1>5. CASE Interrupt
  BY <1>5 DEF Interrupt, TypeOK, Calls, Idle, Platform
<1>6. CASE FreshClone
  <2>1. makevars' \in Files(Content)
    BY <1>6 DEF FreshClone, TypeOK, Files
  <2> QED BY <1>6, <2>1 DEF FreshClone, TypeOK
<1>7. ASSUME NEW os \in Platform, EditFlags(os) PROVE TypeOK'
  <2> DEFINE new == [flags[os] EXCEPT !.base = @ + 1]
  <2>1. new \in Flags
    BY <1>7, BoundsAssumption DEF EditFlags, TypeOK, Files, Flags, Content
  <2> QED BY <1>7, <2>1 DEF EditFlags, TypeOK, Files
<1>8. ASSUME NEW os \in Platform, NEW sdk \in BOOLEAN, Install(os, sdk) PROVE TypeOK'
  <2>1. makevars' \in Files(Content)
    BY <1>8, ConfiguredType DEF Install, TypeOK, Files
  <2> QED BY <1>8, <2>1 DEF Install, TypeOK
<1>9. CASE UNCHANGED vars
  BY <1>9 DEF vars, TypeOK
<1> QED BY <1>1, <1>2, <1>3, <1>4, <1>5, <1>6, <1>7, <1>8, <1>9 DEF Next, Tool, Developer

\* What a script makes while OpenCL or not is found, from a template that is
\* there: the template's flags.
LEMMA InstallKeepsCurrent ==
  ASSUME TypeOK, TemplateCurrent, NEW os \in Platform, NEW sdk \in BOOLEAN, Install(os, sdk)
  PROVE  TemplateCurrent'
<1> SUFFICES ASSUME NEW p \in Platform, template[p] # NoFile, flags[p] # NoFile
             PROVE  template[p] = flags[p] \/ makevars'[p] # flags[p]
  BY DEF TemplateCurrent, Install
<1>1. CASE p # os
  BY <1>1 DEF TemplateCurrent, Install, TypeOK, Files
<1>2. CASE p = os
  <2>1. makevars'[p] = Configured(p, sdk)
    BY <1>2 DEF Install, TypeOK, Files
  <2>2. flags[p].base # Generic /\ ~ flags[p].opencl
    BY DEF TypeOK, Files, Flags, Content, Generic
  <2>3. CASE script[p] = "ported"
    BY <2>1, <2>2, <2>3 DEF Configured, Merged
  <2>4. CASE script[p] = "generic"
    BY <2>1, <2>2, <2>4 DEF Configured
  <2>5. CASE script[p] \notin {"ported", "generic"}
    BY <2>1, <2>5 DEF Configured, TemplateCurrent
  <2> QED BY <2>3, <2>4, <2>5
<1> QED BY <1>1, <1>2

\* Templates are copied once, edited by the developer, and written by no one else.
LEMMA NextTemplateCurrent == TypeOK /\ TemplateCurrent /\ [Next]_vars => TemplateCurrent'
<1> SUFFICES ASSUME TypeOK, TemplateCurrent, [Next]_vars PROVE TemplateCurrent'
  OBVIOUS
<1>1. ASSUME UNCHANGED <<makevars, template, flags>> PROVE TemplateCurrent'
  BY <1>1 DEF TemplateCurrent
<1>2. ASSUME NEW os \in Platform, KeepTemplate(os) PROVE TemplateCurrent'
  BY <1>2 DEF KeepTemplate, TemplateCurrent, TypeOK, Files
<1>3. CASE FreshClone
  BY <1>3 DEF FreshClone, TemplateCurrent, TypeOK, Files
<1>4. ASSUME NEW os \in Platform, EditFlags(os) PROVE TemplateCurrent'
  <2> DEFINE new == [flags[os] EXCEPT !.base = @ + 1]
  <2>1. CASE template[os] # NoFile
    BY <1>4, <2>1 DEF EditFlags, TemplateCurrent, TypeOK, Files
  <2>2. CASE template[os] = NoFile
    BY <1>4, <2>2 DEF EditFlags, TemplateCurrent, TypeOK, Files
  <2> QED BY <2>1, <2>2
<1>5. ASSUME NEW os \in Platform, NEW sdk \in BOOLEAN, Install(os, sdk)
      PROVE  TemplateCurrent'
  BY <1>5, InstallKeepsCurrent
<1> QED
  BY <1>1, <1>2, <1>3, <1>4, <1>5
  DEF Next, Tool, Developer, StartPort, StartUse, WriteScript, Interrupt, vars

\* A settled package has its flags in the template, edit after edit.
LEMMA NextSettled == TypeOK /\ Settled /\ [Next]_vars => Settled'
<1> SUFFICES ASSUME TypeOK, Settled, [Next]_vars PROVE Settled'
  OBVIOUS
<1>1. ASSUME UNCHANGED <<template, flags, settled>> PROVE Settled'
  BY <1>1 DEF Settled
<1>2. ASSUME NEW o \in BOOLEAN, StartUse(o) PROVE Settled'
  BY <1>2 DEF StartUse, Settled, TypeOK
<1>3. ASSUME NEW os \in Platform, KeepTemplate(os) PROVE Settled'
  BY <1>3 DEF KeepTemplate, AfterTemplate, Settled, TypeOK, Files
<1>4. ASSUME NEW os \in Platform, EditFlags(os) PROVE Settled'
  <2> DEFINE new == [flags[os] EXCEPT !.base = @ + 1]
  <2>1. new \in Flags
    BY <1>4, BoundsAssumption DEF EditFlags, TypeOK, Files, Flags, Content
  <2>2. new # NoFile
    BY <2>1, NoFileAssumption DEF Flags
  <2> QED BY <1>4, <2>2 DEF EditFlags, Settled, TypeOK, Files
<1> QED
  BY <1>1, <1>2, <1>3, <1>4
  DEF Next, Tool, Developer, StartPort, WriteScript, Interrupt, FreshClone, Install, vars

\* While a call ports, nobody takes src/Makevars away.
LEMMA NextPorting == TypeOK /\ Porting /\ [Next]_vars => Porting'
<1> SUFFICES ASSUME TypeOK, Porting, [Next]_vars PROVE Porting'
  OBVIOUS
<1>1. ASSUME call' = Idle PROVE Porting'
  BY <1>1 DEF Porting, Idle
<1>2. ASSUME NEW b \in BOOLEAN, NEW o \in BOOLEAN, StartPort(b, o) PROVE Porting'
  BY <1>2 DEF StartPort, Porting, Outcome
<1>3. ASSUME NEW o \in BOOLEAN, StartUse(o) PROVE Porting'
  BY <1>3 DEF StartUse, Porting
<1>4. ASSUME NEW os \in Platform, WriteScript(os) PROVE Porting'
  BY <1>1, <1>4 DEF WriteScript, AfterScript, Porting, TypeOK, Calls
<1>5. ASSUME NEW os \in Platform, KeepTemplate(os) PROVE Porting'
  BY <1>1, <1>5 DEF KeepTemplate, AfterTemplate, Porting, TypeOK, Calls
<1>6. CASE UNCHANGED vars
  BY <1>6 DEF vars, Porting
<1> QED
  BY <1>1, <1>2, <1>3, <1>4, <1>5, <1>6
  DEF Next, Tool, Developer, Interrupt, FreshClone, EditFlags, Install

\* A call only does what its repetition would do.
LEMMA NextRepeatable == TypeOK /\ Porting /\ Repeatable /\ [Next]_vars => Repeatable'
<1> SUFFICES ASSUME TypeOK, Porting, Repeatable, [Next]_vars PROVE Repeatable'
  OBVIOUS
<1>1. ASSUME expected' = Forgotten PROVE Repeatable'
  BY <1>1 DEF Repeatable, Forgotten
<1>2. ASSUME UNCHANGED <<makevars, template, expected>> PROVE Repeatable'
  BY <1>2 DEF Repeatable, Outcome
<1>3. ASSUME NEW b \in BOOLEAN, NEW o \in BOOLEAN, StartPort(b, o) PROVE Repeatable'
  BY <1>3 DEF StartPort, Repeatable, Outcome
<1>4. ASSUME NEW os \in Platform, KeepTemplate(os) PROVE Repeatable'
  <2>1. makevars["unix"] # NoFile /\ expected.live /\ expected.backup = call.backup
    BY <1>4 DEF KeepTemplate, Porting, TypeOK, Calls
  <2>2. UNCHANGED <<makevars, expected>>
    BY <1>4 DEF KeepTemplate
  <2>3. [p \in Platform |->
           IF call.backup /\ makevars["unix"] # NoFile /\ template[p] = NoFile
             THEN makevars[p] ELSE template[p]]
      = [p \in Platform |->
           IF call.backup /\ makevars["unix"] # NoFile /\ template'[p] = NoFile
             THEN makevars[p] ELSE template'[p]]
    <3>1. ASSUME NEW p \in Platform
          PROVE  (IF call.backup /\ makevars["unix"] # NoFile /\ template[p] = NoFile
                    THEN makevars[p] ELSE template[p])
               = (IF call.backup /\ makevars["unix"] # NoFile /\ template'[p] = NoFile
                    THEN makevars[p] ELSE template'[p])
      BY <1>4, <2>1 DEF KeepTemplate, TypeOK, Files
    <3> QED BY <3>1
  <2>4. Repeatable' <=> (Outcome(call.backup) = expected)
    BY <2>1, <2>2, <2>3 DEF Outcome, Repeatable
  <2> QED BY <2>1, <2>4 DEF Repeatable
<1> QED
  BY <1>1, <1>2, <1>3, <1>4
  DEF Next, Tool, Developer, StartUse, WriteScript, Interrupt, FreshClone, EditFlags,
      Install, vars

\* A package before porting satisfies the invariant.
LEMMA InitIInv == Init => IInv
BY InitTypeOK
DEF Init, IInv, TemplateCurrent, Settled, Porting, Repeatable, NoFiles, Forgotten, Idle

\* The tools and the developers keep IInv.
THEOREM Invariance == Spec => []IInv
<1>1. IInv /\ [Next]_vars => IInv'
  BY NextTypeOK, NextTemplateCurrent, NextSettled, NextPorting, NextRepeatable DEF IInv
<1> QED BY InitIInv, <1>1, PTL DEF Spec

-----------------------------------------------------------------------------

\* The build files of a package, and the call at work on them, are well typed.
THEOREM TypeCorrect == Spec => []TypeOK
<1>1. IInv => TypeOK
  BY DEF IInv
<1> QED BY <1>1, Invariance, PTL

\* What the = lines set that a complete call with backup has ported reaches
\* every later build under the ported script, however often it is edited; the
\* += lines reach the builds without OpenCL, and no other.
THEOREM PortedFlagsReachBuilds == Spec => []FlagsReachBuild
<1>1. IInv => FlagsReachBuild
  <2> SUFFICES ASSUME IInv, NEW os \in Platform, settled[os], script[os] = "ported",
                      NEW sdk \in BOOLEAN
               PROVE  LET made == Configured(os, sdk)
                      IN  /\ made # NoFile
                          /\ made.base = flags[os].base
                          /\ made.append <=> flags[os].append /\ ~sdk
                          /\ made.opencl = sdk
                          /\ ~sdk => made = flags[os]
    BY DEF FlagsReachBuild, BuildsFlags
  <2>1. flags[os] \in Flags /\ flags[os] # NoFile /\ template[os] = flags[os]
    BY DEF IInv, TypeOK, Settled, Files
  <2>2. CASE sdk
    <3>1. Configured(os, sdk) = [base |-> flags[os].base, append |-> FALSE, opencl |-> TRUE]
      BY <2>1, <2>2 DEF Configured, Merged
    <3>2. Configured(os, sdk) \in Content
      BY <2>1, <3>1 DEF Flags, Content
    <3>3. Configured(os, sdk) # NoFile
      BY <3>2, NoFileAssumption
    <3>4. sdk = TRUE
      BY <2>2
    <3> QED BY <3>1, <3>3, <3>4
  <2>3. CASE ~sdk
    <3>1. Configured(os, sdk) = flags[os]
      BY <2>1, <2>3 DEF Configured
    <3>2. flags[os].opencl = FALSE
      BY <2>1 DEF Flags, Content
    <3>3. sdk = FALSE
      BY <2>3
    <3> QED BY <2>1, <3>1, <3>2, <3>3
  <2> QED BY <2>2, <2>3
<1> QED BY <1>1, Invariance, PTL

\* An interrupted or a complete porting call can be repeated: the files end
\* as one uninterrupted call would have left them.
THEOREM PortingIsRepeatable == Spec => []Repeatable
<1>1. IInv => Repeatable
  BY DEF IInv
<1> QED BY <1>1, Invariance, PTL

\* Only an installation without a kept template loses the developer's flags.
THEOREM OnlyUnkeptFlagsAreLost == Spec => FlagsLostOnlyUnkept
<1> DEFINE Unkept ==
      \A os \in Platform : OnDisk(os) /\ ~OnDisk(os)' =>
        /\ \E sdk \in BOOLEAN : Install(os, sdk)
        /\ \/ script[os] = "generic"
           \/ script[os] = "ported" /\ template[os] = NoFile
<1>1. IInv /\ [Next]_vars => [Unkept]_vars
  <2> SUFFICES ASSUME IInv, [Next]_vars, NEW p \in Platform, OnDisk(p), ~OnDisk(p)'
               PROVE  /\ \E sdk \in BOOLEAN : Install(p, sdk)
                      /\ \/ script[p] = "generic"
                         \/ script[p] = "ported" /\ template[p] = NoFile
    BY DEF vars
  <2> USE DEF IInv, TypeOK
  <2>1. ~ UNCHANGED <<makevars, template, flags>>
    BY DEF OnDisk
  <2>2. ASSUME NEW os \in Platform, KeepTemplate(os) PROVE FALSE
    BY <2>2 DEF KeepTemplate, OnDisk, Files
  <2>3. CASE FreshClone
    <3>1. makevars[p] = flags[p] /\ template[p] # NoFile
      BY <2>3 DEF FreshClone, OnDisk
    <3>2. flags[p] # NoFile
      BY <2>3 DEF FreshClone, OnDisk
    <3> QED BY <2>3, <3>1, <3>2 DEF FreshClone, OnDisk, TemplateCurrent
  <2>4. ASSUME NEW os \in Platform, EditFlags(os) PROVE FALSE
    <3> DEFINE new == [flags[os] EXCEPT !.base = @ + 1]
    <3>1. new \in Flags
      BY <2>4, BoundsAssumption DEF EditFlags, Files, Flags, Content
    <3>2. new # NoFile
      BY <3>1, NoFileAssumption DEF Flags
    <3>3. CASE p = os
      BY <2>4, <3>2, <3>3 DEF EditFlags, OnDisk, Files
    <3>4. CASE p # os
      BY <2>4, <3>4 DEF EditFlags, OnDisk, Files
    <3> QED BY <3>3, <3>4
  <2>5. ASSUME NEW os \in Platform, NEW sdk \in BOOLEAN, Install(os, sdk)
        PROVE  /\ Install(p, sdk)
               /\ \/ script[p] = "generic"
                  \/ script[p] = "ported" /\ template[p] = NoFile
    <3>1. p = os
      BY <2>5 DEF Install, OnDisk, Files
    <3>2. makevars' = [makevars EXCEPT ![p] = Configured(p, sdk)] /\ UNCHANGED <<template, flags>>
      BY <2>5, <3>1 DEF Install
    <3>3. CASE script[p] \notin {"generic", "ported"}
      BY <3>2, <3>3 DEF Configured, OnDisk, Files
    <3>4. CASE script[p] = "ported" /\ template[p] # NoFile
      <4>1. flags[p] # NoFile /\ template[p] # flags[p]
        BY <3>2, <3>4 DEF OnDisk
      <4>2. makevars[p] # flags[p]
        BY <4>1, <3>4 DEF TemplateCurrent
      <4> QED BY <4>1, <4>2 DEF OnDisk
    <3> QED BY <2>5, <3>1, <3>3, <3>4
  <2> QED
    BY <2>1, <2>2, <2>3, <2>4, <2>5
    DEF Next, Tool, Developer, StartPort, StartUse, WriteScript, Interrupt, vars
<1>2. [][Unkept]_vars => FlagsLostOnlyUnkept
  BY DEF FlagsLostOnlyUnkept
<1> QED BY <1>1, <1>2, Invariance, PTL DEF Spec
=============================================================================
