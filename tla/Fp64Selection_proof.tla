------------------------- MODULE Fp64Selection_proof -------------------------
(***************************************************************************)
(* Proofs about the device cache, for any number of threads, devices and   *)
(* calls, and any changes of the machine.                                  *)
(***************************************************************************)
EXTENDS Fp64Selection, TLAPS

\* A cache that may be shown to a caller.
Good ==
  /\ Whole(cache.valid, cache.reason, cache.slot)
  /\ cache.reason \notin {"reset", "uninitialized"}

Refreshing(t) == pc[t] \in {"enumerate", "probe", "store", "refreshed"}

\* Mutual exclusion: who is in a critical section holds the mutex.
Exclusion == \A t \in Thread : Critical(t) <=> mutex = t

(***************************************************************************)
(* What the holder of the mutex has made of the cache so far.  A refresh   *)
(* of an initialized cache was forced.                                     *)
(***************************************************************************)
Progress ==
  \A t \in Thread :
    /\ Refreshing(t) => op[t].kind # "reset" /\ (initialized => op[t].force)
    /\ pc[t] \in {"enumerate", "probe"} => cache = Invalid("uninitialized")
    /\ pc[t] = "store" => cache.valid /\ cache.reason = "" /\ cache.slot = None
    /\ pc[t] = "refreshed" => Good
    /\ pc[t] = "unlock" =>
         /\ initialized => Good
         /\ op[t].kind # "reset" => initialized

Released == mutex = NoThread /\ initialized => Good

(***************************************************************************)
(* A thread that reads through the reference without being overlapped      *)
(* reads a cache that nobody is changing.                                  *)
(***************************************************************************)
Reading ==
  \A t \in Thread :
    /\ pc[t] \in {"head", "body"} /\ ~ overlapped[t] =>
         Good /\ initialized /\ \A u \in Thread : ~ Refreshing(u)
    /\ pc[t] = "body" /\ ~ overlapped[t] =>
         info[t].ok = cache.valid /\ info[t].reason = cache.reason

IInv ==
  /\ TypeOK /\ Exclusion /\ Progress /\ Released /\ Reading /\ InfoConsistent

-----------------------------------------------------------------------------

\* "No device" is not one of the devices.
LEMMA SlotIsNotNone == \A s \in Slot : s # None
BY SlotAssumption, BoundAssumption DEF None

CacheType == [valid : BOOLEAN, reason : Reason, slot : Slot \cup {None}]

InfoType == [ok : BOOLEAN, reason : Reason, slot : Slot \cup {None},
             candidates : SUBSET Slot]

\* A cache without a selection is a cache.
LEMMA InvalidType == \A why \in Reason : Invalid(why) \in CacheType
BY DEF Invalid, CacheType

\* A report before and after its fields are read is a report.
LEMMA InfoTypes ==
  ASSUME NEW i \in InfoType, NEW c \in CacheType, NEW S \in SUBSET Slot
  PROVE  /\ [i EXCEPT !.ok = c.valid, !.reason = c.reason] \in InfoType
         /\ [i EXCEPT !.slot = c.slot, !.candidates = S] \in InfoType
         /\ NoInfo \in InfoType
BY DEF InfoType, CacheType, NoInfo, Reason

\* The conjuncts of TypeOK that a step of a thread can disturb.
ProcessTypeOK ==
  /\ mutex \in Thread \cup {NoThread}
  /\ initialized \in BOOLEAN
  /\ cache \in CacheType
  /\ pc \in [Thread -> {"idle", "lock", "enumerate", "probe", "store",
                        "refreshed", "unlock", "head", "body"}]
  /\ op \in [Thread -> Op]
  /\ stage \in [Thread -> {1, 2}]
  /\ cands \in [Thread -> SUBSET Slot]
  /\ info \in [Thread -> InfoType]
  /\ overlapped \in [Thread -> BOOLEAN]
  /\ changed \in BOOLEAN
  /\ calls \in 0..MaxCalls

MachineTypeOK ==
  /\ platforms \in 0..MaxPlatforms
  /\ exists \subseteq Slot /\ fp64 \subseteq exists
  /\ envP \in EnvIndex /\ envD \in EnvIndex
  /\ changes \in 0..MaxChanges

\* The type invariant in two parts, which few steps disturb both.
LEMMA TypeParts == TypeOK <=> ProcessTypeOK /\ MachineTypeOK
BY DEF TypeOK, ProcessTypeOK, MachineTypeOK, CacheType, InfoType

\* The library is loaded with all its state well typed.
LEMMA InitTypeOK == Init => TypeOK
<1>. SUFFICES ASSUME Init PROVE ProcessTypeOK /\ MachineTypeOK
  BY TypeParts
<1>1. Invalid("") \in CacheType
  BY InvalidType DEF Reason
<1>2. NoInfo \in InfoType
  BY DEF NoInfo, InfoType, Reason
<1>3. [kind |-> "ensure", force |-> FALSE] \in Op
  BY DEF Op
<1>4. ProcessTypeOK
  <2>1. /\ mutex = NoThread /\ initialized = FALSE /\ changed = FALSE
        /\ calls = 0 /\ cache = Invalid("")
    BY DEF Init
  <2>2. /\ pc \in [Thread -> {"idle", "lock", "enumerate", "probe", "store",
                              "refreshed", "unlock", "head", "body"}]
        /\ stage \in [Thread -> {1, 2}]
        /\ cands \in [Thread -> SUBSET Slot]
        /\ overlapped \in [Thread -> BOOLEAN]
    <3>1. /\ pc = [t \in Thread |-> "idle"] /\ stage = [t \in Thread |-> 1]
          /\ cands = [t \in Thread |-> {}] /\ overlapped = [t \in Thread |-> FALSE]
      BY DEF Init
    <3>2. cands \in [Thread -> SUBSET Slot] /\ overlapped \in [Thread -> BOOLEAN]
      BY <3>1
    <3>. QED  BY <3>1, <3>2
  <2>3. op \in [Thread -> Op] /\ info \in [Thread -> InfoType]
    BY <1>2, <1>3 DEF Init
  <2>4. calls \in 0..MaxCalls
    <3>1. calls = 0
      BY DEF Init
    <3>. QED  BY <3>1, BoundAssumption
  <2>. QED  BY <1>1, <2>1, <2>2, <2>3, <2>4 DEF ProcessTypeOK
<1>5. MachineTypeOK
  <2>1. exists \subseteq Slot /\ fp64 \subseteq exists
    BY ZenonT(30) DEF Init
  <2>2. platforms \in 0..MaxPlatforms /\ envP = -1 /\ envD = -1 /\ changes = 0
    BY DEF Init
  <2>. QED  BY <2>1, <2>2, BoundAssumption, EnvAssumption DEF MachineTypeOK
<1>. QED  BY <1>4, <1>5

\* A thread's step keeps the types of the process.
LEMMA StepTypeOK ==
  ASSUME ProcessTypeOK, MachineTypeOK, NEW t \in Thread
  PROVE  /\ \A o \in Op : Call(t, o) => ProcessTypeOK'
         /\ Step(t) \/ PlatformsFail(t) => ProcessTypeOK'
<1>. USE DEF ProcessTypeOK
<1>1. ASSUME NEW o \in Op, Call(t, o) PROVE ProcessTypeOK'
  <2>1. NoInfo \in InfoType
    BY DEF NoInfo, InfoType, Reason
  <2>. QED  BY <1>1, <2>1, BoundAssumption DEF Call
<1>2. CASE Reuse(t) \/ EndRefresh(t) \/ Unlock(t)
  BY <1>2 DEF Reuse, EndRefresh, Unlock
<1>3. CASE BeginRefresh(t) \/ Reset(t)
  <2>1. cache' \in CacheType
    BY <1>3, InvalidType DEF BeginRefresh, Reset, Reason
  <2>2. overlapped' \in [Thread -> BOOLEAN]
    BY <1>3 DEF BeginRefresh, Reset, Disturbed
  <2>. QED  BY <1>3, <2>1, <2>2 DEF BeginRefresh, Reset
<1>4. CASE Enumerate(t)
  <2>1. cache' \in CacheType
    <3>1. EmptyReason \in Reason
      BY DEF EmptyReason, Reason
    <3>. QED  BY <1>4, <3>1, InvalidType DEF Enumerate
  <2>2. Matching \in SUBSET Slot
    BY DEF Matching, MachineTypeOK
  <2>. QED  BY <1>4, <2>1, <2>2 DEF Enumerate
<1>5. CASE PlatformsFail(t)
  <2>1. cache' \in CacheType
    BY <1>5, InvalidType DEF PlatformsFail, Reason
  <2>. QED  BY <1>5, <2>1 DEF PlatformsFail
<1>6. ASSUME NEW s \in Slot,
             ProbeSucceeds(t, s) \/ ProbeFails(t, s) \/ StoreDevice(t, s)
      PROVE  ProcessTypeOK'
  <2>1. cache' \in CacheType
    <3>1. CASE ProbeSucceeds(t, s)
      BY <3>1 DEF ProbeSucceeds, CacheType, Reason
    <3>2. CASE ProbeFails(t, s)
      BY <3>2, InvalidType DEF ProbeFails, Reason
    <3>3. CASE StoreDevice(t, s)
      BY <3>3 DEF StoreDevice, CacheType
    <3>. QED  BY <1>6, <3>1, <3>2, <3>3
  <2>2. cands' \in [Thread -> SUBSET Slot]
    BY <1>6 DEF ProbeSucceeds, ProbeFails, StoreDevice
  <2>. QED  BY <1>6, <2>1, <2>2 DEF ProbeSucceeds, ProbeFails, StoreDevice
<1>7. CASE ReadHead(t)
  <2>1. info' = [info EXCEPT ![t] =
                   [info[t] EXCEPT !.ok = cache.valid, !.reason = cache.reason]]
    BY <1>7 DEF ReadHead
  <2>2. info' \in [Thread -> InfoType]
    BY <2>1, InfoTypes
  <2>. QED  BY <1>7, <2>2 DEF ReadHead
<1>8. CASE ReadBody(t)
  <2>1. info' = [info EXCEPT ![t] =
                   [info[t] EXCEPT !.slot = cache.slot, !.candidates = DetailsTable]]
    BY <1>8 DEF ReadBody
  <2>2. DetailsTable \in SUBSET Slot
    BY DEF DetailsTable, MachineTypeOK
  <2>3. info' \in [Thread -> InfoType]
    BY <2>1, <2>2, InfoTypes
  <2>. QED  BY <1>8, <2>3 DEF ReadBody
<1>. QED  BY <1>1, <1>2, <1>3, <1>4, <1>5, <1>6, <1>7, <1>8 DEF Step

\* Every step, and every change of the machine, keeps the types.
LEMMA NextTypeOK == TypeOK /\ [Next]_vars => TypeOK'
<1>. SUFFICES ASSUME ProcessTypeOK, MachineTypeOK, [Next]_vars
              PROVE  ProcessTypeOK' /\ MachineTypeOK'
  BY TypeParts DEF TypeOK, ProcessTypeOK, MachineTypeOK, CacheType, InfoType
<1>1. ASSUME NEW t \in Thread, Step(t) \/ \E o \in Op : Call(t, o)
      PROVE  UNCHANGED <<machine, changes>>
  BY <1>1 DEF Step, Call, Reuse, BeginRefresh, Enumerate, EndRefresh, Reset,
              Unlock, ReadHead, ReadBody, ProbeSucceeds, ProbeFails, StoreDevice
<1>2. ASSUME UNCHANGED <<machine, changes>> PROVE MachineTypeOK'
  BY <1>2 DEF MachineTypeOK, machine
<1>3. ASSUME NEW t \in Thread, PlatformsFail(t) PROVE MachineTypeOK'
  BY <1>3, BoundAssumption DEF PlatformsFail, MachineTypeOK, machine
<1>4. CASE Change
  <2>1. /\ changes < MaxChanges /\ changes' = changes + 1 /\ changed' = TRUE
        /\ UNCHANGED <<mutex, initialized, cache, pc, op, stage, cands, info,
                       overlapped, calls>>
    BY <1>4 DEF Change, threadVars
  <2>2. ASSUME NEW s \in Slot, Plug(s) \/ Unplug(s) \/ Redrive(s)
        PROVE  platforms' \in 0..MaxPlatforms /\ exists' \subseteq Slot
                 /\ fp64' \subseteq exists'
    <3>1. s[1] \in 0..(MaxPlatforms - 1)
      BY SlotAssumption
    <3>. QED
      BY <2>2, <3>1, BoundAssumption DEF Plug, Unplug, Redrive, MachineTypeOK
  <2>3. /\ platforms' \in 0..MaxPlatforms /\ exists' \subseteq Slot
        /\ fp64' \subseteq exists' /\ envP' \in EnvIndex /\ envD' \in EnvIndex
    BY <1>4, <2>2 DEF Change, Setenv, MachineTypeOK
  <2>4. ProcessTypeOK'
    BY <2>1 DEF ProcessTypeOK
  <2>. QED  BY <2>1, <2>3, <2>4, BoundAssumption DEF MachineTypeOK
<1>5. CASE UNCHANGED vars
  BY <1>5 DEF vars, machine, threadVars, ProcessTypeOK, MachineTypeOK
<1>. QED  BY <1>1, <1>2, <1>3, <1>4, <1>5, StepTypeOK DEF Next

-----------------------------------------------------------------------------

\* The critical sections of the code begin and end with the mutex.
LEMMA NextExclusion == TypeOK /\ Exclusion /\ [Next]_vars => Exclusion'
<1>. SUFFICES ASSUME TypeOK, Exclusion, [Next]_vars PROVE Exclusion'
  OBVIOUS
<1>. USE ThreadAssumption DEF TypeOK, Exclusion, Critical
<1>1. ASSUME NEW t \in Thread, NEW o \in Op, Call(t, o) PROVE Exclusion'
  BY <1>1 DEF Call
<1>2. ASSUME NEW t \in Thread, Reuse(t) \/ BeginRefresh(t) \/ Reset(t)
      PROVE  Exclusion'
  BY <1>2 DEF Reuse, BeginRefresh, Reset
<1>3. ASSUME NEW t \in Thread, Enumerate(t) \/ PlatformsFail(t) \/ EndRefresh(t)
      PROVE  Exclusion'
  BY <1>3 DEF Enumerate, PlatformsFail, EndRefresh
<1>4. ASSUME NEW t \in Thread, NEW s \in Slot,
             ProbeSucceeds(t, s) \/ ProbeFails(t, s) \/ StoreDevice(t, s)
      PROVE  Exclusion'
  BY <1>4 DEF ProbeSucceeds, ProbeFails, StoreDevice
<1>5. ASSUME NEW t \in Thread, Unlock(t) PROVE Exclusion'
  BY <1>5 DEF Unlock
<1>6. ASSUME NEW t \in Thread, ReadHead(t) \/ ReadBody(t) PROVE Exclusion'
  BY <1>6 DEF ReadHead, ReadBody
<1>7. CASE Change \/ UNCHANGED vars
  BY <1>7 DEF Change, vars, threadVars
<1>. QED  BY <1>1, <1>2, <1>3, <1>4, <1>5, <1>6, <1>7 DEF Next, Step

\* A thread in a critical section is the only one.
LEMMA Alone ==
  ASSUME Exclusion, NEW t \in Thread, NEW u \in Thread, Critical(t), Critical(u)
  PROVE  t = u
BY DEF Exclusion

\* What the steps outside critical sections leave alone.
LEMMA Outside ==
  ASSUME TypeOK, Exclusion, Progress, Released,
         UNCHANGED <<mutex, initialized, cache>>,
         \A t \in Thread : Critical(t) \/ Critical(t)' => pc'[t] = pc[t] /\ op'[t] = op[t]
  PROVE  Progress' /\ Released'
<1>1. Good' <=> Good
  BY DEF Good
<1>2. Released'
  BY <1>1 DEF Released
<1>3. ASSUME NEW t \in Thread, Critical(t)' PROVE pc'[t] = pc[t] /\ op'[t] = op[t]
  BY <1>3
<1>. QED  BY <1>1, <1>2, <1>3 DEF Progress, Refreshing, Critical

(***************************************************************************)
(* A step of thread t inside its critical section changes nothing for the  *)
(* others' part of Progress: none of them is in one.                       *)
(***************************************************************************)
LEMMA Inside ==
  ASSUME TypeOK, Exclusion, NEW t \in Thread, mutex \in {t, NoThread},
         \A u \in Thread \ {t} : pc'[u] = pc[u] /\ op'[u] = op[u],
         NEW u \in Thread, u # t
  PROVE  ~ Critical(u) /\ ~ Critical(u)' /\ ~ Refreshing(u) /\ ~ Refreshing(u)'
BY ThreadAssumption DEF Exclusion, Critical, Refreshing

\* A thread inside its critical section moves itself only.
LEMMA OthersStay ==
  ASSUME TypeOK, NEW t \in Thread,
         \/ Reuse(t) \/ BeginRefresh(t) \/ Enumerate(t) \/ EndRefresh(t)
         \/ Reset(t) \/ Unlock(t) \/ PlatformsFail(t)
         \/ \E s \in Slot : ProbeSucceeds(t, s) \/ ProbeFails(t, s) \/ StoreDevice(t, s)
  PROVE  /\ \A u \in Thread \ {t} : pc'[u] = pc[u] /\ op'[u] = op[u]
         /\ op' = op /\ info' = info
BY DEF TypeOK, Reuse, BeginRefresh, Enumerate, EndRefresh, Reset, Unlock,
       PlatformsFail, ProbeSucceeds, ProbeFails, StoreDevice

\* A refresh, a reset and a reuse leave the cache as the next holder may find it.
LEMMA NextProgress ==
  TypeOK /\ Exclusion /\ Progress /\ Released /\ [Next]_vars => Progress' /\ Released'
<1>. SUFFICES ASSUME TypeOK, Exclusion, Progress, Released, [Next]_vars
              PROVE  Progress' /\ Released'
  OBVIOUS
<1>0. Exclusion'
  BY NextExclusion
<1>1. ASSUME NEW t \in Thread, NEW o \in Op, Call(t, o) PROVE Progress' /\ Released'
  <2>1. \A u \in Thread : Critical(u) \/ Critical(u)' => pc'[u] = pc[u] /\ op'[u] = op[u]
    BY <1>1 DEF Call, TypeOK, Critical
  <2>2. UNCHANGED <<mutex, initialized, cache>>
    BY <1>1 DEF Call
  <2>. QED  BY <2>1, <2>2, Outside
<1>2. ASSUME NEW t \in Thread, ReadHead(t) \/ ReadBody(t) PROVE Progress' /\ Released'
  <2>1. \A u \in Thread : Critical(u) \/ Critical(u)' => pc'[u] = pc[u] /\ op'[u] = op[u]
    BY <1>2 DEF ReadHead, ReadBody, TypeOK, Critical
  <2>2. UNCHANGED <<mutex, initialized, cache>>
    BY <1>2 DEF ReadHead, ReadBody
  <2>. QED  BY <2>1, <2>2, Outside
<1>3. CASE Change \/ UNCHANGED vars
  <2>1. UNCHANGED <<mutex, initialized, cache, pc, op>>
    BY <1>3 DEF Change, vars, threadVars
  <2>. QED  BY <2>1, Outside
<1>4. ASSUME NEW t \in Thread, mutex \in {t, NoThread}, mutex' \in {t, NoThread},
             \A u \in Thread \ {t} : pc'[u] = pc[u] /\ op'[u] = op[u],
             op' = op, Critical(t) \/ Critical(t)',
             Refreshing(t)' => op[t].kind # "reset" /\ (initialized' => op[t].force),
             pc'[t] \in {"enumerate", "probe"} => cache' = Invalid("uninitialized"),
             pc'[t] = "store" =>
               cache'.valid /\ cache'.reason = "" /\ cache'.slot = None,
             pc'[t] = "refreshed" => Good',
             pc'[t] = "unlock" =>
               (initialized' => Good') /\ (op[t].kind # "reset" => initialized'),
             mutex' = NoThread /\ initialized' => Good'
      PROVE  Progress' /\ Released'
  <2>1. \A u \in Thread \ {t} : ~ Critical(u)' /\ ~ Refreshing(u)'
    BY <1>4, Inside
  <2>2. \A u \in Thread \ {t} :
          pc'[u] \notin {"enumerate", "probe", "store", "refreshed", "unlock"}
    BY <2>1 DEF Critical
  <2>. QED  BY <1>4, <2>1, <2>2 DEF Progress, Released
<1>5. ASSUME NEW t \in Thread, Reuse(t) PROVE Progress' /\ Released'
  <2>1. /\ mutex = NoThread /\ mutex' = t /\ pc'[t] = "unlock" /\ initialized
        /\ UNCHANGED <<initialized, cache>>
    BY <1>5 DEF Reuse, TypeOK
  <2>2. Good'
    BY <2>1 DEF Released, Good
  <2>. QED
    BY <1>4, <1>5, <2>1, <2>2, OthersStay, ThreadAssumption DEF Critical, Refreshing
<1>6. ASSUME NEW t \in Thread, BeginRefresh(t) PROVE Progress' /\ Released'
  <2>1. /\ mutex = NoThread /\ mutex' = t /\ pc'[t] = "enumerate"
        /\ initialized' = initialized /\ cache' = Invalid("uninitialized")
        /\ op[t].kind # "reset" /\ (initialized => op[t].force)
    BY <1>6 DEF BeginRefresh, TypeOK, Forced
  <2>. QED
    BY <1>4, <1>6, <2>1, OthersStay, ThreadAssumption DEF Critical, Refreshing
<1>7. ASSUME NEW t \in Thread, Reset(t) PROVE Progress' /\ Released'
  <2>1. /\ mutex = NoThread /\ mutex' = t /\ pc'[t] = "unlock"
        /\ initialized' = FALSE /\ op[t].kind = "reset"
    BY <1>7 DEF Reset, TypeOK
  <2>. QED
    BY <1>4, <1>7, <2>1, OthersStay, ThreadAssumption DEF Critical, Refreshing
\* The other steps of a critical section: the thread holds the mutex.
<1>8. ASSUME NEW t \in Thread, Critical(t)
      PROVE  mutex = t /\ t # NoThread
  BY <1>8, ThreadAssumption DEF Exclusion
<1>9. ASSUME NEW t \in Thread, Enumerate(t) PROVE Progress' /\ Released'
  <2>1. /\ pc[t] = "enumerate" /\ UNCHANGED <<mutex, initialized>>
        /\ \/ cache' = Invalid(EmptyReason) /\ pc'[t] = "refreshed"
           \/ cache' = cache /\ pc'[t] = "probe"
    BY <1>9 DEF Enumerate, TypeOK
  <2>2. cache' = Invalid(EmptyReason) => Good'
    BY DEF Good, Whole, Invalid, EmptyReason
  <2>3. op[t].kind # "reset" /\ (initialized => op[t].force)
        /\ cache = Invalid("uninitialized") /\ mutex = t /\ t # NoThread
    BY <1>8, <2>1 DEF Progress, Refreshing, Critical
  <2>. QED
    BY <1>4, <1>9, <2>1, <2>2, <2>3, OthersStay DEF Critical, Refreshing
<1>10. ASSUME NEW t \in Thread, PlatformsFail(t) PROVE Progress' /\ Released'
  <2>1. /\ pc[t] = "enumerate" /\ UNCHANGED <<mutex, initialized>>
        /\ cache' = Invalid("clGetPlatformIDs_failed") /\ pc'[t] = "refreshed"
    BY <1>10 DEF PlatformsFail, TypeOK
  <2>2. Good'
    BY <2>1 DEF Good, Whole, Invalid
  <2>3. op[t].kind # "reset" /\ (initialized => op[t].force)
        /\ mutex = t /\ t # NoThread
    BY <1>8, <2>1 DEF Progress, Refreshing, Critical
  <2>. QED
    BY <1>4, <1>10, <2>1, <2>2, <2>3, OthersStay DEF Critical, Refreshing
<1>11. ASSUME NEW t \in Thread, NEW s \in Slot, ProbeSucceeds(t, s)
       PROVE  Progress' /\ Released'
  <2>1. /\ pc[t] = "probe" /\ UNCHANGED <<mutex, initialized>>
        /\ cache' = [cache EXCEPT !.valid = TRUE, !.reason = ""] /\ pc'[t] = "store"
    BY <1>11 DEF ProbeSucceeds, TypeOK
  <2>2. op[t].kind # "reset" /\ (initialized => op[t].force)
        /\ cache = Invalid("uninitialized") /\ mutex = t /\ t # NoThread
    BY <1>8, <2>1 DEF Progress, Refreshing, Critical
  <2>3. cache'.valid /\ cache'.reason = "" /\ cache'.slot = None
    BY <2>1, <2>2 DEF Invalid
  <2>. QED
    BY <1>4, <1>11, <2>1, <2>2, <2>3, OthersStay DEF Critical, Refreshing
<1>12. ASSUME NEW t \in Thread, NEW s \in Slot, ProbeFails(t, s)
       PROVE  Progress' /\ Released'
  <2>1. /\ pc[t] = "probe" /\ UNCHANGED <<mutex, initialized>>
        /\ \/ cache' = Invalid("no_fp64_capable_device") /\ pc'[t] = "refreshed"
           \/ cache' = cache /\ pc'[t] = "probe"
    BY <1>12 DEF ProbeFails, TypeOK
  <2>2. cache' = Invalid("no_fp64_capable_device") => Good'
    BY DEF Good, Whole, Invalid
  <2>3. op[t].kind # "reset" /\ (initialized => op[t].force)
        /\ cache = Invalid("uninitialized") /\ mutex = t /\ t # NoThread
    BY <1>8, <2>1 DEF Progress, Refreshing, Critical
  <2>. QED
    BY <1>4, <1>12, <2>1, <2>2, <2>3, OthersStay DEF Critical, Refreshing
<1>13. ASSUME NEW t \in Thread, NEW s \in Slot, StoreDevice(t, s)
       PROVE  Progress' /\ Released'
  <2>1. /\ pc[t] = "store" /\ UNCHANGED <<mutex, initialized>>
        /\ cache' = [cache EXCEPT !.slot = s] /\ pc'[t] = "refreshed"
    BY <1>13 DEF StoreDevice, TypeOK
  <2>2. op[t].kind # "reset" /\ (initialized => op[t].force)
        /\ cache.valid /\ cache.reason = "" /\ mutex = t /\ t # NoThread
    BY <1>8, <2>1 DEF Progress, Refreshing, Critical
  <2>3. Good'
    BY <2>1, <2>2, SlotIsNotNone DEF Good, Whole, TypeOK
  <2>. QED
    BY <1>4, <1>13, <2>1, <2>2, <2>3, OthersStay DEF Critical, Refreshing
<1>14. ASSUME NEW t \in Thread, EndRefresh(t) PROVE Progress' /\ Released'
  <2>1. /\ pc[t] = "refreshed" /\ UNCHANGED <<mutex, cache>>
        /\ initialized' = TRUE /\ pc'[t] = "unlock"
    BY <1>14 DEF EndRefresh, TypeOK
  <2>2. Good /\ mutex = t /\ t # NoThread
    BY <1>8, <2>1 DEF Progress, Critical
  <2>3. Good'
    BY <2>1, <2>2 DEF Good
  <2>. QED
    BY <1>4, <1>14, <2>1, <2>2, <2>3, OthersStay DEF Critical, Refreshing
<1>15. ASSUME NEW t \in Thread, Unlock(t) PROVE Progress' /\ Released'
  <2>1. /\ pc[t] = "unlock" /\ mutex' = NoThread /\ UNCHANGED <<initialized, cache>>
        /\ pc'[t] \in {"idle", "lock", "head"}
    BY <1>15 DEF Unlock, TypeOK
  <2>2. (initialized => Good) /\ mutex = t
    BY <1>8, <2>1 DEF Progress, Critical
  <2>3. initialized' => Good'
    BY <2>1, <2>2 DEF Good
  <2>. QED
    BY <1>4, <1>15, <2>1, <2>2, <2>3, OthersStay DEF Critical, Refreshing
<1>. QED
  BY <1>1, <1>2, <1>3, <1>5, <1>6, <1>7, <1>9, <1>10, <1>11, <1>12, <1>13,
     <1>14, <1>15 DEF Next, Step

-----------------------------------------------------------------------------

\* What an unlocked read relies on is touched by nobody in this step.
LEMMA ReadersUntouched ==
  ASSUME TypeOK, Reading, InfoConsistent,
         UNCHANGED <<initialized, cache, overlapped, info, calls>>,
         \A t \in Thread : op'[t] = op[t],
         \A t \in Thread : pc'[t] \in {"head", "body", "idle"} => pc'[t] = pc[t],
         \A t \in Thread : Refreshing(t)' => Refreshing(t)
  PROVE  Reading' /\ InfoConsistent'
BY DEF Reading, InfoConsistent, Good

\* Whoever changes the cache after a thread took the reference marks it.
LEMMA ReadersDisturbed ==
  ASSUME TypeOK, Reading, InfoConsistent, overlapped' = Disturbed,
         UNCHANGED <<info, calls, op>>,
         \A t \in Thread : pc'[t] \in {"head", "body", "idle"} => pc'[t] = pc[t]
  PROVE  Reading' /\ InfoConsistent'
BY DEF Reading, InfoConsistent, Disturbed

\* A report is of one cache, or its reader was overlapped.
LEMMA NextReading ==
  /\ TypeOK /\ Exclusion /\ Progress /\ Reading /\ InfoConsistent /\ [Next]_vars
  => Reading' /\ InfoConsistent'
<1>. SUFFICES ASSUME TypeOK, Exclusion, Progress, Reading, InfoConsistent, [Next]_vars
              PROVE  Reading' /\ InfoConsistent'
  OBVIOUS
<1>1. ASSUME NEW t \in Thread, NEW o \in Op, Call(t, o)
      PROVE  Reading' /\ InfoConsistent'
  <2>1. /\ \A u \in Thread \ {t} : /\ pc'[u] = pc[u] /\ op'[u] = op[u]
                                   /\ info'[u] = info[u]
                                   /\ overlapped'[u] = overlapped[u]
        /\ pc'[t] = "lock" /\ pc[t] = "idle"
        /\ UNCHANGED <<initialized, cache>>
    BY <1>1 DEF Call, TypeOK
  <2>2. Good' <=> Good
    BY <2>1 DEF Good
  <2>3. Reading'
    BY <2>1, <2>2 DEF Reading, Refreshing
  <2>4. InfoConsistent'
    <3>1. ASSUME NEW u \in Thread, pc'[u] = "idle", op'[u].kind = "info",
                 ~ overlapped'[u]
          PROVE  /\ Whole(info'[u].ok, info'[u].reason, info'[u].slot)
                 /\ info'[u].reason \notin {"reset", "uninitialized"}
      <4>1. u # t
        BY <2>1, <3>1
      <4>2. pc[u] = "idle" /\ op[u].kind = "info" /\ ~ overlapped[u]
        BY <2>1, <3>1, <4>1
      <4>. QED  BY <2>1, <4>1, <4>2 DEF InfoConsistent
    <3>. QED  BY <3>1 DEF InfoConsistent
  <2>. QED  BY <2>3, <2>4
<1>2. ASSUME NEW t \in Thread, Reuse(t) PROVE Reading' /\ InfoConsistent'
  BY <1>2, ReadersUntouched DEF Reuse, TypeOK, Refreshing
<1>3. ASSUME NEW t \in Thread, BeginRefresh(t) \/ Reset(t)
      PROVE  Reading' /\ InfoConsistent'
  BY <1>3, ReadersDisturbed DEF BeginRefresh, Reset, TypeOK
\* A refresh in progress: no thread reads undisturbed.
<1>4. ASSUME NEW t \in Thread, Refreshing(t), UNCHANGED <<overlapped, info, calls, op>>,
             \A u \in Thread : pc'[u] \in {"head", "body", "idle"} => pc'[u] = pc[u]
      PROVE  Reading' /\ InfoConsistent'
  <2>1. \A u \in Thread : pc[u] \in {"head", "body"} => overlapped[u]
    BY <1>4 DEF Reading, TypeOK
  <2>. QED  BY <1>4, <2>1 DEF Reading, InfoConsistent
<1>5. ASSUME NEW t \in Thread, Enumerate(t) \/ PlatformsFail(t) \/ EndRefresh(t)
      PROVE  Reading' /\ InfoConsistent'
  BY <1>4, <1>5 DEF Enumerate, PlatformsFail, EndRefresh, TypeOK, Refreshing
<1>6. ASSUME NEW t \in Thread, NEW s \in Slot,
             ProbeSucceeds(t, s) \/ ProbeFails(t, s) \/ StoreDevice(t, s)
      PROVE  Reading' /\ InfoConsistent'
  BY <1>4, <1>6 DEF ProbeSucceeds, ProbeFails, StoreDevice, TypeOK, Refreshing
<1>7. ASSUME NEW t \in Thread, Unlock(t) PROVE Reading' /\ InfoConsistent'
  <2>1. /\ pc[t] = "unlock" /\ UNCHANGED <<initialized, cache, op, info, overlapped, calls>>
        /\ pc'[t] \in {"idle", "lock", "head"}
        /\ pc'[t] = "idle" => op[t].kind # "info"
        /\ pc'[t] = "head" => op[t].kind = "info"
        /\ \A u \in Thread \ {t} : pc'[u] = pc[u]
    BY <1>7 DEF Unlock, TypeOK
  <2>2. op[t].kind = "info" => initialized /\ Good
    BY <2>1 DEF Progress
  <2>3. \A u \in Thread : ~ Refreshing(u)
    BY <2>1, Alone DEF Refreshing, Critical
  <2>4. \A u \in Thread : ~ Refreshing(u)'
    BY <2>1, <2>3 DEF Refreshing
  <2>5. Good' <=> Good
    BY <2>1 DEF Good
  <2>6. Reading'
    BY <2>1, <2>2, <2>4, <2>5 DEF Reading
  <2>7. InfoConsistent'
    BY <2>1 DEF InfoConsistent
  <2>. QED  BY <2>6, <2>7
<1>8. ASSUME NEW t \in Thread, ReadHead(t) PROVE Reading' /\ InfoConsistent'
  <2>1. /\ pc[t] = "head" /\ pc'[t] = "body"
        /\ UNCHANGED <<initialized, cache, op, overlapped, calls>>
        /\ \A u \in Thread \ {t} : pc'[u] = pc[u] /\ info'[u] = info[u]
    BY <1>8 DEF ReadHead, TypeOK
  <2>2. info'[t].ok = cache.valid /\ info'[t].reason = cache.reason
    BY <1>8 DEF ReadHead, TypeOK
  <2>3. Good' <=> Good
    BY <2>1 DEF Good
  <2>4. \A u \in Thread : Refreshing(u)' <=> Refreshing(u)
    BY <2>1 DEF Refreshing
  <2>5. Reading'
    BY <2>1, <2>2, <2>3, <2>4 DEF Reading
  <2>6. InfoConsistent'
    BY <2>1 DEF InfoConsistent
  <2>. QED  BY <2>5, <2>6
<1>9. ASSUME NEW t \in Thread, ReadBody(t) PROVE Reading' /\ InfoConsistent'
  <2>1. /\ pc[t] = "body" /\ pc'[t] = "idle"
        /\ UNCHANGED <<initialized, cache, op, overlapped, calls>>
        /\ \A u \in Thread \ {t} : pc'[u] = pc[u] /\ info'[u] = info[u]
    BY <1>9 DEF ReadBody, TypeOK
  <2>2. /\ info'[t].ok = info[t].ok /\ info'[t].reason = info[t].reason
        /\ info'[t].slot = cache.slot
    BY <1>9 DEF ReadBody, TypeOK
  <2>3. Good' <=> Good
    BY <2>1 DEF Good
  <2>4. \A u \in Thread : Refreshing(u)' <=> Refreshing(u)
    BY <2>1 DEF Refreshing
  <2>5. Reading'
    BY <2>1, <2>3, <2>4 DEF Reading
  <2>6. ~ overlapped[t] =>
          /\ Whole(info'[t].ok, info'[t].reason, info'[t].slot)
          /\ info'[t].reason \notin {"reset", "uninitialized"}
    BY <2>1, <2>2 DEF Reading, Good
  <2>7. InfoConsistent'
    BY <2>1, <2>6 DEF InfoConsistent
  <2>. QED  BY <2>5, <2>7
<1>10. CASE Change \/ UNCHANGED vars
  <2>1. UNCHANGED <<initialized, cache, overlapped, info, calls, op, pc>>
    BY <1>10 DEF Change, vars, threadVars
  <2>. QED  BY <2>1, ReadersUntouched DEF Refreshing
<1>. QED
  BY <1>1, <1>2, <1>3, <1>5, <1>6, <1>7, <1>8, <1>9, <1>10 DEF Next, Step

\* The process begins with a free mutex and an uninitialized cache.
LEMMA InitIInv == Init => IInv
<1>. SUFFICES ASSUME Init PROVE IInv
  OBVIOUS
<1>1. TypeOK
  BY InitTypeOK
<1>2. /\ \A t \in Thread : pc[t] = "idle" /\ op[t].kind = "ensure"
      /\ mutex = NoThread /\ initialized = FALSE
  BY DEF Init
<1>. QED
  BY <1>1, <1>2, ThreadAssumption
  DEF IInv, Exclusion, Critical, Progress, Refreshing, Released, Reading,
      InfoConsistent

\* The cache, its flag and its mutex keep IInv, with any number of threads.
THEOREM Invariance == Spec => []IInv
<1>1. IInv /\ [Next]_vars => IInv'
  BY NextTypeOK, NextExclusion, NextProgress, NextReading DEF IInv
<1>. QED  BY InitIInv, <1>1, PTL DEF Spec

(***************************************************************************)
(* The process, its cache and every thread are in a state of their types.  *)
(***************************************************************************)
THEOREM TypeCorrect == Spec => []TypeOK
<1>1. IInv => TypeOK
  BY DEF IInv
<1>. QED  BY Invariance, <1>1, PTL

(***************************************************************************)
(* At most one thread discovers, resets or trusts the cache at a time.     *)
(***************************************************************************)
THEOREM MutualExclusion ==
  Spec => [](\A t, u \in Thread : Critical(t) /\ Critical(u) => t = u)
<1>1. IInv => \A t, u \in Thread : Critical(t) /\ Critical(u) => t = u
  BY DEF IInv, Exclusion
<1>. QED  BY Invariance, <1>1, PTL

(***************************************************************************)
(* Nobody who gets the mutex finds half a selection, or the value that     *)
(* stands in the cache while devices are discovered.                       *)
(***************************************************************************)
THEOREM SelectionIsWhole == Spec => []SelectionWhole
<1>1. IInv => SelectionWhole
  BY DEF IInv, Released, Good, SelectionWhole
<1>. QED  BY Invariance, <1>1, PTL

(***************************************************************************)
(* A report that no forced call or reset overlapped is of one selection,   *)
(* although its fields are read one after the other outside the mutex.     *)
(***************************************************************************)
THEOREM ReportIsConsistent == Spec => []InfoConsistent
<1>1. IInv => InfoConsistent
  BY DEF IInv
<1>. QED  BY Invariance, <1>1, PTL

(***************************************************************************)
(* Only a forced call or a reset replaces a selection once it is made.     *)
(***************************************************************************)
THEOREM SelectionStays == Spec => SelectionSticks
<1>1. ASSUME IInv, Next, initialized, cache' # cache
      PROVE  \E t \in Thread : /\ mutex' = t
                               /\ op[t].force \/ op[t].kind = "reset"
  <2>1. TypeOK /\ Exclusion /\ Progress
    BY <1>1 DEF IInv
  <2>2. ASSUME NEW t \in Thread, Refreshing(t), mutex' = mutex
        PROVE  mutex' = t /\ op[t].force
    BY <1>1, <2>1, <2>2 DEF Exclusion, Critical, Refreshing, Progress
  <2>3. ASSUME NEW t \in Thread, Step(t) \/ PlatformsFail(t)
        PROVE  mutex' = t /\ (op[t].force \/ op[t].kind = "reset")
    <3>1. CASE BeginRefresh(t)
      BY <1>1, <3>1 DEF BeginRefresh, Forced
    <3>2. CASE Reset(t)
      BY <3>2 DEF Reset
    <3>3. CASE Enumerate(t) \/ PlatformsFail(t)
      BY <2>2, <3>3 DEF Enumerate, PlatformsFail, Refreshing
    <3>4. CASE \E s \in Slot : ProbeSucceeds(t, s) \/ ProbeFails(t, s) \/ StoreDevice(t, s)
      BY <2>2, <3>4 DEF ProbeSucceeds, ProbeFails, StoreDevice, Refreshing
    <3>5. CASE Reuse(t) \/ EndRefresh(t) \/ Unlock(t) \/ ReadHead(t) \/ ReadBody(t)
      BY <1>1, <3>5 DEF Reuse, EndRefresh, Unlock, ReadHead, ReadBody
    <3>. QED  BY <2>3, <3>1, <3>2, <3>3, <3>4, <3>5 DEF Step
  <2>4. ~ Change
    BY <1>1 DEF Change
  <2>5. ~ \E t \in Thread, o \in Op : Call(t, o)
    BY <1>1 DEF Call
  <2>. QED  BY <1>1, <2>3, <2>4, <2>5 DEF Next
<1>2. IInv /\ [Next]_vars =>
        [initialized /\ cache' # cache =>
           \E t \in Thread : /\ mutex' = t
                             /\ op[t].force \/ op[t].kind = "reset"]_vars
  BY <1>1
<1>. QED  BY Invariance, <1>2, PTL DEF Spec, SelectionSticks

-----------------------------------------------------------------------------
(***************************************************************************)
(* The documented choice.                                                  *)
(***************************************************************************)

Eligible == Matching \cap fp64

Current ==
  /\ cache.valid <=> Eligible # {}
  /\ cache.valid =>
       /\ cache.slot \in Eligible
       /\ Eligible \cap Gpu # {} => cache.slot \in Gpu
       /\ \A s \in Eligible : (s \in Gpu <=> cache.slot \in Gpu) =>
            \/ cache.slot[1] < s[1]
            \/ cache.slot[1] = s[1] /\ cache.slot[2] <= s[2]

\* How far the discovery of thread t got, on a machine that stands still.
Discovering(t) ==
  /\ pc[t] \in {"probe", "store"} => cands[t] \subseteq Matching /\ Eligible \subseteq cands[t]
  /\ pc[t] = "store" =>
       \A s \in cands[t] : (\A r \in cands[t] \ {s} : Before(s, r)) => s \in fp64
  /\ pc[t] = "refreshed" => Current
  /\ pc[t] = "unlock" /\ initialized => Current

Discovery ==
  ~ changed =>
    /\ \A t \in Thread : Discovering(t)
    /\ mutex = NoThread /\ initialized => Current

\* The machine is looked at, not changed, by what the threads do.
LEMMA SameMachine ==
  ASSUME UNCHANGED machine
  PROVE  /\ Matching' = Matching /\ Eligible' = Eligible /\ fp64' = fp64
         /\ cache' = cache => (Current' <=> Current)
<1>1. Matching' = Matching /\ fp64' = fp64
  BY DEF machine, Matching, Allows
<1>2. Eligible' = Eligible
  BY <1>1 DEF Eligible
<1>. QED  BY <1>1, <1>2 DEF Current

\* Only the thread in the critical section has anything to answer for.
LEMMA OthersIdle ==
  ASSUME TypeOK, Exclusion, NEW t \in Thread, mutex \in {t, NoThread},
         \A u \in Thread \ {t} : pc'[u] = pc[u]
  PROVE  \A u \in Thread \ {t} : Discovering(u)'
<1>1. \A u \in Thread \ {t} : ~ Critical(u)
  BY ThreadAssumption DEF Exclusion
<1>. QED  BY <1>1 DEF Critical, Discovering

\* While the machine stands still, discovery finds what the machine offers.
LEMMA NextDiscovery ==
  /\ TypeOK /\ Exclusion /\ Progress /\ Discovery /\ [Next]_vars
  => Discovery'
<1>. SUFFICES ASSUME TypeOK, Exclusion, Progress, Discovery, [Next]_vars
              PROVE  Discovery'
  OBVIOUS
\* Steps that leave the cache and all critical sections alone.
<1>1. ASSUME UNCHANGED <<machine, mutex, initialized, cache, cands, changed>>,
             \A t \in Thread : Critical(t)' => pc'[t] = pc[t]
      PROVE  Discovery'
  <2>1. ASSUME NEW t \in Thread, ~ changed PROVE Discovering(t)'
    <3>1. CASE Critical(t)'
      BY <1>1, <2>1, <3>1, SameMachine DEF Discovery, Discovering
    <3>2. CASE ~ Critical(t)'
      BY <3>2 DEF Critical, Discovering
    <3>. QED  BY <3>1, <3>2
  <2>. QED  BY <1>1, <2>1, SameMachine DEF Discovery
<1>2. ASSUME NEW t \in Thread, Reuse(t) PROVE Discovery'
  <2>1. /\ mutex = NoThread /\ mutex' = t /\ pc'[t] = "unlock"
        /\ UNCHANGED <<machine, initialized, cache, cands, changed>>
        /\ \A u \in Thread \ {t} : pc'[u] = pc[u]
    BY <1>2 DEF Reuse, TypeOK
  <2>2. \A u \in Thread \ {t} : Discovering(u)'
    BY <2>1, OthersIdle
  <2>3. ~ changed => Discovering(t)'
    BY <2>1, SameMachine DEF Discovery, Discovering
  <2>. QED  BY <2>1, <2>2, <2>3, ThreadAssumption DEF Discovery
<1>3. ASSUME NEW t \in Thread, BeginRefresh(t) \/ Reset(t) PROVE Discovery'
  <2>1. /\ mutex = NoThread /\ mutex' = t
        /\ pc'[t] = "enumerate" \/ (pc'[t] = "unlock" /\ initialized' = FALSE)
        /\ \A u \in Thread \ {t} : pc'[u] = pc[u]
    BY <1>3 DEF BeginRefresh, Reset, TypeOK
  <2>2. \A u \in Thread \ {t} : Discovering(u)'
    BY <2>1, OthersIdle
  <2>3. Discovering(t)'
    BY <2>1 DEF Discovering
  <2>. QED  BY <2>1, <2>2, <2>3, ThreadAssumption DEF Discovery
\* Steps inside a critical section: the machine stands still.
<1>4. ASSUME NEW t \in Thread, Critical(t), mutex' = mutex, changed' = changed,
             \A u \in Thread \ {t} : pc'[u] = pc[u],
             ~ changed => Discovering(t)'
      PROVE  Discovery'
  <2>1. mutex = t /\ t # NoThread
    BY <1>4, ThreadAssumption DEF Exclusion
  <2>2. \A u \in Thread \ {t} : Discovering(u)'
    BY <1>4, <2>1, OthersIdle
  <2>. QED  BY <1>4, <2>1, <2>2 DEF Discovery
<1>5. ASSUME NEW t \in Thread, Enumerate(t) PROVE Discovery'
  <2>1. /\ pc[t] = "enumerate" /\ UNCHANGED <<mutex, changed, machine>>
        /\ \A u \in Thread \ {t} : pc'[u] = pc[u]
    BY <1>5 DEF Enumerate, TypeOK
  <2>2. Discovering(t)'
    <3>1. CASE Matching = {}
      <4>1. pc'[t] = "refreshed" /\ cache' = Invalid(EmptyReason)
        BY <1>5, <3>1 DEF Enumerate, TypeOK
      <4>2. cache'.valid = FALSE /\ Eligible' = {}
        BY <2>1, <3>1, <4>1, SameMachine DEF Invalid, Eligible
      <4>. QED  BY <4>1, <4>2 DEF Discovering, Current
    <3>2. CASE Matching # {}
      <4>1. pc'[t] = "probe" /\ cands'[t] = Matching
        BY <1>5, <3>2 DEF Enumerate, TypeOK
      <4>2. Eligible' \subseteq Matching /\ Matching' = Matching
        BY <2>1, SameMachine DEF Eligible
      <4>. QED  BY <4>1, <4>2 DEF Discovering
    <3>. QED  BY <3>1, <3>2
  <2>. QED  BY <1>4, <2>1, <2>2 DEF Critical
<1>6. ASSUME NEW t \in Thread, NEW s \in Slot, ProbeSucceeds(t, s) PROVE Discovery'
  <2>1. /\ pc[t] = "probe" /\ pc'[t] = "store" /\ cands' = cands
        /\ UNCHANGED <<mutex, changed, machine>>
        /\ \A u \in Thread \ {t} : pc'[u] = pc[u]
        /\ s \in cands[t] /\ s \in fp64
        /\ \A r \in cands[t] \ {s} : Before(s, r)
    BY <1>6 DEF ProbeSucceeds, TypeOK
  <2>2. ASSUME NEW p \in cands[t], \A r \in cands[t] \ {p} : Before(p, r)
        PROVE  p = s
    <3>1. CASE p # s
      <4>1. Before(p, s) /\ Before(s, p)
        BY <2>1, <2>2, <3>1
      <4>2. p \in Slot
        BY DEF TypeOK
      <4>3. p[1] \in Int /\ p[2] \in Int /\ s[1] \in Int /\ s[2] \in Int
        BY <4>2, SlotAssumption, BoundAssumption
      <4>. QED  BY <4>1, <4>3 DEF Before
    <3>. QED  BY <3>1
  <2>3. ~ changed => Discovering(t)'
    BY <2>1, <2>2, SameMachine DEF Discovery, Discovering, Before
  <2>. QED  BY <1>4, <2>1, <2>3 DEF Critical
<1>7. ASSUME NEW t \in Thread, NEW s \in Slot, ProbeFails(t, s) PROVE Discovery'
  <2>1. /\ pc[t] = "probe" /\ s \in cands[t] /\ s \notin fp64
        /\ UNCHANGED <<mutex, changed, machine>>
        /\ \A u \in Thread \ {t} : pc'[u] = pc[u]
        /\ cands'[t] = cands[t] \ {s}
    BY <1>7 DEF ProbeFails, TypeOK
  <2>2. ~ changed => cands[t] \subseteq Matching /\ Eligible \subseteq cands[t] \ {s}
    BY <2>1 DEF Discovery, Discovering, Eligible
  <2>3. ~ changed => Discovering(t)'
    <3>1. CASE cands[t] = {s}
      <4>1. pc'[t] = "refreshed" /\ cache' = Invalid("no_fp64_capable_device")
        BY <1>7, <3>1 DEF ProbeFails, TypeOK
      <4>2. ~ changed => cache'.valid = FALSE /\ Eligible' = {}
        BY <2>1, <2>2, <3>1, <4>1, SameMachine DEF Invalid
      <4>. QED  BY <4>1, <4>2 DEF Discovering, Current
    <3>2. CASE cands[t] # {s}
      <4>1. pc'[t] = "probe"
        BY <1>7, <3>2 DEF ProbeFails, TypeOK
      <4>. QED  BY <2>1, <2>2, <4>1, SameMachine DEF Discovering
    <3>. QED  BY <3>1, <3>2
  <2>. QED  BY <1>4, <2>1, <2>3 DEF Critical
<1>8. ASSUME NEW t \in Thread, NEW s \in Slot, StoreDevice(t, s) PROVE Discovery'
  <2>1. /\ pc[t] = "store" /\ pc'[t] = "refreshed" /\ s \in cands[t]
        /\ UNCHANGED <<mutex, changed, machine>>
        /\ \A u \in Thread \ {t} : pc'[u] = pc[u]
        /\ \A r \in cands[t] \ {s} : Before(s, r)
        /\ cache' = [cache EXCEPT !.slot = s]
    BY <1>8 DEF StoreDevice, TypeOK
  <2>2. cache'.valid /\ cache'.slot = s
    BY <2>1 DEF Progress, TypeOK
  <2>3. ASSUME ~ changed PROVE Current'
    <3>1. cands[t] \subseteq Matching /\ Eligible \subseteq cands[t] /\ s \in fp64
      BY <2>1, <2>3 DEF Discovery, Discovering
    <3>2. s \in Eligible
      BY <2>1, <3>1 DEF Eligible
    <3>3. \A r \in Eligible : r = s \/ Before(s, r)
      BY <2>1, <3>1
    <3>4. \A r \in Slot : r[1] \in Int /\ r[2] \in Int
      BY SlotAssumption, BoundAssumption
    <3>5. Eligible \subseteq Slot
      BY DEF Eligible, TypeOK
    <3>6. Eligible \cap Gpu # {} => s \in Gpu
      BY <3>3 DEF Before
    <3>7. \A r \in Eligible : (r \in Gpu <=> s \in Gpu) =>
            s[1] < r[1] \/ (s[1] = r[1] /\ s[2] <= r[2])
      BY <3>3, <3>4, <3>5 DEF Before
    <3>8. Eligible' = Eligible
      BY <2>1, SameMachine
    <3>. QED  BY <2>2, <3>2, <3>6, <3>7, <3>8 DEF Current
  <2>4. ~ changed => Discovering(t)'
    BY <2>1, <2>3 DEF Discovering
  <2>. QED  BY <1>4, <2>1, <2>4 DEF Critical
<1>9. ASSUME NEW t \in Thread, EndRefresh(t) PROVE Discovery'
  <2>1. /\ pc[t] = "refreshed" /\ pc'[t] = "unlock"
        /\ UNCHANGED <<mutex, changed, machine, cache>>
        /\ \A u \in Thread \ {t} : pc'[u] = pc[u]
    BY <1>9 DEF EndRefresh, TypeOK
  <2>2. ~ changed => Discovering(t)'
    BY <2>1, SameMachine DEF Discovery, Discovering
  <2>. QED  BY <1>4, <2>1, <2>2 DEF Critical
<1>10. ASSUME NEW t \in Thread, Unlock(t) PROVE Discovery'
  <2>1. /\ pc[t] = "unlock" /\ pc'[t] \in {"idle", "lock", "head"}
        /\ mutex' = NoThread
        /\ UNCHANGED <<changed, machine, cache, initialized>>
        /\ \A u \in Thread \ {t} : pc'[u] = pc[u]
    BY <1>10 DEF Unlock, TypeOK
  <2>2. mutex = t
    BY <2>1 DEF Exclusion, Critical
  <2>3. \A u \in Thread \ {t} : Discovering(u)'
    BY <2>1, <2>2, OthersIdle
  <2>4. Discovering(t)'
    BY <2>1 DEF Discovering
  <2>5. ~ changed /\ initialized => Current'
    BY <2>1, SameMachine DEF Discovery, Discovering
  <2>. QED  BY <2>1, <2>3, <2>4, <2>5 DEF Discovery
<1>11. ASSUME NEW t \in Thread, NEW o \in Op, Call(t, o) PROVE Discovery'
  BY <1>1, <1>11 DEF Call, TypeOK, Critical
<1>12. ASSUME NEW t \in Thread, ReadHead(t) \/ ReadBody(t) PROVE Discovery'
  BY <1>1, <1>12 DEF ReadHead, ReadBody, TypeOK, Critical
<1>13. CASE Change \/ \E t \in Thread : PlatformsFail(t)
  BY <1>13 DEF Change, PlatformsFail, Discovery
<1>14. CASE UNCHANGED vars
  BY <1>1, <1>14 DEF vars, threadVars
<1>. QED
  BY <1>2, <1>3, <1>5, <1>6, <1>7, <1>8, <1>9, <1>10, <1>11, <1>12, <1>13, <1>14
  DEF Next, Step

(***************************************************************************)
(* The selection is the documented one: of the devices that qualify, the   *)
(* first GPU if there is one, else the first; it is out of date only when  *)
(* the machine changed since a call last had to discover devices.          *)
(***************************************************************************)
THEOREM SelectionIsDocumented == Spec => []SelectionCurrent
<1>1. Init => Discovery
  BY DEF Init, Discovery, Discovering
<1>2. IInv /\ Discovery /\ [Next]_vars => Discovery'
  BY NextDiscovery DEF IInv
<1>3. IInv /\ Discovery => SelectionCurrent
  <2>. SUFFICES ASSUME IInv, Discovery, mutex = NoThread, initialized, ~ changed
                PROVE  SelectionCurrent
    BY DEF SelectionCurrent
  <2>1. Current
    BY DEF Discovery
  <2>2. fp64 \subseteq exists /\ envP \in Int /\ envD \in Int
    BY EnvAssumption DEF IInv, TypeOK
  <2>3. Eligible = {s \in fp64 : /\ envP < 0 \/ s[1] = envP
                                 /\ envD < 0 \/ s[2] = envD}
    BY <2>2 DEF Eligible, Matching, Allows
  <2>. QED  BY <2>1, <2>3 DEF SelectionCurrent, Current
<1>. QED  BY Invariance, <1>1, <1>2, <1>3, PTL DEF Spec
=============================================================================
