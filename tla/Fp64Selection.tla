--------------------------- MODULE Fp64Selection ---------------------------
(***************************************************************************)
(* The cached choice of an OpenCL device for double precision              *)
(* (opencl_device_selection.cpp): threads of the R process, the R thread   *)
(* and native code that calls through the registered C routines, ensure,   *)
(* reset and report one cache behind one mutex, while drivers come and go  *)
(* and the NMATHOPENCL_*_INDEX variables change.  opencl_fp64_selection    *)
(* hands out a reference to the cache, which its caller reads unlocked.    *)
(***************************************************************************)
EXTENDS Integers, FiniteSets

CONSTANTS
  Thread,
  NoThread,    \* holds the mutex when nobody does
  Slot,        \* the <<platform index, device index>> pairs that may exist
  Gpu,         \* those whose device is a GPU
  MaxPlatforms,
  EnvIndex,    \* what env_int reads of a variable; -1 when it is not set
  MaxCalls,    \* bound: calls of the interface
  MaxChanges   \* bound: changes of the drivers or of the environment

ASSUME ThreadAssumption == NoThread \notin Thread
ASSUME SlotAssumption ==
  /\ Slot \subseteq (0..(MaxPlatforms - 1)) \X Nat
  /\ Gpu \subseteq Slot
ASSUME EnvAssumption == EnvIndex \subseteq Int /\ -1 \in EnvIndex
ASSUME BoundAssumption == MaxPlatforms \in Nat /\ MaxCalls \in Nat /\ MaxChanges \in Nat

None == <<-1, -1>>   \* the indices of an empty cache

VARIABLES
  \* the machine
  platforms,     \* the number of platforms the ICD loader lists
  exists,        \* the devices on them
  fp64,          \* those with cl_khr_fp64 whose probe kernel builds
  envP, envD,    \* NMATHOPENCL_PLATFORM_INDEX, NMATHOPENCL_DEVICE_INDEX
  \* the process
  mutex,         \* the thread that holds g_fp64_sel_mutex, or NoThread
  initialized,   \* g_fp64_sel_initialized
  cache,         \* g_cache
  \* each thread
  pc, op, stage, \* where it is in which call; stage 2 is the second lock
  cands,         \* the candidates that are not probed yet
  info,          \* the list that opencl_device_info is filling
  \* history
  overlapped,    \* the cache may have changed after the reference was taken
  changed,       \* the machine changed since a call last asked for discovery
  calls, changes

machine == <<platforms, exists, fp64, envP, envD>>
threadVars == <<pc, op, stage, cands, info>>
vars == <<machine, mutex, initialized, cache, threadVars,
          overlapped, changed, calls, changes>>

Reason == {"", "reset", "uninitialized", "no_opencl_platforms",
           "clGetPlatformIDs_failed", "no_devices_match_NMATHOPENCL_*_INDEX",
           "no_opencl_devices", "no_fp64_capable_device"}

Invalid(why) == [valid |-> FALSE, reason |-> why, slot |-> None]

Op == {o \in [kind : {"ensure", "reset", "info"}, force : BOOLEAN] :
         o.kind = "reset" => ~ o.force}

NoInfo == [ok |-> FALSE, reason |-> "", slot |-> None, candidates |-> {}]

-----------------------------------------------------------------------------

\* A negative index restricts nothing.
Allows(env, i) == env < 0 \/ env = i

\* The discovery loop keeps the pairs that the environment allows.
Matching == {s \in exists : Allows(envP, s[1]) /\ Allows(envD, s[2])}

\* details_table looks at the platform index only.
DetailsTable == {s \in exists : Allows(envP, s[1])}

\* Mutant: enumeration order.
Before_Enumeration(s, r) == s[1] < r[1] \/ (s[1] = r[1] /\ s[2] < r[2])

\* stable_sort of the enumeration order, GPUs first.
Before(s, r) ==
  \/ s \in Gpu /\ r \notin Gpu
  \/ (s \in Gpu <=> r \in Gpu) /\ (s[1] < r[1] \/ (s[1] = r[1] /\ s[2] < r[2]))

\* Why no candidate is left to probe.
EmptyReason ==
  IF platforms = 0 THEN "no_opencl_platforms"
  ELSE IF envP >= 0 \/ envD >= 0 THEN "no_devices_match_NMATHOPENCL_*_INDEX"
  ELSE "no_opencl_devices"

-----------------------------------------------------------------------------

Init ==
  /\ platforms \in 0..MaxPlatforms
  /\ exists \in SUBSET {s \in Slot : s[1] < platforms}
  /\ fp64 \in SUBSET exists
  /\ envP = -1
  /\ envD = -1
  /\ mutex = NoThread
  /\ initialized = FALSE
  /\ cache = Invalid("")
  /\ pc = [t \in Thread |-> "idle"]
  /\ op = [t \in Thread |-> [kind |-> "ensure", force |-> FALSE]]
  /\ stage = [t \in Thread |-> 1]
  /\ cands = [t \in Thread |-> {}]
  /\ info = [t \in Thread |-> NoInfo]
  /\ overlapped = [t \in Thread |-> FALSE]
  /\ changed = FALSE
  /\ calls = 0
  /\ changes = 0

Call(t, o) ==
  /\ pc[t] = "idle"
  /\ calls < MaxCalls
  /\ pc' = [pc EXCEPT ![t] = "lock"]
  /\ op' = [op EXCEPT ![t] = o]
  /\ stage' = [stage EXCEPT ![t] = 1]
  /\ info' = [info EXCEPT ![t] = NoInfo]
  /\ overlapped' = [overlapped EXCEPT ![t] = FALSE]
  /\ calls' = calls + 1
  /\ UNCHANGED <<machine, mutex, initialized, cache, cands, changed, changes>>

\* A thread that reads through the reference, when another takes the mutex
\* to change the cache.
Disturbed == [t \in Thread |-> overlapped[t] \/ pc[t] \in {"head", "body"}]

\* Only the first lock of a call may force.
Forced(t) == op[t].force /\ stage[t] = 1

\* Mutant: the second lock trusts the first one.
Reuse_SecondLockTrusts(t) ==
  /\ pc[t] = "lock"
  /\ mutex = NoThread
  /\ op[t].kind # "reset"
  /\ stage[t] = 2 \/ (initialized /\ ~ Forced(t))
  /\ mutex' = t
  /\ pc' = [pc EXCEPT ![t] = "unlock"]
  /\ UNCHANGED <<machine, initialized, cache, op, stage, cands, info,
                 overlapped, changed, calls, changes>>

Reuse(t) ==
  /\ pc[t] = "lock"
  /\ mutex = NoThread
  /\ op[t].kind # "reset"
  /\ initialized /\ ~ Forced(t)
  /\ mutex' = t
  /\ pc' = [pc EXCEPT ![t] = "unlock"]
  /\ UNCHANGED <<machine, initialized, cache, op, stage, cands, info,
                 overlapped, changed, calls, changes>>

\* Mutant: every call discovers again.
BeginRefresh_Always(t) ==
  /\ pc[t] = "lock"
  /\ mutex = NoThread
  /\ op[t].kind # "reset"
  /\ mutex' = t
  /\ cache' = Invalid("uninitialized")
  /\ pc' = [pc EXCEPT ![t] = "enumerate"]
  /\ overlapped' = Disturbed
  /\ changed' = FALSE
  /\ UNCHANGED <<machine, initialized, op, stage, cands, info, calls, changes>>

BeginRefresh(t) ==
  /\ pc[t] = "lock"
  /\ mutex = NoThread
  /\ op[t].kind # "reset"
  /\ ~ initialized \/ Forced(t)
  /\ mutex' = t
  /\ cache' = Invalid("uninitialized")
  /\ pc' = [pc EXCEPT ![t] = "enumerate"]
  /\ overlapped' = Disturbed
  /\ changed' = FALSE
  /\ UNCHANGED <<machine, initialized, op, stage, cands, info, calls, changes>>

\* Mutant: the early return leaves the mutex locked.
Enumerate_KeepsLock(t) ==
  /\ pc[t] = "enumerate"
  /\ IF Matching = {}
       THEN /\ cache' = Invalid(EmptyReason)
            /\ pc' = [pc EXCEPT ![t] = "idle"]
            /\ cands' = cands
       ELSE /\ cands' = [cands EXCEPT ![t] = Matching]
            /\ pc' = [pc EXCEPT ![t] = "probe"]
            /\ cache' = cache
  /\ UNCHANGED <<machine, mutex, initialized, op, stage, info, overlapped,
                 changed, calls, changes>>

Enumerate(t) ==
  /\ pc[t] = "enumerate"
  /\ IF Matching = {}
       THEN /\ cache' = Invalid(EmptyReason)
            /\ pc' = [pc EXCEPT ![t] = "refreshed"]
            /\ cands' = cands
       ELSE /\ cands' = [cands EXCEPT ![t] = Matching]
            /\ pc' = [pc EXCEPT ![t] = "probe"]
            /\ cache' = cache
  /\ UNCHANGED <<machine, mutex, initialized, op, stage, info, overlapped,
                 changed, calls, changes>>

\* The list of platforms, counted a moment ago, is refused.
PlatformsFail(t) ==
  /\ pc[t] = "enumerate"
  /\ platforms > 0
  /\ changes < MaxChanges
  /\ cache' = Invalid("clGetPlatformIDs_failed")
  /\ pc' = [pc EXCEPT ![t] = "refreshed"]
  /\ changed' = TRUE
  /\ changes' = changes + 1
  /\ UNCHANGED <<machine, mutex, initialized, op, stage, cands, info,
                 overlapped, calls>>

\* The first fields of g_cache: valid and reason.
ProbeSucceeds(t, s) ==
  /\ pc[t] = "probe"
  /\ s \in cands[t] /\ \A r \in cands[t] \ {s} : Before(s, r)
  /\ s \in fp64
  /\ cache' = [cache EXCEPT !.valid = TRUE, !.reason = ""]
  /\ pc' = [pc EXCEPT ![t] = "store"]
  /\ UNCHANGED <<machine, mutex, initialized, op, stage, cands, info,
                 overlapped, changed, calls, changes>>

\* The others: indices, handles, names and the policy of the chosen device.
StoreDevice(t, s) ==
  /\ pc[t] = "store"
  /\ s \in cands[t] /\ \A r \in cands[t] \ {s} : Before(s, r)
  /\ cache' = [cache EXCEPT !.slot = s]
  /\ cands' = [cands EXCEPT ![t] = {}]
  /\ pc' = [pc EXCEPT ![t] = "refreshed"]
  /\ UNCHANGED <<machine, mutex, initialized, op, stage, info, overlapped,
                 changed, calls, changes>>

\* Mutant: the loop ends without a reason.
ProbeFails_NoReason(t, s) ==
  /\ pc[t] = "probe"
  /\ s \in cands[t] /\ \A r \in cands[t] \ {s} : Before(s, r)
  /\ s \notin fp64
  /\ cands' = [cands EXCEPT ![t] = @ \ {s}]
  /\ pc' = [pc EXCEPT ![t] = IF cands[t] = {s} THEN "refreshed" ELSE "probe"]
  /\ UNCHANGED <<machine, mutex, initialized, cache, op, stage, info,
                 overlapped, changed, calls, changes>>

ProbeFails(t, s) ==
  /\ pc[t] = "probe"
  /\ s \in cands[t] /\ \A r \in cands[t] \ {s} : Before(s, r)
  /\ s \notin fp64
  /\ cands' = [cands EXCEPT ![t] = @ \ {s}]
  /\ IF cands[t] = {s}
       THEN /\ cache' = Invalid("no_fp64_capable_device")
            /\ pc' = [pc EXCEPT ![t] = "refreshed"]
       ELSE UNCHANGED <<cache, pc>>
  /\ UNCHANGED <<machine, mutex, initialized, op, stage, info, overlapped,
                 changed, calls, changes>>

EndRefresh(t) ==
  /\ pc[t] = "refreshed"
  /\ initialized' = TRUE
  /\ pc' = [pc EXCEPT ![t] = "unlock"]
  /\ UNCHANGED <<machine, mutex, cache, op, stage, cands, info, overlapped,
                 changed, calls, changes>>

Reset(t) ==
  /\ pc[t] = "lock"
  /\ mutex = NoThread
  /\ op[t].kind = "reset"
  /\ mutex' = t
  /\ initialized' = FALSE
  /\ cache' = Invalid("reset")
  /\ pc' = [pc EXCEPT ![t] = "unlock"]
  /\ overlapped' = Disturbed
  /\ changed' = FALSE
  /\ UNCHANGED <<machine, op, stage, cands, info, calls, changes>>

\* opencl_device_info locks twice: ensure, then selection, then it reads.
Unlock(t) ==
  /\ pc[t] = "unlock"
  /\ mutex' = NoThread
  /\ pc' = [pc EXCEPT ![t] = IF op[t].kind # "info" THEN "idle"
                             ELSE IF stage[t] = 1 THEN "lock" ELSE "head"]
  /\ stage' = [stage EXCEPT ![t] = 2]
  /\ UNCHANGED <<machine, initialized, cache, op, cands, info, overlapped,
                 changed, calls, changes>>

ReadHead(t) ==
  /\ pc[t] = "head"
  /\ info' = [info EXCEPT ![t].ok = cache.valid, ![t].reason = cache.reason]
  /\ pc' = [pc EXCEPT ![t] = "body"]
  /\ UNCHANGED <<machine, mutex, initialized, cache, op, stage, cands,
                 overlapped, changed, calls, changes>>

ReadBody(t) ==
  /\ pc[t] = "body"
  /\ info' = [info EXCEPT ![t].slot = cache.slot, ![t].candidates = DetailsTable]
  /\ pc' = [pc EXCEPT ![t] = "idle"]
  /\ UNCHANGED <<machine, mutex, initialized, cache, op, stage, cands,
                 overlapped, changed, calls, changes>>

Step(t) ==
  \/ Reuse(t) \/ BeginRefresh(t) \/ Enumerate(t) \/ EndRefresh(t)
  \/ Reset(t) \/ Unlock(t) \/ ReadHead(t) \/ ReadBody(t)
  \/ \E s \in Slot : ProbeSucceeds(t, s) \/ ProbeFails(t, s) \/ StoreDevice(t, s)

\* A device and its driver come or go, a driver gains or loses fp64, or the
\* session sets a variable.
Plug(s) ==
  /\ s \in Slot \ exists
  /\ exists' = exists \cup {s}
  /\ platforms' = IF s[1] < platforms THEN platforms ELSE s[1] + 1
  /\ fp64' \in {fp64, fp64 \cup {s}}

Unplug(s) ==
  /\ s \in exists
  /\ exists' = exists \ {s}
  /\ platforms' \in {p \in 0..platforms : \A r \in exists' : r[1] < p}
  /\ fp64' = fp64 \ {s}

Redrive(s) ==
  /\ s \in exists
  /\ fp64' = IF s \in fp64 THEN fp64 \ {s} ELSE fp64 \cup {s}
  /\ UNCHANGED <<platforms, exists>>

Setenv ==
  /\ envP' \in EnvIndex
  /\ envD' \in EnvIndex
  /\ UNCHANGED <<platforms, exists, fp64>>

Change ==
  /\ changes < MaxChanges
  /\ \/ \E s \in Slot : (Plug(s) \/ Unplug(s) \/ Redrive(s)) /\ UNCHANGED <<envP, envD>>
     \/ Setenv
  /\ machine' # machine
  /\ changed' = TRUE
  /\ changes' = changes + 1
  /\ UNCHANGED <<mutex, initialized, cache, threadVars, overlapped, calls>>

Next ==
  \/ \E t \in Thread : Step(t)
  \/ \E t \in Thread, o \in Op : Call(t, o)
  \/ \E t \in Thread : PlatformsFail(t)
  \/ Change

Spec == Init /\ [][Next]_vars

\* A thread inside a call runs on, and gets the mutex once nobody competes.
FairSpec == Spec /\ \A t \in Thread : WF_vars(Step(t))

-----------------------------------------------------------------------------

TypeOK ==
  /\ platforms \in 0..MaxPlatforms
  /\ exists \subseteq Slot /\ fp64 \subseteq exists
  /\ envP \in EnvIndex /\ envD \in EnvIndex
  /\ mutex \in Thread \cup {NoThread}
  /\ initialized \in BOOLEAN
  /\ cache \in [valid : BOOLEAN, reason : Reason, slot : Slot \cup {None}]
  /\ pc \in [Thread -> {"idle", "lock", "enumerate", "probe", "store",
                        "refreshed", "unlock", "head", "body"}]
  /\ op \in [Thread -> Op]
  /\ stage \in [Thread -> {1, 2}]
  /\ cands \in [Thread -> SUBSET Slot]
  /\ info \in [Thread -> [ok : BOOLEAN, reason : Reason, slot : Slot \cup {None},
                          candidates : SUBSET Slot]]
  /\ overlapped \in [Thread -> BOOLEAN]
  /\ changed \in BOOLEAN
  /\ calls \in 0..MaxCalls
  /\ changes \in 0..MaxChanges

Critical(t) ==
  pc[t] \in {"enumerate", "probe", "store", "refreshed", "unlock"}

(***************************************************************************)
(* Between critical sections a selection is whole: a valid cache names a   *)
(* device and no reason, an invalid one a reason and no device, and the    *)
(* passing value "uninitialized" is not there to be seen.                  *)
(***************************************************************************)
Whole(valid, reason, slot) ==
  /\ valid <=> slot # None
  /\ valid <=> reason = ""

SelectionWhole ==
  mutex = NoThread /\ initialized =>
    /\ Whole(cache.valid, cache.reason, cache.slot)
    /\ cache.reason \notin {"reset", "uninitialized"}

(***************************************************************************)
(* Unless the machine changed since a call last had to discover devices    *)
(* (its first use, a forced call or a reset), the cached choice is the one *)
(* the documentation describes: a device that passes the fp64 test and the *)
(* environment's filter, a GPU when one does, the first of its kind; and   *)
(* no choice only when no device qualifies.                                *)
(***************************************************************************)
SelectionCurrent ==
  mutex = NoThread /\ initialized /\ ~ changed =>
    LET eligible == {s \in fp64 : /\ envP < 0 \/ s[1] = envP
                                  /\ envD < 0 \/ s[2] = envD}
        chosen == cache.slot
    IN  /\ cache.valid <=> eligible # {}
        /\ cache.valid =>
             /\ chosen \in eligible
             /\ eligible \cap Gpu # {} => chosen \in Gpu
             /\ \A s \in eligible : (s \in Gpu <=> chosen \in Gpu) =>
                  \/ chosen[1] < s[1]
                  \/ chosen[1] = s[1] /\ chosen[2] <= s[2]

(***************************************************************************)
(* The list of opencl_device_info describes one selection, although its    *)
(* fields are read outside the mutex, unless a forced call or a reset of   *)
(* another thread came in between; a reset before that is not seen.        *)
(***************************************************************************)
InfoConsistent ==
  \A t \in Thread :
    pc[t] = "idle" /\ op[t].kind = "info" /\ ~ overlapped[t] =>
      /\ Whole(info[t].ok, info[t].reason, info[t].slot)
      /\ info[t].reason \notin {"reset", "uninitialized"}

(***************************************************************************)
(* A selection that was made stays, whatever happens to the machine, until *)
(* a call forces discovery or resets; a thread that only asks never moves  *)
(* the device under another thread's feet.                                 *)
(***************************************************************************)
SelectionSticks ==
  [][initialized /\ cache' # cache =>
       \E t \in Thread : /\ mutex' = t
                         /\ op[t].force \/ op[t].kind = "reset"]_vars

\* Every call ends: no lock is kept, and none is taken twice.
CallsEnd == \A t \in Thread : pc[t] # "idle" ~> pc[t] = "idle"

(***************************************************************************)
(* gpu_diagnostics.R, line 933, of details = TRUE: "include a candidates   *)
(* list describing every platform/device pair".                            *)
(***************************************************************************)
CandidatesComplete ==
  [][\A t \in Thread :
       pc[t] = "body" /\ pc'[t] = "idle" => info'[t].candidates = exists]_vars
=============================================================================
