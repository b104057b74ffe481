--------------------------- MODULE SandboxProofs ---------------------------
(***************************************************************************)
(* Proofs about Sandbox, for any number of handles and VMs: the properties *)
(* of its run, and that every handle implements SandboxLifecycle.          *)
(***************************************************************************)
EXTENDS Sandbox, TLAPS

Booted == {"RUNNING", "SUSPENDING", "SUSPENDED"}

\* The lifecycle of a handle parked at an await.
OpAgrees(s) ==
  /\ s.op \in {"waitRunning", "launchResume"} => s.lifecycle = "PENDING"
  /\ s.op \in {"ready", "suspend", "suspendReply"} => s.lifecycle = "RUNNING"
  /\ s.op = "suspendWait" => s.lifecycle = "SUSPENDING"
  /\ s.op \in {"resume", "resumeWait"} => s.lifecycle = "SUSPENDED"
  /\ s.op \in {"terminate", "terminateWait"} => s.lifecycle = "TERMINATING"
  /\ s.op \in {"run", "runStable"} => s.microvm = NoVm

\* What the fields of one handle say of each other.
Coherent(s) ==
  /\ s.life # "open" => s.op = "idle"
  /\ s.life = "absent" => s.microvm = NoVm
  /\ s.microvm = NoVm =>
       /\ s.lifecycle = "PENDING" /\ ~s.session /\ ~s.adopted /\ ~s.detached
       /\ s.op \in {"idle", "run", "runStable"}
  /\ s.bootstrap_count = IF s.lifecycle = "PENDING" THEN 0
                         ELSE IF s.lifecycle \in Booted THEN 1
                         ELSE s.bootstrap_count
  /\ s.bootstrap_count <= 1
  /\ s.lifecycle = "PENDING" => ~s.token_installed
  /\ s.lifecycle \in Booted => s.token_installed
  /\ s.was_terminated <=> s.lifecycle \in DeadStates
  /\ OpAgrees(s)

\* The VM of the handle has ended.
Gone(h) == sb[h].microvm # NoVm /\ vm[sb[h].microvm] \in DeadStates

\* What a handle and its reports say of its VM.
Truthful(h) ==
  /\ sb[h].microvm # NoVm => vm[sb[h].microvm] # "none"
  /\ sb[h].lifecycle = "TERMINATED" => Gone(h)
  /\ said[h] = "clean" => Gone(h)
  /\ sb[h].op = "terminateWait" => said[h] = "clean"
  /\ sb[h].op = "idle" /\ sb[h].lifecycle \in DeadStates =>
       Gone(h) \/ said[h] \in {"named", "cut"}
  /\ sb[h].life = "dropped" /\ ~sb[h].adopted /\ ~sb[h].detached =>
       \/ sb[h].microvm = NoVm \/ Gone(h) \/ said[h] \in {"named", "cut"}
       \/ sb[h].torn_down /\ IsLive(sb[h].lifecycle)

\* What a keepalive may still do to the VM of its handle.
Awake(h) ==
  /\ ka[h] # "off" => sb[h].microvm # NoVm
  /\ sb[h].lifecycle \in {"PENDING", "RUNNING"} => wakes[h] = 0
  /\ sb[h].lifecycle \in {"SUSPENDING", "SUSPENDED"} /\ ka[h] = "inflight" =>
       wakes[h] = 0
  /\ wakes[h] <= 1

\* A VM that has ended has ended for good, and no read of it is from before
\* its launch.
Platform(v) ==
  /\ old[v] \in DeadStates => vm[v] \in DeadStates
  /\ old[v] # "none" => vm[v] # "none"

\* Somebody answers for every VM that was launched, and for every VM that was
\* handed off.
Answered(v) ==
  /\ vm[v] # "none" =>
       v \in lost \/ \E h \in Handle : sb[h].microvm = v /\ ~sb[h].adopted
  /\ (\E h \in Handle : sb[h].microvm = v /\ sb[h].detached) =>
       \/ v \in records
       \/ \E g \in Handle : /\ sb[g].microvm = v /\ sb[g].adopted
                            /\ sb[g].life = "dropped" \/ ~sb[g].detached

\* The caller's own client token answers with a VM that was launched.
TokenIsReal == stable # NoVm => vm[stable] # "none"

\* The inductive invariant.
Inv ==
  /\ TypeOK
  /\ \A v \in Vm : Platform(v)
  /\ \A h \in Handle : Coherent(sb[h]) /\ Truthful(h) /\ Awake(h)
  /\ \A v \in Vm : Answered(v)
  /\ TokenIsReal

-----------------------------------------------------------------------------
(* The platform.                                                           *)

\* VMs stay launched and stay dead.
Grows ==
  /\ vm' \in [Vm -> Lifecycle \cup {"none"}]
  /\ old' \in [Vm -> Lifecycle \cup {"none"}]
  /\ \A v \in Vm : Platform(v)'
  /\ \A v \in Vm : vm[v] \in DeadStates => vm'[v] \in DeadStates
  /\ \A v \in Vm : vm[v] # "none" => vm'[v] # "none"

\* No VM is launched.
NoLaunch == \A v \in Vm : vm'[v] # "none" => vm[v] # "none"

LEMMA SetVmGrows ==
  ASSUME Inv, NEW v \in Vm, NEW s \in Lifecycle, SetVm(v, s),
         vm[v] \in DeadStates => s \in DeadStates
  PROVE  /\ Grows
         /\ vm[v] # "none" => NoLaunch
         /\ vm'[v] = s
         /\ \A w \in Vm : w # v => vm'[w] = vm[w]
<1>1. /\ vm' = [vm EXCEPT ![v] = s] /\ old' = [old EXCEPT ![v] = vm[v]]
      /\ vm \in [Vm -> Lifecycle \cup {"none"}]
      /\ old \in [Vm -> Lifecycle \cup {"none"}]
  BY DEF SetVm, Inv, TypeOK
<1>2. s # "none"
  BY DEF Lifecycle
<1>3. \A w \in Vm : Platform(w)'
  BY <1>1, <1>2 DEF Inv, Platform
<1> QED
  BY <1>1, <1>2, <1>3 DEF Grows, NoLaunch

LEMMA UnchangedGrows ==
  ASSUME Inv, UNCHANGED <<vm, old>>
  PROVE  Grows /\ NoLaunch
BY DEF Inv, TypeOK, Grows, NoLaunch, Platform

LEMMA ReadsAreReal ==
  ASSUME Inv, NEW v \in Vm, NEW r \in Reads(v)
  PROVE  /\ r \in Lifecycle
         /\ vm[v] # "none"
         /\ r \in DeadStates => vm[v] \in DeadStates
BY DEF Inv, TypeOK, Reads, Platform

LEMMA TouchGrows ==
  ASSUME Inv, NEW v \in Vm, Touch(v)
  PROVE  Grows /\ NoLaunch
<1>1. CASE AutoResume /\ vm[v] = "SUSPENDED"
  <2>1. SetVm(v, "PENDING") /\ "PENDING" \in Lifecycle /\ vm[v] \notin DeadStates /\ vm[v] # "none"
    BY <1>1 DEF Touch, Lifecycle, DeadStates
  <2> QED
    BY <2>1, SetVmGrows
<1>2. CASE ~(AutoResume /\ vm[v] = "SUSPENDED")
  BY <1>2, UnchangedGrows DEF Touch
<1> QED
  BY <1>1, <1>2

LEMMA ResumeGrows ==
  ASSUME Inv, NEW v \in Vm, ResumeEffect(v)
  PROVE  Grows /\ NoLaunch
<1>1. CASE vm[v] = "SUSPENDED" /\ SetVm(v, "PENDING")
  <2>1. "PENDING" \in Lifecycle /\ vm[v] \notin DeadStates /\ vm[v] # "none"
    BY <1>1 DEF Lifecycle, DeadStates
  <2> QED
    BY <1>1, <2>1, SetVmGrows
<1>2. CASE UNCHANGED <<vm, old>>
  BY <1>2, UnchangedGrows
<1> QED
  BY <1>1, <1>2 DEF ResumeEffect

\* TerminateMicrovm ends the VM, or it had ended.
LEMMA TerminateGrows ==
  ASSUME Inv, NEW v \in Vm, vm[v] # "none", TerminateEffect(v)
  PROVE  Grows /\ NoLaunch /\ vm'[v] \in DeadStates
<1>1. CASE vm[v] \in DeadStates
  BY <1>1, UnchangedGrows DEF TerminateEffect
<1>2. CASE vm[v] \notin DeadStates
  <2>1. SetVm(v, "TERMINATING") /\ "TERMINATING" \in Lifecycle
        /\ "TERMINATING" \in DeadStates
    BY <1>2 DEF TerminateEffect, Lifecycle, DeadStates
  <2> QED
    BY <1>2, <2>1, SetVmGrows
<1> QED
  BY <1>1, <1>2

-----------------------------------------------------------------------------
(* A step of one handle leaves the others as they were.                    *)

Local(h) == Coherent(sb[h]) /\ Truthful(h) /\ Awake(h)

\* Nothing of g's own changes.
Untouched(g) ==
  /\ sb'[g] = sb[g] /\ said'[g] = said[g]
  /\ ka'[g] = ka[g] /\ wakes'[g] = wakes[g]

LEMMA UntouchedKeeps ==
  ASSUME Inv, Grows, NEW g \in Handle, Untouched(g)
  PROVE  Local(g)'
<1>1. Coherent(sb[g]) /\ Truthful(g) /\ Awake(g) /\ sb[g].microvm \in Vm \cup {NoVm}
  BY DEF Inv, TypeOK, SandboxFields
<1>2. Coherent(sb'[g])
  BY <1>1 DEF Untouched
<1>3. Gone(g) => Gone(g)'
  BY <1>1 DEF Gone, Untouched, Grows
<1>4. Truthful(g)'
  BY <1>1, <1>3 DEF Truthful, Untouched, Grows
<1>5. Awake(g)'
  BY <1>1 DEF Awake, Untouched
<1> QED
  BY <1>2, <1>4, <1>5 DEF Local

\* Who has the VM stays the same.
SameOwner(s, t) ==
  /\ s.life = t.life /\ s.microvm = t.microvm
  /\ s.adopted = t.adopted /\ s.detached = t.detached

LEMMA AnsweredKept ==
  ASSUME Inv, NoLaunch, UNCHANGED <<records, lost>>,
         \A g \in Handle : SameOwner(sb'[g], sb[g])
  PROVE  \A v \in Vm : Answered(v)'
BY DEF Inv, Answered, NoLaunch, SameOwner

LEMMA StableKept ==
  ASSUME Inv, Grows, UNCHANGED stable
  PROVE  TokenIsReal'
BY DEF Inv, TypeOK, Grows, TokenIsReal

\* The types of everything but the platform.
ClientTypes ==
  /\ stable \in Vm \cup {NoVm}
  /\ sb \in [Handle -> SandboxFields]
  /\ ka \in [Handle -> {"off", "on", "inflight"}]
  /\ wakes \in [Handle -> Nat]
  /\ records \subseteq Vm
  /\ lost \subseteq Vm
  /\ said \in [Handle -> Said]

\* A step of h, whatever it does to the platform and to who has its VM.
LEMMA HandleKeeps ==
  ASSUME Inv, Grows, ClientTypes', NEW h \in Handle,
         \A g \in Handle \ {h} : Untouched(g),
         Local(h)',
         \A v \in Vm : Answered(v)', TokenIsReal'
  PROVE  Inv'
<1>1. TypeOK'
  BY DEF Grows, ClientTypes, TypeOK
<1>2. \A g \in Handle : Local(g)'
  BY UntouchedKeeps
<1> QED
  BY <1>1, <1>2 DEF Inv, Grows, Local

\* A step that changes the fields of h but not who has its VM, and at most
\* what h says and its wakes.
LEMMA FieldsKeep ==
  ASSUME Inv, Grows, NoLaunch, NEW h \in Handle, NEW s \in SandboxFields,
         Becomes(h, s), SameOwner(s, sb[h]), Coherent(s),
         NEW x \in Said, said' = [said EXCEPT ![h] = x],
         NEW n \in Nat, wakes' = [wakes EXCEPT ![h] = n],
         UNCHANGED <<stable, ka, records, lost>>,
         Truthful(h)', Awake(h)'
  PROVE  Inv'
<1>1. /\ sb' = [sb EXCEPT ![h] = s] /\ sb \in [Handle -> SandboxFields]
      /\ sb'[h] = s /\ \A g \in Handle \ {h} : sb'[g] = sb[g]
  BY DEF Becomes, Inv, TypeOK
<1>2. ClientTypes'
  <2>1. sb' \in [Handle -> SandboxFields]
    BY <1>1
  <2> QED
    BY <2>1 DEF Inv, TypeOK, ClientTypes
<1>3. \A g \in Handle \ {h} : Untouched(g)
  BY <1>1 DEF Untouched, Inv, TypeOK
<1>4. \A g \in Handle : SameOwner(sb'[g], sb[g])
  BY <1>1 DEF SameOwner
<1>5. \A v \in Vm : Answered(v)'
  BY <1>4, AnsweredKept
<1>6. Local(h)'
  BY <1>1 DEF Local
<1>7. TokenIsReal'
  BY StableKept
<1> QED
  BY <1>2, <1>3, <1>5, <1>6, <1>7, HandleKeeps

\* A step of an operation of h that says nothing and wakes nothing.
LEMMA QuietKeeps ==
  ASSUME Inv, Grows, NoLaunch, NEW h \in Handle, NEW s \in SandboxFields,
         Becomes(h, s), SameOwner(s, sb[h]), Coherent(s),
         UNCHANGED <<stable, ka, wakes, records, lost, said>>,
         sb[h].life = "open",
         s.op # "terminateWait",
         s.lifecycle = "TERMINATED" => Gone(h),
         s.op = "idle" /\ s.lifecycle \in DeadStates =>
           Gone(h) \/ said[h] \in {"named", "cut"},
         \/ s.lifecycle = sb[h].lifecycle \/ wakes[h] = 0
         \/ s.lifecycle \in DeadStates
  PROVE  Inv'
<1>1. sb'[h] = s /\ said' = [said EXCEPT ![h] = said[h]] /\ said[h] \in Said
      /\ wakes' = [wakes EXCEPT ![h] = wakes[h]] /\ wakes[h] \in Nat
  BY DEF Becomes, Inv, TypeOK
<1>2. Truthful(h) /\ Awake(h) /\ sb[h].microvm \in Vm \cup {NoVm}
  BY DEF Inv, TypeOK, SandboxFields
<1>3. Gone(h) => Gone(h)'
  BY <1>1, <1>2 DEF Gone, SameOwner, Grows
<1>4. Truthful(h)'
  BY <1>1, <1>2, <1>3 DEF Truthful, SameOwner, Grows
<1>5. Awake(h)'
  BY <1>1, <1>2 DEF Awake, SameOwner, DeadStates
<1> QED
  BY <1>1, <1>4, <1>5, FieldsKeep

\* The fields of a handle, one by one.
LEMMA Fields ==
  ASSUME Inv, NEW h \in Handle
  PROVE  /\ sb[h] \in SandboxFields
         /\ Coherent(sb[h]) /\ Truthful(h) /\ Awake(h)
         /\ sb[h].microvm \in Vm \cup {NoVm}
         /\ said[h] \in Said /\ wakes[h] \in Nat
BY DEF Inv, TypeOK, SandboxFields

LEMMA RunCallKeeps ==
  ASSUME Inv, NEW h \in Handle, RunCall(h)
  PROVE  Inv'
<1>1. PICK o \in {"run", "runStable"} : Becomes(h, [sb[h] EXCEPT !.op = o])
  BY DEF RunCall
<1> DEFINE s == [sb[h] EXCEPT !.op = o]
<1>2. s \in SandboxFields /\ SameOwner(s, sb[h]) /\ s.op = o
      /\ s.lifecycle = sb[h].lifecycle
  BY Fields DEF SandboxFields, SameOwner, Op
<1>3. Coherent(s)
  BY Fields DEF RunCall, Idle, SandboxFields, Coherent, OpAgrees
<1>4. Grows /\ NoLaunch /\ UNCHANGED <<stable, ka, wakes, records, lost, said>>
  BY UnchangedGrows DEF RunCall, platformVars, historyVars
<1>5. sb[h].life = "open" /\ s.lifecycle \notin DeadStates
  BY Fields DEF RunCall, Idle, Coherent, DeadStates
<1> HIDE DEF s
<1> QED
  BY <1>1, <1>2, <1>3, <1>4, <1>5, QuietKeeps DEF DeadStates, s

LEMMA WaitUntilRunningCallKeeps ==
  ASSUME Inv, NEW h \in Handle, WaitUntilRunningCall(h)
  PROVE  Inv'
<1> DEFINE s == [sb[h] EXCEPT !.op = "waitRunning"]
<1>1. Becomes(h, s) /\ s \in SandboxFields /\ SameOwner(s, sb[h])
      /\ s.lifecycle = sb[h].lifecycle
  BY Fields DEF WaitUntilRunningCall, SandboxFields, SameOwner, Op
<1>2. Coherent(s)
  BY Fields DEF WaitUntilRunningCall, Idle, SandboxFields, Coherent, OpAgrees
<1>3. Grows /\ NoLaunch /\ UNCHANGED <<stable, ka, wakes, records, lost, said>>
  BY UnchangedGrows DEF WaitUntilRunningCall, platformVars, historyVars
<1>4. /\ sb[h].life = "open" /\ sb[h].lifecycle \notin DeadStates
      /\ s.op # "terminateWait"
  BY Fields DEF WaitUntilRunningCall, Idle, Coherent, OpAgrees, SandboxFields, DeadStates, Op
<1> HIDE DEF s
<1> QED
  BY <1>1, <1>2, <1>3, <1>4, QuietKeeps DEF DeadStates

LEMMA LaunchResumeKeeps ==
  ASSUME Inv, NEW h \in Handle, LaunchResume(h)
  PROVE  Inv'
<1> DEFINE s == [sb[h] EXCEPT !.op = "waitRunning", !.resumed = TRUE]
<1>1. Becomes(h, s) /\ s \in SandboxFields /\ SameOwner(s, sb[h])
      /\ s.lifecycle = sb[h].lifecycle
  BY Fields DEF LaunchResume, SandboxFields, SameOwner, Op
<1>2. Coherent(s)
  BY Fields DEF LaunchResume, Idle, SandboxFields, Coherent, OpAgrees
<1>3. Grows /\ NoLaunch /\ UNCHANGED <<stable, ka, wakes, records, lost, said>>
  <2>1. sb[h].microvm \in Vm /\ ResumeEffect(sb[h].microvm)
    BY Fields DEF LaunchResume, Coherent
  <2> QED
    BY <2>1, ResumeGrows DEF LaunchResume, historyVars
<1>4. /\ sb[h].life = "open" /\ sb[h].lifecycle \notin DeadStates
      /\ s.op # "terminateWait"
  BY Fields DEF LaunchResume, Idle, Coherent, OpAgrees, SandboxFields, DeadStates, Op
<1> HIDE DEF s
<1> QED
  BY <1>1, <1>2, <1>3, <1>4, QuietKeeps DEF DeadStates

LEMMA WaitUntilReadyCallKeeps ==
  ASSUME Inv, NEW h \in Handle, WaitUntilReadyCall(h)
  PROVE  Inv'
<1> DEFINE s == [sb[h] EXCEPT !.op = "ready"]
<1>1. Becomes(h, s) /\ s \in SandboxFields /\ SameOwner(s, sb[h])
      /\ s.lifecycle = sb[h].lifecycle
  BY Fields DEF WaitUntilReadyCall, SandboxFields, SameOwner, Op
<1>2. Coherent(s)
  BY Fields DEF WaitUntilReadyCall, Idle, SandboxFields, Coherent, OpAgrees
<1>3. Grows /\ NoLaunch /\ UNCHANGED <<stable, ka, wakes, records, lost, said>>
  BY UnchangedGrows DEF WaitUntilReadyCall, platformVars, historyVars
<1>4. /\ sb[h].life = "open" /\ sb[h].lifecycle \notin DeadStates
      /\ s.op # "terminateWait"
  BY Fields DEF WaitUntilReadyCall, Idle, Coherent, OpAgrees, SandboxFields, DeadStates, Op
<1> HIDE DEF s
<1> QED
  BY <1>1, <1>2, <1>3, <1>4, QuietKeeps DEF DeadStates

LEMMA ReadyKeeps ==
  ASSUME Inv, NEW h \in Handle, Ready(h)
  PROVE  Inv'
<1> DEFINE s == [sb[h] EXCEPT !.op = "idle", !.resumed = FALSE]
<1>1. Becomes(h, s) /\ s \in SandboxFields /\ SameOwner(s, sb[h])
      /\ s.lifecycle = sb[h].lifecycle
  BY Fields DEF Ready, Return, SandboxFields, SameOwner, Op
<1>2. Coherent(s)
  BY Fields DEF Ready, Idle, SandboxFields, Coherent, OpAgrees
<1>3. Grows /\ NoLaunch /\ UNCHANGED <<stable, ka, wakes, records, lost, said>>
  <2>1. sb[h].microvm \in Vm /\ Touch(sb[h].microvm)
    BY Fields DEF Ready, Coherent
  <2> QED
    BY <2>1, TouchGrows DEF Ready, historyVars
<1>4. /\ sb[h].life = "open" /\ sb[h].lifecycle \notin DeadStates
      /\ s.op # "terminateWait"
  BY Fields DEF Ready, Idle, Coherent, OpAgrees, SandboxFields, DeadStates, Op
<1> HIDE DEF s
<1> QED
  BY <1>1, <1>2, <1>3, <1>4, QuietKeeps DEF DeadStates

LEMMA SuspendCallKeeps ==
  ASSUME Inv, NEW h \in Handle, SuspendCall(h)
  PROVE  Inv'
<1> DEFINE s == [sb[h] EXCEPT !.op = "suspend"]
<1>1. Becomes(h, s) /\ s \in SandboxFields /\ SameOwner(s, sb[h])
      /\ s.lifecycle = sb[h].lifecycle
  BY Fields DEF SuspendCall, SandboxFields, SameOwner, Op
<1>2. Coherent(s)
  BY Fields DEF SuspendCall, Idle, SandboxFields, Coherent, OpAgrees
<1>3. Grows /\ NoLaunch /\ UNCHANGED <<stable, ka, wakes, records, lost, said>>
  BY UnchangedGrows DEF SuspendCall, platformVars, historyVars
<1>4. /\ sb[h].life = "open" /\ sb[h].lifecycle \notin DeadStates
      /\ s.op # "terminateWait"
  BY Fields DEF SuspendCall, Idle, Coherent, OpAgrees, SandboxFields, DeadStates, Op
<1> HIDE DEF s
<1> QED
  BY <1>1, <1>2, <1>3, <1>4, QuietKeeps DEF DeadStates

LEMMA SuspendAcceptedKeeps ==
  ASSUME Inv, NEW h \in Handle, SuspendAccepted(h)
  PROVE  Inv'
<1> DEFINE s == [sb[h] EXCEPT !.op = "suspendReply"]
<1>1. Becomes(h, s) /\ s \in SandboxFields /\ SameOwner(s, sb[h])
      /\ s.lifecycle = sb[h].lifecycle
  BY Fields DEF SuspendAccepted, SandboxFields, SameOwner, Op
<1>2. Coherent(s)
  BY Fields DEF SuspendAccepted, Idle, SandboxFields, Coherent, OpAgrees
<1>3. Grows /\ NoLaunch /\ UNCHANGED <<stable, ka, wakes, records, lost, said>>
  <2>1. /\ sb[h].microvm \in Vm /\ SetVm(sb[h].microvm, "SUSPENDING")
        /\ "SUSPENDING" \in Lifecycle
        /\ vm[sb[h].microvm] \notin DeadStates \cup {"none"}
    BY Fields DEF SuspendAccepted, Coherent, Lifecycle, DeadStates
  <2> QED
    BY <2>1, SetVmGrows DEF SuspendAccepted, historyVars
<1>4. /\ sb[h].life = "open" /\ sb[h].lifecycle \notin DeadStates
      /\ s.op # "terminateWait"
  BY Fields DEF SuspendAccepted, Idle, Coherent, OpAgrees, SandboxFields, DeadStates, Op
<1> HIDE DEF s
<1> QED
  BY <1>1, <1>2, <1>3, <1>4, QuietKeeps DEF DeadStates

LEMMA ResumeCallKeeps ==
  ASSUME Inv, NEW h \in Handle, ResumeCall(h)
  PROVE  Inv'
<1> DEFINE s == [sb[h] EXCEPT !.op = "resume"]
<1>1. Becomes(h, s) /\ s \in SandboxFields /\ SameOwner(s, sb[h])
      /\ s.lifecycle = sb[h].lifecycle
  BY Fields DEF ResumeCall, SandboxFields, SameOwner, Op
<1>2. Coherent(s)
  BY Fields DEF ResumeCall, Idle, SandboxFields, Coherent, OpAgrees
<1>3. Grows /\ NoLaunch /\ UNCHANGED <<stable, ka, wakes, records, lost, said>>
  BY UnchangedGrows DEF ResumeCall, platformVars, historyVars
<1>4. /\ sb[h].life = "open" /\ sb[h].lifecycle \notin DeadStates
      /\ s.op # "terminateWait"
  BY Fields DEF ResumeCall, Idle, Coherent, OpAgrees, SandboxFields, DeadStates, Op
<1> HIDE DEF s
<1> QED
  BY <1>1, <1>2, <1>3, <1>4, QuietKeeps DEF DeadStates

LEMMA ResumeAcceptedKeeps ==
  ASSUME Inv, NEW h \in Handle, ResumeAccepted(h)
  PROVE  Inv'
<1> DEFINE s == [sb[h] EXCEPT !.op = "resumeWait"]
<1>1. Becomes(h, s) /\ s \in SandboxFields /\ SameOwner(s, sb[h])
      /\ s.lifecycle = sb[h].lifecycle
  BY Fields DEF ResumeAccepted, SandboxFields, SameOwner, Op
<1>2. Coherent(s)
  BY Fields DEF ResumeAccepted, Idle, SandboxFields, Coherent, OpAgrees
<1>3. Grows /\ NoLaunch /\ UNCHANGED <<stable, ka, wakes, records, lost, said>>
  <2>1. sb[h].microvm \in Vm /\ ResumeEffect(sb[h].microvm)
    BY Fields DEF ResumeAccepted, Coherent
  <2> QED
    BY <2>1, ResumeGrows DEF ResumeAccepted, historyVars
<1>4. /\ sb[h].life = "open" /\ sb[h].lifecycle \notin DeadStates
      /\ s.op # "terminateWait"
  BY Fields DEF ResumeAccepted, Idle, Coherent, OpAgrees, SandboxFields, DeadStates, Op
<1> HIDE DEF s
<1> QED
  BY <1>1, <1>2, <1>3, <1>4, QuietKeeps DEF DeadStates

LEMMA OperationFailsKeeps ==
  ASSUME Inv, NEW h \in Handle, OperationFails(h)
  PROVE  Inv'
<1> DEFINE s == [sb[h] EXCEPT !.op = "idle", !.resumed = FALSE]
<1>1. Becomes(h, s) /\ s \in SandboxFields /\ SameOwner(s, sb[h])
      /\ s.lifecycle = sb[h].lifecycle
  BY Fields DEF OperationFails, Return, SandboxFields, SameOwner, Op
<1>2. Coherent(s)
  BY Fields DEF OperationFails, Idle, SandboxFields, Coherent, OpAgrees
<1>3. Grows /\ NoLaunch /\ UNCHANGED <<stable, ka, wakes, records, lost, said>>
  BY UnchangedGrows DEF OperationFails, platformVars, historyVars
<1>4. /\ sb[h].life = "open" /\ sb[h].lifecycle \notin DeadStates
      /\ s.op # "terminateWait"
  BY Fields DEF OperationFails, Idle, Coherent, OpAgrees, SandboxFields, DeadStates, Op
<1> HIDE DEF s
<1> QED
  BY <1>1, <1>2, <1>3, <1>4, QuietKeeps DEF DeadStates

LEMMA WaitUntilRunningKeeps ==
  ASSUME Inv, NEW h \in Handle, WaitUntilRunning(h)
  PROVE  Inv'
<1> DEFINE booted == [sb[h] EXCEPT !.lifecycle = "RUNNING",
                        !.token_installed = TRUE, !.bootstrap_count = 1,
                        !.session = TRUE, !.op = "ready", !.resumed = FALSE]
           resume == [sb[h] EXCEPT !.op = "launchResume"]
           failed == [sb[h] EXCEPT !.op = "idle", !.resumed = FALSE]
<1>1. /\ sb[h].life = "open" /\ sb[h].lifecycle = "PENDING"
      /\ sb[h].bootstrap_count = 0 /\ sb[h].microvm # NoVm
      /\ ~sb[h].was_terminated /\ wakes[h] = 0
  BY Fields DEF WaitUntilRunning, Coherent, OpAgrees, Awake, DeadStates
<1>2. Becomes(h, booted) \/ Becomes(h, resume) \/ Becomes(h, failed)
  BY <1>1 DEF WaitUntilRunning, Return
<1>3. Grows /\ NoLaunch /\ UNCHANGED <<stable, ka, wakes, records, lost, said>>
  BY UnchangedGrows DEF WaitUntilRunning, platformVars, historyVars
<1>4. CASE Becomes(h, booted)
  <2>1. /\ booted \in SandboxFields /\ SameOwner(booted, sb[h])
        /\ booted.lifecycle = "RUNNING" /\ booted.op = "ready"
    BY <1>1, Fields DEF SandboxFields, SameOwner, Op, Lifecycle
  <2>2. Coherent(booted)
    BY <1>1, Fields DEF SandboxFields, Coherent, OpAgrees, Booted, DeadStates
  <2> HIDE DEF booted
  <2> QED
    BY <1>1, <1>3, <1>4, <2>1, <2>2, QuietKeeps DEF DeadStates
<1>5. CASE Becomes(h, resume)
  <2>1. /\ resume \in SandboxFields /\ SameOwner(resume, sb[h])
        /\ resume.lifecycle = "PENDING" /\ resume.op = "launchResume"
    BY <1>1, Fields DEF SandboxFields, SameOwner, Op
  <2>2. Coherent(resume)
    BY <1>1, Fields DEF SandboxFields, Coherent, OpAgrees, Booted, DeadStates
  <2> HIDE DEF resume
  <2> QED
    BY <1>1, <1>3, <1>5, <2>1, <2>2, QuietKeeps DEF DeadStates
<1>6. CASE Becomes(h, failed)
  <2>1. /\ failed \in SandboxFields /\ SameOwner(failed, sb[h])
        /\ failed.lifecycle = "PENDING" /\ failed.op = "idle"
    BY <1>1, Fields DEF SandboxFields, SameOwner, Op
  <2>2. Coherent(failed)
    BY <1>1, Fields DEF SandboxFields, Coherent, OpAgrees, Booted, DeadStates
  <2> HIDE DEF failed
  <2> QED
    BY <1>1, <1>3, <1>6, <2>1, <2>2, QuietKeeps DEF DeadStates
<1> QED
  BY <1>2, <1>4, <1>5, <1>6

LEMMA SuspendAnsweredKeeps ==
  ASSUME Inv, NEW h \in Handle, SuspendAnswered(h)
  PROVE  Inv'
<1> DEFINE s == [sb[h] EXCEPT !.lifecycle = "SUSPENDING", !.op = "suspendWait"]
<1>1. /\ Becomes(h, s) /\ s \in SandboxFields /\ SameOwner(s, sb[h])
      /\ s.lifecycle = "SUSPENDING" /\ s.op = "suspendWait" /\ s.life = "open"
      /\ s.microvm = sb[h].microvm
  BY Fields DEF SuspendAnswered, SandboxFields, SameOwner, Op, Lifecycle,
                Coherent
<1>2. Coherent(s)
  BY Fields DEF SuspendAnswered, SandboxFields, Coherent, OpAgrees, Booted,
                DeadStates
<1>3. Grows /\ NoLaunch /\ UNCHANGED <<stable, ka, records, lost, said>>
      /\ wakes' = [wakes EXCEPT ![h] = 0]
  BY UnchangedGrows DEF SuspendAnswered, platformVars
<1> HIDE DEF s
<1>4. /\ sb'[h] = s /\ wakes'[h] = 0 /\ said'[h] = said[h]
      /\ said' = [said EXCEPT ![h] = said[h]]
  BY <1>1, <1>3 DEF Becomes, Inv, TypeOK
<1>5. Gone(h) => Gone(h)'
  BY <1>1, <1>3, <1>4, Fields DEF Gone, Grows
<1>6. Truthful(h)'
  BY <1>1, <1>3, <1>4, <1>5, Fields DEF Truthful, Grows, DeadStates
<1>7. Awake(h)'
  BY <1>1, <1>3, <1>4, Fields DEF Awake
<1> QED
  BY <1>1, <1>2, <1>3, <1>4, <1>6, <1>7, Fields, FieldsKeep

LEMMA SuspendWaitKeeps ==
  ASSUME Inv, NEW h \in Handle, SuspendWait(h)
  PROVE  Inv'
<1>1. PICK r \in Reads(sb[h].microvm) \cap {"SUSPENDED", "TERMINATED"} :
        Becomes(h, [sb[h] EXCEPT !.lifecycle = r, !.op = "idle",
                      !.was_terminated = @ \/ r = "TERMINATED"])
  BY DEF SuspendWait
<1> DEFINE s == [sb[h] EXCEPT !.lifecycle = r, !.op = "idle",
                   !.was_terminated = @ \/ r = "TERMINATED"]
<1>2. /\ sb[h].life = "open" /\ sb[h].lifecycle = "SUSPENDING"
      /\ sb[h].microvm \in Vm
  BY Fields DEF SuspendWait, Coherent, OpAgrees
<1>3. r = "TERMINATED" => Gone(h)
  BY <1>1, <1>2, ReadsAreReal, SandboxAssumption DEF Gone, DeadStates
<1>4. /\ s \in SandboxFields /\ SameOwner(s, sb[h])
      /\ s.lifecycle = r /\ s.op = "idle"
  BY <1>1, <1>2, Fields DEF SandboxFields, SameOwner, Op, Lifecycle
<1>5. Coherent(s)
  BY <1>1, <1>2, Fields
     DEF SandboxFields, Coherent, OpAgrees, Booted, DeadStates
<1>6. Grows /\ NoLaunch /\ UNCHANGED <<stable, ka, wakes, records, lost, said>>
  BY UnchangedGrows DEF SuspendWait, platformVars, historyVars
<1> HIDE DEF s
<1>7. CASE r = "TERMINATED"
  BY <1>1, <1>2, <1>3, <1>4, <1>5, <1>6, <1>7, QuietKeeps DEF DeadStates, s
<1>8. CASE r = "SUSPENDED"
  <2>1. /\ Becomes(h, s) /\ sb'[h] = s /\ said'[h] = said[h]
        /\ said' = [said EXCEPT ![h] = said[h]] /\ wakes'[h] = wakes[h]
        /\ wakes' = [wakes EXCEPT ![h] = wakes[h]]
    BY <1>1, <1>6 DEF Becomes, Inv, TypeOK, s
  <2>2. Gone(h) => Gone(h)'
    BY <1>2, <1>4, <1>6, <2>1 DEF Gone, Grows, SameOwner
  <2>3. Truthful(h)'
    BY <1>2, <1>4, <1>6, <1>8, <2>1, <2>2, Fields
       DEF Truthful, Grows, DeadStates, SameOwner
  <2>4. Awake(h)'
    BY <1>2, <1>4, <1>6, <1>8, <2>1, Fields DEF Awake, SameOwner
  <2> QED
    BY <1>4, <1>5, <1>6, <2>1, <2>3, <2>4, Fields, FieldsKeep
<1> QED
  BY <1>1, <1>7, <1>8

LEMMA ResumeRefreshKeeps ==
  ASSUME Inv, NEW h \in Handle, ResumeRefresh(h)
  PROVE  Inv'
<1> DEFINE idled == [sb[h] EXCEPT !.lifecycle = "SUSPENDED", !.op = "resume"]
           ended == [sb[h] EXCEPT !.lifecycle = "TERMINATED",
                                  !.was_terminated = TRUE]
<1>1. /\ sb[h].life = "open" /\ sb[h].lifecycle = "RUNNING"
      /\ sb[h].op = "idle" /\ sb[h].microvm \in Vm /\ wakes[h] = 0
  BY Fields DEF ResumeRefresh, Idle, Awake
<1>2. \/ Becomes(h, idled)
      \/ Becomes(h, ended) /\ Gone(h)
  <2>1. PICK r \in Reads(sb[h].microvm) :
          \/ r = "SUSPENDED"
             /\ Becomes(h, [sb[h] EXCEPT !.lifecycle = r, !.op = "resume"])
          \/ r \in DeadStates /\ Becomes(h, ended)
    BY DEF ResumeRefresh
  <2>2. r \in DeadStates => Gone(h)
    BY <1>1, ReadsAreReal, SandboxAssumption DEF Gone
  <2> QED
    BY <2>1, <2>2
<1>3. Grows /\ NoLaunch /\ UNCHANGED <<stable, ka, wakes, records, lost, said>>
  BY UnchangedGrows DEF ResumeRefresh, platformVars, historyVars
<1>4. CASE Becomes(h, idled)
  <2>1. /\ idled \in SandboxFields /\ SameOwner(idled, sb[h])
        /\ idled.lifecycle = "SUSPENDED" /\ idled.op = "resume"
    BY <1>1, Fields DEF SandboxFields, SameOwner, Op, Lifecycle
  <2>2. Coherent(idled)
    BY <1>1, Fields DEF SandboxFields, Coherent, OpAgrees, Booted, DeadStates
  <2> HIDE DEF idled
  <2> QED
    BY <1>1, <1>3, <1>4, <2>1, <2>2, QuietKeeps DEF DeadStates
<1>5. CASE Becomes(h, ended) /\ Gone(h)
  <2>1. /\ ended \in SandboxFields /\ SameOwner(ended, sb[h])
        /\ ended.lifecycle = "TERMINATED" /\ ended.op = "idle"
    BY <1>1, Fields DEF SandboxFields, SameOwner, Op, Lifecycle
  <2>2. Coherent(ended)
    BY <1>1, Fields DEF SandboxFields, Coherent, OpAgrees, Booted, DeadStates
  <2> HIDE DEF ended
  <2> QED
    BY <1>1, <1>3, <1>5, <2>1, <2>2, QuietKeeps DEF DeadStates
<1> QED
  BY <1>2, <1>4, <1>5

LEMMA ResumeWindowClosedKeeps ==
  ASSUME Inv, NEW h \in Handle, ResumeWindowClosed(h)
  PROVE  Inv'
<1> DEFINE s == [sb[h] EXCEPT !.lifecycle = "TERMINATED", !.op = "idle",
                              !.was_terminated = TRUE]
<1>1. sb[h].life = "open" /\ sb[h].microvm \in Vm
  BY Fields DEF ResumeWindowClosed, Coherent
<1>2. Gone(h)
  BY <1>1, ReadsAreReal, SandboxAssumption DEF ResumeWindowClosed, Gone
<1>3. /\ Becomes(h, s) /\ s \in SandboxFields /\ SameOwner(s, sb[h])
      /\ s.lifecycle = "TERMINATED" /\ s.op = "idle"
  BY Fields DEF ResumeWindowClosed, SandboxFields, SameOwner, Op, Lifecycle
<1>4. Coherent(s)
  BY <1>1, Fields DEF ResumeWindowClosed, SandboxFields, Coherent, OpAgrees,
                      Booted, DeadStates
<1>5. Grows /\ NoLaunch /\ UNCHANGED <<stable, ka, wakes, records, lost, said>>
  BY UnchangedGrows DEF ResumeWindowClosed, platformVars, historyVars
<1> HIDE DEF s
<1> QED
  BY <1>1, <1>2, <1>3, <1>4, <1>5, QuietKeeps DEF DeadStates

LEMMA ResumeWaitKeeps ==
  ASSUME Inv, NEW h \in Handle, ResumeWait(h)
  PROVE  Inv'
<1> DEFINE up == [sb[h] EXCEPT !.lifecycle = "RUNNING", !.op = "idle"]
           failed == [sb[h] EXCEPT !.op = "idle", !.resumed = FALSE]
<1>1. /\ sb[h].life = "open" /\ sb[h].lifecycle = "SUSPENDED"
      /\ sb[h].microvm # NoVm
  BY Fields DEF ResumeWait, Coherent, OpAgrees
<1>2. \/ Becomes(h, up) /\ wakes' = [wakes EXCEPT ![h] = 0]
      \/ Becomes(h, failed) /\ UNCHANGED wakes
  BY DEF ResumeWait, Return
<1>3. Grows /\ NoLaunch /\ UNCHANGED <<stable, ka, records, lost, said>>
  BY UnchangedGrows DEF ResumeWait, platformVars
<1>4. CASE Becomes(h, up) /\ wakes' = [wakes EXCEPT ![h] = 0]
  <2>1. /\ up \in SandboxFields /\ SameOwner(up, sb[h])
        /\ up.lifecycle = "RUNNING" /\ up.op = "idle" /\ up.life = "open"
        /\ up.microvm = sb[h].microvm
    BY <1>1, Fields DEF SandboxFields, SameOwner, Op, Lifecycle
  <2>2. Coherent(up)
    BY <1>1, Fields DEF SandboxFields, Coherent, OpAgrees, Booted, DeadStates
  <2> HIDE DEF up
  <2>3. /\ sb'[h] = up /\ wakes'[h] = 0 /\ said'[h] = said[h]
        /\ said' = [said EXCEPT ![h] = said[h]]
    BY <1>3, <1>4 DEF Becomes, Inv, TypeOK
  <2>4. Gone(h) => Gone(h)'
    BY <1>1, <1>3, <2>1, <2>3, Fields DEF Gone, Grows
  <2>5. Truthful(h)'
    BY <1>1, <1>3, <2>1, <2>3, <2>4, Fields DEF Truthful, Grows, DeadStates
  <2>6. Awake(h)'
    BY <1>1, <1>3, <2>1, <2>3, Fields DEF Awake
  <2> QED
    BY <1>3, <1>4, <2>1, <2>2, <2>3, <2>5, <2>6, Fields, FieldsKeep
<1>5. CASE Becomes(h, failed) /\ UNCHANGED wakes
  <2>1. /\ failed \in SandboxFields /\ SameOwner(failed, sb[h])
        /\ failed.lifecycle = "SUSPENDED" /\ failed.op = "idle"
    BY <1>1, Fields DEF SandboxFields, SameOwner, Op
  <2>2. Coherent(failed)
    BY <1>1, Fields DEF SandboxFields, Coherent, OpAgrees, Booted, DeadStates
  <2> HIDE DEF failed
  <2> QED
    BY <1>1, <1>3, <1>5, <2>1, <2>2, QuietKeeps DEF DeadStates
<1> QED
  BY <1>2, <1>4, <1>5

\* A step of a teardown: h, which says x of its VM from now on, stays dead.
LEMMA TeardownKeeps ==
  ASSUME Inv, Grows, NoLaunch, NEW h \in Handle, NEW s \in SandboxFields,
         Becomes(h, s), SameOwner(s, sb[h]), Coherent(s),
         NEW x \in Said, said' = [said EXCEPT ![h] = x],
         UNCHANGED <<stable, ka, wakes, records, lost>>,
         sb[h].life = "open", s.lifecycle \in DeadStates,
         x = "clean" \/ s.lifecycle = "TERMINATED" => Gone(h)',
         s.op = "terminateWait" => x = "clean",
         s.op = "idle" => Gone(h)' \/ x \in {"named", "cut"}
  PROVE  Inv'
<1>1. /\ sb'[h] = s /\ said'[h] = x /\ wakes'[h] = wakes[h] /\ ka'[h] = ka[h]
      /\ wakes' = [wakes EXCEPT ![h] = wakes[h]]
  BY DEF Becomes, Inv, TypeOK
<1>2. Truthful(h)'
  BY <1>1, Fields DEF Truthful, SameOwner, Grows
<1>3. Awake(h)'
  BY <1>1, Fields DEF Awake, SameOwner, DeadStates
<1> QED
  BY <1>1, <1>2, <1>3, Fields, FieldsKeep

LEMMA TerminateCallKeeps ==
  ASSUME Inv, NEW h \in Handle, TerminateCall(h)
  PROVE  Inv'
<1> DEFINE ending == [sb[h] EXCEPT !.torn_down = TRUE, !.session = FALSE,
                        !.lifecycle = "TERMINATING",
                        !.was_terminated = TRUE, !.op = "terminate"]
           empty == [sb[h] EXCEPT !.torn_down = TRUE, !.session = FALSE]
<1>1. /\ sb[h].life = "open" /\ sb[h].op = "idle"
      /\ said' = [said EXCEPT ![h] = "nothing"] /\ "nothing" \in Said
  BY DEF TerminateCall, Idle, Said
<1>2. Grows /\ NoLaunch /\ UNCHANGED <<stable, ka, wakes, records, lost>>
  BY UnchangedGrows DEF TerminateCall, platformVars
<1>3. CASE sb[h].microvm # NoVm
  <2>1. Becomes(h, ending)
    BY <1>3 DEF TerminateCall
  <2>2. /\ ending \in SandboxFields /\ SameOwner(ending, sb[h])
        /\ ending.lifecycle = "TERMINATING" /\ ending.op = "terminate"
    BY Fields DEF SandboxFields, SameOwner, Op, Lifecycle
  <2>3. Coherent(ending)
    BY <1>1, <1>3, Fields DEF SandboxFields, Coherent, OpAgrees, Booted, DeadStates
  <2> HIDE DEF ending
  <2> QED
    BY <1>1, <1>2, <2>1, <2>2, <2>3, TeardownKeeps DEF DeadStates
<1>4. CASE sb[h].microvm = NoVm
  <2>1. Becomes(h, empty)
    BY <1>4 DEF TerminateCall
  <2>2. /\ empty \in SandboxFields /\ SameOwner(empty, sb[h])
        /\ empty.lifecycle = "PENDING" /\ empty.op = "idle"
        /\ empty.life = "open" /\ empty.microvm = NoVm
    BY <1>1, <1>4, Fields DEF SandboxFields, SameOwner, Coherent
  <2>3. Coherent(empty)
    BY <1>1, <1>4, Fields DEF SandboxFields, Coherent, OpAgrees
  <2> HIDE DEF empty
  <2>4. /\ sb'[h] = empty /\ said'[h] = "nothing" /\ wakes'[h] = wakes[h]
        /\ ka'[h] = ka[h] /\ wakes' = [wakes EXCEPT ![h] = wakes[h]]
    BY <1>1, <1>2, <2>1 DEF Becomes, Inv, TypeOK
  <2>5. Truthful(h)'
    BY <2>2, <2>4 DEF Truthful, DeadStates
  <2>6. Awake(h)'
    BY <1>4, <2>2, <2>4, Fields DEF Awake, Coherent
  <2> QED
    BY <1>1, <1>2, <2>1, <2>2, <2>3, <2>4, <2>5, <2>6, Fields, FieldsKeep
<1> QED
  BY <1>3, <1>4

\* A handle in a teardown.
LEMMA TearingDown ==
  ASSUME Inv, NEW h \in Handle, sb[h].op \in {"terminate", "terminateWait"}
  PROVE  /\ sb[h].life = "open" /\ sb[h].lifecycle = "TERMINATING"
         /\ sb[h].microvm \in Vm /\ vm[sb[h].microvm] # "none"
         /\ sb[h].was_terminated
BY Fields DEF Coherent, OpAgrees, Truthful, DeadStates

LEMMA TerminateAcceptedKeeps ==
  ASSUME Inv, NEW h \in Handle, TerminateAccepted(h)
  PROVE  Inv'
<1>1. PICK next \in {"terminateWait", "idle"} :
        Becomes(h, [sb[h] EXCEPT !.op = next])
  BY DEF TerminateAccepted
<1> DEFINE s == [sb[h] EXCEPT !.op = next]
<1>2. /\ sb[h].life = "open" /\ sb[h].lifecycle = "TERMINATING"
      /\ sb[h].microvm \in Vm /\ vm[sb[h].microvm] # "none"
  BY TearingDown DEF TerminateAccepted
<1>3. Grows /\ NoLaunch /\ vm'[sb[h].microvm] \in DeadStates
  BY <1>2, TerminateGrows DEF TerminateAccepted
<1>4. /\ s \in SandboxFields /\ SameOwner(s, sb[h]) /\ s.op = next
      /\ s.lifecycle = "TERMINATING" /\ s.microvm = sb[h].microvm
  BY <1>2, Fields DEF SandboxFields, SameOwner, Op
<1>5. Coherent(s)
  BY <1>2, Fields DEF SandboxFields, Coherent, OpAgrees, Booted, DeadStates,
                      TerminateAccepted
<1>6. /\ said' = [said EXCEPT ![h] = "clean"] /\ "clean" \in Said
      /\ UNCHANGED <<stable, ka, wakes, records, lost>>
  BY DEF TerminateAccepted, Said
<1> HIDE DEF s
<1>7. Gone(h)'
  <2>1. sb'[h] = s
    BY <1>1 DEF Becomes, Inv, TypeOK, s
  <2> QED
    BY <1>2, <1>3, <1>4, <2>1, SandboxAssumption DEF Gone
<1>8. Becomes(h, s)
  BY <1>1 DEF s
<1> QED
  BY <1>2, <1>3, <1>4, <1>5, <1>6, <1>7, <1>8, TeardownKeeps DEF DeadStates

LEMMA TerminateFailedKeeps ==
  ASSUME Inv, NEW h \in Handle, TerminateFailed(h)
  PROVE  Inv'
<1> DEFINE s == [sb[h] EXCEPT !.op = "idle", !.resumed = FALSE]
<1>1. /\ sb[h].life = "open" /\ sb[h].lifecycle = "TERMINATING"
      /\ sb[h].microvm \in Vm /\ vm[sb[h].microvm] # "none"
  BY TearingDown DEF TerminateFailed
<1>2. Grows /\ NoLaunch
  BY <1>1, TerminateGrows, UnchangedGrows DEF TerminateFailed
<1>3. /\ Becomes(h, s) /\ s \in SandboxFields /\ SameOwner(s, sb[h])
      /\ s.lifecycle = "TERMINATING" /\ s.op = "idle"
  BY <1>1, Fields DEF TerminateFailed, Return, SandboxFields, SameOwner, Op
<1>4. Coherent(s)
  BY <1>1, Fields DEF SandboxFields, Coherent, OpAgrees, Booted, DeadStates
<1>5. /\ said' = [said EXCEPT ![h] = "named"] /\ "named" \in Said
      /\ UNCHANGED <<stable, ka, wakes, records, lost>>
  BY DEF TerminateFailed, Said
<1> HIDE DEF s
<1> QED
  BY <1>1, <1>2, <1>3, <1>4, <1>5, TeardownKeeps DEF DeadStates

LEMMA TerminateWaitKeeps ==
  ASSUME Inv, NEW h \in Handle, TerminateWait(h)
  PROVE  Inv'
<1> DEFINE ended == [sb[h] EXCEPT !.lifecycle = "TERMINATED", !.op = "idle"]
           s == [sb[h] EXCEPT !.op = "idle", !.resumed = FALSE]
<1>1. /\ sb[h].life = "open" /\ sb[h].lifecycle = "TERMINATING"
      /\ sb[h].microvm \in Vm /\ sb[h].was_terminated
      /\ sb[h].op = "terminateWait"
  BY TearingDown DEF TerminateWait
<1>2. Gone(h) /\ said[h] = "clean"
  BY <1>1, Fields DEF Truthful
<1>3. /\ Grows /\ NoLaunch /\ UNCHANGED <<stable, ka, wakes, records, lost, said>>
  BY UnchangedGrows DEF TerminateWait, platformVars, historyVars
<1>4. CASE Becomes(h, ended)
  <2>1. /\ ended \in SandboxFields /\ SameOwner(ended, sb[h])
        /\ ended.lifecycle = "TERMINATED" /\ ended.op = "idle"
    BY Fields DEF SandboxFields, SameOwner, Op, Lifecycle
  <2>2. Coherent(ended)
    BY <1>1, Fields DEF SandboxFields, Coherent, OpAgrees, Booted, DeadStates
  <2> HIDE DEF ended
  <2> QED
    BY <1>1, <1>2, <1>3, <1>4, <2>1, <2>2, QuietKeeps DEF DeadStates
<1>5. CASE Becomes(h, s)
  <2>1. /\ s \in SandboxFields /\ SameOwner(s, sb[h])
        /\ s.lifecycle = "TERMINATING" /\ s.op = "idle"
    BY <1>1, Fields DEF SandboxFields, SameOwner, Op
  <2>2. Coherent(s)
    BY <1>1, Fields DEF SandboxFields, Coherent, OpAgrees, Booted, DeadStates
  <2> HIDE DEF s
  <2> QED
    BY <1>1, <1>2, <1>3, <1>5, <2>1, <2>2, QuietKeeps DEF DeadStates
<1> QED
  BY <1>4, <1>5 DEF TerminateWait, Return

LEMMA TerminateCutKeeps ==
  ASSUME Inv, NEW h \in Handle, TerminateCut(h)
  PROVE  Inv'
<1> DEFINE s == [sb[h] EXCEPT !.op = "idle", !.resumed = FALSE]
<1>1. sb[h].life = "open" /\ sb[h].lifecycle = "TERMINATING"
  BY TearingDown DEF TerminateCut
<1>2. Grows /\ NoLaunch
  BY UnchangedGrows DEF TerminateCut, platformVars
<1>3. /\ Becomes(h, s) /\ s \in SandboxFields /\ SameOwner(s, sb[h])
      /\ s.lifecycle = "TERMINATING" /\ s.op = "idle"
  BY <1>1, Fields DEF TerminateCut, Return, SandboxFields, SameOwner, Op
<1>4. Coherent(s)
  BY <1>1, Fields DEF TerminateCut, SandboxFields, Coherent, OpAgrees, Booted,
                      DeadStates
<1>5. /\ said' = [said EXCEPT ![h] = "cut"] /\ "cut" \in Said
      /\ UNCHANGED <<stable, ka, wakes, records, lost>>
  BY DEF TerminateCut, Said, platformVars
<1> HIDE DEF s
<1> QED
  BY <1>1, <1>2, <1>3, <1>4, <1>5, TeardownKeeps DEF DeadStates

-----------------------------------------------------------------------------
(* Steps that change who answers for a VM.                                 *)

LEMMA NewKeeps ==
  ASSUME Inv, NEW h \in Handle, New(h)
  PROVE  Inv'
<1> DEFINE s == [sb[h] EXCEPT !.life = "open"]
<1>1. /\ sb' = [sb EXCEPT ![h] = s] /\ s \in SandboxFields
      /\ s.life = "open" /\ s.microvm = NoVm /\ s.op = "idle"
      /\ s.lifecycle = "PENDING"
      /\ ~sb[h].adopted /\ ~sb[h].detached /\ sb[h].microvm = NoVm
  BY Fields DEF New, Becomes, SandboxFields, Coherent
<1>2. Coherent(s)
  BY Fields DEF New, SandboxFields, Coherent, OpAgrees
<1>3. Grows /\ NoLaunch /\ UNCHANGED <<stable, ka, wakes, records, lost, said>>
  BY UnchangedGrows DEF New, platformVars, historyVars
<1> HIDE DEF s
<1>4. sb'[h] = s /\ \A g \in Handle \ {h} : sb'[g] = sb[g]
  BY <1>1 DEF Inv, TypeOK
<1>5. ClientTypes'
  <2>1. sb' \in [Handle -> SandboxFields]
    BY <1>1 DEF Inv, TypeOK
  <2> QED
    BY <1>3, <2>1 DEF Inv, TypeOK, ClientTypes
<1>6. \A g \in Handle \ {h} : Untouched(g)
  BY <1>3, <1>4 DEF Untouched
<1>7. Truthful(h)'
  BY <1>1, <1>3, <1>4, Fields DEF Truthful, DeadStates, Gone
<1>8. Awake(h)'
  BY <1>1, <1>3, <1>4, Fields DEF Awake, Coherent
<1>9. \A v \in Vm : Answered(v)'
  <2> SUFFICES ASSUME NEW v \in Vm PROVE Answered(v)'
    OBVIOUS
  <2>1. v # NoVm
    BY SandboxAssumption
  <2>2. \A g \in Handle : sb'[g].microvm = v <=> sb[g].microvm = v
    BY <1>1, <1>4, <2>1
  <2>3. \A g \in Handle : sb[g].microvm = v => sb'[g] = sb[g]
    BY <1>1, <1>4, <2>1
  <2> QED
    BY <1>3, <2>2, <2>3 DEF Answered, Inv, NoLaunch
<1> QED
  BY <1>2, <1>3, <1>4, <1>5, <1>6, <1>7, <1>8, <1>9, StableKept, HandleKeeps
     DEF Local

\* What RunMicrovm does to the platform: at most v is launched.
LEMMA RunMicrovmGrows ==
  ASSUME Inv, NEW h \in Handle, NEW v \in Vm, RunMicrovm(h, v)
  PROVE  /\ Grows /\ vm'[v] # "none" /\ TokenIsReal'
         /\ stable' \in Vm \cup {NoVm}
         /\ \A w \in Vm : w # v => vm'[w] = vm[w]
<1>1. CASE /\ vm[v] = "none" /\ SetVm(v, "PENDING")
           /\ stable' = IF sb[h].op = "runStable" THEN v ELSE stable
  <2>1. "PENDING" \in Lifecycle /\ vm[v] \notin DeadStates
    BY <1>1 DEF Lifecycle, DeadStates
  <2>2. Grows /\ vm'[v] = "PENDING" /\ \A w \in Vm : w # v => vm'[w] = vm[w]
    BY <1>1, <2>1, SetVmGrows
  <2>3. stable' \in Vm \cup {NoVm}
    BY <1>1 DEF Inv, TypeOK
  <2>4. TokenIsReal'
    BY <1>1, <2>2, <2>3 DEF Inv, TokenIsReal, TypeOK, Grows
  <2> QED
    BY <2>2, <2>3, <2>4
<1>2. CASE v = stable /\ UNCHANGED <<vm, old, stable>>
  BY <1>2, UnchangedGrows, StableKept, SandboxAssumption
     DEF Inv, TypeOK, TokenIsReal
<1> QED
  BY <1>1, <1>2 DEF RunMicrovm

LEMMA RunAcceptedKeeps ==
  ASSUME Inv, NEW h \in Handle, RunAccepted(h)
  PROVE  Inv'
<1>1. PICK v \in Vm :
        /\ RunMicrovm(h, v)
        /\ \/ Becomes(h, [LaunchRecorded(h, v) EXCEPT !.op = "waitRunning"])
           \/ Becomes(h, [LaunchRecorded(h, v) EXCEPT !.op = "idle",
                                                      !.session = TRUE])
        /\ lost' = lost \ {v}
  BY DEF RunAccepted
<1>2. /\ sb[h].op \in {"run", "runStable"} /\ sb[h].life = "open"
      /\ sb[h].microvm = NoVm /\ sb[h].lifecycle = "PENDING"
      /\ ~sb[h].adopted /\ ~sb[h].detached /\ sb[h].bootstrap_count = 0
      /\ ~sb[h].token_installed /\ ~sb[h].was_terminated
      /\ wakes[h] = 0 /\ v # NoVm
  BY Fields, SandboxAssumption
     DEF RunAccepted, Coherent, OpAgrees, Awake, DeadStates
<1> DEFINE launched == LaunchRecorded(h, v)
<1>3. /\ launched \in SandboxFields
      /\ launched.life = "open" /\ launched.microvm = v
      /\ launched.lifecycle = "PENDING" /\ launched.bootstrap_count = 0
      /\ ~launched.adopted /\ ~launched.detached
      /\ ~launched.token_installed /\ ~launched.was_terminated
  BY <1>2, Fields DEF LaunchRecorded, SandboxFields, Lifecycle
<1> HIDE DEF launched
<1>4. PICK s \in SandboxFields :
        /\ sb' = [sb EXCEPT ![h] = s]
        /\ s.life = "open" /\ s.microvm = v
        /\ s.lifecycle = "PENDING" /\ s.bootstrap_count = 0
        /\ ~s.adopted /\ ~s.detached
        /\ ~s.token_installed /\ ~s.was_terminated
        /\ s.op \in {"waitRunning", "idle"}
  <2>1. CASE Becomes(h, [launched EXCEPT !.op = "waitRunning"])
    <3> DEFINE r == [launched EXCEPT !.op = "waitRunning"]
    <3>1. r \in SandboxFields
      BY <1>3 DEF SandboxFields, Op
    <3> QED
      BY <1>3, <2>1, <3>1 DEF Becomes, SandboxFields
  <2>2. CASE Becomes(h, [launched EXCEPT !.op = "idle", !.session = TRUE])
    <3> DEFINE r == [launched EXCEPT !.op = "idle", !.session = TRUE]
    <3>1. r \in SandboxFields
      BY <1>3 DEF SandboxFields, Op
    <3> QED
      BY <1>3, <2>2, <3>1 DEF Becomes, SandboxFields
  <2> QED
    BY <1>1, <2>1, <2>2 DEF launched
<1>5. Coherent(s)
  BY <1>2, <1>4 DEF Coherent, OpAgrees, Booted, DeadStates
<1>6. /\ Grows /\ vm'[v] # "none" /\ TokenIsReal'
      /\ stable' \in Vm \cup {NoVm} /\ \A w \in Vm : w # v => vm'[w] = vm[w]
  BY <1>1, RunMicrovmGrows
<1>7. said' = [said EXCEPT ![h] = "nothing"] /\ UNCHANGED <<ka, wakes, records>>
  BY DEF RunAccepted
<1>8. /\ sb'[h] = s /\ said'[h] = "nothing"
      /\ \A g \in Handle \ {h} : sb'[g] = sb[g] /\ said'[g] = said[g]
  BY <1>4, <1>7 DEF Inv, TypeOK
<1>9. ClientTypes'
  <2>1. sb' \in [Handle -> SandboxFields] /\ said' \in [Handle -> Said]
    BY <1>4, <1>7 DEF Inv, TypeOK, Said
  <2> QED
    BY <1>1, <1>6, <1>7, <2>1 DEF Inv, TypeOK, ClientTypes
<1>10. \A g \in Handle \ {h} : Untouched(g)
  BY <1>7, <1>8 DEF Untouched
<1>11. Truthful(h)'
  BY <1>4, <1>6, <1>8 DEF Truthful, DeadStates
<1>12. Awake(h)'
  BY <1>2, <1>4, <1>7, <1>8, Fields DEF Awake
<1>13. \A w \in Vm : Answered(w)'
  <2> SUFFICES ASSUME NEW w \in Vm PROVE Answered(w)'
    OBVIOUS
  <2>1. w # NoVm
    BY SandboxAssumption
  <2>2. \A g \in Handle : sb[g].microvm = w => g # h /\ sb'[g] = sb[g]
    BY <1>2, <1>8, <2>1
  <2>3. CASE w = v
    BY <1>4, <1>7, <1>8, <2>2, <2>3 DEF Answered, Inv
  <2>4. CASE w # v
    <3>1. \A g \in Handle : sb'[g].microvm = w => g # h /\ sb'[g] = sb[g]
      BY <1>4, <1>8, <2>4
    <3> QED
      BY <1>1, <1>6, <1>7, <2>2, <2>4, <3>1 DEF Answered, Inv
  <2> QED
    BY <2>3, <2>4
<1> QED
  BY <1>5, <1>6, <1>8, <1>9, <1>10, <1>11, <1>12, <1>13, HandleKeeps DEF Local

LEMMA RunLostKeeps ==
  ASSUME Inv, NEW h \in Handle, RunLost(h)
  PROVE  Inv'
<1>1. PICK v \in Vm : RunMicrovm(h, v) /\ lost' = lost \cup {v}
  BY DEF RunLost
<1> DEFINE s == [sb[h] EXCEPT !.op = "idle", !.resumed = FALSE]
<1>2. /\ sb' = [sb EXCEPT ![h] = s] /\ s \in SandboxFields
      /\ SameOwner(s, sb[h]) /\ s.life = "open" /\ s.microvm = NoVm
      /\ s.lifecycle = "PENDING" /\ s.op = "idle"
  BY Fields DEF RunLost, Return, Becomes, SandboxFields, SameOwner, Op,
                Coherent, OpAgrees
<1>3. Coherent(s)
  BY Fields DEF RunLost, SandboxFields, Coherent, OpAgrees
<1> HIDE DEF s
<1>4. /\ Grows /\ TokenIsReal' /\ stable' \in Vm \cup {NoVm}
      /\ \A w \in Vm : w # v => vm'[w] = vm[w]
  BY <1>1, RunMicrovmGrows
<1>5. sb'[h] = s /\ \A g \in Handle \ {h} : sb'[g] = sb[g]
  BY <1>2 DEF Inv, TypeOK
<1>6. UNCHANGED <<ka, wakes, records, said>>
  BY DEF RunLost
<1>7. ClientTypes'
  <2>1. sb' \in [Handle -> SandboxFields]
    BY <1>2 DEF Inv, TypeOK
  <2> QED
    BY <1>1, <1>4, <1>6, <2>1 DEF Inv, TypeOK, ClientTypes
<1>8. \A g \in Handle \ {h} : Untouched(g)
  BY <1>5, <1>6 DEF Untouched
<1>9. Truthful(h)'
  <2>1. sb[h].microvm = NoVm
    BY <1>2 DEF SameOwner
  <2> QED
    BY <1>2, <1>5, <1>6, <2>1, Fields DEF Truthful, DeadStates, Gone
<1>10. Awake(h)'
  <2>1. sb[h].microvm = NoVm
    BY <1>2 DEF SameOwner
  <2> QED
    BY <1>2, <1>5, <1>6, <2>1, Fields DEF Awake, Coherent
<1>11. \A w \in Vm : Answered(w)'
  <2>1. \A g \in Handle : SameOwner(sb'[g], sb[g])
    BY <1>2, <1>5 DEF SameOwner
  <2> QED
    BY <1>1, <1>4, <1>6, <2>1 DEF Answered, Inv, SameOwner
<1> QED
  BY <1>3, <1>4, <1>5, <1>7, <1>8, <1>9, <1>10, <1>11, HandleKeeps DEF Local

LEMMA DetachKeeps ==
  ASSUME Inv, NEW h \in Handle, Detach(h)
  PROVE  Inv'
<1> DEFINE s == [sb[h] EXCEPT !.detached = TRUE, !.session = FALSE]
           v == sb[h].microvm
<1>1. /\ sb' = [sb EXCEPT ![h] = s] /\ s \in SandboxFields
      /\ s.life = "open" /\ s.microvm = v /\ s.op = "idle" /\ v \in Vm
      /\ s.lifecycle = sb[h].lifecycle /\ s.adopted = sb[h].adopted
      /\ sb[h].op = "idle" /\ sb[h].life = "open"
  BY Fields DEF Detach, Idle, Becomes, SandboxFields, Coherent
<1>2. Coherent(s)
  BY Fields DEF Detach, Idle, SandboxFields, Coherent, OpAgrees
<1>3. /\ Grows /\ NoLaunch /\ UNCHANGED <<vm, stable, ka, wakes, lost, said>>
      /\ records' = records \cup {v}
  BY UnchangedGrows DEF Detach, platformVars
<1> HIDE DEF s
<1>4. sb'[h] = s /\ \A g \in Handle \ {h} : sb'[g] = sb[g]
  BY <1>1 DEF Inv, TypeOK
<1>5. ClientTypes'
  <2>1. sb' \in [Handle -> SandboxFields]
    BY <1>1 DEF Inv, TypeOK
  <2> QED
    BY <1>1, <1>3, <2>1 DEF Inv, TypeOK, ClientTypes
<1>6. \A g \in Handle \ {h} : Untouched(g)
  BY <1>3, <1>4 DEF Untouched
<1>7. Truthful(h)'
  BY <1>1, <1>3, <1>4, Fields DEF Truthful, DeadStates, Gone
<1>8. Awake(h)'
  BY <1>1, <1>3, <1>4, Fields DEF Awake
<1>9. \A w \in Vm : Answered(w)'
  <2> SUFFICES ASSUME NEW w \in Vm PROVE Answered(w)'
    OBVIOUS
  <2>1. \A g \in Handle : /\ sb'[g].microvm = sb[g].microvm
                          /\ sb'[g].adopted = sb[g].adopted
                          /\ sb[g].microvm # v => sb'[g] = sb[g]
    BY <1>1, <1>4
  <2>2. CASE w = v
    BY <1>3, <2>1, <2>2 DEF Answered, Inv
  <2>3. CASE w # v
    BY <1>3, <2>1, <2>3 DEF Answered, Inv
  <2> QED
    BY <2>2, <2>3
<1> QED
  BY <1>2, <1>3, <1>4, <1>5, <1>6, <1>7, <1>8, <1>9, StableKept, HandleKeeps
     DEF Local

LEMMA DropKeeps ==
  ASSUME Inv, NEW h \in Handle, Drop(h)
  PROVE  Inv'
<1> DEFINE s == [sb[h] EXCEPT !.life = "dropped", !.session = FALSE]
           x == IF WarnsOnDrop(sb[h]) THEN "named" ELSE said[h]
<1>1. /\ sb' = [sb EXCEPT ![h] = s] /\ s \in SandboxFields
      /\ s.life = "dropped" /\ s.microvm = sb[h].microvm /\ s.op = "idle"
      /\ s.lifecycle = sb[h].lifecycle /\ s.adopted = sb[h].adopted
      /\ s.detached = sb[h].detached /\ s.torn_down = sb[h].torn_down
      /\ sb[h].op = "idle"
  BY Fields DEF Drop, Idle, Becomes, SandboxFields
<1>2. Coherent(s)
  BY Fields DEF Drop, Idle, SandboxFields, Coherent, OpAgrees
<1>3. /\ Grows /\ NoLaunch
      /\ UNCHANGED <<vm, stable, ka, wakes, records, lost>>
  BY UnchangedGrows DEF Drop, platformVars
<1>4. said' = [said EXCEPT ![h] = x] /\ x \in Said
  BY Fields DEF Drop, Inv, TypeOK, Said
<1> HIDE DEF s
<1>5. /\ sb'[h] = s /\ said'[h] = x
      /\ \A g \in Handle \ {h} : sb'[g] = sb[g] /\ said'[g] = said[g]
  BY <1>1, <1>4 DEF Inv, TypeOK
<1>6. ClientTypes'
  <2>1. sb' \in [Handle -> SandboxFields] /\ said' \in [Handle -> Said]
    BY <1>1, <1>4 DEF Inv, TypeOK
  <2> QED
    BY <1>3, <2>1 DEF Inv, TypeOK, ClientTypes
<1>7. \A g \in Handle \ {h} : Untouched(g)
  BY <1>3, <1>5 DEF Untouched
<1>8. Truthful(h)'
  <2>1. Gone(h)' <=> Gone(h)
    BY <1>1, <1>3, <1>5 DEF Gone
  <2>2. ~IsLive(sb[h].lifecycle) => sb[h].lifecycle \in DeadStates
    BY Fields DEF SandboxFields, Lifecycle, IsLive, DeadStates
  <2>3. IsLive(sb[h].lifecycle) => IsLive(s.lifecycle)
    BY <1>1
  <2>4. x = "clean" => Gone(h)
    BY Fields DEF Truthful
  <2>5. ~sb[h].adopted /\ ~sb[h].detached =>
          \/ sb[h].microvm = NoVm \/ Gone(h) \/ x \in {"named", "cut"}
          \/ sb[h].torn_down /\ IsLive(sb[h].lifecycle)
    BY <1>1, <2>2, Fields DEF Truthful, WarnsOnDrop
  <2>6. sb[h].lifecycle \in DeadStates => Gone(h) \/ x \in {"named", "cut"}
    BY <1>1, Fields DEF Truthful
  <2>7. sb[h].microvm # NoVm => vm'[sb[h].microvm] # "none"
    BY <1>3, Fields DEF Truthful
  <2>8. sb[h].lifecycle = "TERMINATED" => Gone(h)
    BY Fields DEF Truthful
  <2> HIDE DEF x
  <2> QED
    BY <1>1, <1>5, <2>1, <2>3, <2>4, <2>5, <2>6, <2>7, <2>8
       DEF Truthful
<1>9. Awake(h)'
  BY <1>1, <1>3, <1>5, Fields DEF Awake
<1>10. \A w \in Vm : Answered(w)'
  <2>1. \A g \in Handle : /\ sb'[g].microvm = sb[g].microvm
                          /\ sb'[g].adopted = sb[g].adopted
                          /\ sb'[g].detached = sb[g].detached
                          /\ sb[g].life = "dropped" => sb'[g].life = "dropped"
    BY <1>1, <1>5
  <2> QED
    BY <1>3, <2>1 DEF Answered, Inv
<1> HIDE DEF x
<1> QED
  BY <1>2, <1>3, <1>5, <1>6, <1>7, <1>8, <1>9, <1>10, StableKept, HandleKeeps
     DEF Local

LEMMA AdoptKeeps ==
  ASSUME Inv, NEW h \in Handle, Adopt(h)
  PROVE  Inv'
<1>1. PICK v \in Vm : \E r \in Reads(v) :
        /\ Becomes(h, [FreshSandbox EXCEPT !.life = "open", !.adopted = TRUE,
              !.lifecycle = r,
              !.launch_adoptable = TRUE, !.microvm = v,
              !.token_installed = r \in {"RUNNING", "SUSPENDING", "SUSPENDED"},
              !.bootstrap_count = IF r = "PENDING" THEN 0 ELSE 1,
              !.was_terminated = r \in DeadStates,
              !.session = IsLive(r)])
        /\ records' = records \ {v}
  BY DEF Adopt
<1>2. PICK r \in Reads(v) :
        Becomes(h, [FreshSandbox EXCEPT !.life = "open", !.adopted = TRUE,
              !.lifecycle = r,
              !.launch_adoptable = TRUE, !.microvm = v,
              !.token_installed = r \in {"RUNNING", "SUSPENDING", "SUSPENDED"},
              !.bootstrap_count = IF r = "PENDING" THEN 0 ELSE 1,
              !.was_terminated = r \in DeadStates,
              !.session = IsLive(r)])
  BY <1>1
<1> DEFINE s == [FreshSandbox EXCEPT !.life = "open", !.adopted = TRUE,
              !.lifecycle = r,
              !.launch_adoptable = TRUE, !.microvm = v,
              !.token_installed = r \in {"RUNNING", "SUSPENDING", "SUSPENDED"},
              !.bootstrap_count = IF r = "PENDING" THEN 0 ELSE 1,
              !.was_terminated = r \in DeadStates,
              !.session = IsLive(r)]
<1>3. /\ r \in Lifecycle /\ vm[v] # "none" /\ v # NoVm
      /\ r \in DeadStates => vm[v] \in DeadStates
  BY ReadsAreReal, SandboxAssumption
<1>4. /\ sb[h].life = "absent" /\ sb[h].microvm = NoVm
      /\ sb[h].lifecycle = "PENDING" /\ wakes[h] = 0
      /\ said[h] # "clean" /\ ka[h] = "off"
  BY Fields DEF Adopt, Coherent, Awake, Truthful, Gone, Inv, TypeOK
<1>5. /\ FreshSandbox \in SandboxFields
      /\ FreshSandbox.op = "idle" /\ ~FreshSandbox.detached
  BY DEF FreshSandbox, SandboxFields, Op, Lifecycle
<1>6. /\ s \in SandboxFields /\ s.life = "open" /\ s.microvm = v
      /\ s.op = "idle" /\ s.lifecycle = r /\ s.adopted /\ ~s.detached
      /\ s.bootstrap_count = (IF r = "PENDING" THEN 0 ELSE 1)
      /\ s.token_installed <=> r \in Booted
      /\ s.was_terminated <=> r \in DeadStates
  <2>1. /\ (r \in Booted) \in BOOLEAN /\ (r \in DeadStates) \in BOOLEAN
        /\ IsLive(r) \in BOOLEAN /\ (IF r = "PENDING" THEN 0 ELSE 1) \in Nat
    BY DEF IsLive
  <2> QED
    BY <1>3, <1>5, <2>1 DEF SandboxFields, Booted
<1> HIDE DEF s
<1>7. Coherent(s)
  BY <1>3, <1>6 DEF Coherent, OpAgrees, Booted, DeadStates, Lifecycle
<1>8. /\ Grows /\ NoLaunch /\ UNCHANGED <<vm, stable, ka, wakes, lost, said>>
      /\ records' = records \ {v}
  BY <1>1, UnchangedGrows DEF Adopt, platformVars
<1>9. /\ sb' = [sb EXCEPT ![h] = s]
      /\ sb'[h] = s /\ \A g \in Handle \ {h} : sb'[g] = sb[g]
  BY <1>2 DEF Inv, TypeOK, Becomes, s
<1>10. ClientTypes'
  <2>1. sb' \in [Handle -> SandboxFields]
    BY <1>6, <1>9 DEF Inv, TypeOK
  <2> QED
    BY <1>8, <2>1 DEF Inv, TypeOK, ClientTypes
<1>11. \A g \in Handle \ {h} : Untouched(g)
  BY <1>8, <1>9 DEF Untouched
<1>12. Truthful(h)'
  BY <1>3, <1>4, <1>6, <1>8, <1>9 DEF Truthful, DeadStates, Gone
<1>13. Awake(h)'
  BY <1>4, <1>6, <1>8, <1>9 DEF Awake
<1>14. \A w \in Vm : Answered(w)'
  <2> SUFFICES ASSUME NEW w \in Vm PROVE Answered(w)'
    OBVIOUS
  <2>1. w # NoVm
    BY SandboxAssumption
  <2>2. \A g \in Handle : sb[g].microvm = w => g # h /\ sb'[g] = sb[g]
    BY <1>4, <1>9, <2>1
  <2>3. CASE w = v
    BY <1>6, <1>8, <1>9, <2>2, <2>3 DEF Answered, Inv
  <2>4. CASE w # v
    <3>1. \A g \in Handle : sb'[g].microvm = w => g # h /\ sb'[g] = sb[g]
      BY <1>6, <1>9, <2>4
    <3> QED
      BY <1>8, <2>2, <2>4, <3>1 DEF Answered, Inv
  <2> QED
    BY <2>3, <2>4
<1> QED
  BY <1>7, <1>8, <1>9, <1>10, <1>11, <1>12, <1>13, <1>14, StableKept,
     HandleKeeps DEF Local

-----------------------------------------------------------------------------
(* The platform and the keepalives leave the handles' fields alone.        *)

LEMMA PlatformStepKeeps ==
  ASSUME Inv, NEW v \in Vm, PlatformStep(v)
  PROVE  Inv'
<1>1. PICK m \in PlatformMoves : vm[v] = m[1] /\ SetVm(v, m[2])
  BY DEF PlatformStep
<1>2. /\ m[2] \in Lifecycle /\ m[1] # "none"
      /\ m[1] \in DeadStates => m[2] \in DeadStates
  BY DEF PlatformMoves, Lifecycle, DeadStates
<1>3. Grows /\ NoLaunch
  BY <1>1, <1>2, SetVmGrows
<1>4. UNCHANGED <<stable, sb, ka, wakes, records, lost, said>>
  BY DEF PlatformStep, historyVars
<1>5. \A g \in Handle : Local(g)'
  BY <1>3, <1>4, UntouchedKeeps DEF Untouched
<1>6. \A w \in Vm : Answered(w)'
  BY <1>3, <1>4, AnsweredKept DEF SameOwner
<1>7. TypeOK' /\ TokenIsReal'
  BY <1>3, <1>4, StableKept DEF Inv, TypeOK, Grows
<1> QED
  BY <1>3, <1>5, <1>6, <1>7 DEF Inv, Local, Grows

\* A step that leaves every field of every handle alone.
LEMMA KeepaliveKeeps ==
  ASSUME Inv, Grows, NoLaunch, NEW h \in Handle,
         NEW k \in {"off", "on", "inflight"}, ka' = [ka EXCEPT ![h] = k],
         NEW n \in Nat, wakes' = [wakes EXCEPT ![h] = n],
         UNCHANGED <<stable, sb, records, lost, said>>, Awake(h)'
  PROVE  Inv'
<1>1. ClientTypes'
  BY DEF Inv, TypeOK, ClientTypes
<1>2. \A g \in Handle \ {h} : Untouched(g)
  BY DEF Untouched, Inv, TypeOK
<1>3. Gone(h) => Gone(h)'
  BY Fields DEF Gone, Grows
<1>4. Local(h)'
  BY <1>3, Fields DEF Local, Truthful, Grows
<1>5. \A v \in Vm : Answered(v)'
  BY AnsweredKept DEF SameOwner
<1> QED
  BY <1>1, <1>2, <1>4, <1>5, StableKept, HandleKeeps

LEMMA KeepAwakeStepKeeps ==
  ASSUME Inv, NEW h \in Handle, KeepAwakeStep(h)
  PROVE  Inv'
<1>1. /\ ka[h] \in {"off", "on", "inflight"} /\ wakes[h] \in Nat
      /\ ka = [ka EXCEPT ![h] = ka[h]] /\ wakes = [wakes EXCEPT ![h] = wakes[h]]
      /\ Awake(h) /\ Coherent(sb[h]) /\ sb[h].microvm \in Vm \cup {NoVm}
  BY Fields DEF Inv, TypeOK
<1>2. CASE SessionRequest(h)
  <2>1. sb[h].microvm \in Vm /\ Touch(sb[h].microvm)
    BY <1>1, <1>2 DEF SessionRequest, Coherent
  <2>2. Grows /\ NoLaunch
    BY <2>1, TouchGrows
  <2>3. UNCHANGED <<stable, sb, ka, wakes, records, lost, said>>
    BY <1>2 DEF SessionRequest, historyVars
  <2>4. Awake(h)'
    BY <1>1, <2>3 DEF Awake
  <2> QED
    BY <1>1, <2>2, <2>3, <2>4, KeepaliveKeeps
<1>3. CASE KeepAwakeSpawn(h) \/ KeepAwakeGate(h) \/ KeepAwakeEnd(h)
  <2>1. /\ Grows /\ NoLaunch /\ UNCHANGED <<stable, sb, wakes, records, lost, said>>
    BY <1>3, UnchangedGrows DEF KeepAwakeSpawn, KeepAwakeGate, KeepAwakeEnd,
                                platformVars, historyVars
  <2>2. PICK k \in {"off", "on", "inflight"} :
          /\ ka' = [ka EXCEPT ![h] = k]
          /\ k = "inflight" => sb[h].lifecycle = "RUNNING"
          /\ k # "off" => sb[h].microvm # NoVm
    BY <1>1, <1>3 DEF KeepAwakeSpawn, KeepAwakeGate, KeepAwakeEnd, Awake,
                      Coherent
  <2>3. ka'[h] = k
    BY <2>2 DEF Inv, TypeOK
  <2>4. Awake(h)'
    BY <1>1, <2>1, <2>2, <2>3 DEF Awake
  <2> QED
    BY <1>1, <2>1, <2>2, <2>4, KeepaliveKeeps
<1>4. CASE KeepAwakePoll(h)
  <2> DEFINE n == IF /\ vm[sb[h].microvm] = "SUSPENDED" /\ AutoResume
                     /\ sb[h].lifecycle \in {"SUSPENDING", "SUSPENDED"}
                    THEN wakes[h] + 1 ELSE wakes[h]
  <2>1. sb[h].microvm \in Vm /\ Touch(sb[h].microvm) /\ ka[h] = "inflight"
    BY <1>1, <1>4 DEF KeepAwakePoll, Awake
  <2>2. Grows /\ NoLaunch
    BY <2>1, TouchGrows
  <2>3. /\ UNCHANGED <<stable, sb, records, lost, said>>
        /\ ka' = [ka EXCEPT ![h] = "on"] /\ wakes' = [wakes EXCEPT ![h] = n]
    BY <1>4 DEF KeepAwakePoll
  <2>4. n \in Nat
    BY <1>1
  <2>5. \/ n = wakes[h]
        \/ n = 1 /\ sb[h].lifecycle \in {"SUSPENDING", "SUSPENDED"}
    BY <1>1, <2>1 DEF Awake
  <2> HIDE DEF n
  <2>6. ka'[h] = "on" /\ wakes'[h] = n
    BY <2>3 DEF Inv, TypeOK
  <2>7. Awake(h)'
    BY <1>1, <2>1, <2>3, <2>5, <2>6 DEF Awake
  <2> QED
    BY <2>2, <2>3, <2>4, <2>7, KeepaliveKeeps
<1> QED
  BY <1>2, <1>3, <1>4 DEF KeepAwakeStep

-----------------------------------------------------------------------------
(* The invariant.                                                          *)

LEMMA InitInv ==
  ASSUME Init
  PROVE  Inv
<1>1. \A h \in Handle : sb[h] = FreshSandbox /\ ka[h] = "off" /\ wakes[h] = 0
                        /\ said[h] = "nothing"
  BY DEF Init
<1>2. FreshSandbox \in SandboxFields
  BY DEF FreshSandbox, SandboxFields, Op, Lifecycle
<1>3. TypeOK
  BY <1>2 DEF Init, TypeOK, Said
<1>4. Coherent(FreshSandbox)
  BY DEF FreshSandbox, Coherent, OpAgrees, Booted, DeadStates
<1>5. /\ FreshSandbox.microvm = NoVm /\ FreshSandbox.lifecycle = "PENDING"
      /\ FreshSandbox.op = "idle" /\ FreshSandbox.life = "absent"
  BY DEF FreshSandbox
<1>6. \A h \in Handle : Truthful(h) /\ Awake(h)
  BY <1>1, <1>5 DEF Truthful, Awake, DeadStates
<1>7. \A v \in Vm : Platform(v) /\ Answered(v)
  BY <1>1, <1>5, SandboxAssumption DEF Init, Platform, Answered, DeadStates
<1> QED
  BY <1>1, <1>3, <1>4, <1>6, <1>7 DEF Inv, Init, TokenIsReal

LEMMA HandleStepKeeps ==
  ASSUME Inv, NEW h \in Handle, HandleStep(h)
  PROVE  Inv'
BY NewKeeps, AdoptKeeps, DetachKeeps, DropKeeps, RunCallKeeps,
   RunAcceptedKeeps, RunLostKeeps, WaitUntilRunningCallKeeps,
   WaitUntilRunningKeeps, LaunchResumeKeeps, WaitUntilReadyCallKeeps,
   ReadyKeeps, SuspendCallKeeps, SuspendAcceptedKeeps, SuspendAnsweredKeeps,
   SuspendWaitKeeps, ResumeRefreshKeeps, ResumeCallKeeps, ResumeAcceptedKeeps,
   ResumeWindowClosedKeeps, ResumeWaitKeeps, OperationFailsKeeps,
   TerminateCallKeeps, TerminateAcceptedKeeps, TerminateFailedKeeps,
   TerminateWaitKeeps, TerminateCutKeeps
   DEF HandleStep

LEMMA StutterKeeps ==
  ASSUME Inv, UNCHANGED vars
  PROVE  Inv'
BY DEF Inv, vars, TypeOK, Platform, Coherent, OpAgrees, Truthful, Gone, Awake,
       Answered, TokenIsReal

\* The inductive invariant holds in every reachable state, for any number of
\* handles and VMs.
THEOREM SandboxInvariant == Spec => []Inv
<1>1. Init => Inv
  BY InitInv
<1>2. Inv /\ [Next]_vars => Inv'
  BY StutterKeeps, PlatformStepKeeps, HandleStepKeeps, KeepAwakeStepKeeps
     DEF Next
<1> QED
  BY <1>1, <1>2, PTL DEF Spec

\* Every variable keeps its type.
THEOREM TypeCorrect == Spec => []TypeOK
<1>1. Inv => TypeOK
  BY DEF Inv
<1> QED
  BY <1>1, SandboxInvariant, PTL

\* STATE-3, STATE-5 and STATE-11 hold of every handle, whatever calls fail
\* and are dropped (sandbox.rs, the transitions of lifecycle).
THEOREM ConstraintsHold == Spec => []StateConstraints
<1>1. Inv => StateConstraints
  BY DEF Inv, StateConstraints, Coherent, Booted, DeadStates
<1> QED
  BY <1>1, SandboxInvariant, PTL

\* A handle that says TERMINATED is right, however stale the reads, and a teardown
\* that names nothing undeleted has left no VM behind (sandbox.rs, terminate).
THEOREM ReportsTrue == Spec => []ReportsAreTrue
<1>1. Inv => TerminatedIsTrue
  BY DEF Inv, TerminatedIsTrue, Truthful, Gone
<1>2. Inv => CleanReportMeansGone
  BY DEF Inv, CleanReportMeansGone, Truthful, Gone
<1>3. Inv => ReportsAreTrue
  BY <1>1, <1>2 DEF ReportsAreTrue
<1> QED
  BY <1>3, SandboxInvariant, PTL

\* Every live VM is owned, recorded, named to somebody, or lost in one of the
\* four ways LeaksAreAccounted lists: there is no fifth.
THEOREM LeaksAccounted == Spec => []LeaksAreAccounted
<1>1. ASSUME Inv, NEW v \in Vm, IsLive(vm[v]), v \notin records \cup lost
      PROVE  \E h \in Handle : sb[h].microvm = v /\
               \/ sb[h].life = "open" /\ ~sb[h].detached
               \/ said[h] \in {"named", "cut"}
               \/ sb[h].torn_down /\ IsLive(sb[h].lifecycle)
               \/ /\ sb[h].detached
                  /\ \E g \in Handle : /\ sb[g].microvm = v /\ sb[g].adopted
                                       /\ sb[g].life = "dropped"
  <2>1. vm[v] # "none" /\ vm[v] \notin DeadStates /\ v # NoVm
    BY <1>1, SandboxAssumption DEF IsLive, DeadStates
  <2>2. PICK h \in Handle : sb[h].microvm = v /\ ~sb[h].adopted
    BY <1>1, <2>1 DEF Inv, Answered
  <2>3. /\ Truthful(h) /\ ~Gone(h) /\ sb[h].life \in {"open", "dropped"}
    BY <1>1, <2>1, <2>2, Fields DEF Gone, Coherent, SandboxFields
  <2>4. CASE ~sb[h].detached
    BY <2>1, <2>2, <2>3, <2>4 DEF Truthful
  <2>5. CASE sb[h].detached
    <3>1. PICK g \in Handle : /\ sb[g].microvm = v /\ sb[g].adopted
                              /\ sb[g].life = "dropped" \/ ~sb[g].detached
      BY <1>1, <2>2, <2>5 DEF Inv, Answered
    <3>2. sb[g].life \in {"open", "dropped"}
      BY <1>1, <2>1, <3>1, Fields DEF Coherent, SandboxFields
    <3> QED
      BY <2>2, <2>5, <3>1, <3>2
  <2> QED
    BY <2>4, <2>5
<1>2. Inv => LeaksAreAccounted
  BY <1>1 DEF LeaksAreAccounted
<1> QED
  BY <1>2, SandboxInvariant, PTL

\* A keepalive wakes the VM of a handle that recorded a suspend at most once.
THEOREM WakesOnce == Spec => []KeepaliveWakesAtMostOnce
<1>1. Inv => KeepaliveWakesAtMostOnce
  BY DEF Inv, KeepaliveWakesAtMostOnce, Awake
<1> QED
  BY <1>1, SandboxInvariant, PTL

-----------------------------------------------------------------------------
(* Every handle implements SandboxLifecycle.                               *)

\* A step of the client state model, or none.
Modelled(h) == Abstract(h)!Next \/ UNCHANGED Abstract(h)!lifecycleVars

\* The four variables of the model stay as they are in t.
Still(s, t) ==
  /\ s.lifecycle = t.lifecycle /\ s.token_installed = t.token_installed
  /\ s.was_terminated = t.was_terminated
  /\ s.bootstrap_count = t.bootstrap_count

LEMMA StillModelled ==
  ASSUME NEW h \in Handle, Still(sb'[h], sb[h])
  PROVE  Modelled(h)
BY DEF Still, Modelled, Abstract!lifecycleVars

LEMMA BecomesStill ==
  ASSUME Inv, NEW h \in Handle, NEW s, Becomes(h, s), Still(s, sb[h])
  PROVE  Modelled(h)
<1>1. sb'[h] = s
  BY DEF Becomes, Inv, TypeOK
<1> QED
  BY <1>1, StillModelled

\* The fields of a handle that are none of the model's variables.
LEMMA OtherFields ==
  ASSUME NEW t \in SandboxFields
  PROVE  /\ \A o \in Op : Still([t EXCEPT !.op = o], t)
         /\ \A o \in Op, b \in BOOLEAN :
              Still([t EXCEPT !.op = o, !.resumed = b], t)
         /\ \A o \in Op, b \in BOOLEAN :
              Still([t EXCEPT !.op = o, !.session = b], t)
         /\ Still([t EXCEPT !.life = "open"], t)
         /\ Still([t EXCEPT !.life = "dropped", !.session = FALSE], t)
         /\ Still([t EXCEPT !.detached = TRUE, !.session = FALSE], t)
         /\ Still([t EXCEPT !.torn_down = TRUE, !.session = FALSE], t)
BY DEF Still, SandboxFields

LEMMA ReturnModelled ==
  ASSUME Inv, NEW h \in Handle, Return(h)
  PROVE  Modelled(h)
BY Fields, OtherFields, BecomesStill DEF Return, Op

\* The steps of a handle that report no new lifecycle.
LEMMA QuietModelled ==
  ASSUME Inv, NEW h \in Handle,
         \/ New(h) \/ Detach(h) \/ Drop(h) \/ RunCall(h) \/ RunLost(h)
         \/ WaitUntilRunningCall(h) \/ LaunchResume(h)
         \/ WaitUntilReadyCall(h) \/ Ready(h)
         \/ SuspendCall(h) \/ SuspendAccepted(h)
         \/ ResumeCall(h) \/ ResumeAccepted(h) \/ OperationFails(h)
         \/ TerminateAccepted(h) \/ TerminateFailed(h) \/ TerminateCut(h)
  PROVE  Modelled(h)
<1>1. CASE New(h) \/ Detach(h) \/ Drop(h)
  BY <1>1, Fields, OtherFields, BecomesStill DEF New, Detach, Drop
<1>2. CASE \/ RunLost(h) \/ Ready(h) \/ OperationFails(h)
           \/ TerminateFailed(h) \/ TerminateCut(h)
  BY <1>2, ReturnModelled
     DEF RunLost, Ready, OperationFails, TerminateFailed, TerminateCut
<1>3. CASE \/ RunCall(h) \/ WaitUntilRunningCall(h)
           \/ WaitUntilReadyCall(h) \/ SuspendCall(h) \/ SuspendAccepted(h)
           \/ ResumeCall(h) \/ ResumeAccepted(h) \/ TerminateAccepted(h)
  <2>1. PICK o \in Op : Becomes(h, [sb[h] EXCEPT !.op = o])
    BY <1>3 DEF RunCall, WaitUntilRunningCall, WaitUntilReadyCall, SuspendCall,
         SuspendAccepted, ResumeCall, ResumeAccepted, TerminateAccepted, Op
  <2> QED
    BY <2>1, Fields, OtherFields, BecomesStill
<1>4. CASE LaunchResume(h)
  BY <1>4, Fields, OtherFields, BecomesStill DEF LaunchResume, Op
<1> QED
  BY <1>1, <1>2, <1>3, <1>4

LEMMA RunAcceptedModelled ==
  ASSUME Inv, NEW h \in Handle, RunAccepted(h)
  PROVE  Modelled(h)
<1>1. sb[h].lifecycle = "PENDING" /\ sb[h] \in SandboxFields
  BY Fields DEF RunAccepted, Coherent, OpAgrees
<1>2. PICK v \in Vm :
        \/ Becomes(h, [LaunchRecorded(h, v) EXCEPT !.op = "waitRunning"])
        \/ Becomes(h, [LaunchRecorded(h, v) EXCEPT !.op = "idle",
                                                   !.session = TRUE])
  BY DEF RunAccepted
<1> DEFINE launched == LaunchRecorded(h, v)
<1>3. launched \in SandboxFields /\ Still(launched, sb[h])
  BY <1>1 DEF LaunchRecorded, SandboxFields, Still, Lifecycle
<1>4. PICK s : Becomes(h, s) /\ Still(s, launched)
  <2> HIDE DEF launched
  <2>1. /\ Still([launched EXCEPT !.op = "waitRunning"], launched)
        /\ Still([launched EXCEPT !.op = "idle", !.session = TRUE], launched)
    BY <1>3, OtherFields DEF Op
  <2>2. \/ Becomes(h, [launched EXCEPT !.op = "waitRunning"])
        \/ Becomes(h, [launched EXCEPT !.op = "idle", !.session = TRUE])
    BY <1>2 DEF launched
  <2> QED
    BY <2>1, <2>2
<1>5. Still(s, sb[h])
  BY <1>3, <1>4 DEF Still
<1> QED
  BY <1>4, <1>5, BecomesStill

LEMMA WaitUntilRunningModelled ==
  ASSUME Inv, NEW h \in Handle, WaitUntilRunning(h)
  PROVE  Modelled(h)
<1>1. /\ sb[h] \in SandboxFields /\ sb[h].lifecycle = "PENDING"
      /\ sb[h].bootstrap_count = 0 /\ ~sb[h].was_terminated
  BY Fields DEF WaitUntilRunning, Coherent, OpAgrees, DeadStates
<1>2. CASE Becomes(h, [sb[h] EXCEPT !.lifecycle = "RUNNING",
                         !.token_installed = TRUE, !.bootstrap_count = @ + 1,
                         !.session = TRUE, !.op = "ready", !.resumed = FALSE])
  <2>1. /\ sb'[h].lifecycle = "RUNNING" /\ sb'[h].token_installed = TRUE
        /\ sb'[h].bootstrap_count = sb[h].bootstrap_count + 1
        /\ sb'[h].was_terminated = sb[h].was_terminated
    BY <1>1, <1>2 DEF Becomes, Inv, TypeOK, SandboxFields
  <2>2. Abstract(h)!HookSucceeded
    BY <1>1, <2>1 DEF Abstract!HookSucceeded
  <2> QED
    BY <2>2 DEF Modelled, Abstract!Next
<1>3. CASE \/ Becomes(h, [sb[h] EXCEPT !.op = "launchResume"])
           \/ Return(h)
  BY <1>1, <1>3, OtherFields, BecomesStill, ReturnModelled DEF Op
<1> QED
  BY <1>2, <1>3 DEF WaitUntilRunning

\* A handle that goes from one lifecycle to another and changes nothing else
\* of the model.
LEMMA MoveModelled ==
  ASSUME NEW h \in Handle, NEW from, NEW to,
         <<from, to>> \in {<<"RUNNING", "SUSPENDING">>,
                           <<"SUSPENDING", "SUSPENDED">>,
                           <<"RUNNING", "SUSPENDED">>,
                           <<"SUSPENDED", "RUNNING">>},
         sb[h].lifecycle = from, ~sb[h].was_terminated,
         Still(sb'[h], [sb[h] EXCEPT !.lifecycle = to]),
         sb[h] \in SandboxFields
  PROVE  Modelled(h)
<1>1. /\ sb'[h].lifecycle = to
      /\ sb'[h].token_installed = sb[h].token_installed
      /\ sb'[h].was_terminated = sb[h].was_terminated
      /\ sb'[h].bootstrap_count = sb[h].bootstrap_count
  BY DEF Still, SandboxFields
<1>2. Abstract(h)!Move(from, to)
  BY <1>1 DEF Abstract!Move
<1> QED
  BY <1>2 DEF Modelled, Abstract!Next

\* A handle that learns or orders the end of its VM.
LEMMA EndModelled ==
  ASSUME NEW h \in Handle, NEW to \in {"TERMINATING", "TERMINATED"},
         sb'[h].lifecycle = to, sb'[h].was_terminated = TRUE,
         sb'[h].token_installed = sb[h].token_installed,
         sb'[h].bootstrap_count = sb[h].bootstrap_count
  PROVE  Modelled(h)
<1>1. Abstract(h)!Ended(to)
  BY DEF Abstract!Ended
<1> QED
  BY <1>1 DEF Modelled, Abstract!Next

LEMMA SuspendModelled ==
  ASSUME Inv, NEW h \in Handle, SuspendAnswered(h) \/ SuspendWait(h)
  PROVE  Modelled(h)
<1>1. CASE SuspendAnswered(h)
  <2>1. sb[h] \in SandboxFields /\ sb[h].lifecycle = "RUNNING"
        /\ ~sb[h].was_terminated
    BY <1>1, Fields DEF SuspendAnswered, Coherent, OpAgrees, DeadStates
  <2>2. Still(sb'[h], [sb[h] EXCEPT !.lifecycle = "SUSPENDING"])
    BY <1>1, <2>1 DEF SuspendAnswered, Becomes, Still, Inv, TypeOK, SandboxFields
  <2> QED
    BY <2>1, <2>2, MoveModelled
<1>2. CASE SuspendWait(h)
  <2>1. sb[h] \in SandboxFields /\ sb[h].lifecycle = "SUSPENDING"
        /\ ~sb[h].was_terminated
    BY <1>2, Fields DEF SuspendWait, Coherent, OpAgrees, DeadStates
  <2>2. PICK r \in {"SUSPENDED", "TERMINATED"} :
          Becomes(h, [sb[h] EXCEPT !.lifecycle = r, !.op = "idle",
                        !.was_terminated = @ \/ r = "TERMINATED"])
    BY <1>2 DEF SuspendWait
  <2>3. /\ sb'[h].lifecycle = r
        /\ sb'[h].was_terminated = (sb[h].was_terminated \/ r = "TERMINATED")
        /\ sb'[h].token_installed = sb[h].token_installed
        /\ sb'[h].bootstrap_count = sb[h].bootstrap_count
    BY <2>1, <2>2 DEF Becomes, Inv, TypeOK, SandboxFields
  <2>4. CASE r = "SUSPENDED"
    <3>1. Still(sb'[h], [sb[h] EXCEPT !.lifecycle = "SUSPENDED"])
      BY <2>1, <2>3, <2>4 DEF Still, SandboxFields
    <3> QED
      BY <2>1, <3>1, MoveModelled
  <2>5. CASE r = "TERMINATED"
    BY <2>3, <2>5, EndModelled
  <2> QED
    BY <2>2, <2>4, <2>5
<1> QED
  BY <1>1, <1>2

LEMMA ResumeModelled ==
  ASSUME Inv, NEW h \in Handle,
         ResumeRefresh(h) \/ ResumeWindowClosed(h) \/ ResumeWait(h)
  PROVE  Modelled(h)
<1>0. sb[h] \in SandboxFields /\ Coherent(sb[h])
  BY Fields
<1>1. CASE ResumeRefresh(h)
  <2>1. sb[h].lifecycle = "RUNNING" /\ ~sb[h].was_terminated
    BY <1>1 DEF ResumeRefresh
  <2>2. CASE Becomes(h, [sb[h] EXCEPT !.lifecycle = "SUSPENDED",
                                      !.op = "resume"])
    <3>1. Still(sb'[h], [sb[h] EXCEPT !.lifecycle = "SUSPENDED"])
      BY <1>0, <2>2 DEF Becomes, Still, Inv, TypeOK, SandboxFields
    <3> QED
      BY <1>0, <2>1, <3>1, MoveModelled
  <2>3. CASE Becomes(h, [sb[h] EXCEPT !.lifecycle = "TERMINATED",
                                      !.was_terminated = TRUE])
    <3>1. /\ sb'[h].lifecycle = "TERMINATED" /\ sb'[h].was_terminated = TRUE
          /\ sb'[h].token_installed = sb[h].token_installed
          /\ sb'[h].bootstrap_count = sb[h].bootstrap_count
      BY <1>0, <2>3 DEF Becomes, Inv, TypeOK, SandboxFields
    <3> QED
      BY <3>1, EndModelled
  <2> QED
    BY <1>1, <2>2, <2>3 DEF ResumeRefresh
<1>2. CASE ResumeWindowClosed(h)
  <2>1. /\ sb'[h].lifecycle = "TERMINATED" /\ sb'[h].was_terminated = TRUE
        /\ sb'[h].token_installed = sb[h].token_installed
        /\ sb'[h].bootstrap_count = sb[h].bootstrap_count
    BY <1>0, <1>2 DEF ResumeWindowClosed, Becomes, Inv, TypeOK, SandboxFields
  <2> QED
    BY <2>1, EndModelled
<1>3. CASE ResumeWait(h)
  <2>1. sb[h].lifecycle = "SUSPENDED" /\ ~sb[h].was_terminated
    BY <1>0, <1>3 DEF ResumeWait, Coherent, OpAgrees, DeadStates
  <2>2. CASE Becomes(h, [sb[h] EXCEPT !.lifecycle = "RUNNING", !.op = "idle"])
    <3>1. Still(sb'[h], [sb[h] EXCEPT !.lifecycle = "RUNNING"])
      BY <1>0, <2>2 DEF Becomes, Still, Inv, TypeOK, SandboxFields
    <3> QED
      BY <1>0, <2>1, <3>1, MoveModelled
  <2>3. CASE Return(h)
    BY <2>3, ReturnModelled
  <2> QED
    BY <1>3, <2>2, <2>3 DEF ResumeWait
<1> QED
  BY <1>1, <1>2, <1>3

LEMMA TerminateModelled ==
  ASSUME Inv, NEW h \in Handle, TerminateCall(h) \/ TerminateWait(h)
  PROVE  Modelled(h)
<1>0. sb[h] \in SandboxFields /\ Coherent(sb[h])
  BY Fields
<1>1. CASE TerminateCall(h)
  <2>1. CASE sb[h].microvm # NoVm
    <3> DEFINE s == [sb[h] EXCEPT !.torn_down = TRUE, !.session = FALSE,
                       !.lifecycle = "TERMINATING",
                       !.was_terminated = TRUE, !.op = "terminate"]
    <3>1. sb'[h] = s
      BY <1>1, <2>1 DEF TerminateCall, Becomes, Inv, TypeOK
    <3>2. /\ s.lifecycle = "TERMINATING" /\ s.was_terminated = TRUE
          /\ s.token_installed = sb[h].token_installed
          /\ s.bootstrap_count = sb[h].bootstrap_count
      BY <1>0 DEF SandboxFields
    <3> HIDE DEF s
    <3> QED
      BY <3>1, <3>2, EndModelled
  <2>2. CASE sb[h].microvm = NoVm
    BY <1>0, <1>1, <2>2, OtherFields, BecomesStill DEF TerminateCall
  <2> QED
    BY <2>1, <2>2
<1>2. CASE TerminateWait(h)
  <2>1. sb[h].was_terminated
    BY <1>2, TearingDown DEF TerminateWait
  <2>2. CASE Becomes(h, [sb[h] EXCEPT !.lifecycle = "TERMINATED", !.op = "idle"])
    <3>1. /\ sb'[h].lifecycle = "TERMINATED"
          /\ sb'[h].was_terminated = sb[h].was_terminated
          /\ sb'[h].token_installed = sb[h].token_installed
          /\ sb'[h].bootstrap_count = sb[h].bootstrap_count
          /\ sb[h].was_terminated \in BOOLEAN
      BY <1>0, <2>2 DEF Becomes, Inv, TypeOK, SandboxFields
    <3> QED
      BY <2>1, <3>1, EndModelled
  <2>3. CASE Return(h)
    BY <2>3, ReturnModelled
  <2> QED
    BY <1>2, <2>2, <2>3 DEF TerminateWait
<1> QED
  BY <1>1, <1>2

LEMMA FreshIsInit ==
  ASSUME NEW h \in Handle, sb[h] = FreshSandbox
  PROVE  Abstract(h)!Init
<1>1. /\ sb[h].lifecycle = "PENDING" /\ sb[h].token_installed = FALSE
      /\ sb[h].was_terminated = FALSE /\ sb[h].bootstrap_count = 0
  BY DEF FreshSandbox
<1> QED
  BY <1>1 DEF Abstract!Init

LEMMA AdoptModelled ==
  ASSUME Inv, NEW h \in Handle, Adopt(h)
  PROVE  Modelled(h)
<1>0. PICK v \in Vm : \E r \in Reads(v) :
        Becomes(h, [FreshSandbox EXCEPT !.life = "open", !.adopted = TRUE,
              !.lifecycle = r,
              !.launch_adoptable = TRUE, !.microvm = v,
              !.token_installed = r \in {"RUNNING", "SUSPENDING", "SUSPENDED"},
              !.bootstrap_count = IF r = "PENDING" THEN 0 ELSE 1,
              !.was_terminated = r \in DeadStates,
              !.session = IsLive(r)])
  BY DEF Adopt
<1>1. PICK r \in Reads(v) :
        Becomes(h, [FreshSandbox EXCEPT !.life = "open", !.adopted = TRUE,
              !.lifecycle = r,
              !.launch_adoptable = TRUE, !.microvm = v,
              !.token_installed = r \in {"RUNNING", "SUSPENDING", "SUSPENDED"},
              !.bootstrap_count = IF r = "PENDING" THEN 0 ELSE 1,
              !.was_terminated = r \in DeadStates,
              !.session = IsLive(r)])
  BY <1>0
<1> DEFINE s == [FreshSandbox EXCEPT !.life = "open", !.adopted = TRUE,
              !.lifecycle = r,
              !.launch_adoptable = TRUE, !.microvm = v,
              !.token_installed = r \in {"RUNNING", "SUSPENDING", "SUSPENDED"},
              !.bootstrap_count = IF r = "PENDING" THEN 0 ELSE 1,
              !.was_terminated = r \in DeadStates,
              !.session = IsLive(r)]
<1>2. sb'[h] = s
  BY <1>1 DEF Becomes, Inv, TypeOK
<1>3. FreshSandbox \in SandboxFields
  BY DEF FreshSandbox, SandboxFields, Op, Lifecycle
<1>4. /\ s.lifecycle = r
      /\ s.token_installed = (r \in {"RUNNING", "SUSPENDING", "SUSPENDED"})
      /\ s.was_terminated = (r \in {"TERMINATING", "TERMINATED"})
      /\ s.bootstrap_count = IF r = "PENDING" THEN 0 ELSE 1
  BY <1>3 DEF SandboxFields, DeadStates
<1> HIDE DEF s
<1>5. Abstract(h)!Init
  <2>1. sb[h].life = "absent" /\ sb[h].microvm = NoVm
    BY Fields DEF Adopt, Coherent
  <2>2. /\ sb[h].lifecycle = "PENDING" /\ ~sb[h].token_installed
        /\ ~sb[h].was_terminated /\ sb[h].bootstrap_count = 0
        /\ sb[h].token_installed \in BOOLEAN /\ sb[h].was_terminated \in BOOLEAN
    BY <2>1, Fields DEF Coherent, DeadStates, SandboxFields
  <2> QED
    BY <2>2 DEF Abstract!Init
<1>6. r \in Lifecycle
  BY ReadsAreReal
<1>7. Abstract(h)!Adopted(r) /\ r \in Abstract(h)!Lifecycle
  BY <1>2, <1>4, <1>5, <1>6 DEF Abstract!Adopted, Abstract!Lifecycle, Lifecycle
<1> QED
  BY <1>7 DEF Modelled, Abstract!Next

LEMMA HandleStepModelled ==
  ASSUME Inv, NEW h \in Handle, HandleStep(h)
  PROVE  Modelled(h)
BY QuietModelled, RunAcceptedModelled, WaitUntilRunningModelled,
   SuspendModelled, ResumeModelled, TerminateModelled, AdoptModelled
   DEF HandleStep

\* A step of one handle is no step of another.
LEMMA OnlyOneHandle ==
  ASSUME Inv, NEW h \in Handle, HandleStep(h)
  PROVE  \A g \in Handle \ {h} : sb'[g] = sb[g]
<1>1. PICK s : Becomes(h, s)
  BY DEF HandleStep, New, Adopt, Detach, Drop, RunCall, RunAccepted, RunLost,
         WaitUntilRunningCall, WaitUntilRunning, LaunchResume,
         WaitUntilReadyCall, Ready, SuspendCall, SuspendAccepted,
         SuspendAnswered, SuspendWait, ResumeRefresh, ResumeCall,
         ResumeAccepted, ResumeWindowClosed, ResumeWait, OperationFails,
         TerminateCall, TerminateAccepted, TerminateFailed, TerminateWait,
         TerminateCut, Return
<1> QED
  BY <1>1 DEF Becomes, Inv, TypeOK

LEMMA NextModelled ==
  ASSUME Inv, [Next]_vars
  PROVE  \A h \in Handle : Modelled(h)
<1>1. CASE UNCHANGED sb
  BY <1>1, StillModelled DEF Still
<1>2. ASSUME NEW h \in Handle, HandleStep(h)
      PROVE  \A g \in Handle : Modelled(g)
  <2>1. \A g \in Handle \ {h} : Modelled(g)
    BY <1>2, OnlyOneHandle, StillModelled DEF Still
  <2> QED
    BY <1>2, <2>1, HandleStepModelled
<1>3. ASSUME NEW v \in Vm, PlatformStep(v)
      PROVE  UNCHANGED sb
  BY <1>3 DEF PlatformStep
<1>4. ASSUME NEW h \in Handle, KeepAwakeStep(h)
      PROVE  UNCHANGED sb
  BY <1>4 DEF KeepAwakeStep, SessionRequest, KeepAwakeSpawn, KeepAwakeGate,
              KeepAwakePoll, KeepAwakeEnd
<1> QED
  BY <1>1, <1>2, <1>3, <1>4 DEF Next, vars

\* Every handle implements the client state model: its initial state is the
\* model's, and whatever handles, platform and keepalives do is a step of the
\* model or none (sandbox.rs, the transitions of lifecycle).
THEOREM Implements == Spec => LifecycleImplemented
<1>1. Init => \A h \in Handle : Abstract(h)!Init
  BY FreshIsInit DEF Init
<1>2. Inv /\ [Next]_vars =>
        [\A h \in Handle : Abstract(h)!Next
                          \/ UNCHANGED Abstract(h)!lifecycleVars]_vars
  BY NextModelled DEF Modelled
<1> QED
  BY <1>1, <1>2, SandboxInvariant, PTL DEF Spec, LifecycleImplemented

============================================================================
