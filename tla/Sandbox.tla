------------------------------ MODULE Sandbox ------------------------------
(***************************************************************************)
(* The client's handle on a MicroVM (crates/microvms-app/src/sandbox.rs):  *)
(* several handles, in one process or in several, drive VMs that the       *)
(* platform starts, suspends, wakes and ends on its own schedule.          *)
(*                                                                         *)
(* An operation of a handle takes &mut self and awaits control-plane       *)
(* calls: op is the await it is parked at, and one handle runs one         *)
(* operation at a time.  The platform acts, a keepalive polls and other    *)
(* handles act between two awaits.  A call takes effect on the platform    *)
(* and is answered in two steps where something can come between them; it  *)
(* can be refused, and it can be accepted with its answer lost after the   *)
(* transport's retries.  GetMicrovm is eventually consistent: a read sees  *)
(* the VM's state or the one before it.                                    *)
(***************************************************************************)
EXTENDS Naturals, FiniteSets

CONSTANTS
  Handle,       \* Sandbox values that exist at some time
  Vm,           \* MicroVMs
  NoVm,         \* a handle's microvm field when it is None
  AutoResume    \* idlePolicy.autoResumeEnabled

ASSUME SandboxAssumption ==
  /\ NoVm \notin Vm
  /\ AutoResume \in BOOLEAN

VARIABLES
  vm,        \* vm[v]: the VM's state on the platform
  old,       \* old[v]: its state before that, which a read may still see
  stable,    \* the VM the caller's own client token launched, if any
  sb,        \* sb[h]: the fields of the Sandbox
  ka,        \* ka[h]: the keepalive task spawned from h
  wakes,     \* wakes[h]: times h's keepalive woke the VM since h last recorded
             \* a suspend or a resume
  records,   \* VMs whose Detached record nobody has adopted yet
  lost,      \* VMs whose launch was accepted and its answer lost
  said       \* said[h]: what h last said about its VM, or that its teardown
             \* was dropped before it could

platformVars == <<vm, old, stable>>
historyVars == <<wakes, records, lost, said>>
vars == <<vm, old, stable, sb, ka, wakes, records, lost, said>>

Lifecycle == {"PENDING", "RUNNING", "SUSPENDING", "SUSPENDED",
              "TERMINATING", "TERMINATED"}
DeadStates == {"TERMINATING", "TERMINATED"}
TerminalStates == DeadStates \cup {"SUSPENDING", "SUSPENDED"}
IsLive(s) == s \in {"PENDING", "RUNNING", "SUSPENDING", "SUSPENDED"}

Op == {"idle", "run", "runStable", "waitRunning", "launchResume", "ready",
       "suspend", "suspendReply", "suspendWait", "resume", "resumeWait",
       "terminate", "terminateWait"}

SandboxFields ==
  [life : {"absent", "open", "dropped"}, op : Op,
   lifecycle : Lifecycle, microvm : Vm \cup {NoVm}, session : BOOLEAN,
   token_installed : BOOLEAN, was_terminated : BOOLEAN,
   bootstrap_count : Nat, launch_adoptable : BOOLEAN, resumed : BOOLEAN,
   torn_down : BOOLEAN, adopted : BOOLEAN, detached : BOOLEAN]

\* Sandbox::with_control_plane, before anyone has called it.
FreshSandbox ==
  [life |-> "absent", op |-> "idle",
   lifecycle |-> "PENDING", microvm |-> NoVm, session |-> FALSE,
   token_installed |-> FALSE, was_terminated |-> FALSE,
   bootstrap_count |-> 0, launch_adoptable |-> FALSE, resumed |-> FALSE,
   torn_down |-> FALSE, adopted |-> FALSE, detached |-> FALSE]

\* Nothing yet; a warning or a report that names the VM as still there; a
\* report that names nothing; a teardown that never reported.
Said == {"nothing", "named", "clean", "cut"}

TypeOK ==
  /\ vm \in [Vm -> Lifecycle \cup {"none"}]
  /\ old \in [Vm -> Lifecycle \cup {"none"}]
  /\ stable \in Vm \cup {NoVm}
  /\ sb \in [Handle -> SandboxFields]
  /\ ka \in [Handle -> {"off", "on", "inflight"}]
  /\ wakes \in [Handle -> Nat]
  /\ records \subseteq Vm
  /\ lost \subseteq Vm
  /\ said \in [Handle -> Said]

Init ==
  /\ vm = [v \in Vm |-> "none"]
  /\ old = [v \in Vm |-> "none"]
  /\ stable = NoVm
  /\ sb = [h \in Handle |-> FreshSandbox]
  /\ ka = [h \in Handle |-> "off"]
  /\ wakes = [h \in Handle |-> 0]
  /\ records = {} /\ lost = {}
  /\ said = [h \in Handle |-> "nothing"]

-----------------------------------------------------------------------------
(* The platform.                                                           *)

SetVm(v, s) ==
  /\ vm' = [vm EXCEPT ![v] = s]
  /\ old' = [old EXCEPT ![v] = vm[v]]

\* What a GetMicrovm of v may answer.
Reads(v) == {vm[v], old[v]} \ {"none"}

\* The VM becomes ready, settles, idles, and ends: startup failure, the
\* suspended window, the maximum duration.
PlatformMoves ==
  {<<"PENDING", "RUNNING">>, <<"SUSPENDING", "SUSPENDED">>,
   <<"RUNNING", "SUSPENDING">>, <<"TERMINATING", "TERMINATED">>}
    \cup {<<s, "TERMINATING">> : s \in {"PENDING", "RUNNING", "SUSPENDED"}}

PlatformStep(v) ==
  /\ \E m \in PlatformMoves : vm[v] = m[1] /\ SetVm(v, m[2])
  /\ UNCHANGED <<stable, sb, ka>> /\ UNCHANGED historyVars

\* An inbound request through the endpoint wakes a suspended VM.
Touch(v) ==
  IF AutoResume /\ vm[v] = "SUSPENDED"
    THEN SetVm(v, "PENDING")
    ELSE UNCHANGED <<vm, old>>

\* ResumeMicrovm: thaws a suspended VM, and is a no-op or a conflict on one
\* that is up; a VM that is suspending or ended refuses.
ResumeEffect(v) ==
  \/ vm[v] = "SUSPENDED" /\ SetVm(v, "PENDING")
  \/ vm[v] \in {"PENDING", "RUNNING"} /\ UNCHANGED <<vm, old>>

-----------------------------------------------------------------------------
(* Handles: launch.                                                        *)

\* The handle's fields after a step, everything of the platform unchanged.
Becomes(h, s) == sb' = [sb EXCEPT ![h] = s]

Idle(h) == sb[h].life = "open" /\ sb[h].op = "idle"

\* The operation returns, with an error or after its last step.
Return(h) == Becomes(h, [sb[h] EXCEPT !.op = "idle", !.resumed = FALSE])

New(h) ==
  /\ sb[h].life = "absent"
  /\ Becomes(h, [sb[h] EXCEPT !.life = "open"])
  /\ UNCHANGED platformVars /\ UNCHANGED ka /\ UNCHANGED historyVars

\* run_inner up to the RunMicrovm call: refused when detached and on a handle
\* that has a VM or has counted a bootstrap.
RunCall(h) ==
  /\ Idle(h) /\ ~sb[h].detached
  /\ sb[h].bootstrap_count = 0 /\ sb[h].microvm = NoVm
  /\ \E o \in {"run", "runStable"} : Becomes(h, [sb[h] EXCEPT !.op = o])
  /\ UNCHANGED platformVars /\ UNCHANGED ka /\ UNCHANGED historyVars

\* The VM RunMicrovm answers with: a fresh one for a minted token, and for
\* the caller's own token the one that token already launched.
RunMicrovm(h, v) ==
  \/ /\ vm[v] = "none"
     /\ sb[h].op = "runStable" => stable = NoVm
     /\ SetVm(v, "PENDING")
     /\ stable' = IF sb[h].op = "runStable" THEN v ELSE stable
  \/ /\ sb[h].op = "runStable" /\ v = stable
     /\ UNCHANGED <<vm, old, stable>>

\* The launch was accepted: the handle records it, then waits for RUNNING or,
\* with wait off, builds its session and returns.
LaunchRecorded(h, v) ==
  [sb[h] EXCEPT !.lifecycle = "PENDING", !.microvm = v,
                !.launch_adoptable = (sb[h].op = "runStable")]

RunAccepted(h) ==
  /\ sb[h].op \in {"run", "runStable"}
  /\ \E v \in Vm :
       /\ RunMicrovm(h, v)
       /\ \/ Becomes(h, [LaunchRecorded(h, v) EXCEPT !.op = "waitRunning"])
          \/ Becomes(h, [LaunchRecorded(h, v) EXCEPT !.op = "idle",
                                                     !.session = TRUE])
       /\ lost' = lost \ {v}
  /\ said' = [said EXCEPT ![h] = "nothing"]
  /\ UNCHANGED <<ka, wakes, records>>

\* The service accepted the launch and the answer never came: retries spent,
\* or the caller dropped the future.  The handle has nothing.
RunLost(h) ==
  /\ sb[h].op \in {"run", "runStable"}
  /\ \E v \in Vm : RunMicrovm(h, v) /\ lost' = lost \cup {v}
  /\ Return(h)
  /\ UNCHANGED <<ka, wakes, records, said>>

WaitUntilRunningCall(h) ==
  /\ Idle(h) /\ ~sb[h].detached /\ sb[h].microvm # NoVm
  /\ sb[h].lifecycle = "PENDING"
  /\ Becomes(h, [sb[h] EXCEPT !.op = "waitRunning"])
  /\ UNCHANGED platformVars /\ UNCHANGED ka /\ UNCHANGED historyVars

FailOn(s) == IF s.launch_adoptable THEN DeadStates ELSE TerminalStates

\* One poll of wait_for_launch_inner.  Anything but RUNNING, a resume to make
\* or a failure polls again until the deadline, and a failed read ends it.
WaitUntilRunning(h) ==
  /\ sb[h].op = "waitRunning"
  /\ \E r \in Reads(sb[h].microvm) :
       \/ /\ r = "RUNNING"
          /\ Becomes(h, [sb[h] EXCEPT !.lifecycle = "RUNNING",
                           !.token_installed = TRUE,
                           !.bootstrap_count = @ + 1,
                           !.session = TRUE, !.op = "ready", !.resumed = FALSE])
       \/ /\ r = "SUSPENDED" /\ r \notin FailOn(sb[h]) /\ ~sb[h].resumed
          /\ Becomes(h, [sb[h] EXCEPT !.op = "launchResume"])
       \/ r \in FailOn(sb[h]) /\ Return(h)
  /\ UNCHANGED platformVars /\ UNCHANGED ka /\ UNCHANGED historyVars

\* The one resume an adoptable launch makes of a VM that idled meanwhile.
LaunchResume(h) ==
  /\ sb[h].op = "launchResume"
  /\ ResumeEffect(sb[h].microvm)
  /\ Becomes(h, [sb[h] EXCEPT !.op = "waitRunning", !.resumed = TRUE])
  /\ UNCHANGED <<stable, ka>> /\ UNCHANGED historyVars

\* A health poll of wait_until_ready answers, or its deadline passes.
Ready(h) ==
  /\ sb[h].op = "ready"
  /\ Touch(sb[h].microvm)
  /\ Return(h)
  /\ UNCHANGED <<stable, ka>> /\ UNCHANGED historyVars

\* wait_until_ready of a handle that is already RUNNING.
WaitUntilReadyCall(h) ==
  /\ Idle(h) /\ ~sb[h].detached
  /\ sb[h].lifecycle = "RUNNING" /\ sb[h].session
  /\ Becomes(h, [sb[h] EXCEPT !.op = "ready"])
  /\ UNCHANGED platformVars /\ UNCHANGED ka /\ UNCHANGED historyVars

-----------------------------------------------------------------------------
(* Handles: suspend and resume.                                            *)

SuspendCall(h) ==
  /\ Idle(h) /\ ~sb[h].detached /\ sb[h].microvm # NoVm
  /\ sb[h].lifecycle = "RUNNING"
  /\ Becomes(h, [sb[h] EXCEPT !.op = "suspend"])
  /\ UNCHANGED platformVars /\ UNCHANGED ka /\ UNCHANGED historyVars

\* SuspendMicrovm takes effect; its answer is still on the way.
SuspendAccepted(h) ==
  /\ sb[h].op = "suspend" /\ vm[sb[h].microvm] = "RUNNING"
  /\ SetVm(sb[h].microvm, "SUSPENDING")
  /\ Becomes(h, [sb[h] EXCEPT !.op = "suspendReply"])
  /\ UNCHANGED <<stable, ka>> /\ UNCHANGED historyVars

\* The answer arrives: only now does the handle record the suspend.
SuspendAnswered(h) ==
  /\ sb[h].op = "suspendReply"
  /\ Becomes(h, [sb[h] EXCEPT !.lifecycle = "SUSPENDING",
                              !.op = "suspendWait"])
  /\ wakes' = [wakes EXCEPT ![h] = 0]
  /\ UNCHANGED platformVars
  /\ UNCHANGED <<ka, records, lost, said>>

\* Mutant of SuspendWait: the end is recorded as a state and nothing more.
SuspendWaitForgets(h) ==
  /\ sb[h].op = "suspendWait"
  /\ \E r \in Reads(sb[h].microvm) \cap {"SUSPENDED", "TERMINATED"} :
       Becomes(h, [sb[h] EXCEPT !.lifecycle = r, !.op = "idle"])
  /\ UNCHANGED platformVars /\ UNCHANGED ka /\ UNCHANGED historyVars

SuspendWait(h) ==
  /\ sb[h].op = "suspendWait"
  /\ \E r \in Reads(sb[h].microvm) \cap {"SUSPENDED", "TERMINATED"} :
       Becomes(h, [sb[h] EXCEPT !.lifecycle = r, !.op = "idle",
                     !.was_terminated = @ \/ r = "TERMINATED"])
  /\ UNCHANGED platformVars /\ UNCHANGED ka /\ UNCHANGED historyVars

\* resume of a handle that still says RUNNING reads the VM first: it records
\* an end, goes on from SUSPENDED, and is refused in any other state.
ResumeRefresh(h) ==
  /\ Idle(h) /\ ~sb[h].detached /\ sb[h].microvm # NoVm
  /\ ~sb[h].was_terminated /\ sb[h].lifecycle = "RUNNING"
  /\ \E r \in Reads(sb[h].microvm) :
       \/ /\ r = "SUSPENDED"
          /\ Becomes(h, [sb[h] EXCEPT !.lifecycle = r, !.op = "resume"])
       \/ /\ r \in DeadStates
          /\ Becomes(h, [sb[h] EXCEPT !.lifecycle = "TERMINATED",
                                      !.was_terminated = TRUE])
  /\ UNCHANGED platformVars /\ UNCHANGED ka /\ UNCHANGED historyVars

ResumeCall(h) ==
  /\ Idle(h) /\ ~sb[h].detached /\ sb[h].microvm # NoVm
  /\ ~sb[h].was_terminated /\ sb[h].lifecycle = "SUSPENDED"
  /\ Becomes(h, [sb[h] EXCEPT !.op = "resume"])
  /\ UNCHANGED platformVars /\ UNCHANGED ka /\ UNCHANGED historyVars

ResumeAccepted(h) ==
  /\ sb[h].op = "resume"
  /\ ResumeEffect(sb[h].microvm)
  /\ Becomes(h, [sb[h] EXCEPT !.op = "resumeWait"])
  /\ UNCHANGED <<stable, ka>> /\ UNCHANGED historyVars

\* Mutant of ResumeWindowClosed: any refusal is taken for a closed window.
ResumeRefusedMeansClosed(h) ==
  /\ sb[h].op = "resume"
  /\ Becomes(h, [sb[h] EXCEPT !.lifecycle = "TERMINATED", !.op = "idle",
                              !.was_terminated = TRUE])
  /\ UNCHANGED platformVars /\ UNCHANGED ka /\ UNCHANGED historyVars

\* The service refuses the resume and GetMicrovm reports the VM dead: the
\* window closed, and the handle records a termination.
ResumeWindowClosed(h) ==
  /\ sb[h].op = "resume"
  /\ Reads(sb[h].microvm) \cap DeadStates # {}
  /\ Becomes(h, [sb[h] EXCEPT !.lifecycle = "TERMINATED", !.op = "idle",
                              !.was_terminated = TRUE])
  /\ UNCHANGED platformVars /\ UNCHANGED ka /\ UNCHANGED historyVars

\* The wait fails at once on a dead state, and the handle keeps SUSPENDED.
ResumeWait(h) ==
  /\ sb[h].op = "resumeWait"
  /\ \E r \in Reads(sb[h].microvm) :
       \/ /\ r = "RUNNING"
          /\ Becomes(h, [sb[h] EXCEPT !.lifecycle = r, !.op = "idle"])
          /\ wakes' = [wakes EXCEPT ![h] = 0]
       \/ r \in DeadStates /\ Return(h) /\ UNCHANGED wakes
  /\ UNCHANGED platformVars
  /\ UNCHANGED <<ka, records, lost, said>>

\* A call is refused or its answer is lost, a read fails, a deadline passes,
\* or the caller drops the future: the operation ends where it stands.
OperationFails(h) ==
  /\ sb[h].op \notin {"idle", "terminate", "terminateWait"}
  /\ Return(h)
  /\ UNCHANGED platformVars /\ UNCHANGED ka /\ UNCHANGED historyVars

-----------------------------------------------------------------------------
(* Handles: teardown.                                                      *)

\* terminate never raises.  It drops the session and records the end before
\* it calls, so that a call that fails still rules a resume out.  A handle
\* with no VM has nothing to end, and is torn down all the same.
TerminateCall(h) ==
  /\ Idle(h) /\ ~sb[h].detached
  /\ IF sb[h].microvm # NoVm
       THEN Becomes(h, [sb[h] EXCEPT !.torn_down = TRUE, !.session = FALSE,
                          !.lifecycle = "TERMINATING",
                          !.was_terminated = TRUE, !.op = "terminate"])
       ELSE Becomes(h, [sb[h] EXCEPT !.torn_down = TRUE, !.session = FALSE])
  /\ said' = [said EXCEPT ![h] = "nothing"]
  /\ UNCHANGED platformVars /\ UNCHANGED <<ka, wakes, records, lost>>

TerminateEffect(v) ==
  IF vm[v] \in DeadStates THEN UNCHANGED <<vm, old>>
                          ELSE SetVm(v, "TERMINATING")

\* The call was accepted; the caller may ask to wait for TERMINATED.
TerminateAccepted(h) ==
  /\ sb[h].op = "terminate"
  /\ TerminateEffect(sb[h].microvm)
  /\ \E next \in {"terminateWait", "idle"} :
       Becomes(h, [sb[h] EXCEPT !.op = next])
  /\ said' = [said EXCEPT ![h] = "clean"]
  /\ UNCHANGED <<stable, ka, wakes, records, lost>>

\* The call failed, whether or not it took effect: the report names the VM.
TerminateFailed(h) ==
  /\ sb[h].op = "terminate"
  /\ TerminateEffect(sb[h].microvm) \/ UNCHANGED <<vm, old>>
  /\ Return(h)
  /\ said' = [said EXCEPT ![h] = "named"]
  /\ UNCHANGED <<stable, ka, wakes, records, lost>>

\* TERMINATED is read, or the wait gives up and the handle stays TERMINATING.
TerminateWait(h) ==
  /\ sb[h].op = "terminateWait"
  /\ \/ /\ "TERMINATED" \in Reads(sb[h].microvm)
        /\ Becomes(h, [sb[h] EXCEPT !.lifecycle = "TERMINATED",
                                    !.op = "idle"])
     \/ Return(h)
  /\ UNCHANGED platformVars /\ UNCHANGED ka /\ UNCHANGED historyVars

\* The caller drops the future of a teardown: the report never comes.
TerminateCut(h) ==
  /\ sb[h].op \in {"terminate", "terminateWait"}
  /\ Return(h)
  /\ said' = [said EXCEPT ![h] = "cut"]
  /\ UNCHANGED platformVars /\ UNCHANGED <<ka, wakes, records, lost>>

\* detach hands the VM to whoever adopts the record: the session goes, and
\* the lifecycle a keepalive watches stays what it was.
Detach(h) ==
  /\ Idle(h) /\ ~sb[h].detached /\ sb[h].microvm # NoVm
  /\ ~sb[h].torn_down /\ IsLive(sb[h].lifecycle)
  /\ Becomes(h, [sb[h] EXCEPT !.detached = TRUE, !.session = FALSE])
  /\ records' = records \cup {sb[h].microvm}
  /\ UNCHANGED platformVars /\ UNCHANGED <<ka, wakes, lost, said>>

\* Mutant of WarnsOnDrop: a suspended VM is taken for one that is gone.
WarnsOnDropRunning(s) ==
  /\ ~s.torn_down /\ ~s.adopted /\ ~s.detached
  /\ s.microvm # NoVm /\ s.lifecycle \in {"PENDING", "RUNNING"}

\* drop_warning: a handle that nobody tore down, handed off or adopted warns
\* about a VM it last saw alive.
WarnsOnDrop(s) ==
  /\ ~s.torn_down /\ ~s.adopted /\ ~s.detached
  /\ s.microvm # NoVm /\ IsLive(s.lifecycle)

Drop(h) ==
  /\ Idle(h)
  /\ Becomes(h, [sb[h] EXCEPT !.life = "dropped", !.session = FALSE])
  /\ said' = IF WarnsOnDrop(sb[h]) THEN [said EXCEPT ![h] = "named"] ELSE said
  /\ UNCHANGED platformVars /\ UNCHANGED <<ka, wakes, records, lost>>

\* adopt: a handle around a VM that exists, from what GetMicrovm reports.
Adopt(h) ==
  /\ sb[h].life = "absent"
  /\ \E v \in Vm :
       /\ \E r \in Reads(v) :
            Becomes(h, [FreshSandbox EXCEPT !.life = "open", !.adopted = TRUE,
              !.lifecycle = r,
              !.launch_adoptable = TRUE, !.microvm = v,
              !.token_installed = r \in {"RUNNING", "SUSPENDING", "SUSPENDED"},
              !.bootstrap_count = IF r = "PENDING" THEN 0 ELSE 1,
              !.was_terminated = r \in DeadStates,
              !.session = IsLive(r)])
       /\ records' = records \ {v}
  /\ UNCHANGED platformVars /\ UNCHANGED <<ka, wakes, lost, said>>

-----------------------------------------------------------------------------
(* Sessions and keepalives.                                                *)

\* A request over the handle's session (an exec, a file, a tunnel).
SessionRequest(h) ==
  /\ sb[h].life = "open" /\ sb[h].session
  /\ Touch(sb[h].microvm)
  /\ UNCHANGED <<stable, sb, ka>> /\ UNCHANGED historyVars

\* keep_awake clones the handle's session under its lock, with a receiver of
\* its lifecycle.
KeepAwakeSpawn(h) ==
  /\ Idle(h) /\ sb[h].session /\ ka[h] = "off"
  /\ ka' = [ka EXCEPT ![h] = "on"]
  /\ UNCHANGED sb /\ UNCHANGED platformVars /\ UNCHANGED historyVars

\* Mutant of KeepAwakeGate: the lifecycle is looked at when the task starts
\* and never again.
KeepAwakeUngated(h) ==
  /\ ka[h] = "on"
  /\ ka' = [ka EXCEPT ![h] = "inflight"]
  /\ UNCHANGED sb /\ UNCHANGED platformVars /\ UNCHANGED historyVars

\* The gate: the task polls while the last lifecycle it can see is RUNNING,
\* and ends as not-running otherwise.
KeepAwakeGate(h) ==
  /\ ka[h] = "on"
  /\ ka' = [ka EXCEPT ![h] =
              IF sb[h].lifecycle = "RUNNING" THEN "inflight" ELSE "off"]
  /\ UNCHANGED sb /\ UNCHANGED platformVars /\ UNCHANGED historyVars

\* The health request reaches the endpoint, whatever happened since the gate.
KeepAwakePoll(h) ==
  /\ ka[h] = "inflight"
  /\ Touch(sb[h].microvm)
  /\ wakes' = [wakes EXCEPT ![h] =
       IF vm[sb[h].microvm] = "SUSPENDED" /\ AutoResume
          /\ sb[h].lifecycle \in {"SUSPENDING", "SUSPENDED"}
         THEN @ + 1 ELSE @]
  /\ ka' = [ka EXCEPT ![h] = "on"]
  /\ UNCHANGED <<stable, sb, records, lost, said>>

\* Stopped, idle, elapsed, or out of tolerated errors.
KeepAwakeEnd(h) ==
  /\ ka[h] # "off"
  /\ ka' = [ka EXCEPT ![h] = "off"]
  /\ UNCHANGED sb /\ UNCHANGED platformVars /\ UNCHANGED historyVars

-----------------------------------------------------------------------------
HandleStep(h) ==
  \/ New(h) \/ Adopt(h) \/ Detach(h) \/ Drop(h)
  \/ RunCall(h) \/ RunAccepted(h) \/ RunLost(h)
  \/ WaitUntilRunningCall(h) \/ WaitUntilRunning(h) \/ LaunchResume(h)
  \/ WaitUntilReadyCall(h) \/ Ready(h)
  \/ SuspendCall(h) \/ SuspendAccepted(h) \/ SuspendAnswered(h)
  \/ SuspendWait(h)
  \/ ResumeRefresh(h) \/ ResumeCall(h) \/ ResumeAccepted(h)
  \/ ResumeWindowClosed(h) \/ ResumeWait(h) \/ OperationFails(h)
  \/ TerminateCall(h) \/ TerminateAccepted(h) \/ TerminateFailed(h)
  \/ TerminateWait(h) \/ TerminateCut(h)

KeepAwakeStep(h) ==
  SessionRequest(h) \/ KeepAwakeSpawn(h) \/ KeepAwakeGate(h)
    \/ KeepAwakePoll(h) \/ KeepAwakeEnd(h)

Next ==
  \/ \E v \in Vm : PlatformStep(v)
  \/ \E h \in Handle : HandleStep(h) \/ KeepAwakeStep(h)

Spec == Init /\ [][Next]_vars

-----------------------------------------------------------------------------
(* Properties.                                                             *)

\* STATE-3, STATE-5 and STATE-11 of the client state model hold of every
\* handle, whatever calls failed, which operations were dropped and what the
\* platform did meanwhile: the token is counted once, a suspend is only ever
\* recorded of a bootstrapped VM that nobody terminated, and a terminated VM
\* is never RUNNING again.
StateConstraints ==
  \A h \in Handle :
    /\ sb[h].bootstrap_count <= 1
    /\ sb[h].lifecycle = "SUSPENDING" =>
         sb[h].token_installed /\ ~sb[h].was_terminated
    /\ ~(sb[h].was_terminated /\ sb[h].lifecycle = "RUNNING")

\* A handle that says TERMINATED is right: the VM ended, although reads may be
\* stale and a resume records TERMINATED on the strength of one (sandbox.rs,
\* suspend, resume, terminate and adopt).
TerminatedIsTrue ==
  \A h \in Handle : sb[h].lifecycle = "TERMINATED" =>
    sb[h].microvm # NoVm /\ vm[sb[h].microvm] \in DeadStates

\* A teardown that reports nothing undeleted left nothing: its VM is ending,
\* although nobody waited for it and other handles and keepalives could still
\* reach it (TeardownReport::undeleted).
CleanReportMeansGone ==
  \A h \in Handle : Idle(h) /\ said[h] = "clean" =>
    vm[sb[h].microvm] \in DeadStates

\* What a handle says of its VM is true: TERMINATED, and a clean report
\* (observe_state, TeardownReport).
ReportsAreTrue == TerminatedIsTrue /\ CleanReportMeansGone

\* Every live VM is some open handle's, is in a Detached record, or has been
\* named to somebody by a warning or a report, with these exceptions: the
\* answer of its launch was lost; its teardown was dropped; its launcher
\* handed it off and its adopter, who leaves it to the launcher, dropped it;
\* or it was launched on a handle that had already been torn down, empty
\* (drop_warning, detach, terminate).
LeaksAreAccounted ==
  \A v \in Vm : IsLive(vm[v]) =>
    \/ v \in records \cup lost
    \/ \E h \in Handle : sb[h].microvm = v /\
         \/ sb[h].life = "open" /\ ~sb[h].detached
         \/ said[h] \in {"named", "cut"}
         \/ sb[h].torn_down /\ IsLive(sb[h].lifecycle)
         \/ /\ sb[h].detached
            /\ \E g \in Handle : /\ sb[g].microvm = v /\ sb[g].adopted
                                 /\ sb[g].life = "dropped"

\* Once a handle has recorded a suspend, its own keepalive wakes the VM at
\* most once more, with a poll that was already past the gate (keepalive.rs,
\* RunningGate; watch_lifecycle).
KeepaliveWakesAtMostOnce == \A h \in Handle : wakes[h] <= 1

\* Each handle is an instance of the client state model.
Abstract(h) == INSTANCE SandboxLifecycle WITH
  vm_state <- sb[h].lifecycle,
  token_installed <- sb[h].token_installed,
  was_terminated <- sb[h].was_terminated,
  bootstrap_count <- sb[h].bootstrap_count

\* Every step of the handles, the platform and the keepalives is a step of
\* that model or leaves it alone (sandbox.rs, the transitions of lifecycle).
LifecycleImplemented ==
  /\ \A h \in Handle : Abstract(h)!Init
  /\ [][\A h \in Handle : Abstract(h)!Next
                         \/ UNCHANGED Abstract(h)!lifecycleVars]_vars

\* Not so.  What the comment in suspend says the order of its two steps is for: no
\* failed request leaves a handle "stuck in a state neither suspend nor
\* resume accepts" while its VM is there (sandbox.rs:1650-1653).
NotBricked ==
  \A h \in Handle : Idle(h) /\ ~sb[h].adopted /\ ~sb[h].detached =>
    ~(sb[h].lifecycle = "SUSPENDING"
        /\ vm[sb[h].microvm] \in {"RUNNING", "SUSPENDED"})
============================================================================
