-------------------------- MODULE LifecycleHooks --------------------------
(***************************************************************************)
(* The daemon's lifecycle hooks (crates/agentd: routes.rs, state.rs,       *)
(* hook_handlers.rs, identity.rs): the run hook installs the agent token   *)
(* once per VM, repairs the VM's identity and runs the image's handler;    *)
(* suspend, resume and terminate run theirs.                               *)
(*                                                                         *)
(* The routes take no credential, so a delivery is a request of the        *)
(* platform, a retry of one, or a request of a process in the guest, and   *)
(* any number are served at once.  A step is what one request does between *)
(* two points where another can run: two lock acquisitions, or an await.   *)
(* A caller that hangs up, as a platform whose hook timed out does, drops  *)
(* the request at the await it is parked at.  A suspend freezes and a      *)
(* snapshot copies this state as it is, so neither is a step.              *)
(***************************************************************************)
EXTENDS Naturals, FiniteSets, Sequences, SequencesExt

CONSTANTS
  Delivery,      \* hook requests
  Token,         \* agent tokens a run hook may present
  Malformed,     \* what a run hook presents when its body does not parse
  NoToken,       \* the token slot while it is None
  NoDelivery,    \* the launch environment and the handler lock while unset
  HOOK_LOG_CAP,  \* hook invocations kept
  Handled,       \* the hooks the image carries a handler for
  Repairs        \* identity repair is configured

ASSUME HooksAssumption ==
  /\ Malformed \notin Token /\ NoToken \notin Token \cup {Malformed}
  /\ NoDelivery \notin Delivery
  /\ HOOK_LOG_CAP \in Nat
  /\ Handled \subseteq {"run", "suspend", "resume", "terminate"}
  /\ Repairs \in BOOLEAN

VARIABLES
  req,         \* req[d]: the hook and, for run, what it presents
  pc,          \* pc[d]: where the request is parked
  slot,        \* slot[d]: its place in the hook log, 0 when it was dropped
  status,      \* status[d]: the status its route answered with
  token,       \* AppState.token
  launch_env,  \* AppState.launch_env and tunnel_identity: whose they are
  observed,    \* HookLog.observed
  dropped,     \* HookLog.dropped
  identity,    \* AppState.identity
  repair,      \* the blocking task that repairs the identity
  lock,        \* the request that holds handler_lock
  waiters,     \* the requests that wait for it, first come first served
  proc         \* proc[d]: the handler process d started

requestVars == <<req, pc, slot, status>>
bootVars == <<token, launch_env, identity, repair>>
logVars == <<observed, dropped>>
handlerVars == <<lock, waiters, proc>>
vars == <<req, pc, slot, status, token, launch_env, observed, dropped,
          identity, repair, lock, waiters, proc>>

HookName == {"ready", "validate", "run", "suspend", "resume", "terminate"}
Request == [hook : HookName \ {"run"}, token : {Malformed}]
             \cup [hook : {"run"}, token : Token \cup {Malformed}]
NoRequest == [hook |-> "none", token |-> Malformed]

Outcome == {"none", "ran", "failed", "timed_out"}

TypeOK ==
  /\ req \in [Delivery -> Request \cup {NoRequest}]
  /\ pc \in [Delivery -> {"absent", "arrived", "bootstrap", "repairing",
                          "handler", "queued", "running", "answered",
                          "refused", "gone"}]
  /\ slot \in [Delivery -> 0..HOOK_LOG_CAP]
  /\ status \in [Delivery -> {0, 200, 400, 409}]
  /\ token \in Token \cup {NoToken}
  /\ launch_env \in Delivery \cup {NoDelivery}
  /\ observed \in Seq([hook : HookName, handler : Outcome])
  /\ Len(observed) <= HOOK_LOG_CAP
  /\ dropped \in Nat
  /\ identity \in {"skipped", "repaired", "degraded"}
  /\ repair \in {"none", "running", "over"}
  /\ lock \in Delivery \cup {NoDelivery}
  /\ waiters \in Seq(Delivery)
  /\ proc \in [Delivery -> {"none", "live", "dead"}]

Init ==
  /\ req = [d \in Delivery |-> NoRequest]
  /\ pc = [d \in Delivery |-> "absent"]
  /\ slot = [d \in Delivery |-> 0]
  /\ status = [d \in Delivery |-> 0]
  /\ token = NoToken /\ launch_env = NoDelivery
  /\ observed = <<>> /\ dropped = 0
  /\ identity = "skipped" /\ repair = "none"
  /\ lock = NoDelivery /\ waiters = <<>>
  /\ proc = [d \in Delivery |-> "none"]

-----------------------------------------------------------------------------
\* A request reaches the middleware that reads its body.
Arrive(d) ==
  /\ pc[d] = "absent"
  /\ \E r \in Request : req' = [req EXCEPT ![d] = r]
  /\ pc' = [pc EXCEPT ![d] = "arrived"]
  /\ UNCHANGED <<slot, status>>
  /\ UNCHANGED bootVars /\ UNCHANGED logVars /\ UNCHANGED handlerVars

Answer(d, code) ==
  /\ pc' = [pc EXCEPT ![d] = "answered"]
  /\ status' = [status EXCEPT ![d] = code]

Goes(d, place) == pc' = [pc EXCEPT ![d] = place] /\ UNCHANGED status

\* Mutant of LogHook: the newest entries are kept, the oldest falls out.
LogHookNewest(d) ==
  LET kept == IF Len(observed) < HOOK_LOG_CAP THEN observed ELSE Tail(observed)
  IN  /\ observed' = Append(kept, [hook |-> req[d].hook, handler |-> "none"])
      /\ slot' = [slot EXCEPT ![d] = Len(kept) + 1]
      /\ dropped' = IF kept = observed THEN dropped ELSE dropped + 1

\* record_hook, under the log's lock: beyond the cap it only counts.
LogHook(d) ==
  IF Len(observed) >= HOOK_LOG_CAP
    THEN dropped' = dropped + 1 /\ UNCHANGED <<observed, slot>>
    ELSE /\ observed' = Append(observed, [hook |-> req[d].hook,
                                          handler |-> "none"])
         /\ slot' = [slot EXCEPT ![d] = Len(observed) + 1]
         /\ UNCHANGED dropped

\* Every route records the invocation before anything else, and so does the
\* middleware for a body that is too long or too late (413, 408), which no
\* route sees.
RecordHook(d) ==
  /\ pc[d] = "arrived"
  /\ LogHook(d)
  /\ \/ req[d].hook \in {"ready", "validate"} /\ Answer(d, 200)
     \/ req[d].hook \in {"suspend", "resume", "terminate"} /\ Goes(d, "handler")
     \/ req[d].hook = "run" /\ Goes(d, "bootstrap")
     \/ Goes(d, "refused")
  /\ UNCHANGED req /\ UNCHANGED bootVars /\ UNCHANGED handlerVars

\* Mutant of Bootstrap: a later token replaces the first.
BootstrapLatest(d) ==
  /\ pc[d] = "bootstrap"
  /\ \/ /\ req[d].token # Malformed /\ req[d].token # token
        /\ token' = req[d].token
        /\ launch_env' = d
        /\ repair' = IF repair = "none" THEN "running" ELSE repair
        /\ Goes(d, "repairing")
     \/ /\ req[d].token # Malformed /\ req[d].token = token /\ Answer(d, 200)
        /\ UNCHANGED <<token, launch_env, repair>>
     \/ /\ req[d].token = Malformed /\ Answer(d, 400)
        /\ UNCHANGED <<token, launch_env, repair>>
  /\ UNCHANGED <<req, slot, identity>>
  /\ UNCHANGED logVars /\ UNCHANGED handlerVars

\* Mutant of Bootstrap: a replay goes on like the delivery it repeats.
BootstrapReplayed(d) ==
  /\ pc[d] = "bootstrap"
  /\ \/ /\ req[d].token # Malformed /\ token = NoToken
        /\ token' = req[d].token
        /\ launch_env' = d
        /\ repair' = "running"
        /\ Goes(d, "repairing")
     \/ /\ \/ req[d].token = Malformed /\ Answer(d, 400)
           \/ req[d].token # Malformed /\ token = req[d].token /\ Goes(d, "repairing")
           \/ /\ req[d].token # Malformed /\ token \notin {NoToken, req[d].token}
              /\ Answer(d, 409)
        /\ UNCHANGED <<token, launch_env, repair>>
  /\ UNCHANGED <<req, slot, identity>>
  /\ UNCHANGED logVars /\ UNCHANGED handlerVars

\* run_hook after the record: bootstrap_with_identity compares and installs
\* under the token lock.  The first well-formed delivery installs its token,
\* its environment and its tunnel identity and starts the repair; the same
\* token again is accepted at once, and another is refused.
Bootstrap(d) ==
  /\ pc[d] = "bootstrap"
  /\ \/ /\ req[d].token # Malformed /\ token = NoToken
        /\ token' = req[d].token
        /\ launch_env' = d
        /\ repair' = "running"
        /\ Goes(d, "repairing")
     \/ /\ \/ req[d].token = Malformed /\ Answer(d, 400)
           \/ req[d].token # Malformed /\ token = req[d].token /\ Answer(d, 200)
           \/ /\ req[d].token # Malformed /\ token \notin {NoToken, req[d].token}
              /\ Answer(d, 409)
        /\ UNCHANGED <<token, launch_env, repair>>
  /\ UNCHANGED <<req, slot, identity>>
  /\ UNCHANGED logVars /\ UNCHANGED handlerVars

\* The blocking task ends, the request that started it alive or not: every
\* step worked, one failed, or the task panicked and left the report alone.
RepairIdentity ==
  /\ repair = "running"
  /\ repair' = "over"
  /\ identity' \in IF Repairs THEN {"repaired", "degraded", identity}
                              ELSE {"skipped"}
  /\ UNCHANGED <<token, launch_env>>
  /\ UNCHANGED requestVars /\ UNCHANGED logVars /\ UNCHANGED handlerVars

RepairJoined(d) ==
  /\ pc[d] = "repairing" /\ repair = "over"
  /\ Goes(d, "handler")
  /\ UNCHANGED <<req, slot>>
  /\ UNCHANGED bootVars /\ UNCHANGED logVars /\ UNCHANGED handlerVars

-----------------------------------------------------------------------------
(* hook_handlers::run.                                                     *)

HasHandler(d) == slot[d] # 0 /\ req[d].hook \in Handled

\* Mutant of HandlerSkipped: the request is answered, its handler is not run.
HandlerSkippedAlways(d) ==
  /\ pc[d] = "handler"
  /\ Answer(d, 200)
  /\ UNCHANGED <<req, slot>>
  /\ UNCHANGED bootVars /\ UNCHANGED logVars /\ UNCHANGED handlerVars

\* No slot, because the cap dropped the invocation, or no file: no handler.
HandlerSkipped(d) ==
  /\ pc[d] = "handler" /\ ~HasHandler(d)
  /\ Answer(d, 200)
  /\ UNCHANGED <<req, slot>>
  /\ UNCHANGED bootVars /\ UNCHANGED logVars /\ UNCHANGED handlerVars

HandlerQueues(d) ==
  /\ pc[d] = "handler" /\ HasHandler(d)
  /\ Goes(d, "queued")
  /\ waiters' = Append(waiters, d)
  /\ UNCHANGED <<req, slot, lock, proc>>
  /\ UNCHANGED bootVars /\ UNCHANGED logVars

\* record_handler, the answer, and the lock, which the same poll releases.
Finish(d, outcome) ==
  /\ observed' = [observed EXCEPT ![slot[d]].handler = outcome]
  /\ Answer(d, 200)
  /\ UNCHANGED <<req, slot, dropped>> /\ UNCHANGED bootVars

\* The lock is granted in turn.  A file that cannot be executed or spawned is
\* an outcome of its own.
HandlerStarts(d) ==
  /\ waiters # <<>> /\ Head(waiters) = d /\ lock = NoDelivery
  /\ waiters' = Tail(waiters)
  /\ \/ /\ lock' = d
        /\ proc' = [proc EXCEPT ![d] = "live"]
        /\ Goes(d, "running")
        /\ UNCHANGED <<req, slot>> /\ UNCHANGED bootVars /\ UNCHANGED logVars
     \/ Finish(d, "failed") /\ UNCHANGED <<lock, proc>>

\* The process exits and its output ends.
HandlerEnds(d) ==
  /\ pc[d] = "running" /\ lock = d
  /\ proc' = [proc EXCEPT ![d] = "dead"]
  /\ lock' = NoDelivery
  /\ Finish(d, "ran")
  /\ UNCHANGED waiters

\* Mutant of HandlerTimesOut: a handler has no budget.
HandlerNeverTimesOut(d) ==
  FALSE /\ pc[d] = "running" /\ UNCHANGED vars

\* The budget is spent: the group is killed and the outcome says so.
HandlerTimesOut(d) ==
  /\ pc[d] = "running" /\ lock = d
  /\ proc' = [proc EXCEPT ![d] = "dead"]
  /\ lock' = NoDelivery
  /\ Finish(d, "timed_out")
  /\ UNCHANGED waiters

\* A waiter leaves the queue of the lock, in which it stands once.
Without(queue, d) ==
  IF \E i \in DOMAIN queue : queue[i] = d
    THEN RemoveAt(queue, CHOOSE i \in DOMAIN queue : queue[i] = d)
    ELSE queue

\* Mutant of HangUp: the repair is a part of the request and goes with it.
HangUpCancels(d) ==
  /\ pc[d] \in {"repairing", "queued", "running"}
  /\ Goes(d, "gone")
  /\ repair' = IF pc[d] = "repairing" /\ repair = "running" THEN "none" ELSE repair
  /\ lock' = IF lock = d THEN NoDelivery ELSE lock
  /\ waiters' = Without(waiters, d)
  /\ proc' = [proc EXCEPT ![d] = IF @ = "live" THEN "dead" ELSE @]
  /\ UNCHANGED <<req, slot, token, launch_env, identity>> /\ UNCHANGED logVars

\* The caller hangs up and the request is dropped where it waits: the repair
\* goes on, a queued request leaves the queue, and a running handler's leader
\* is killed (kill_on_drop) with no outcome recorded.
HangUp(d) ==
  /\ pc[d] \in {"repairing", "queued", "running"}
  /\ Goes(d, "gone")
  /\ lock' = IF lock = d THEN NoDelivery ELSE lock
  /\ waiters' = Without(waiters, d)
  /\ proc' = [proc EXCEPT ![d] = IF @ = "live" THEN "dead" ELSE @]
  /\ UNCHANGED <<req, slot>>
  /\ UNCHANGED bootVars /\ UNCHANGED logVars

-----------------------------------------------------------------------------
Serve(d) ==
  \/ RecordHook(d) \/ Bootstrap(d) \/ RepairJoined(d)
  \/ HandlerSkipped(d) \/ HandlerQueues(d) \/ HandlerStarts(d)

Next ==
  \/ RepairIdentity
  \/ \E d \in Delivery :
       Arrive(d) \/ Serve(d) \/ HandlerEnds(d) \/ HandlerTimesOut(d)
         \/ HangUp(d)

Spec == Init /\ [][Next]_vars

\* The runtime polls a task that can go on, the repair is a bounded sequence
\* of file operations, and the budget of a handler that hangs expires.  No
\* handler is assumed to exit and no caller to hang up.
FairSpec ==
  /\ Spec
  /\ WF_vars(RepairIdentity)
  /\ \A d \in Delivery : WF_vars(Serve(d)) /\ WF_vars(HandlerTimesOut(d))

-----------------------------------------------------------------------------
(* Properties.                                                             *)

\* AGENTD-3: one delivery wins, its environment comes with its token, and
\* every answer ever given agrees with it: 200 to its token, 409 to another,
\* in whatever order racing deliveries recorded, compared and answered
\* (bootstrap_with_identity).
WinnerTakesAll ==
  /\ token = NoToken <=> launch_env = NoDelivery
  /\ token # NoToken => token = req[launch_env].token
  /\ \A d \in Delivery : pc[d] = "answered" /\ req[d].hook = "run" =>
       status[d] = IF req[d].token = Malformed THEN 400
                   ELSE IF req[d].token = token THEN 200 ELSE 409

\* The log is the first HOOK_LOG_CAP invocations and the count of the others,
\* a request's slot stays its own while others append, and an outcome is
\* recorded on the entry of the request whose handler it was (record_hook,
\* record_handler).
LogIsExact ==
  LET recorded == {d \in Delivery : pc[d] \notin {"absent", "arrived"}}
      kept == {d \in recorded : slot[d] # 0}
  IN  /\ Len(observed) + dropped = Cardinality(recorded)
      /\ dropped > 0 => Len(observed) = HOOK_LOG_CAP
      /\ \A d, e \in kept : d # e => slot[d] # slot[e]
      /\ \A d \in kept :
           /\ observed[slot[d]].hook = req[d].hook
           /\ observed[slot[d]].handler # "none" =>
                pc[d] = "answered" /\ req[d].hook \in Handled

\* A hook is answered after its work: the repair is over when the winning run
\* hook answers, and the handler of an invocation the log kept has an outcome
\* (routes.rs; hook_handlers.rs, "before the daemon answers").
AnsweredAfterWork ==
  \A d \in Delivery : pc[d] = "answered" =>
    /\ launch_env = d => repair = "over"
    /\ HasHandler(d) /\ (req[d].hook = "run" => launch_env = d) =>
         observed[slot[d]].handler # "none"

\* The run handler runs at most once in a VM's life and on the repaired guest: only
\* the winning delivery's handler ever starts or has an outcome, however replays
\* and rivals arrive while the winner repairs, waits or runs, or after its caller
\* hung up (PROTOCOL.md, "a replayed or conflicting run hook runs none").
RunHandlerRunsOnce ==
  \A d \in Delivery :
    /\ req[d].hook = "run"
    /\ proc[d] # "none" \/ (slot[d] # 0 /\ observed[slot[d]].handler # "none")
    => launch_env = d /\ repair = "over"

\* Handlers do not overlap, although a caller that hangs up takes the request
\* that holds the lock with it (hook_handlers.rs, "One handler runs at a time").
OneHandlerAtATime ==
  \A d, e \in Delivery : proc[d] = "live" /\ proc[e] = "live" => d = e

\* Every hook request is answered, or its caller hung up: neither a handler
\* that hangs nor the queue for the lock keeps one waiting for ever.
EveryHookEnds ==
  \A d \in Delivery : pc[d] = "arrived" ~> pc[d] \in {"answered", "refused", "gone"}

\* The platform forwards traffic once a run hook has answered 200, and a replay is
\* answered while the first delivery is still at work, or after its caller hung up.
\* The guest gets ready all the same: its repair ends without the request that
\* started it, and the first delivery's handler has an outcome unless its caller
\* hung up (run_hook, spawn_blocking).
AcceptedRunGetsReady ==
  (\E d \in Delivery : req[d].hook = "run" /\ status[d] = 200) ~>
    /\ repair = "over"
    /\ \/ pc[launch_env] = "gone" \/ ~HasHandler(launch_env)
       \/ observed[slot[launch_env]].handler # "none"

\* Not so.  PROTOCOL.md, "The `run` handler runs once, after the winning bootstrap
\* installs the token": once a run hook has been accepted and no request is
\* under way, a VM whose image has a run handler, and whose log kept the
\* winning invocation, has run it to an outcome.
AcceptedRunWasHandled ==
  /\ \E d \in Delivery : req[d].hook = "run" /\ status[d] = 200
  /\ \A d \in Delivery : pc[d] \in {"absent", "answered", "refused", "gone"}
  /\ "run" \in Handled /\ slot[launch_env] # 0
  => observed[slot[launch_env]].handler # "none"
===========================================================================
