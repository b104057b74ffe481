# A TLA+ model of microvms-agentd

`microvms-agentd` runs commands in small virtual machines. A daemon in the guest
(`crates/agentd`) is the only channel into the VM: it starts commands, buffers and streams
their output, kills them and powers the guest off. A client library (`crates/microvms-app`)
drives it over HTTP through a proxy, and drives the cloud's control plane that owns the VM.

This directory holds the modules that model the system, the TLC configurations that check
them on small instances, and TLAPS proofs for every value of the constants.
`PROJECT.json` lists the runs, what each property is broken by, and the source lines behind
every definition.

## 1. The system

| part | state it keeps | operations | what makes it correct |
|---|---|---|---|
| agentd: exec output (`agentd/src/exec.rs`) | two pipes, a head buffer per pipe (`Capped`), a replay ring (`Log`), a broadcast channel, the terminal marker, one `Attach` per open stream | read a pipe, publish, attach, replay, receive, lag, announce the end | a reader gets every byte once and in order or is told which it lost; streams of ended execs end |
| agentd: exec registry (`agentd/src/exec.rs`) | id -> entry (pgid, `acked_at`, `Shared`), result slot, stdin handle | start, poll, ack, stdin, kill, collect, activity | an outcome is handed out exactly once and kept until then; a start is idempotent; phases only advance |
| agentd: process groups (`agentd/src/exec.rs`) | none but the pgid; the kernel has the rest | SIGTERM, probe, SIGKILL; timeout, reap, kill | signalled processes end; a timed-out exec ends |
| agentd: power-off (`agentd/src/poweroff.rs`) | a requested flag | two snapshots of `/proc`, power off | never under a running command |
| agentd: bootstrap and hooks (`state.rs`, `routes.rs`, `hook_handlers.rs`, `identity.rs`) | token, launch environment, identity, a capped hook log, the handler lock | run, ready, validate, suspend, resume, terminate hooks; health | one token per VM; a retried hook changes nothing; one handler at a time, done before the hook is answered |
| agentd: files, auth, serving | none | | |
| tunnel (`agentd/src/tunnel.rs`, `microvms-edges/src/session/tunnel.rs`, `serve.rs`) | the step of each relay, the Noise session, four sockets | handshake, dial, relay both ways, end of stream, close, reset, abort | a clean end of a verified tunnel means a complete stream; an unproved caller reaches nothing; both ends end |
| client: exec stream (`microvms-app/src/session/exec.rs`) | resume cursor, attempts | attach, take events, reconnect | no byte repeated or skipped across cuts |
| client: run to completion (`session/complete.rs`) | step, deadlines, the kill's answer | start, stream, wait, ack, kill, synthesize | returns exactly one result, the real one when there is one |
| client: sandbox handle (`sandbox.rs`, `control/microvm.rs`) | lifecycle, token bookkeeping, ownership (torn down, adopted, detached) | launch, wait, adopt, detach, suspend, resume, terminate, drop | the client state model (STATE-1 to STATE-12); what a handle says of its VM is true; nothing leaks unnamed |
| client: keepalive (`session/keepalive.rs`) | a task, a receiver of the handle's lifecycle | gate, poll, end | never keeps a VM awake its own handle suspended |
| client: image ensure (`control/ensure.rs`, `control/image.rs`) | the call's `Progress`; the service has the image | describe, settle, delete, await absence, create, join, wait | returns a built image; a forced call a new one; ends |
| client: split output (`session/split.rs`) | two channels of one slot, held gaps, a gap log | take a frame, send a chunk, attribute gaps, reject both | each side gets its bytes once, in order, or an error; no side hangs on the other |
| client: proxy tokens (`session/proxy.rs`) | the cached token with its ports and time, the mint lock | request, mint, cache, invalidate | the token serves the port and is alive; one mint at a time |
| cli: run ledger (`ledger.rs`, `commands/lifecycle.rs`, `agent.rs`, `local.rs`) | one file per run | record, mark, clear, narrow, prune | what bills is on disk or in a living command's hands |
| client: sweep, artifacts, provisioning (`control/*`, `provision.rs`) | cloud resources | | |
| protocol, domain, edges, core, cli, bindings | wire and value types, I/O, front ends | | |
| model, conformance, verify | the repository's own Stateright models and suites | | |

How the parts meet: handlers and the waiter task of an exec share its `Shared` (four async
mutexes and a channel); handlers and the collector share the registry; the waiter starts the
escalations and the power-off; the client meets the daemon only through requests that may be
lost, delayed or answered to nobody, and through the body of a stream that may be cut. The
platform calls the daemon's hooks around a VM's launch, suspension and end. Handles, in one
process or several, meet at the platform (two launches with one client token, a detach and
an adopt) and at the image service (one content-addressed name); a keepalive meets its
handle's suspend at the proxy. Clones of a session share one token cache with a handle that
resumes. Commands of the CLI meet in the state directory and the account, and nowhere else.
A tunnel's two relays meet through a WebSocket that passes a proxy.

What is hard: a handler looks an entry up, awaits a lock and uses what it read; `select!`
drops the arms that lost; the ring evicts while readers replay it; the broadcast channel
drops for slow readers; processes fork and exit while `/proc` is walked; an answer is lost
after the daemon, or the service, acted; a hook is retried while its first delivery is still
at work; the platform suspends, wakes and ends VMs on its own; reads of the service are
stale; a caller drops a future at any await; a command is killed between a call and its
record; a connection ends in a way that looks like a finished stream. `PROJECT.json` lists these hazards at their lines with the
properties that would catch them.

## 2. The modules

| module | models |
|---|---|
| `ExecOutput` | the output of one exec, from the child's writes to the client's cursor |
| `ExecOutputProofs` | its theorems |
| `ExecLifecycle` | abstract: what the registry promises its callers |
| `ExecRegistry` | the registry, its handlers, the waiters and the collector; implements `ExecLifecycle` |
| `ExecCompletion` | extends `ExecRegistry` by the client's `run_to_completion` and a lossy network |
| `ExecRegistryProofs` | the theorems of both, the refinement among them |
| `ProcessGroup` | one process group, the escalations against it, the waiter, the power-off |
| `ProcessGroupProofs` | its theorems |
| `LifecycleHooks` | the hook routes, the bootstrap, the identity repair and the handlers |
| `LifecycleHooksProofs` | its theorems |
| `SandboxLifecycle` | abstract: the client state model of one handle |
| `Sandbox` | handles, keepalives and sessions against the platform; implements `SandboxLifecycle` for each handle |
| `SandboxProofs` | its theorems, the refinement among them |
| `EnsureImage` | calls of `ensure_image` on one name against the image service |
| `EnsureImageProofs` | its theorems |
| `RunLedger` | the run records of a state directory, and the commands that write and clean them |
| `ProxyAuth` | the token cache of a session, its callers and the mint lock |
| `AppProofs` | the theorems of `RunLedger` and of `ProxyAuth`, which share nothing |
| `Tunnel` | one tunnel, from the local application to the server in the guest |
| `TunnelProofs` | its theorems |
| `MC*` | instances for TLC: constants only |

### ExecOutput

A byte is its offset in the exec's combined output and a chunk an interval, so "which bytes"
is arithmetic and content plays no part. Deques are sets of chunks ordered by offset.

*State.* `pipe`, `open`, `written` (the pipes and their writers), `pump[s]` (`Capped`:
`held` is what it read and has not published), `log` (ring, total, start, retained),
`terminal`, `waiter` (the step of `super_wait` and of the task around it), and per reader
the client's `cursor`, `attempts`, `options` and the server's `conn` (`Attach`, with its
receiver's `queue`, whether `Finished` is queued and whether it lagged).

*Atomicity.* The daemon runs on tokio's current-thread runtime: code between two awaits is
one step. Every lock of this path is free whenever it is polled, because no holder awaits,
so an await on it suspends only when the task's cooperative budget is spent. The variable
`yields`, chosen at the start, says whether such suspensions happen. The properties named
`...UnlessYields` hold exactly without them; section 3 says what happens with them. During the escalation of a timeout or a reap `super_wait` does not pump;
`ExecOutput` lets it, so the code's behaviours are among the model's.

*Client.* `advance` is modelled with its reconnect budget, `error_on_gap` and all of its
endings. A cut loses whatever the server had sent and the client had not taken. A body that
is not SSE (a fatal parse error) is not modelled.

### ExecRegistry and ExecLifecycle

Execs are numbered when they are spawned; `entries[i]` is the exec registered under an id, so
that a handler can hold the `Shared` of an exec whose id has a new owner. A request is a
handler slot: its lookup is one step, the await of a lock ends it, the answer is another.
`start` has no await between its check and its insert and is one step. The stdin lock is the
one lock held across an await; it is a fair queue. Clients disconnect and their handlers are
dropped where they stand.

`ExecLifecycle` says it abstractly: absent, running, exited, acked, absent again; `HandOut`
is the only step that gives the outcome away, once. The refinement maps `phase` to what
`poll` would compute now.

### ExecCompletion

`ExecRegistry` with one caller: `drive` is followed from the start to the returned result,
with the client deadline, the kill, the grace and the synthesized 124. `transit` holds
requests on their way; `Loses` is the client giving up (its timeout, a cut connection, a
retryable 5xx) while the request may still arrive and take effect. The stream is reduced to
how it ends; `ExecOutput` has its inside. A refused token (401) is not modelled.

### ProcessGroup

Every system call is a step. Processes fork, leave the group (`setsid`, refused for the
leader), exit and are reaped by their parents between any two of them; orphans become the
daemon's, which reaps only the leader. A listing of `/proc` is one step (procfs lists pids in
increasing order, and pids here are given in that order) and each `stat` read another.
`killpg(pgid, 0)` and the listing that follows are merged: an empty group stays empty.
`unreadable`, chosen at the start, says whether reads of `/proc` may fail. SIGTERM may be
ignored, SIGKILL is not: `killed` processes do nothing more and die. Not modelled: reuse of
pids, `EPERM`, a leader that moves itself into another group. A power-off does not stop the
model, which makes `PoweroffAfterGroup` stronger.

### LifecycleHooks

A delivery is one HTTP request to a hook route. Nothing authenticates it, so deliveries are
the platform's, its retries, and anything in the guest. `RecordHook` takes the log's slot (or
counts the drop when the log is full) and is where a body that `bound_hook_body` refuses
ends; `Bootstrap` is the comparison under the token lock with what follows it up to the next
await: the winner starts the blocking repair, a replay is answered 200, another token 409, a
malformed body 400. `RepairIdentity` runs on a blocking thread and goes on when its request
is dropped. `handler_lock` is a fair queue; a handler runs, ends, or is cut at its budget,
and its outcome goes to the request's slot. `HangUp` drops a request at whichever await it
is parked: it leaves the queue or gives the lock back, and `kill_on_drop` takes the handler
with it. A suspend and a snapshot keep the memory as it is, so neither is a step. The steps
of the repair itself (machine id, host name, keys) are one step with its three outcomes.

### Sandbox and SandboxLifecycle

`sb[h]` holds the fields of a `Sandbox` that its operations branch on, and `op`, the await an
operation is parked at (`&mut self`: one operation per handle at a time). The platform's
state `vm[v]` and the state before it, `old[v]`, make `GetMicrovm` eventually consistent: a
read sees either. Calls are split where something can come between effect and answer
(suspend, terminate, launch); a call can be refused, and can be accepted with the answer
lost; a caller can drop any operation (`OperationFails`, `RunLost`, `TerminateCut`). A launch
with the caller's own client token finds the VM that token already launched, so two handles
may share a VM without an adopt. Some state is history only: `records` (detached and not yet
adopted), `lost` (launches nobody heard of), `said` (what a handle last told its caller) and
`wakes`.

The keepalive is a process beside its handle: gate on the watched lifecycle, poll in flight,
end. Its policy (interval, tolerated errors, idleness) is the choice between polling and
ending. The image half of a teardown is `EnsureImage`'s `TeardownDeletes`; polls of a wait
that neither find what they want nor fail change nothing and are not steps.

`SandboxLifecycle` is the client state model the repository keeps in
`verify/spec/core.symspec.json`: which lifecycle may follow which, the token installed once,
the bootstrap counted once, and no way back from a termination. Its fifth variable, `image_exists`, belongs to the image
half and is left out. `LifecycleImplemented` maps each handle's four fields to the others.

### EnsureImage

The service keeps one image under the name; `gen` numbers the images that have had it, which
no caller can see. Every call of `ensure` to the service is one step and everything it read
is old at the next: `Describe` and `plan`, the settling of a build before a forced delete,
`Delete` with its attempts, `AwaitAbsent` with its comparison of states, the upload, the
create, the redescription after a refusal, and the waits. Builds and deletions settle when
the service likes, also as failures. No call of `ensure` updates an image and nothing here
does: `UPDATING`, `UPDATED` and `UPDATE_FAILED`, which `Found::from_state` reads like
`CREATING`, `CREATED` and `CREATE_FAILED`, are not states of the model. Teardowns and sweeps of other processes delete the
image at any time. Calls fail at any step. Deadlines end a wait; nothing obliges the service
to settle.

### RunLedger

Commands are processes that share the files and the account. `run` and `agent` follow the
code from the id through build, launch and body to teardown, with each flush of the ledger a
step between two calls; a creating command can be killed anywhere. `terminate` narrows every
record of its VM, `prune` removes records whose resources a listing no longer shows. A write
truncates first: one that fails, or is cut, leaves a torn file, and nobody is told; a failure
to open a file, where the old record would survive, is not told apart. Listings are atomic.
"Gone" is a resource on its way out or out. Records of other regions and a `run` on an
explicit image are not modelled. The invariants carry their exceptions by name: a launch
accepted and not yet recorded when the process dies, a torn record, a record overtaken
between a prune's read and its remove.

### ProxyAuth

A call is a request that needs headers for a port: it finds a fresh token, or queues for the
mint lock, looks again, and mints for the ports covered so far and its own. A mint is issued
at one time and cached at a later one; a dropped future leaves the queue or the lock at
whichever await it stands. `Timeout` is an assumption on the callers: `Transport::request`
and `connect_headers` put one around the call, `ExecHandle::attach`, the tunnel and the
forwarder do not: a mint that never ends there keeps every caller behind it waiting, and no
property speaks of it, because what bounds it is the control plane's client, which is external. `TimeAssumption` is
`RefreshAfter + Timeout < Lifetime`; the defaults are 30 minutes, 60 seconds and 60 minutes.

### Tunnel

`relay[s]` is the loop of the client or of the daemon; `step` says which await it is parked
at. Both loops select between their application and the WebSocket, and while they await a
send or a write they do nothing else, which is what the queues' sizes are for. The handshake
is reduced to keys that agree or not; a frame that does not authenticate cannot be made here,
because nothing on the path can (the end of stream is a frame like the others, a close frame
is anybody's). `setup` chooses a plain tunnel, a verified one, or a probe for the identity
(`verify_identity`). The path can be cut with a tail of the frames lost, and a proxy can put
a close frame without a failure code behind any prefix. `sees` is what an
application finally reads: an EOF or a reset. A socket dropped with unread bytes in it may be
reset by the kernel. Both ends are of this release: the older peers the code still accepts,
which offer no end of stream, are not in the repository. `Faults` is a set of sets: a
tunnel is exposed to the faults of one of them. An application that is `gone` has closed both directions.

## 3. What TLC checks

| run | states | bounds | shows |
|---|---|---|---|
| `exec_output` | 643 k | 3 bytes, ring 2, channel 1, head buffer 2, 1 reconnect, one reader with the default options or with neither reconnects nor gaps allowed | events contiguous, no silent loss, everything read published, outcome complete (the last three without suspensions), every stream of an ended exec ends |
| `exec_registry` | 166 k | one id used twice, two requests at a time | implements `ExecLifecycle`; outcomes kept; poll misled only by a racing ack; `Finished` always announced |
| `exec_completion` | 268 k | one call, one exec, two handler slots | a real result follows an ack; without a lost ack the result is the outcome or the synthesized 124; the call returns |
| `process_group` | 642 k | three processes (two in execs with a timeout), one kill, reap or power-off | power-off only after the group; escalations settle whom they signalled; a timed-out exec ends |
| `hooks` | 874 k | three deliveries, two tokens, a log of two entries, handlers for run and suspend | one winner; the log exact at its cap; answers after the work; the run handler runs once, for the winner, on a repaired guest; every hook ends, and a guest that any 200 opened to traffic gets ready |
| `sandbox` | 869 k | two handles, one VM, one keepalive each, auto-resume on | the client state model implemented; TERMINATED is true; a clean report leaves nothing; leaks accounted for; a keepalive wakes at most once after a suspend |
| `ensure_image` | 531 k | one forced and one unforced call, two delete attempts, teardowns at any time | a forced call returns a new image; an unforced one deletes a ready image only on a stale description; what is returned was built; calls end |
| `run_ledger` | 383 k | one creating command of either kind, a terminate, a prune, torn writes | what bills is on disk or in a living command's hands; a prune spares what is outstanding |
| `proxy_auth` | 58 k | two callers, two ports, refresh 1, timeout 1, lifetime 3, clock 4, one resume | tokens handed out are alive; after a resume tokens are fresh unless a mint raced it; every call ends |
| `tunnel` | 315 k | two chunks each way, sockets and path of one; per tunnel one kind of fault: a cut, a proxy's close, an abort, or a local application that goes | a clean end of a verifying tunnel is complete (unless the connection was aborted, the local application vanished, or a close frame ended the handshake, when nothing was relayed or dialled); no dial before the confirmation; one relay's end reaches the other; a finished application ends the tunnel, unless both relays wait to send |

Why these bounds are enough to be interesting: three bytes overflow the ring (2), the channel
(1) and the head buffer (2), so eviction, slicing, lag and truncation all happen, and the
proofs carry most of it to any size. Readers meet only in the log and the channel, which they
do not write, so one reader stands for each of several. One id used twice is the least that
lets a handler meet its exec's successor. Three processes are the least that let one process
fork another while a walk is under way and vanish before it is read. Three deliveries are a
winner, a replay or rival and one that finds the log full; each may be any hook. Two handles
are a launcher and an adopter, or two launchers with one token; a second VM would only be
reached by handles that have no VM. A forced and an unforced call cover a delete under a
sibling's wait and a rebuild behind a stale description; two calls of one kind are covered
by the proofs. One
run covers every interleaving of one record with its cleaners. Two callers are a holder of the lock and one that waits; the
clock passes a token's life once. Two chunks each way over a path of one fill it while a
third is being sent, which is the least that makes both relays wait. In `process_group` only a timed exec is bound to two processes, where the
liveness property is.

Deadlock is not checked: an exec ends, its streams end, a bound is reached, and the system
stops. That it does not stop early is what the liveness properties say.

**Fairness.** The runtime polls ready tasks, so the waiter, a resumed handler and an attached
stream go on (weak fairness). Timers fire: the linger, the stdin write timeout, request
timeouts, deadlines. Nobody is obliged to write, to exit by itself or to keep a connection;
`StreamEnds` starts from the terminal marker: once the exec is over, every reader's stream
ends. `GraceExpires` is strongly fair: the loop comes back to its clock between walks and
the clock does pass the grace. A process that was sent SIGKILL dies. In `ExecCompletion` the
daemon need not answer at all; only slots of requests nobody awaits clear themselves, which
is an artefact of having two slots. In `LifecycleHooks` a request that can go on does, the
blocking repair ends (its steps are bounded) and a handler's budget expires; no handler is
obliged to exit by itself and no caller to stay. In `EnsureImage` a caller goes on and its
waits have deadlines; the service is obliged to nothing. `Sandbox` has no liveness property:
every wait of a handle can end in its deadline, which is `OperationFails`.
In `ProxyAuth` the holder of the lock is polled and every mint ends, answered, failed or
dropped at its timeout. In `Tunnel` the relays are polled, a dial ends (it has a timeout) and
the applications read what they are sent; nobody is obliged to write, to finish or to keep
the path open.

### What the code does and a text says otherwise

Two runs expect a violation; their findings in `PROJECT.json` quote the text.

- `process_group_reap`: an escalation believes one walk of `/proc` and ends beside a process
  forked behind it ("nothing the command left behind outlives it").
- `tunnel_unverified`: a close frame without a failure code before the reply makes
  `verify_identity` answer `Closed` ("when the pin verified").

Other texts say more than the code keeps. What they say is defined in the modules under a
comment that begins "Not so", or is the part of an `...Unless...` property after its
condition; TLC refutes each when it is added to the module's configuration, and the runs
check what does hold.

- `EverythingReadIsPublished` (`ExecOutput`): a pump suspended between its read and the log
  lock is dropped with its bytes ("Everything read is published").
- `AcceptedRunWasHandled` (`LifecycleHooks`): the winning run hook is dropped before its
  handler starts, its replay is answered 200, and the handler never runs ("The `run` handler
  runs once, after the winning bootstrap installs the token"). It runs at most once
  (`RunHandlerRunsOnce`), and the repair ends all the same (`AcceptedRunGetsReady`).
- `NotBricked` (`Sandbox`): a suspend is accepted and its wait fails; the handle stays
  SUSPENDING over a VM that is there ("stuck in a state neither suspend nor resume accepts").
- `ReadyDeletedOnlyForced` (`EnsureImage`): a call that did not force deletes a ready image
  where it had described a failed one ("deleting a ready image only under a forced rebuild").
- `OutstandingBeforeDelete` (`RunLedger`): `agent-up` cut between the accepted launch and its
  record marks a list without the VM before it deletes it ("Marks everything this invocation
  created as outstanding").
- `GroupStaysNamed` (`RunLedger`): a terminate overwrites a record that named a build log
  group ("a build log group this CLI could only name stays too").
- `FreshAfterResume` (`ProxyAuth`): a mint that began before a resume is cached after it
  ("Drops the cached token so the next request mints a fresh one").
- `LocalEofIsComplete` (`Tunnel`): `serve.rs:200` says "A verified stream only ends cleanly
  when its authenticated end arrives". Not so in two ways: the serving loop told to cut drops
  an open verified connection, whose application reads an EOF; and a close frame without a
  failure code that comes instead of the daemon's reply makes the relay return
  `Ok(TunnelEnd::Closed)` (`tunnel.rs:619`, then `406`), for which `serve.rs:203-207` sets no
  reset, so the application reads a clean EOF on a tunnel that was never verified. The cause
  is that of the `tunnel_unverified` finding. `LocalEndIsTrue` names both exceptions and says
  of the second that no byte reached the application and no server was dialled.
- `GuestEofIsComplete` (`Tunnel`): the local application closes, the relay's write to it
  fails, and the end of stream goes out before the bytes it had written ("it sent
  everything").
- `KeepsMoving` (`Tunnel`): both relays wait to send on a full path ("Bytes then move in
  binary frames until either end closes").

## 4. What is proved

Every safety invariant and action property that a run checks and expects to hold is proved,
and both refinements. The type invariants are proved and, but for that of `Tunnel`,
not checked by a run; so are `RingExact`, `BusyMeansProducing`,
`OneHandlerAtATime`, `StateConstraints`, `TokenServesPort`, `OneMintAtATime` and
`MintsOnlyWiden`. The types of `ExecCompletion`'s own variables are a part of `CallInv`.

`ExecOutputProofs`, for any set of readers, any buffer, channel and head-buffer size and any
number of bytes, from the assumptions on the constants in `ExecOutput`:

- `TypeCorrect`: `Spec => []TypeOK`.
- `OutputInvariant`: the inductive invariant `OutputInv` (the ring is an exact window;
  `TerminalLast`: nothing is published after the marker; per connection `PendingInv`,
  `HoldingsInv`, `FinishedInv`, `ExitInv`) and `NoWindows` (without suspensions nothing is
  held between two awaits). `EventsContiguous` is not inductive: that the next event
  continues at the cursor depends on the backlog and the channel's queue covering everything
  from the connection's own cursor to the log's total, unless the receiver has lagged, which
  is what `HoldingsInv` says.
- `RingIsExact`, `StreamIsContiguous`, `NoLossUnlessYields`, `ReadIsPublished` follow.
- `OutcomeIsComplete` needs the head buffers as well (`HeadInv`): while neither has dropped a
  byte, the two hold as many as the log has seen, so a buffer cannot be short without its
  `truncated` flag.

`ProcessGroupProofs`, for any number of processes and kill requests:

- `TypeCorrect`: `Spec => []TypeOK`.
- `GroupInvariant`: `GroupInv`. For the escalation: during a walk a signalled process that
  still lives in the group is either still to be read or has been seen. For the power-off:
  once the second walk has begun and a live member exists, there is a *witness*, a process
  the second walk has met or will meet and that the first saw in the group or not at all;
  either way the two snapshots cannot be equal and empty. One snapshot has no such witness,
  which is finding `process_group_reap`.
- `PoweroffIsLast`, `EscalationSettles` follow.

`LifecycleHooksProofs`, for any number of deliveries and tokens, any cap and any handlers:
`TypeCorrect`, `OneWinner`, `LogExact`, `AnsweredLast` and
`HandlersExclude` follow from `HooksInvariant`, and `RunsOnce` from it and `OnceInv`, which
carries what a request once showed of a handler (`Shows`) past its answer or its caller's
end. `LogIsExact` is not inductive: the length of
the log is tied to the set of requests that have been recorded (`CountInv`, a cardinality),
and an outcome in the log to the one request that owns the entry (`Entry`). `WinnerTakesAll`
speaks of answers long given; `BootInv` says that token, environment and repair are set by
one step and never again, and `Answered` what each status then means.

`EnsureImageProofs`, for any callers and attempts: `TypeCorrect`, `ForcedIsFresh`,
`PullsAreStale` and `ReturnsBuilt` follow from `EnsureInvariant`. A forced call's result is
only known to be new because of where the call has been: `OnItsWay`, `Behind` and `Fresh` say, for
each place, how the generation under the name compares with the one the call first found,
although siblings and teardowns change the image between any two steps.

`SandboxProofs`, for any number of handles and VMs, with or without auto-resume:
`TypeCorrect`, `ConstraintsHold`, `ReportsTrue`, `LeaksAccounted`, `WakesOnce`
and the refinement `Implements` follow from `SandboxInvariant`. Its parts:
`Coherent` (what the fields of a handle say of each other at every await), `Platform` (an
old read that shows an end is of a VM that has ended, so a stale read cannot make TERMINATED
false), `Truthful` (a report or a TERMINATED against the platform), `Awake` (a poll is in
flight after a suspend only while no wake has been counted), `Answered` (some handle that
did not adopt it, or the list of lost launches, answers for every launched VM, and a VM that
was handed off is in a record or has an adopter) and `TokenIsReal`. A step of one handle
leaves the others' parts alone because the platform only `Grows`: VMs stay launched and stay
dead. The refinement needs `Coherent`: that `HookSucceeded` finds no earlier bootstrap and
no termination is a fact about which awaits a handle can be parked at.

`ExecRegistryProofs`, for any ids, handlers and number of execs: `TypeCorrect`,
`OutcomesKept`, `PollsMisled`, `BusyExact` and the refinement `Implements` follow from
`RegistryInvariant`. `OutcomeKept` is not inductive: an ack looks an entry up, awaits the
result's lock and then takes it, so what it will find depends on what it carries. `Slots`
ties each entry to the exec it names, `Life` says how far an exec has come for each place of
its waiter, `Serving` what a parked handler knows of the exec it looked up, and `Exclusive`
that the stdin lock has one holder. Of the steps, `Spawn` maps to `Begin`, `SetResult` to
`End`, `AckTakes` to `HandOut` and `CollectExpired` to `Forget`; the rest stutter.

The same module proves the safety of `ExecCompletion`: `ResultsFollowAcks` and
`OutcomesUnlessAckLost` follow from `CallInvariant`, which adds `CallInv` to the registry's
invariant. Neither is inductive, because requests outlive the client's interest in them: the
daemon may still be serving one the client gave up on. `Awaiting` says that the answer the
call awaits is to the request its step sends, `HandedInv` which answers mean that an outcome
was handed out, and `Sound` that, until the client gives up on an ack, the only ack anywhere
is the one it awaits and the outcome is still to be had (`ToBeHad`): nothing is acked, the
entry names the call's exec, and a handler parked at a lock has looked up that exec. The
assumption `SlotAssumption` only keeps the value "none" apart from the request slots.

`AppProofs`, of `ProxyAuth` for any callers, ports and times that satisfy `TimeAssumption`:
`TypeCorrect`, `ServesPort`, `HandsOutLive`, `MintsExclude`, `FreshUnlessRaced` and the
action property `Widens` follow from `ProxyInvariant`. That a token handed out is alive needs
the whole way of a call: a cached token was issued at most a timeout before it was cached
(`IssuedInv`, `CacheInv`), it is used at most `RefreshAfter` later, and `QueueInv` makes the
caller that mints the head of the queue, so that nobody replaces the cache under it.

`AppProofs`, of `RunLedger` for any finite set of runs numbered in the
order of their ids, any bound on how many are under way, torn writes or none and any cleaners,
from `RunAssumption`, `KindsAssumption` and `NoRunAssumption`: `LedgerTypeCorrect`,
`WhatBillsIsRecorded` and the action property `PruneSpares` follow from `LedgerInvariant`.
`LiveIsRecorded` speaks of runs that are over, and says nothing of the steps that lead there;
a teardown rewrites the file only after both of its deletes. So:

- `RunInv` says what a process knows at each step (before the launch it has no VM, its record
  names its own VM or none, everything it names has been created);
- `VmHeld` and `ImageHeld` say where a thing that is there must be written: in the file once
  the process has recorded it, on the list of what is left while the deletes go on, and the
  list is not empty when the record would otherwise be cleared;
- `FileInv` ties a readable file to the process that wrote it. `terminate` overwrites files
  from copies it read before its calls, and the copies stay good because a run that has a VM
  changes neither the VM nor the image of its record (`TermInv`);
- `PruneInv` says that what a prune is about to remove is of things that have come and gone;
  `Past` is stable, so a record that still equals the copy is still dead. One that does not
  is the exception `overtaken` of the property.

That a step of one run leaves the other runs' parts alone is one lemma (`OtherRunHeld`): the
platform only `Ages`, a thing that is gone stays gone and only the run that takes the step
can bring one into being. `NewestIsOne`, that the newest of the records is one of them, is an
induction over finite sets, stated with sets alone (the least counterexample, from
`NatLessThanWellFounded`) because the library's induction theorems cannot be instantiated.

`TunnelProofs`, for any number of chunks, any socket and path sizes and any faults:
`TypeCorrect`, `DialsAfterConfirm`, `LocalEndsTrue` and `GuestEofComplete` follow from
`TunnelInvariant`. What an application has when it reads an EOF depends on everything that was
between the two ends, so the invariant accounts for each chunk: `Conserved` says that what one
application wrote is the sum of what the other has, what its relay is writing, what is on the
way, what the first relay is sending and what it has not read, as long as nothing has been
lost (`FlowInv`). `TailInv` carries that to an end of stream on its way, which is sent by a
side that has nothing left (`Spent`) and is taken after every frame before it, and `TakenInv`
to the side that took it, whatever happens to the path afterwards. `ToldInv` ties what an
application was told to how its relay ended, and `CloseInv` says that over a whole path the
daemon's close frame comes behind its end of stream, so that a client's relay reports a
failure to a listener only of a daemon that had not finished. `ShakeInv` is the handshake: who
may have sent what, who has proved itself by then, and that a client's relay that has not
got its proof has relayed nothing.

Only model-checked: the liveness properties (`StreamEnds`, `FinishedIsAnnounced`,
`CallReturns`, `TimedOutExecEnds`, `EveryHookEnds`, `AcceptedRunGetsReady`, `EveryCallEnds`, `EnsureReturns`,
`EndReachesBoth`, `FinishEndsOrWedges`), because TLAPS has no reasoning about fairness or
ENABLED here.

## 5. Left to do, and not modelled

Left to do in the proofs: the safety steps under the liveness properties (that a wait that
can end is never closed off), which can be stated as invariants; and the parts of
`GuestEofIsComplete` and its like that hold beyond their named exceptions. Worth modelling
next: the registry of names, whose check and write are two steps of a command
(`commands/lifecycle.rs:537`); the split of a stream into two channels (`session/split.rs`),
whose sends wait for readers that may stall or leave.

Not modelled, and why:

- the split of a stream, see above;
- uploads, file transfers and the HTTP forwarder of a session: each is a relay or a parser
  around one exchange, and what could go wrong is in its bytes;
- the tunnel's cryptography, and everything before its WebSocket is open;
- files and disk: the handlers keep no state between two requests;
- authentication, configuration, serving, start validation: pure checks, present in the
  models as a refusal;
- sweep, provisioning, workspace, history: sequences of calls run by one caller to
  their end, without state shared between steps of several actors; a sweep appears in
  `EnsureImage` as a deletion under its callers;
- cost and sizing tables, request and response building, the command line, the bindings and
  the repository's own models and conformance suites. These make up most of the
  repository's lines and hold no protocol state, so the modelled share of its lines stays
  small however much of its behaviour is modelled;
- the cloud service itself, beyond the steps its callers can observe (marked external in the
  map).
