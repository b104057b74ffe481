---------------------------- MODULE ExecRegistry ----------------------------
(***************************************************************************)
(* The exec registry of the guest daemon and the handlers that work on it: *)
(* start, poll, ack, write_stdin, kill, the waiter task of every exec and  *)
(* the collector.                                                          *)
(*                                                                         *)
(* An exec is numbered when it is spawned.  The registry maps an id to the *)
(* exec registered under it, and an id may be used again once its entry is *)
(* collected, while a handler still holds the Shared of the former exec.   *)
(*                                                                         *)
(* The daemon runs on one thread: code between two awaits is atomic.  The  *)
(* result and terminal locks are free whenever they are polled, so an      *)
(* await on them suspends only when tokio's cooperative budget is spent    *)
(* (yields); the stdin lock is held across the write to the child and      *)
(* hands itself over in arrival order.                                     *)
(***************************************************************************)
EXTENDS Naturals, Sequences

CONSTANTS
  Id,         \* caller-minted exec ids
  Handler,    \* requests that can be in progress at once
  MaxSpawns   \* bound: execs spawned in all

ASSUME SpawnAssumption == MaxSpawns \in Nat
ASSUME IdsAssumption == Id # {}
ASSUME HandlerAssumption == "waiter" \notin Handler

VARIABLES
  yields,     \* an await on a free lock may suspend the task
  execs,      \* execs spawned so far
  entries,    \* entries[i]: the exec registered under i, 0 when none is
  acked,      \* acked[x]: ExecEntry::acked_at is set
  task,       \* task[x]: where the waiter task of x is
  terminal,   \* terminal[x]: the Terminal marker is set
  result,     \* result[x]: the outcome is in its slot
  stdin,      \* stdin[x]: the daemon's end of the child's stdin
  stdinLock,  \* stdinLock[x]: who holds (first) and awaits the stdin lock
  handler,    \* handler[h]: the request h serves
  delivered   \* delivered[x]: outcomes of x put into an ack's answer

vars == <<yields, execs, entries, acked, task, terminal, result, stdin, stdinLock,
          handler, delivered>>
entryVars == <<execs, entries, acked>>
taskVars  == <<task, terminal>>
stdinVars == <<stdin, stdinLock>>

Exec  == 1..MaxSpawns
Entry == 0..MaxSpawns

Reply == {"none", "started", "refused", "unknown", "running", "exited", "acked",
          "released", "already_acked", "still_running", "not_requested", "closed",
          "written", "timed_out", "failed", "killed", "not_killed"}

\* exec, acked and eof are what the handler carries across its await;
\* over records whether that exec had its result when the request arrived.
HandlerState == [at : {"idle", "poll", "ack", "stdin", "kill", "replied"}, id : Id, exec : Entry,
                 acked : BOOLEAN, eof : BOOLEAN, over : BOOLEAN, reply : Reply]

NoRequest == [at |-> "idle", id |-> CHOOSE i \in Id : TRUE, exec |-> 0, acked |-> FALSE,
              eof |-> FALSE, over |-> FALSE, reply |-> "none"]

Answered(r) == [NoRequest EXCEPT !.at = "replied", !.reply = r]

\* The result of x has been published, whether or not an ack took it since.
Published(x) == task[x] \in {"stdin", "finished"}

\* A handler or a waiter that stands at a free lock.
AtFreeLock ==
  \/ \E h \in Handler : handler[h].at \in {"poll", "ack"}
  \/ \E x \in Exec : task[x] = "result"

----------------------------------------------------------------------------
(* POST /v1/exec/start.  Everything from the registry check to the insert  *)
(* runs without an await.                                                  *)

Answers(h, r) == handler' = [handler EXCEPT ![h] = Answered(r)]

StartKnown(h, i) ==
  /\ entries[i] # 0
  /\ Answers(h, "started")
  /\ UNCHANGED <<yields, entryVars, taskVars, result, stdinVars, delivered>>

\* A malformed request, an unknown user or shell, or a failed spawn.
StartRefused(h) ==
  /\ Answers(h, "refused")
  /\ UNCHANGED <<yields, entryVars, taskVars, result, stdinVars, delivered>>

Spawn(h, i) ==
  /\ entries[i] = 0
  /\ execs < MaxSpawns
  /\ execs' = execs + 1
  /\ entries' = [entries EXCEPT ![i] = execs + 1]
  /\ task' = [task EXCEPT ![execs + 1] = "wait"]
  /\ \E pipe \in {"open", "none"} : stdin' = [stdin EXCEPT ![execs + 1] = pipe]
  /\ Answers(h, "started")
  /\ UNCHANGED <<yields, acked, terminal, result, stdinLock, delivered>>

Start(h, i) == handler[h].at = "idle" /\ (StartKnown(h, i) \/ StartRefused(h) \/ Spawn(h, i))

----------------------------------------------------------------------------
(* The waiter task of an exec, from the end of super_wait on.              *)

SetTerminal(x) ==
  /\ task[x] = "wait"
  /\ task' = [task EXCEPT ![x] = "result"]
  /\ terminal' = [terminal EXCEPT ![x] = TRUE]
  /\ UNCHANGED <<yields, entryVars, result, stdinVars, handler, delivered>>

\* The outcome is published; the waiter then queues for the stdin lock.
SetResult(x) ==
  /\ task[x] = "result"
  /\ task' = [task EXCEPT ![x] = "stdin"]
  /\ result' = [result EXCEPT ![x] = TRUE]
  /\ stdinLock' = [stdinLock EXCEPT ![x] = Append(@, "waiter")]
  /\ UNCHANGED <<yields, entryVars, terminal, stdin, handler, delivered>>

\* stdin is dropped, the lock released and Finished announced.
CloseStdin(x) ==
  /\ task[x] = "stdin"
  /\ stdinLock[x] # <<>> /\ Head(stdinLock[x]) = "waiter"
  /\ task' = [task EXCEPT ![x] = "finished"]
  /\ stdin' = [stdin EXCEPT ![x] = IF @ = "open" THEN "closed" ELSE @]
  /\ stdinLock' = [stdinLock EXCEPT ![x] = Tail(@)]
  /\ UNCHANGED <<yields, entryVars, terminal, result, handler, delivered>>

----------------------------------------------------------------------------
(* GET /v1/exec/{id}: the entry and acked_at are read, then the result     *)
(* slot is awaited.                                                        *)

Unknown(h, i) ==
  /\ entries[i] = 0
  /\ Answers(h, "unknown")
  /\ UNCHANGED <<yields, entryVars, taskVars, result, stdinVars, delivered>>

Begin(h, i, op, eof) ==
  handler' = [handler EXCEPT ![h] =
    [at |-> op, id |-> i, exec |-> entries[i], acked |-> acked[entries[i]], eof |-> eof,
     over |-> Published(entries[i]), reply |-> "none"]]

PollLookup(h, i) ==
  /\ entries[i] # 0
  /\ Begin(h, i, "poll", FALSE)
  /\ UNCHANGED <<yields, entryVars, taskVars, result, stdinVars, delivered>>

Poll(h, i) == handler[h].at = "idle" /\ (Unknown(h, i) \/ PollLookup(h, i))

\* Mutant of PollPhase: the result slot alone decides.
PollPhaseBySlot(h) == IF result[handler[h].exec] THEN "exited" ELSE "running"

\* phase_of.
PollPhase(h) ==
  IF handler[h].acked THEN "acked" ELSE IF result[handler[h].exec] THEN "exited" ELSE "running"

PollAnswers(h) ==
  /\ handler[h].at = "poll"
  /\ Answers(h, PollPhase(h))
  /\ UNCHANGED <<yields, entryVars, taskVars, result, stdinVars, delivered>>

----------------------------------------------------------------------------
(* POST /v1/exec/{id}/ack: the result slot is awaited, and the entry is    *)
(* looked up again by its id while the slot is locked.                     *)

AckLookup(h, i) ==
  /\ entries[i] # 0
  /\ Begin(h, i, "ack", FALSE)
  /\ UNCHANGED <<yields, entryVars, taskVars, result, stdinVars, delivered>>

Ack(h, i) == handler[h].at = "idle" /\ (Unknown(h, i) \/ AckLookup(h, i))

IsAcked(i) == entries[i] # 0 /\ acked[entries[i]]

\* An empty slot: an earlier ack took the outcome, or there is none yet.
AckEmpty(h) ==
  /\ handler[h].at = "ack"
  /\ ~result[handler[h].exec]
  /\ Answers(h, IF IsAcked(handler[h].id) THEN "already_acked" ELSE "still_running")
  /\ UNCHANGED <<yields, entryVars, taskVars, result, stdinVars, delivered>>

\* Mutant of AckTakes: the outcome is handed back and the entry not marked.
AckTakesUnmarked(h) ==
  /\ handler[h].at = "ack"
  /\ result[handler[h].exec]
  /\ result' = [result EXCEPT ![handler[h].exec] = FALSE]
  /\ delivered' = [delivered EXCEPT ![handler[h].exec] = @ + 1]
  /\ Answers(h, "released")
  /\ UNCHANGED <<yields, execs, entries, acked, taskVars, stdinVars>>

\* The outcome is taken; it is handed back only if the entry is marked.
AckTakes(h) ==
  /\ handler[h].at = "ack"
  /\ LET x == handler[h].exec
         y == entries[handler[h].id]
         marked == y # 0 /\ ~acked[y]
     IN /\ result[x]
        /\ result' = [result EXCEPT ![x] = FALSE]
        /\ acked' = IF marked THEN [acked EXCEPT ![y] = TRUE] ELSE acked
        /\ delivered' = IF marked THEN [delivered EXCEPT ![x] = @ + 1] ELSE delivered
        /\ Answers(h, IF marked THEN "released" ELSE "already_acked")
  /\ UNCHANGED <<yields, execs, entries, taskVars, stdinVars>>

----------------------------------------------------------------------------
(* POST /v1/exec/{id}/stdin.                                               *)

StdinNotRequested(h, i) ==
  /\ entries[i] # 0
  /\ stdin[entries[i]] = "none"
  /\ Answers(h, "not_requested")
  /\ UNCHANGED <<yields, entryVars, taskVars, result, stdinVars, delivered>>

StdinQueues(h, i) ==
  /\ entries[i] # 0
  /\ stdin[entries[i]] # "none"
  /\ \E eof \in BOOLEAN : Begin(h, i, "stdin", eof)
  /\ stdinLock' = [stdinLock EXCEPT ![entries[i]] = Append(@, h)]
  /\ UNCHANGED <<yields, entryVars, taskVars, result, stdin, delivered>>

WriteStdin(h, i) ==
  handler[h].at = "idle" /\ (Unknown(h, i) \/ StdinNotRequested(h, i) \/ StdinQueues(h, i))

\* h has the stdin lock.
HoldsStdin(h) ==
  /\ handler[h].at = "stdin"
  /\ stdinLock[handler[h].exec] # <<>> /\ Head(stdinLock[handler[h].exec]) = h

StdinGone(h) ==
  /\ HoldsStdin(h)
  /\ stdin[handler[h].exec] = "closed"
  /\ stdinLock' = [stdinLock EXCEPT ![handler[h].exec] = Tail(@)]
  /\ Answers(h, "closed")
  /\ UNCHANGED <<yields, entryVars, taskVars, result, stdin, delivered>>

\* The write is over: slot is what remains of the pipe, r the answer.
StdinWriteEnds(h, slot, r) ==
  /\ HoldsStdin(h)
  /\ stdin[handler[h].exec] = "open"
  /\ stdin' = [stdin EXCEPT ![handler[h].exec] = slot]
  /\ stdinLock' = [stdinLock EXCEPT ![handler[h].exec] = Tail(@)]
  /\ Answers(h, r)
  /\ UNCHANGED <<yields, entryVars, taskVars, result, delivered>>

StdinWritten(h) == StdinWriteEnds(h, IF handler[h].eof THEN "closed" ELSE "open", "written")

\* A broken pipe drops the handle; another error or the timeout keeps it.
StdinBroken(h)   == StdinWriteEnds(h, "closed", "closed")
StdinFailed(h)   == StdinWriteEnds(h, "open", "failed")

\* Mutant of StdinTimesOut: the write is not bounded.
StdinNeverTimesOut(h) == FALSE /\ StdinWriteEnds(h, "open", "timed_out")

StdinTimesOut(h) == StdinWriteEnds(h, "open", "timed_out")

----------------------------------------------------------------------------
(* POST /v1/exec/{id}/kill: the escalation against the process group of    *)
(* the entry, which takes up to the kill grace and changes nothing here.   *)

KillLookup(h, i) ==
  /\ entries[i] # 0
  /\ Begin(h, i, "kill", FALSE)
  /\ UNCHANGED <<yields, entryVars, taskVars, result, stdinVars, delivered>>

Kill(h, i) == handler[h].at = "idle" /\ (Unknown(h, i) \/ KillLookup(h, i))

KillAnswers(h) ==
  /\ handler[h].at = "kill"
  /\ \E signaled \in BOOLEAN : Answers(h, IF signaled THEN "killed" ELSE "not_killed")
  /\ UNCHANGED <<yields, entryVars, taskVars, result, stdinVars, delivered>>

----------------------------------------------------------------------------
(* The client goes away: the handler is dropped where it awaits, and its   *)
(* place in the queue of the stdin lock with it.                           *)

\* The queue of a lock without w, which stands in it once.
Without(queue, w) ==
  IF \E k \in DOMAIN queue : queue[k] = w
    THEN LET k == CHOOSE n \in DOMAIN queue : queue[n] = w
         IN SubSeq(queue, 1, k - 1) \o SubSeq(queue, k + 1, Len(queue))
    ELSE queue

Disconnect(h) ==
  /\ handler[h].at # "idle"
  /\ handler' = [handler EXCEPT ![h] = NoRequest]
  /\ stdinLock' = [x \in Exec |-> Without(stdinLock[x], h)]
  /\ UNCHANGED <<yields, entryVars, taskVars, result, stdin, delivered>>

\* Mutant of CollectExpired: any finished entry is eligible.
CollectFinished ==
  /\ \E S \in SUBSET Id :
       /\ S # {}
       /\ \A i \in S : entries[i] # 0 /\ Published(entries[i])
       /\ entries' = [i \in Id |-> IF i \in S THEN 0 ELSE entries[i]]
  /\ UNCHANGED <<yields, execs, acked, taskVars, result, stdinVars, handler, delivered>>

\* collect_expired: the acked entries whose TTL has passed are removed.
CollectExpired ==
  /\ \E S \in SUBSET Id :
       /\ S # {}
       /\ \A i \in S : IsAcked(i)
       /\ entries' = [i \in Id |-> IF i \in S THEN 0 ELSE entries[i]]
  /\ UNCHANGED <<yields, execs, acked, taskVars, result, stdinVars, handler, delivered>>

\* activity: whether some registered exec is still producing.
Busy == \E i \in Id : entries[i] # 0 /\ ~terminal[entries[i]]

----------------------------------------------------------------------------
Init ==
  /\ yields \in BOOLEAN
  /\ execs = 0
  /\ entries = [i \in Id |-> 0]
  /\ acked = [x \in Exec |-> FALSE]
  /\ task = [x \in Exec |-> "none"]
  /\ terminal = [x \in Exec |-> FALSE]
  /\ result = [x \in Exec |-> FALSE]
  /\ stdin = [x \in Exec |-> "none"]
  /\ stdinLock = [x \in Exec |-> <<>>]
  /\ handler = [h \in Handler |-> NoRequest]
  /\ delivered = [x \in Exec |-> 0]

\* A task that stands at a free lock goes on.
Resumes(h) == PollAnswers(h) \/ AckEmpty(h) \/ AckTakes(h)

\* A handler whose own wait is over goes on.
Proceeds(h) == \/ StdinGone(h) \/ StdinWritten(h) \/ StdinBroken(h) \/ StdinFailed(h)
               \/ StdinTimesOut(h) \/ KillAnswers(h)

Waiter(x) == SetTerminal(x) \/ CloseStdin(x)

Request(h, i) ==
  Start(h, i) \/ Poll(h, i) \/ Ack(h, i) \/ WriteStdin(h, i) \/ Kill(h, i)

\* Unless an await on a free lock suspends, nothing runs before a task that
\* stands at one.
Next ==
  \/ \E h \in Handler : Resumes(h)
  \/ \E x \in Exec : SetResult(x)
  \/ /\ yields \/ ~AtFreeLock
     /\ \/ \E h \in Handler, i \in Id : Request(h, i)
        \/ \E h \in Handler : Proceeds(h) \/ Disconnect(h)
        \/ \E x \in Exec : Waiter(x)
        \/ CollectExpired

Spec == Init /\ [][Next]_vars

\* The runtime polls every ready task; a write to stdin ends, by its timeout
\* at the latest; a child is under no obligation to exit.
Fairness ==
  /\ \A h \in Handler : WF_vars(Resumes(h)) /\ WF_vars(StdinGone(h) \/ StdinTimesOut(h))
  /\ \A x \in Exec : WF_vars(SetResult(x)) /\ WF_vars(CloseStdin(x))

FairSpec == Spec /\ Fairness

----------------------------------------------------------------------------
(* Properties.                                                             *)

\* The type invariant: in particular every entry names an exec that was
\* spawned or none, and every lock queue holds handlers and the waiter only
\* (Registry, ExecEntry, Shared).
TypeOK ==
  /\ yields \in BOOLEAN
  /\ execs \in Entry
  /\ entries \in [Id -> Entry] /\ \A i \in Id : entries[i] <= execs
  /\ acked \in [Exec -> BOOLEAN]
  /\ task \in [Exec -> {"none", "wait", "result", "stdin", "finished"}]
  /\ terminal \in [Exec -> BOOLEAN]
  /\ result \in [Exec -> BOOLEAN]
  /\ stdin \in [Exec -> {"none", "open", "closed"}]
  /\ stdinLock \in [Exec -> Seq(Handler \cup {"waiter"})]
  /\ handler \in [Handler -> HandlerState]
  /\ delivered \in [Exec -> Nat]

\* A published outcome is either still in its slot, behind a registered and
\* unacked entry, or was handed out by exactly one ack: racing acks, the
\* collector and the reuse of an id neither lose it nor hand it out twice
\* ("collecting it would destroy output the caller never read",
\* collect_expired; ack).
Registered(x) == \E i \in Id : entries[i] = x

OutcomeKept ==
  \A x \in Exec : Published(x) =>
    \/ result[x] /\ Registered(x) /\ ~acked[x] /\ delivered[x] = 0
    \/ ~result[x] /\ acked[x] /\ delivered[x] = 1

\* A poll reads acked_at before it awaits the result slot, so its answer can
\* lag: it calls an exec running that was over when the request arrived only
\* if an ack took the outcome in between (poll).
PollMisledOnlyByAck ==
  \A h \in Handler :
    handler[h].at = "poll" /\ handler[h].over /\ PollPhase(h) = "running"
      => yields /\ delivered[handler[h].exec] = 1

\* The keepalive signal is true exactly while some registered exec still
\* produces output, whatever was acked meanwhile: "an acked exec would
\* otherwise read as still running forever" (activity, procs).
BusyMeansProducing ==
  Busy <=> \E i \in Id : entries[i] # 0 /\ task[entries[i]] = "wait"

\* Every exec whose marker is set announces Finished to its streams, however
\* many stdin writers hold or await the lock the waiter needs (spawn,
\* write_stdin).
FinishedIsAnnounced ==
  \A x \in Exec : terminal[x] ~> task[x] = "finished"

\* The phase of an id as poll computes it, and the abstract specification.
RegisteredPhase(i) ==
  IF entries[i] = 0 THEN "absent"
  ELSE IF acked[entries[i]] THEN "acked"
  ELSE IF result[entries[i]] THEN "exited" ELSE "running"

Lifecycle == INSTANCE ExecLifecycle WITH
               current <- entries, phase <- [i \in Id |-> RegisteredPhase(i)],
               started <- execs, handed <- delivered

\* The registry implements the lifecycle it promises: phases only advance,
\* the ack that advances one hands out its outcome, and only acked execs are
\* forgotten (start, poll, ack, collect_expired).
LifecycleImplemented == Lifecycle!Spec

============================================================================
