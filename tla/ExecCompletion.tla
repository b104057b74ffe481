--------------------------- MODULE ExecCompletion ---------------------------
(***************************************************************************)
(* Session::run_to_completion against the exec registry, over a network    *)
(* that loses requests and answers and delivers a request after its sender *)
(* has given up on it.  The daemon's side is ExecRegistry; this module     *)
(* adds the client (CompletionPlan::drive, ExecHandle::wait, wait_and_ack) *)
(* and the requests on their way.                                          *)
(***************************************************************************)
EXTENDS ExecRegistry

CONSTANT TheId   \* the id the call was made with

ASSUME IdAssumption == TheId \in Id
ASSUME SlotAssumption == "none" \notin Handler

VARIABLES
  step,      \* where the call is
  sink,      \* the caller gave an output callback
  slot,      \* the handler of the request the client awaits, or "none"
  transit,   \* transit[h]: the request on its way to handler h
  expired,   \* the deadline of the current wait has passed
  late,      \* the client deadline has expired and the grace wait is on
  kill,      \* the daemon's answer to the kill
  returned,  \* what the call returned
  lostAck    \* history: the client gave up on an ack it had sent

clientVars == <<step, sink, slot, transit, expired, late, kill, returned, lostAck>>
allVars == <<vars, clientVars>>

Step == {"run", "stream", "ack_after_exit", "wait", "ack", "kill", "returned"}
Op   == {"start", "poll", "ack", "kill"}

\* What the call returns: an error of the start or of the wait, the outcome an
\* ack released, the phase acked without an outcome, or the synthesized 124.
NotReturned  == [kind |-> "none", outcome |-> FALSE, synthesized |-> FALSE]
StartFailed  == [kind |-> "start_error", outcome |-> FALSE, synthesized |-> FALSE]
Failed       == [kind |-> "error", outcome |-> FALSE, synthesized |-> FALSE]
Released     == [kind |-> "result", outcome |-> TRUE, synthesized |-> FALSE]
AlreadyAcked == [kind |-> "result", outcome |-> FALSE, synthesized |-> FALSE]
Synthesized  == [kind |-> "result", outcome |-> FALSE, synthesized |-> TRUE]

----------------------------------------------------------------------------
(* Requests and answers.                                                   *)

\* The request a step of the call sends.
Sends == [s \in Step |->
  CASE s = "run" -> "start" [] s = "wait" -> "poll" [] s = "kill" -> "kill"
    [] s \in {"ack", "ack_after_exit"} -> "ack" [] OTHER -> "none"]

Send ==
  /\ slot = "none" /\ Sends[step] # "none"
  /\ \E h \in Handler :
       /\ handler[h].at = "idle" /\ transit[h] = "none"
       /\ slot' = h
       /\ transit' = [transit EXCEPT ![h] = Sends[step]]
  /\ UNCHANGED <<vars, step, sink, expired, late, kill, returned, lostAck>>

\* A request reaches the daemon, whether or not the client still waits for it.
Arrives(h) ==
  /\ \/ transit[h] = "start" /\ Start(h, TheId)
     \/ transit[h] = "poll" /\ Poll(h, TheId)
     \/ transit[h] = "ack" /\ Ack(h, TheId)
     \/ transit[h] = "kill" /\ Kill(h, TheId)
  /\ transit' = [transit EXCEPT ![h] = "none"]
  /\ UNCHANGED <<step, sink, slot, expired, late, kill, returned, lostAck>>

NeverArrives(h) ==
  /\ transit[h] # "none"
  /\ transit' = [transit EXCEPT ![h] = "none"]
  /\ UNCHANGED <<vars, step, sink, slot, expired, late, kill, returned, lostAck>>

\* The answer the client awaits arrives, or the request fails: its timeout,
\* or a connection lost on the way there or back.
Receives ==
  /\ slot # "none" /\ handler[slot].at = "replied"
  /\ handler' = [handler EXCEPT ![slot] = NoRequest]
  /\ slot' = "none"
  /\ UNCHANGED <<yields, entryVars, taskVars, result, stdinVars, delivered, sink, transit,
                 lostAck>>

Loses ==
  /\ slot # "none"
  /\ slot' = "none"
  /\ lostAck' = (lostAck \/ Sends[step] = "ack")
  /\ UNCHANGED <<vars, sink, transit>>

Replied(r) == slot # "none" /\ handler[slot].reply = r

----------------------------------------------------------------------------
(* The call.                                                               *)

GoesTo(s) == step' = s /\ UNCHANGED returned
Returns(r) == step' = "returned" /\ returned' = r

\* Session::run.  A caller may repeat a start that failed with the same id.
Started == Receives /\ Replied("started") /\ GoesTo(IF sink THEN "stream" ELSE "wait")
           /\ UNCHANGED <<expired, late, kill>>
StartRejected == Receives /\ Replied("refused") /\ Returns(StartFailed)
                 /\ UNCHANGED <<expired, late, kill>>
StartLost == /\ step = "run" /\ Loses
             /\ GoesTo("run") \/ Returns(StartFailed)
             /\ UNCHANGED <<expired, late, kill>>

\* CompletionPlan::stream, under the client deadline.
ExitEvent ==
  /\ step = "stream"
  /\ entries[TheId] # 0 /\ terminal[entries[TheId]]
  /\ GoesTo("ack_after_exit")
  /\ UNCHANGED <<vars, sink, slot, transit, expired, late, kill, lostAck>>

StreamEndsEarly ==
  /\ step = "stream"
  /\ GoesTo("wait")
  /\ UNCHANGED <<vars, sink, slot, transit, expired, late, kill, lostAck>>

StreamDeadline ==
  /\ step = "stream" /\ expired
  /\ GoesTo("kill")
  /\ UNCHANGED <<vars, sink, slot, transit, expired, late, kill, lostAck>>

DeadlinePasses ==
  /\ step \in {"stream", "ack_after_exit", "wait", "ack"}
  /\ ~expired
  /\ expired' = TRUE
  /\ UNCHANGED <<vars, step, sink, slot, transit, late, kill, returned, lostAck>>

\* Mutant of AckedAfterExit: an ack that is refused ends the call.
AckedAfterExitOrFails ==
  /\ step = "ack_after_exit" /\ Receives
  /\ IF Replied("released") THEN Returns(Released) ELSE Returns(Failed)
  /\ UNCHANGED <<expired, late, kill>>

\* The ack after the exit event; anything but the outcome falls back to wait.
AckedAfterExit ==
  /\ step = "ack_after_exit" /\ Receives
  /\ IF Replied("released") THEN Returns(Released) ELSE GoesTo("wait")
  /\ UNCHANGED <<expired, late, kill>>

AckAfterExitLost ==
  /\ step = "ack_after_exit" /\ Loses
  /\ GoesTo("wait")
  /\ UNCHANGED <<expired, late, kill>>

\* wait_and_ack_until ends without a result: by its deadline, or by an error
\* that is not retryable.  The first deadline leads to the kill; a failure
\* after the kill to the synthesized result.
WaitTimesOut == IF late THEN Returns(Synthesized) ELSE GoesTo("kill")
WaitFails    == IF late THEN Returns(Synthesized) ELSE Returns(Failed)

\* Mutant of Polled: the phase exited ends the call, with no ack.
PolledWithoutAck ==
  /\ step = "wait" /\ Receives
  /\ \/ Replied("exited") /\ Returns(Released)
     \/ Replied("acked") /\ Returns(AlreadyAcked)
     \/ Replied("running") /\ IF expired THEN WaitTimesOut ELSE GoesTo("wait")
     \/ Replied("unknown") /\ WaitFails
  /\ UNCHANGED <<expired, late, kill>>

\* One turn of ExecHandle::wait.
Polled ==
  /\ step = "wait" /\ Receives
  /\ \/ Replied("exited") /\ GoesTo("ack")
     \/ Replied("acked") /\ Returns(AlreadyAcked)
     \/ Replied("running") /\ IF expired THEN WaitTimesOut ELSE GoesTo("wait")
     \/ Replied("unknown") /\ WaitFails
  /\ UNCHANGED <<expired, late, kill>>

\* Mutant of PollLost: a lost poll is repeated whatever the deadline says.
PollLostForever ==
  /\ step = "wait" /\ Loses
  /\ GoesTo("wait")
  /\ UNCHANGED <<expired, late, kill>>

PollLost ==
  /\ step = "wait" /\ Loses
  /\ IF expired THEN WaitTimesOut ELSE GoesTo("wait")
  /\ UNCHANGED <<expired, late, kill>>

\* The ack of wait_and_ack: a lost one starts the wait over.
AckAnswered ==
  /\ step = "ack" /\ Receives
  /\ IF Replied("released") THEN Returns(Released) ELSE WaitFails
  /\ UNCHANGED <<expired, late, kill>>

AckLost ==
  /\ step = "ack" /\ Loses
  /\ IF expired THEN WaitTimesOut ELSE GoesTo("wait")
  /\ UNCHANGED <<expired, late, kill>>

\* after_deadline: whatever the kill answers, the grace wait follows it.
GraceWait(answer) ==
  GoesTo("wait") /\ kill' = answer /\ late' = TRUE /\ expired' = FALSE

KillAnswered ==
  /\ step = "kill" /\ Receives
  /\ \/ Replied("killed") /\ GraceWait("signalled")
     \/ Replied("not_killed") /\ GraceWait("already_gone")
     \/ Replied("unknown") /\ GraceWait("failed")

KillLost == step = "kill" /\ Loses /\ GraceWait("failed")

Client ==
  \/ Send \/ Started \/ StartRejected \/ StartLost \/ StreamDeadline
  \/ AckedAfterExit \/ AckAfterExitLost \/ Polled \/ PollLost
  \/ AckAnswered \/ AckLost \/ KillAnswered \/ KillLost

\* The stream ends, with its exit event or without.
StreamTurn == ExitEvent \/ StreamEndsEarly

----------------------------------------------------------------------------
(* The daemon.  It notices that a client is gone, or answers nobody.       *)

Daemon ==
  /\ \/ \E h \in Handler : Resumes(h)
     \/ \E x \in Exec : SetResult(x)
     \/ /\ yields \/ ~AtFreeLock
        /\ \/ \E h \in Handler : KillAnswers(h) \/ (slot # h /\ Disconnect(h))
           \/ \E x \in Exec : Waiter(x)
           \/ CollectExpired
  /\ UNCHANGED clientVars

Network == \E h \in Handler : NeverArrives(h) \/ ((yields \/ ~AtFreeLock) /\ Arrives(h))

CompletionInit ==
  /\ Init
  /\ step = "run"
  /\ sink \in BOOLEAN
  /\ slot = "none"
  /\ transit = [h \in Handler |-> "none"]
  /\ expired = FALSE
  /\ late = FALSE
  /\ kill = "none"
  /\ returned = NotReturned
  /\ lostAck = FALSE

CompletionNext == Client \/ StreamTurn \/ DeadlinePasses \/ Daemon \/ Network

CompletionSpec == CompletionInit /\ [][CompletionNext]_allVars

\* The client goes on whenever it can: every request it awaits is answered
\* or fails by its timeout, and its clock reaches every deadline.  A request it
\* gave up on does not occupy its handler forever.  Nothing else is asked of
\* the daemon or of the network.
CompletionFairness ==
  /\ WF_allVars(Client)
  /\ WF_allVars(DeadlinePasses)
  /\ WF_allVars(Network)
  /\ \A h \in Handler : WF_allVars(slot # h /\ Disconnect(h) /\ UNCHANGED clientVars)
  /\ \A h \in Handler : WF_allVars(Resumes(h) /\ UNCHANGED clientVars)
  /\ \A x \in Exec : WF_allVars(SetResult(x) /\ UNCHANGED clientVars)

CompletionFairSpec == CompletionSpec /\ CompletionFairness

----------------------------------------------------------------------------
(* Properties.                                                             *)

\* A result that is not synthesized is returned only after the exec's outcome
\* was released, so no output is left behind in the daemon (drive, BIND-8).
ResultFollowsAck ==
  returned.kind = "result" /\ ~returned.synthesized => \E x \in Exec : delivered[x] = 1

\* As long as the client has given up on no ack, a call that started its exec
\* ends with the outcome itself or with the synthesized timeout: cuts, lost
\* polls, late requests and deadlines cost neither the result nor an error
\* (drive, wait_and_ack_until).
OutcomeUnlessAckLost ==
  ~lostAck /\ returned.kind \in {"result", "error"} => returned \in {Released, Synthesized}

\* Every call returns, even when the daemon never answers again: its requests
\* time out and its deadlines pass (drive).
CallReturns == step # "run" ~> step = "returned"

============================================================================
