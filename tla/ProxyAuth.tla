----------------------------- MODULE ProxyAuth -----------------------------
(***************************************************************************)
(* ProxyAuth: the proxy tokens of one session, minted inside the request   *)
(* path, cached with the ports they authorize and shared by every clone of *)
(* the session.                                                            *)
(*                                                                         *)
(* A call is a request that needs headers for a port.  It finds a token in *)
(* the cache or queues for the mint lock, whose holder is the head of the  *)
(* queue.  A mint is issued by the service at one time and cached at a     *)
(* later one; the future that awaits it may be dropped anywhere, which is  *)
(* what the request's timeout does.  A resume invalidates the cache at any *)
(* time, as the clones it does not own go on making requests.              *)
(***************************************************************************)
EXTENDS Integers, Sequences

CONSTANTS
  Caller,        \* the tasks that make requests
  Port,          \* the ports they name
  AgentPort,     \* the session's own
  RefreshAfter,  \* ProxyAuth::refresh_after
  Timeout,       \* the longest a call waits: the timeout of its request
  Lifetime,      \* MAX_TOKEN_LIFETIME
  MaxTime,       \* bound: how far the clock goes
  MaxEpoch,      \* bound: how many resumes there are
  None

ASSUME PortAssumption == AgentPort \in Port
ASSUME TimeAssumption ==
  /\ RefreshAfter \in Nat /\ Timeout \in Nat /\ Lifetime \in Nat
  /\ RefreshAfter + Timeout < Lifetime
ASSUME BoundAssumption == MaxTime \in Nat /\ MaxEpoch \in Nat
Token == [ports : SUBSET Port, issued : 0 .. MaxTime, epoch : 0 .. MaxEpoch]
ASSUME NoneAssumption == None \notin [token : Token, at : 0 .. MaxTime] /\ None \notin Token

VARIABLES
  now,       \* the clock
  epoch,     \* how many resumes have invalidated the cache
  cached,    \* the token, with the time it was cached at, or None
  queue,     \* the mint lock: its holder, then those who wait, in order
  call,      \* call[c]: the request of caller c
  raced      \* history: a token of before a resume was cached after it

vars == <<now, epoch, cached, queue, call, raced>>

NoCall == [step |-> "idle", port |-> AgentPort, at |-> 0, epoch |-> 0, token |-> None,
           wanted |-> {}]

Busy(c) == call[c].step \in {"queued", "minting", "issued"}

\* A caller gives up its place in the queue, which is the lock at the head.
Leaves(c) ==
  \E k \in DOMAIN queue :
    /\ queue[k] = c
    /\ queue' = [i \in 1 .. Len(queue) - 1 |-> queue[IF i < k THEN i ELSE i + 1]]

\* Mutant of Fresh: a token never gets old.
FreshByScope(port) ==
  /\ cached # None
  /\ port \in cached.token.ports

\* fresh_token_for: scope first, then age.
Fresh(port) ==
  /\ cached # None
  /\ port \in cached.token.ports
  /\ now - cached.at <= RefreshAfter

\* The ports a mint asks for: those covered so far and the new one.
Wanted(port) ==
  (IF cached = None THEN {} ELSE cached.token.ports) \cup {AgentPort, port}

Init ==
  /\ now = 0
  /\ epoch = 0
  /\ cached = None
  /\ queue = <<>>
  /\ call = [c \in Caller |-> NoCall]
  /\ raced = FALSE

----------------------------------------------------------------------------
(* token_for                                                               *)

\* The call is over; `at` is from here on the time of its answer.
Answers(c, token) ==
  call' = [call EXCEPT ![c].step = "answered", ![c].at = now, ![c].token = token,
                       ![c].wanted = {}]

\* A request begins: with the cached token if it serves, else in the queue.
Request(c, port) ==
  /\ ~Busy(c)
  /\ \/ /\ Fresh(port)
        /\ call' = [call EXCEPT ![c] = [NoCall EXCEPT !.step = "answered", !.port = port,
                                        !.at = now, !.epoch = epoch, !.token = cached.token]]
        /\ queue' = queue
     \/ /\ ~Fresh(port)
        /\ call' = [call EXCEPT ![c] = [NoCall EXCEPT !.step = "queued", !.port = port,
                                        !.at = now, !.epoch = epoch]]
        /\ queue' = Append(queue, c)
  /\ UNCHANGED <<now, epoch, cached, raced>>

\* The lock is the caller's: another may have minted while it waited.
Locked(c) ==
  /\ call[c].step = "queued"
  /\ c = queue[1]
  /\ \/ /\ Fresh(call[c].port)
        /\ Answers(c, cached.token)
        /\ Leaves(c)
     \/ /\ ~Fresh(call[c].port)
        /\ call' = [call EXCEPT ![c].step = "minting", ![c].wanted = Wanted(call[c].port)]
        /\ queue' = queue
  /\ UNCHANGED <<now, epoch, cached, raced>>

\* The service issues the token.
Issue(c) ==
  /\ call[c].step = "minting"
  /\ call' = [call EXCEPT ![c].step = "issued",
                          ![c].token = [ports |-> call[c].wanted, issued |-> now,
                                        epoch |-> epoch]]
  /\ UNCHANGED <<now, epoch, cached, queue, raced>>

\* Its answer arrives, and is cached with the time of the arrival.
MintReturns(c) ==
  /\ call[c].step = "issued"
  /\ cached' = [token |-> call[c].token, at |-> now]
  /\ Answers(c, call[c].token)
  /\ Leaves(c)
  /\ raced' = (raced \/ call[c].token.epoch < epoch)
  /\ UNCHANGED <<now, epoch>>

Fails(c) ==
  /\ call' = [call EXCEPT ![c] = [NoCall EXCEPT !.step = "failed"]]
  /\ Leaves(c)
  /\ UNCHANGED <<now, epoch, cached, raced>>

\* The mint is refused or its answer has no auth header: nothing is cached.
MintFails(c) ==
  /\ call[c].step \in {"minting", "issued"}
  /\ Fails(c)

\* Mutant of Dropped: the place in the queue is not given up.
DroppedHolding(c) ==
  /\ Busy(c)
  /\ call' = [call EXCEPT ![c] = [NoCall EXCEPT !.step = "failed"]]
  /\ UNCHANGED <<now, epoch, cached, queue, raced>>

\* The request's timeout, or its caller, drops the future, and with it the
\* place in the queue or the lock.
Dropped(c) ==
  /\ Busy(c)
  /\ Fails(c)

----------------------------------------------------------------------------
\* Mutant of Invalidate: the resume leaves the cache alone.
InvalidateNothing ==
  /\ epoch < MaxEpoch
  /\ epoch' = epoch + 1
  /\ UNCHANGED <<now, cached, queue, call, raced>>

\* Session::rebind, at the end of a resume.
Invalidate ==
  /\ epoch < MaxEpoch
  /\ epoch' = epoch + 1
  /\ cached' = None
  /\ UNCHANGED <<now, queue, call, raced>>

\* Time passes, but no request outlives its timeout.
Tick ==
  /\ now < MaxTime
  /\ \A c \in Caller : Busy(c) => now - call[c].at < Timeout
  /\ now' = now + 1
  /\ UNCHANGED <<epoch, cached, queue, call, raced>>

Next ==
  \/ \E c \in Caller :
       \/ \E port \in Port : Request(c, port)
       \/ Locked(c) \/ Issue(c) \/ MintReturns(c) \/ MintFails(c) \/ Dropped(c)
  \/ Invalidate
  \/ Tick

Spec == Init /\ [][Next]_vars

MintEnds(c) ==
  /\ call[c].step \in {"minting", "issued"}
  /\ Issue(c) \/ MintReturns(c) \/ MintFails(c) \/ Dropped(c)

\* A task whose lock has come is polled, and every mint ends, if only in its
\* request's timeout.
FairSpec == Spec /\ \A c \in Caller : WF_vars(Locked(c)) /\ WF_vars(MintEnds(c))

----------------------------------------------------------------------------
(* Properties                                                              *)

\* Every variable keeps its type.
TypeOK ==
  /\ now \in 0 .. MaxTime
  /\ epoch \in 0 .. MaxEpoch
  /\ cached \in {None} \cup [token : Token, at : 0 .. MaxTime]
  /\ queue \in Seq(Caller)
  /\ call \in [Caller -> [step : {"idle", "queued", "minting", "issued", "answered", "failed"},
                          port : Port, at : 0 .. MaxTime, epoch : 0 .. MaxEpoch,
                          token : {None} \cup Token, wanted : SUBSET Port]]
  /\ raced \in BOOLEAN

Answered(c) == call[c].step = "answered"

\* The token a request is given authorizes the port it names and the agent's
\* own, whichever call minted it and whatever was cached between (token_for;
\* "produces 403 `Access to port denied`").
TokenServesPort ==
  \A c \in Caller : Answered(c) => {call[c].port, AgentPort} \subseteq call[c].token.ports

\* No request leaves with a token the service has expired, although the cache
\* dates a token by the arrival of its answer and a request may have waited
\* for others (DEFAULT_REFRESH_AFTER).
HandedIsLive ==
  \A c \in Caller : Answered(c) => call[c].at - call[c].token.issued < Lifetime

\* At most one mint is under way, and it is the head of the queue that mints,
\* whoever was dropped (mint_lock: "produce one mint rather than two").
OneMintAtATime ==
  /\ \A c \in Caller : call[c].step \in {"minting", "issued"} => queue # <<>> /\ c = queue[1]
  /\ \A i, j \in DOMAIN queue : queue[i] = queue[j] => i = j
  /\ \A i \in DOMAIN queue : Busy(queue[i])

\* A mint never narrows the cache, and one that replaces a token still fresh
\* widens it: no two callers mint for the same ports within a window ("two
\* accessors alternating between two ports would then mint on every call").
MintsOnlyWiden ==
  [][\A c \in Caller : MintReturns(c) /\ cached # None =>
       /\ cached.token.ports \subseteq cached'.token.ports
       /\ now - cached.at <= RefreshAfter => cached.token.ports # cached'.token.ports]_vars

\* A request that begins after a resume is not given a token from before it,
\* unless a mint was on its way across the resume (invalidate).
FreshAfterResumeUnlessRaced ==
  \A c \in Caller : Answered(c) /\ call[c].token.epoch < call[c].epoch => raced

\* Nobody waits for the mint lock for ever (mint_lock).
EveryCallEnds ==
  \A c \in Caller : call[c].step = "queued" ~> call[c].step # "queued"

\* Not so.  What invalidate says of itself: "the next request mints a fresh one".
FreshAfterResume ==
  \A c \in Caller : Answered(c) => call[c].token.epoch >= call[c].epoch
=============================================================================
