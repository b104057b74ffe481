----------------------------- MODULE AppProofs -----------------------------
(***************************************************************************)
(* Two parts of microvms-app that keep what outlives a call, the proxy     *)
(* tokens of a session and the run records of a state directory, for any   *)
(* constants.                                                              *)
(*                                                                         *)
(* ProxyAuth, for any callers, ports, resumes and times: its safety        *)
(* properties follow from one inductive invariant, which says what a call  *)
(* parked at the mint lock or at its mint may rely on when it goes on.     *)
(*                                                                         *)
(* RunLedger, for any finite set of runs and any bound on how many are     *)
(* under way: what still bills is in a live command's hands or on disk,    *)
(* because the invariant says which thing each step of a command has to    *)
(* find in its record, in the file, or on the list of what is left.        *)
(***************************************************************************)
EXTENDS ProxyAuth, RunLedger, FiniteSetTheorems, WellFoundedInduction, TLAPS

Mints(c) == call[c].step \in {"minting", "issued"}

\* The lock: one holder, and a place in the queue for every call that waits.
QueueInv ==
  /\ OneMintAtATime
  /\ \A c \in Caller : Busy(c) => \E k \in DOMAIN queue : queue[k] = c

\* The cached token against the clock and the resumes.
CacheInv ==
  cached # None =>
    /\ AgentPort \in cached.token.ports
    /\ cached.at <= now
    /\ cached.at - cached.token.issued <= Timeout
    /\ cached.token.epoch < epoch => raced

\* The ports a mint asks for are still more than the cache has when it returns.
MintInv(c) ==
  Mints(c) =>
    /\ {call[c].port, AgentPort} \subseteq call[c].wanted
    /\ cached # None =>
         /\ cached.token.ports \subseteq call[c].wanted
         /\ now - cached.at <= RefreshAfter => cached.token.ports # call[c].wanted

\* A token on its way was issued since its call began.
IssuedInv(c) ==
  call[c].step = "issued" =>
    /\ call[c].token \in Token
    /\ call[c].token.ports = call[c].wanted
    /\ call[c].at <= call[c].token.issued

\* An answer that was given.
AnsweredInv(c) ==
  Answered(c) =>
    /\ call[c].token \in Token
    /\ {call[c].port, AgentPort} \subseteq call[c].token.ports
    /\ call[c].at - call[c].token.issued < Lifetime
    /\ call[c].token.epoch < call[c].epoch => raced

CallInv(c) ==
  /\ Busy(c) => call[c].at <= now /\ now - call[c].at <= Timeout
  /\ call[c].epoch <= epoch
  /\ MintInv(c)
  /\ IssuedInv(c)
  /\ AnsweredInv(c)

Inv ==
  /\ TypeOK
  /\ QueueInv
  /\ CacheInv
  /\ \A c \in Caller : CallInv(c)

CallType ==
  [step : {"idle", "queued", "minting", "issued", "answered", "failed"},
   port : Port, at : 0 .. MaxTime, epoch : 0 .. MaxEpoch,
   token : {None} \cup Token, wanted : SUBSET Port]

CacheType == [token : Token, at : 0 .. MaxTime]

----------------------------------------------------------------------------
(* Lemmas                                                                  *)

\* What a step assigns to one call is what that call becomes.
LEMMA UpdateType ==
  ASSUME TypeOK, NEW c \in Caller, NEW r \in CallType, call' = [call EXCEPT ![c] = r]
  PROVE  /\ call' \in [Caller -> CallType]
         /\ call'[c] = r
         /\ \A d \in Caller \ {c} : call'[d] = call[d]
  BY DEF TypeOK, CallType

\* A call that leaves the queue leaves the others in it, in their order, and
\* with the lock if they have it.
LEMMA LeavesQueue ==
  ASSUME TypeOK, QueueInv, NEW c \in Caller, Leaves(c), ~Busy(c)',
         \A d \in Caller \ {c} : call'[d] = call[d]
  PROVE  queue' \in Seq(Caller) /\ QueueInv'
<1>1. PICK k \in DOMAIN queue :
        /\ queue[k] = c
        /\ queue' = [i \in 1 .. Len(queue) - 1 |-> queue[IF i < k THEN i ELSE i + 1]]
  BY DEF Leaves
<1>2. queue \in Seq(Caller) /\ DOMAIN queue = 1 .. Len(queue) /\ Len(queue) \in Nat
  BY DEF TypeOK
<1>3. Len(queue) >= 1 /\ k \in 1 .. Len(queue)
  BY <1>1, <1>2
<1>4. /\ DOMAIN queue' = 1 .. Len(queue) - 1
      /\ \A i \in 1 .. Len(queue) - 1 : queue'[i] = queue[IF i < k THEN i ELSE i + 1]
      /\ \A i \in 1 .. Len(queue) - 1 : queue'[i] \in Caller
  BY <1>1, <1>2, <1>3
<1>5. queue' \in Seq(Caller) /\ Len(queue') = Len(queue) - 1
  BY <1>1, <1>2, <1>3, <1>4
<1>6. \A i, j \in DOMAIN queue : queue[i] = queue[j] => i = j
  BY DEF QueueInv, OneMintAtATime
<1>7. \A i \in DOMAIN queue' : queue'[i] # c
  BY <1>1, <1>2, <1>3, <1>4, <1>6
<1>8. ASSUME NEW i \in DOMAIN queue', NEW j \in DOMAIN queue', queue'[i] = queue'[j]
      PROVE  i = j
  <2>1. /\ (IF i < k THEN i ELSE i + 1) \in DOMAIN queue
        /\ (IF j < k THEN j ELSE j + 1) \in DOMAIN queue
    BY <1>2, <1>3, <1>4
  <2>2. (IF i < k THEN i ELSE i + 1) = (IF j < k THEN j ELSE j + 1)
    BY <1>4, <1>6, <1>8, <2>1
  <2> QED BY <2>2, <1>3, <1>4
<1>9. ASSUME NEW i \in DOMAIN queue'
      PROVE  call'[queue'[i]].step \in {"queued", "minting", "issued"}
  <2>1. PICK j \in DOMAIN queue : queue'[i] = queue[j]
    BY <1>2, <1>3, <1>4
  <2>2. Busy(queue[j]) /\ queue[j] \in Caller \ {c}
    BY <2>1, <1>2, <1>7 DEF QueueInv, OneMintAtATime
  <2> QED BY <2>1, <2>2 DEF Busy
<1>10. ASSUME NEW d \in Caller, Mints(d)'
       PROVE  queue' # <<>> /\ d = queue'[1]
  <2>1. d # c
    BY <1>10 DEF Mints, Busy
  <2>2. Mints(d)
    BY <1>10, <2>1 DEF Mints
  <2>3. queue # <<>> /\ d = queue[1]
    BY <2>2 DEF QueueInv, OneMintAtATime, Mints
  <2>4. k # 1
    BY <1>1, <2>1, <2>3
  <2> QED BY <2>3, <2>4, <1>2, <1>3, <1>4, <1>5
<1>11. ASSUME NEW d \in Caller, Busy(d)'
       PROVE  \E i \in DOMAIN queue' : queue'[i] = d
  <2>1. d # c /\ Busy(d)
    BY <1>11 DEF Busy
  <2>2. PICK j \in DOMAIN queue : queue[j] = d
    BY <2>1 DEF QueueInv
  <2>3. j # k
    BY <1>1, <2>1, <2>2
  <2>4. CASE j < k
    <3>1. j \in DOMAIN queue' /\ queue'[j] = d
      BY <2>2, <2>4, <1>2, <1>3, <1>4
    <3> QED BY <3>1
  <2>5. CASE j > k
    <3>1. j - 1 \in DOMAIN queue' /\ queue'[j - 1] = d
      BY <2>2, <2>5, <1>2, <1>3, <1>4
    <3> QED BY <3>1
  <2> QED BY <2>3, <2>4, <2>5, <1>2, <1>3
<1>12. OneMintAtATime'
  BY <1>8, <1>9, <1>10 DEF OneMintAtATime, Mints, Busy
<1> QED BY <1>5, <1>11, <1>12 DEF QueueInv

\* A call keeps what it relies on when others move and it does not mint.
LEMMA OtherCall ==
  ASSUME NEW d \in Caller, CallInv(d), call'[d] = call[d], now' = now, epoch' = epoch,
         raced => raced', cached' = cached \/ ~Mints(d)
  PROVE  CallInv(d)'
  BY DEF CallInv, MintInv, IssuedInv, AnsweredInv, Answered, Mints, Busy

\* The frame of a step that moves one call.
LEMMA OneCallMoves ==
  ASSUME Inv, NEW c \in Caller, call' \in [Caller -> CallType],
         \A d \in Caller \ {c} : call'[d] = call[d],
         now' = now, epoch' = epoch, raced => raced', raced' \in BOOLEAN,
         cached' \in {None} \cup CacheType,
         cached' = cached \/ \A d \in Caller \ {c} : ~Mints(d),
         queue' \in Seq(Caller), QueueInv', CacheInv', CallInv(c)'
  PROVE  Inv'
<1>1. TypeOK'
  BY DEF Inv, TypeOK, CallType, CacheType
<1>2. \A d \in Caller : CallInv(d)'
  BY OtherCall DEF Inv
<1> QED BY <1>1, <1>2 DEF Inv

\* A token found in the cache serves the port and is alive.
LEMMA FreshServes ==
  ASSUME Inv, NEW port \in Port, Fresh(port)
  PROVE  /\ cached.token \in Token
         /\ {port, AgentPort} \subseteq cached.token.ports
         /\ now - cached.token.issued < Lifetime
         /\ cached.token.epoch < epoch => raced
<1>1. cached \in CacheType /\ now \in Nat /\ cached.at \in Nat /\ cached.token.issued \in Nat
  BY BoundAssumption DEF Inv, TypeOK, Fresh, CacheType, Token
<1>2. now - cached.at <= RefreshAfter /\ cached.at - cached.token.issued <= Timeout
  BY DEF Inv, CacheInv, Fresh
<1>3. now - cached.token.issued < Lifetime
  BY <1>1, <1>2, TimeAssumption
<1> QED BY <1>1, <1>3 DEF Inv, CacheInv, Fresh, CacheType

----------------------------------------------------------------------------
(* One lemma per action                                                    *)

\* The record of a call that has not begun.
LEMMA NoCallType ==
  /\ NoCall \in CallType
  /\ NoCall.step = "idle" /\ NoCall.epoch = 0 /\ NoCall.token = None /\ NoCall.wanted = {}
  BY PortAssumption, BoundAssumption DEF NoCall, CallType

LEMMA InitInv == Init => Inv
<1> SUFFICES ASSUME Init PROVE Inv
  OBVIOUS
<1>1. NoCall \in CallType /\ NoCall.step = "idle" /\ NoCall.epoch = 0
  BY NoCallType
<1>2. \A c \in Caller : call[c] = NoCall
  BY DEF Init
<1>3. TypeOK
  <2>1. call \in [Caller -> CallType]
    BY <1>1 DEF Init
  <2>2. queue \in Seq(Caller)
    BY DEF Init
  <2>3. now \in 0 .. MaxTime /\ epoch \in 0 .. MaxEpoch
    BY BoundAssumption DEF Init
  <2>4. cached = None /\ raced \in BOOLEAN
    BY DEF Init
  <2> QED BY <2>1, <2>2, <2>3, <2>4 DEF TypeOK, CallType
<1>4. \A c \in Caller : ~Busy(c) /\ ~Mints(c) /\ ~Answered(c)
  BY <1>1, <1>2 DEF Busy, Mints, Answered
<1>5. QueueInv
  BY <1>4 DEF Init, QueueInv, OneMintAtATime, Mints
<1>6. CacheInv
  BY DEF Init, CacheInv
<1>7. \A c \in Caller : CallInv(c)
  <2>1. TAKE c \in Caller
  <2>2. call[c].epoch = 0 /\ epoch = 0
    BY <1>1, <1>2 DEF Init
  <2> QED BY <1>4, <2>2 DEF CallInv, MintInv, IssuedInv, AnsweredInv, Mints
<1> QED BY <1>3, <1>5, <1>6, <1>7 DEF Inv

LEMMA RequestInv ==
  ASSUME Inv, NEW c \in Caller, NEW port \in Port, Request(c, port)
  PROVE  Inv'
<1> USE DEF Inv
<1>1. now \in 0 .. MaxTime /\ epoch \in 0 .. MaxEpoch /\ queue \in Seq(Caller)
  BY DEF TypeOK
<1>2. CacheInv' /\ cached' = cached /\ now' = now /\ epoch' = epoch /\ raced' = raced
  BY DEF Request, CacheInv
<1>3. ASSUME NEW r \in CallType, call' = [call EXCEPT ![c] = r], queue' \in Seq(Caller),
             CallInv(c)', QueueInv'
      PROVE  Inv'
  <2>1. /\ call' \in [Caller -> CallType]
        /\ \A d \in Caller \ {c} : call'[d] = call[d]
    BY <1>3, UpdateType
  <2> QED BY <1>2, <1>3, <2>1, OneCallMoves DEF TypeOK, CacheType
<1>4. CASE Fresh(port)
  <2> DEFINE r == [NoCall EXCEPT !.step = "answered", !.port = port,
                                 !.at = now, !.epoch = epoch, !.token = cached.token]
  <2>1. call' = [call EXCEPT ![c] = r] /\ queue' = queue
    BY <1>4 DEF Request
  <2>2. /\ r \in [step : {"answered"}, port : {port}, at : {now}, epoch : {epoch},
                 token : {cached.token}, wanted : {{}}]
    BY DEF NoCall
  <2>3. r \in CallType
    BY <1>1, <1>4, <2>2, FreshServes DEF CallType
  <2> HIDE DEF r
  <2>4. call'[c] = r /\ \A d \in Caller \ {c} : call'[d] = call[d]
    BY <2>1, <2>3, UpdateType
  <2>5. CallInv(c)'
    BY <1>1, <1>2, <1>4, <2>2, <2>4, FreshServes, BoundAssumption
       DEF CallInv, MintInv, IssuedInv, AnsweredInv, Answered, Mints, Busy
  <2>6. ~Busy(c) /\ ~Busy(c)'
    BY <2>2, <2>4 DEF Request, Busy
  <2>7. \A i \in DOMAIN queue : queue[i] \in Caller \ {c}
    BY <1>1, <2>6 DEF QueueInv, OneMintAtATime
  <2>8. QueueInv'
    BY <2>1, <2>4, <2>6, <2>7 DEF QueueInv, OneMintAtATime, Busy
  <2> QED BY <1>1, <1>3, <2>1, <2>3, <2>5, <2>8
<1>5. CASE ~Fresh(port)
  <2> DEFINE r == [NoCall EXCEPT !.step = "queued", !.port = port,
                                 !.at = now, !.epoch = epoch]
  <2>1. call' = [call EXCEPT ![c] = r] /\ queue' = Append(queue, c)
    BY <1>5 DEF Request
  <2>2. /\ r \in [step : {"queued"}, port : {port}, at : {now}, epoch : {epoch},
                 token : {None}, wanted : {{}}]
    BY DEF NoCall
  <2>3. r \in CallType
    BY <1>1, <2>2 DEF CallType
  <2> HIDE DEF r
  <2>4. call'[c] = r /\ \A d \in Caller \ {c} : call'[d] = call[d]
    BY <2>1, <2>3, UpdateType
  <2>5. CallInv(c)'
    BY <1>1, <1>2, <2>2, <2>4, BoundAssumption, TimeAssumption
       DEF CallInv, MintInv, IssuedInv, AnsweredInv, Answered, Mints, Busy
  <2>6. ~Busy(c) /\ call'[c].step = "queued"
    BY <2>2, <2>4 DEF Request, Busy
  <2>7. \A i \in DOMAIN queue : queue[i] \in Caller \ {c}
    BY <1>1, <2>6 DEF QueueInv, OneMintAtATime
  <2>8. /\ queue' \in Seq(Caller) /\ Len(queue) \in Nat
        /\ DOMAIN queue = 1 .. Len(queue)
        /\ DOMAIN queue' = 1 .. Len(queue) + 1
        /\ \A i \in DOMAIN queue : queue'[i] = queue[i]
        /\ queue'[Len(queue) + 1] = c
    BY <1>1, <2>1
  <2>9. \A i, j \in DOMAIN queue' : queue'[i] = queue'[j] => i = j
    <3>1. \A i, j \in DOMAIN queue : queue[i] = queue[j] => i = j
      BY DEF QueueInv, OneMintAtATime
    <3> QED BY <2>7, <2>8, <3>1
  <2>10. \A d \in Caller : call'[d].step \in {"minting", "issued"} =>
           queue' # <<>> /\ d = queue'[1]
    <3>1. TAKE d \in Caller
    <3>2. HAVE call'[d].step \in {"minting", "issued"}
    <3>3. queue # <<>> /\ d = queue[1]
      BY <2>4, <2>6, <3>2 DEF QueueInv, OneMintAtATime
    <3> QED BY <1>1, <2>8, <3>3
  <2>11. \A i \in DOMAIN queue' : call'[queue'[i]].step \in {"queued", "minting", "issued"}
    <3>1. \A i \in DOMAIN queue : call[queue[i]].step \in {"queued", "minting", "issued"}
      BY DEF QueueInv, OneMintAtATime, Busy
    <3> QED BY <2>4, <2>6, <2>7, <2>8, <3>1
  <2>12. \A d \in Caller : call'[d].step \in {"queued", "minting", "issued"} =>
           \E i \in DOMAIN queue' : queue'[i] = d
    <3>1. TAKE d \in Caller
    <3>2. HAVE call'[d].step \in {"queued", "minting", "issued"}
    <3>3. CASE d = c
      BY <2>8, <3>3
    <3>4. CASE d # c
      <4>1. PICK i \in DOMAIN queue : queue[i] = d
        BY <2>4, <3>2, <3>4 DEF QueueInv, Busy
      <4> QED BY <2>8, <4>1
    <3> QED BY <3>3, <3>4
  <2>13. QueueInv'
    BY <2>9, <2>10, <2>11, <2>12 DEF QueueInv, OneMintAtATime, Busy
  <2> QED BY <1>3, <2>1, <2>3, <2>5, <2>8, <2>13
<1> QED BY <1>4, <1>5

\* A call that is answered now, with a token that serves it, keeps its invariant.
LEMMA AnswersInv ==
  ASSUME Inv, NEW c \in Caller, NEW token \in Token, Answers(c, token),
         {call[c].port, AgentPort} \subseteq token.ports,
         now - token.issued < Lifetime, token.epoch < epoch => raced', epoch' = epoch
  PROVE  /\ call' \in [Caller -> CallType]
         /\ \A d \in Caller \ {c} : call'[d] = call[d]
         /\ ~Busy(c)'
         /\ CallInv(c)'
<1>1. /\ call \in [Caller -> CallType] /\ now \in 0 .. MaxTime /\ epoch \in 0 .. MaxEpoch
      /\ MaxEpoch \in Nat
  BY BoundAssumption DEF Inv, TypeOK, CallType
<1>2. /\ call' \in [Caller -> CallType]
      /\ \A d \in Caller \ {c} : call'[d] = call[d]
      /\ call'[c].step = "answered" /\ call'[c].at = now /\ call'[c].token = token
      /\ call'[c].port = call[c].port /\ call'[c].epoch = call[c].epoch
  <2> DEFINE r == [call[c] EXCEPT !.step = "answered", !.at = now, !.token = token,
                                  !.wanted = {}]
  <2>1. call' = [call EXCEPT ![c] = r]
    BY <1>1 DEF Answers
  <2>2. call[c] \in CallType
    BY <1>1
  <2>3. /\ r \in CallType
        /\ r.step = "answered" /\ r.at = now /\ r.token = token
        /\ r.port = call[c].port /\ r.epoch = call[c].epoch
    BY <1>1, <2>2 DEF CallType
  <2> HIDE DEF r
  <2> QED BY <2>1, <2>3, UpdateType DEF Inv
<1>3. call[c].epoch <= epoch /\ call[c].epoch \in 0 .. MaxEpoch /\ token.epoch \in 0 .. MaxEpoch
  BY <1>1 DEF Inv, CallInv, CallType, Token
<1>4. token.epoch < call[c].epoch => token.epoch < epoch
  BY <1>1, <1>3
<1>5. AnsweredInv(c)'
  BY <1>2, <1>4 DEF AnsweredInv, Answered
<1>6. ~Busy(c)' /\ ~Mints(c)' /\ call'[c].step # "issued"
  BY <1>2 DEF Busy, Mints
<1> QED BY <1>2, <1>3, <1>5, <1>6 DEF CallInv, MintInv, IssuedInv

LEMMA LockedInv ==
  ASSUME Inv, NEW c \in Caller, Locked(c)
  PROVE  Inv'
<1>1. /\ cached' = cached /\ now' = now /\ epoch' = epoch /\ raced' = raced
      /\ raced \in BOOLEAN /\ cached \in {None} \cup CacheType /\ CacheInv'
      /\ call \in [Caller -> CallType] /\ queue \in Seq(Caller) /\ TypeOK /\ QueueInv
  BY DEF Locked, Inv, TypeOK, CacheInv, CallType, CacheType
<1>2. call[c].step = "queued" /\ c = queue[1] /\ call[c].port \in Port /\ Busy(c)
  BY <1>1 DEF Locked, CallType, Busy
<1>3. CASE Fresh(call[c].port)
  <2>1. Answers(c, cached.token) /\ Leaves(c)
    BY <1>3 DEF Locked
  <2>2. /\ cached.token \in Token
        /\ {call[c].port, AgentPort} \subseteq cached.token.ports
        /\ now - cached.token.issued < Lifetime
        /\ cached.token.epoch < epoch => raced'
    BY <1>1, <1>2, <1>3, FreshServes
  <2>3. /\ call' \in [Caller -> CallType]
        /\ \A d \in Caller \ {c} : call'[d] = call[d]
        /\ ~Busy(c)'
        /\ CallInv(c)'
    BY <1>1, <2>1, <2>2, AnswersInv
  <2>4. queue' \in Seq(Caller) /\ QueueInv'
    BY <1>1, <2>1, <2>3, LeavesQueue
  <2> QED BY <1>1, <2>3, <2>4, OneCallMoves
<1>4. CASE ~Fresh(call[c].port)
  <2>1. /\ call' = [call EXCEPT ![c].step = "minting", ![c].wanted = Wanted(call[c].port)]
        /\ queue' = queue
    BY <1>4 DEF Locked
  <2>2. Wanted(call[c].port) \in SUBSET Port
    BY <1>1, <1>2, PortAssumption DEF Wanted, CacheType, Token
  <2>3. /\ call' \in [Caller -> CallType]
        /\ \A d \in Caller \ {c} : call'[d] = call[d]
        /\ call'[c].step = "minting" /\ call'[c].wanted = Wanted(call[c].port)
        /\ call'[c].port = call[c].port /\ call'[c].epoch = call[c].epoch
        /\ call'[c].at = call[c].at
    BY <1>1, <2>1, <2>2 DEF CallType
  <2>4. MintInv(c)'
    <3>1. {call[c].port, AgentPort} \subseteq Wanted(call[c].port)
      BY DEF Wanted
    <3>2. ASSUME cached # None
          PROVE  /\ cached.token.ports \subseteq Wanted(call[c].port)
                 /\ now - cached.at <= RefreshAfter =>
                      cached.token.ports # Wanted(call[c].port)
      BY <1>4, <3>2 DEF Wanted, Fresh
    <3> QED BY <1>1, <2>3, <3>1, <3>2 DEF MintInv, Mints
  <2>5. CallInv(c)
    BY DEF Inv
  <2>6. CallInv(c)'
    BY <1>1, <1>2, <2>3, <2>4, <2>5 DEF CallInv, IssuedInv, AnsweredInv, Answered, Busy
  <2>7. QueueInv'
    <3>1. queue # <<>>
      BY <1>1, <1>2 DEF QueueInv
    <3>2. OneMintAtATime'
      BY <1>1, <1>2, <2>1, <2>3, <3>1 DEF QueueInv, OneMintAtATime, Busy
    <3>3. \A d \in Caller : Busy(d)' => \E k \in DOMAIN queue' : queue'[k] = d
      <4>1. TAKE d \in Caller
      <4>2. HAVE Busy(d)'
      <4>3. Busy(d)
        BY <1>2, <2>3, <4>2 DEF Busy
      <4> QED BY <1>1, <2>1, <4>3 DEF QueueInv
    <3> QED BY <3>2, <3>3 DEF QueueInv
  <2> QED BY <1>1, <2>1, <2>3, <2>6, <2>7, OneCallMoves
<1> QED BY <1>3, <1>4

LEMMA IssueInv ==
  ASSUME Inv, NEW c \in Caller, Issue(c)
  PROVE  Inv'
<1>1. /\ cached' = cached /\ now' = now /\ epoch' = epoch /\ raced' = raced /\ queue' = queue
      /\ raced \in BOOLEAN /\ cached \in {None} \cup CacheType /\ CacheInv'
      /\ call \in [Caller -> CallType] /\ queue \in Seq(Caller) /\ QueueInv
      /\ now \in 0 .. MaxTime /\ epoch \in 0 .. MaxEpoch
  BY DEF Issue, Inv, TypeOK, CacheInv, CallType, CacheType
<1> DEFINE t == [ports |-> call[c].wanted, issued |-> now, epoch |-> epoch]
           r == [call[c] EXCEPT !.step = "issued", !.token = t]
<1>2. call[c] \in CallType /\ call[c].step = "minting"
  BY <1>1 DEF Issue
<1>3. t \in Token /\ t.ports = call[c].wanted /\ t.issued = now
  BY <1>1, <1>2 DEF Token, CallType
<1>4. call' = [call EXCEPT ![c] = r]
  BY <1>1 DEF Issue
<1> HIDE DEF t
<1>5. /\ r \in CallType
      /\ r.step = "issued" /\ r.token = t /\ r.port = call[c].port
      /\ r.epoch = call[c].epoch /\ r.at = call[c].at /\ r.wanted = call[c].wanted
  BY <1>2, <1>3 DEF CallType
<1> HIDE DEF r
<1>6. /\ call' \in [Caller -> CallType]
      /\ call'[c] = r
      /\ \A d \in Caller \ {c} : call'[d] = call[d]
  BY <1>4, <1>5, UpdateType DEF Inv
<1>7. CallInv(c) /\ Busy(c) /\ Mints(c)
  BY <1>2 DEF Inv, Busy, Mints
<1>8. IssuedInv(c)'
  BY <1>3, <1>5, <1>6, <1>7 DEF IssuedInv, CallInv
<1>9. MintInv(c)'
  BY <1>1, <1>5, <1>6, <1>7 DEF CallInv, MintInv
<1>10. CallInv(c)'
  BY <1>1, <1>5, <1>6, <1>7, <1>8, <1>9 DEF CallInv, AnsweredInv, Answered
<1>11. \A d \in Caller : (Busy(d)' <=> Busy(d)) /\ (Mints(d)' <=> Mints(d))
  BY <1>2, <1>5, <1>6 DEF Busy, Mints
<1>12. QueueInv'
  <2>1. \A i \in DOMAIN queue' : queue'[i] \in Caller /\ call'[queue'[i]].step \in
           {"queued", "minting", "issued"}
    BY <1>1, <1>5, <1>6 DEF QueueInv, OneMintAtATime, Busy
  <2>2. OneMintAtATime'
    BY <1>1, <1>11, <2>1 DEF QueueInv, OneMintAtATime, Mints, Busy
  <2>3. \A d \in Caller : Busy(d)' => \E k \in DOMAIN queue' : queue'[k] = d
    <3>1. TAKE d \in Caller
    <3>2. HAVE Busy(d)'
    <3> QED BY <1>1, <1>11, <3>2 DEF QueueInv
  <2> QED BY <2>2, <2>3 DEF QueueInv
<1> QED BY <1>1, <1>6, <1>10, <1>12, OneCallMoves

LEMMA MintReturnsInv ==
  ASSUME Inv, NEW c \in Caller, MintReturns(c)
  PROVE  Inv'
<1> DEFINE t == call[c].token
<1>1. /\ call[c].step = "issued" /\ Answers(c, t) /\ Leaves(c)
      /\ now' = now /\ epoch' = epoch
      /\ cached' = [token |-> t, at |-> now]
  BY DEF MintReturns
<1>2. /\ raced' = (raced \/ t.epoch < epoch)
  BY DEF MintReturns
<1>3. raced' \in BOOLEAN /\ (raced => raced') /\ (t.epoch < epoch => raced')
  BY <1>2
<1>4. CallInv(c) /\ Busy(c) /\ Mints(c) /\ TypeOK /\ QueueInv
  BY <1>1 DEF Inv, Busy, Mints
<1>5. /\ t \in Token /\ {call[c].port, AgentPort} \subseteq t.ports
      /\ call[c].at <= t.issued /\ now - call[c].at <= Timeout
  BY <1>1, <1>4 DEF CallInv, IssuedInv, MintInv
<1>6. /\ now \in 0 .. MaxTime /\ t.issued \in 0 .. MaxTime /\ call[c].at \in 0 .. MaxTime
      /\ MaxTime \in Nat
  BY <1>5, BoundAssumption DEF Inv, TypeOK, Token
<1>7. now - t.issued <= Timeout /\ now - t.issued < Lifetime
  BY <1>5, <1>6, TimeAssumption
<1> HIDE DEF t
<1>8. /\ call' \in [Caller -> CallType]
      /\ \A d \in Caller \ {c} : call'[d] = call[d]
      /\ ~Busy(c)'
      /\ CallInv(c)'
  BY <1>1, <1>3, <1>5, <1>7, AnswersInv
<1>9. queue' \in Seq(Caller) /\ QueueInv'
  BY <1>1, <1>4, <1>8, LeavesQueue
<1>10. cached' \in CacheType /\ cached'.token = t /\ cached'.at = now
  BY <1>1, <1>5, <1>6 DEF CacheType
<1>11. CacheInv'
  BY <1>1, <1>3, <1>5, <1>6, <1>7, <1>10 DEF CacheInv
<1>12. \A d \in Caller \ {c} : ~Mints(d)
  BY <1>4 DEF QueueInv, OneMintAtATime, Mints
<1> QED BY <1>1, <1>3, <1>8, <1>9, <1>10, <1>11, <1>12, OneCallMoves

LEMMA FailsInv ==
  ASSUME Inv, NEW c \in Caller, Fails(c)
  PROVE  Inv'
<1>1. /\ cached' = cached /\ now' = now /\ epoch' = epoch /\ raced' = raced
      /\ raced \in BOOLEAN /\ cached \in {None} \cup CacheType /\ CacheInv'
      /\ Leaves(c) /\ TypeOK /\ QueueInv
      /\ epoch \in 0 .. MaxEpoch
  BY DEF Fails, Inv, TypeOK, CacheInv, CacheType
<1> DEFINE r == [NoCall EXCEPT !.step = "failed"]
<1>2. call' = [call EXCEPT ![c] = r]
  BY DEF Fails
<1>3. r \in CallType /\ r.step = "failed" /\ r.epoch = 0
  BY NoCallType DEF CallType
<1> HIDE DEF r
<1>4. /\ call' \in [Caller -> CallType] /\ call'[c] = r
      /\ \A d \in Caller \ {c} : call'[d] = call[d]
  BY <1>1, <1>2, <1>3, UpdateType
<1>5. ~Busy(c)' /\ ~Mints(c)' /\ ~Answered(c)' /\ call'[c].step # "issued"
  BY <1>3, <1>4 DEF Busy, Mints, Answered
<1>6. call'[c].epoch <= epoch
  BY <1>1, <1>3, <1>4, BoundAssumption
<1>7. CallInv(c)'
  BY <1>1, <1>5, <1>6 DEF CallInv, MintInv, IssuedInv, AnsweredInv
<1>8. queue' \in Seq(Caller) /\ QueueInv'
  BY <1>1, <1>4, <1>5, LeavesQueue
<1> QED BY <1>1, <1>4, <1>7, <1>8, OneCallMoves

LEMMA InvalidateInv ==
  ASSUME Inv, Invalidate
  PROVE  Inv'
<1>1. /\ epoch' = epoch + 1 /\ cached' = None /\ now' = now /\ queue' = queue
      /\ call' = call /\ raced' = raced /\ epoch \in 0 .. MaxEpoch /\ epoch < MaxEpoch
      /\ MaxEpoch \in Nat
  BY BoundAssumption DEF Invalidate, Inv, TypeOK
<1>2. TypeOK'
  <2>1. epoch' \in 0 .. MaxEpoch
    BY <1>1
  <2> QED BY <1>1, <2>1 DEF Inv, TypeOK
<1>3. QueueInv'
  BY <1>1 DEF Inv, QueueInv, OneMintAtATime, Busy
<1>4. CacheInv'
  BY <1>1 DEF CacheInv
<1>5. \A c \in Caller : CallInv(c)'
  <2>1. TAKE c \in Caller
  <2>2. CallInv(c) /\ call[c].epoch \in 0 .. MaxEpoch
    BY DEF Inv, TypeOK
  <2>3. call[c].epoch <= epoch'
    BY <1>1, <2>2 DEF CallInv
  <2> QED BY <1>1, <2>2, <2>3
          DEF CallInv, MintInv, IssuedInv, AnsweredInv, Answered, Mints, Busy
<1> QED BY <1>2, <1>3, <1>4, <1>5 DEF Inv

LEMMA TickInv ==
  ASSUME Inv, Tick
  PROVE  Inv'
<1>1. /\ now' = now + 1 /\ epoch' = epoch /\ cached' = cached /\ queue' = queue
      /\ call' = call /\ raced' = raced /\ now \in 0 .. MaxTime /\ now < MaxTime
      /\ MaxTime \in Nat
  BY BoundAssumption DEF Tick, Inv, TypeOK
<1>2. TypeOK'
  <2>1. now' \in 0 .. MaxTime
    BY <1>1
  <2> QED BY <1>1, <2>1 DEF Inv, TypeOK
<1>3. QueueInv'
  BY <1>1 DEF Inv, QueueInv, OneMintAtATime, Busy
<1>4. cached # None => cached.at \in 0 .. MaxTime
  BY DEF Inv, TypeOK
<1>5. CacheInv'
  <2>1. cached # None => cached.at <= now'
    BY <1>1, <1>4 DEF Inv, CacheInv
  <2> QED BY <1>1, <2>1 DEF Inv, CacheInv
<1>6. \A c \in Caller : CallInv(c)'
  <2>1. TAKE c \in Caller
  <2>2. CallInv(c) /\ call[c].at \in 0 .. MaxTime
    BY DEF Inv, TypeOK
  <2>3. Busy(c) => call[c].at <= now' /\ now' - call[c].at <= Timeout
    BY <1>1, <2>2, TimeAssumption DEF CallInv, Tick
  <2>4. MintInv(c)'
    <3>1. cached # None /\ now' - cached.at <= RefreshAfter => now - cached.at <= RefreshAfter
      BY <1>1, <1>4, TimeAssumption
    <3> QED BY <1>1, <2>2, <3>1 DEF CallInv, MintInv, Mints
  <2> QED BY <1>1, <2>2, <2>3, <2>4 DEF CallInv, IssuedInv, AnsweredInv, Answered, Busy
<1> QED BY <1>2, <1>3, <1>5, <1>6 DEF Inv

LEMMA NextInv ==
  ASSUME Inv, [Next]_vars
  PROVE  Inv'
<1>1. CASE UNCHANGED vars
  BY <1>1 DEF vars, Inv, TypeOK, QueueInv, OneMintAtATime, CacheInv, CallInv, MintInv,
              IssuedInv, AnsweredInv, Answered, Mints, Busy
<1>2. ASSUME NEW c \in Caller, NEW port \in Port, Request(c, port)
      PROVE  Inv'
  BY <1>2, RequestInv
<1>3. ASSUME NEW c \in Caller, MintFails(c) \/ Dropped(c)
      PROVE  Inv'
  BY <1>3, FailsInv DEF MintFails, Dropped
<1> QED BY <1>1, <1>2, <1>3, LockedInv, IssueInv, MintReturnsInv, InvalidateInv, TickInv DEF Next

----------------------------------------------------------------------------
(* Theorems                                                                *)

\* The inductive invariant of the proxy tokens (token_for, invalidate).
THEOREM ProxyInvariant == Spec => []Inv
<1>1. Init => Inv
  BY InitInv
<1>2. Inv /\ [Next]_vars => Inv'
  BY NextInv
<1> QED BY <1>1, <1>2, PTL DEF Spec

\* Every variable keeps its type.
THEOREM TypeCorrect == Spec => []TypeOK
<1>1. Inv => TypeOK
  BY DEF Inv
<1> QED BY <1>1, ProxyInvariant, PTL

\* A request is given a token for its port and for the agent's (token_for).
THEOREM ServesPort == Spec => []TokenServesPort
<1>1. Inv => TokenServesPort
  BY DEF Inv, TokenServesPort, CallInv, AnsweredInv
<1> QED BY <1>1, ProxyInvariant, PTL

\* A request is given a token that has not expired, as long as the refresh age
\* and a request's timeout together are less than a token's life.
THEOREM HandsOutLive == Spec => []HandedIsLive
<1>1. Inv => HandedIsLive
  BY DEF Inv, HandedIsLive, CallInv, AnsweredInv
<1> QED BY <1>1, ProxyInvariant, PTL

\* The mint lock has one holder, whoever is dropped (mint_lock).
THEOREM MintsExclude == Spec => []OneMintAtATime
<1>1. Inv => OneMintAtATime
  BY DEF Inv, QueueInv
<1> QED BY <1>1, ProxyInvariant, PTL

\* Only a mint that crossed a resume brings an old token back (invalidate).
THEOREM FreshUnlessRaced == Spec => []FreshAfterResumeUnlessRaced
<1>1. Inv => FreshAfterResumeUnlessRaced
  BY DEF Inv, FreshAfterResumeUnlessRaced, CallInv, AnsweredInv
<1> QED BY <1>1, ProxyInvariant, PTL

\* A mint never narrows the cache, and never repeats one that is fresh.
THEOREM Widens == Spec => MintsOnlyWiden
<1>1. ASSUME Inv, NEW c \in Caller, MintReturns(c), cached # None
      PROVE  /\ cached.token.ports \subseteq cached'.token.ports
             /\ now - cached.at <= RefreshAfter => cached.token.ports # cached'.token.ports
  <2>1. call[c].step = "issued" /\ cached' = [token |-> call[c].token, at |-> now]
    BY <1>1 DEF MintReturns
  <2>2. MintInv(c) /\ IssuedInv(c)
    BY <1>1 DEF Inv, CallInv
  <2>3. cached'.token.ports = call[c].wanted
    BY <2>1, <2>2 DEF IssuedInv
  <2> QED BY <1>1, <2>1, <2>2, <2>3 DEF MintInv, Mints
<1>2. Inv /\ [Next]_vars =>
        [\A c \in Caller : MintReturns(c) /\ cached # None =>
           /\ cached.token.ports \subseteq cached'.token.ports
           /\ now - cached.at <= RefreshAfter => cached.token.ports # cached'.token.ports]_vars
  BY <1>1
<1> QED BY <1>2, ProxyInvariant, PTL DEF Spec, MintsOnlyWiden

----------------------------------------------------------------------------
(* The run records                                                         *)

RunRecord == [step : RunStep, kind : Kinds, keep : BOOLEAN, vm : Run \cup {NoRun},
              mem : Record, still : SUBSET Id]
FileState == Record \cup {Absent, Torn}

\* A thing a record may name has been created; a thing that has been and is gone
\* stays gone.
Created(id) ==
  /\ id.kind = "vm" => vm[id.of] # "none"
  /\ id.kind = "image" => image[id.of] # "none"

Past(id) ==
  /\ id.kind # "group"
  /\ id.kind = "vm" => vm[id.of] = "gone"
  /\ id.kind = "image" => image[id.of] = "gone"

Known(ids) == \A id \in ids : Created(id)
Ids(rec) == Named(rec) \cup rec.leaked

\* A file shows a thing: as Shows, of a file's contents.
Keeps(f, id) == f = Torn \/ (Readable(f) /\ id \in Outstanding(f))

Early == {"start", "built", "ready", "named"}

\* What the process of run r in state s knows, and when.
RunInv(r, s) ==
  /\ s.step = "start" => image[r] = "none"
  /\ s.step = "built" => image[r] # "none"
  /\ s.step \in Early => s.vm = NoRun
  /\ s.step \in Early \cup {"launched", "provisioning", "over", "settled"} => s.mem.leaked = {}
  /\ s.step = "provisioning" => s.mem.vm = s.vm
  /\ s.step = "over" /\ s.kind = "agent" => ~s.keep
  /\ s.step = "settled" /\ s.keep => s.mem.vm = s.vm
  /\ s.mem.vm \in {NoRun, s.vm}
  /\ s.kind = "run" => s.mem.image \in {NoRun, r}
  /\ vm[r] # "none" => s.vm = r
  /\ s.vm # NoRun => vm[s.vm] # "none"
  /\ Known(Ids(s.mem)) /\ Known(s.still)

\* While VM r runs, the record has it from when the process knew, and the
\* teardown drops it only after it is gone.
VmHeld(r, s, f) ==
  vm[r] = "live" =>
    /\ s.mem.vm = r \/ s.step \in {"clearing", "done"} => Keeps(f, VmId(r)) \/ r \in overtaken
    /\ s.step \in {"deletingImage", "deleted"} => VmId(r) \in s.still
    /\ s.step = "clearing" => s.mem.leaked # {}

\* The same of the image a run built, whose log group keeps the record.
ImageHeld(r, s, f) ==
  s.kind = "run" /\ s.mem.image # NoRun =>
    /\ image[r] = "live" => Keeps(f, ImageId(r)) \/ r \in overtaken
    /\ s.step = "deleted" =>
         GroupId(r) \in s.still /\ (image[r] = "live" => ImageId(r) \in s.still)
    /\ s.step = "clearing" => s.mem.leaked # {}

\* What a file names is what its run's process names.
FileInv(s, f) ==
  Readable(f) =>
    /\ f.vm # NoRun => f.vm = s.vm /\ f.image = s.mem.image
    /\ Known(Ids(f))

RunHeld(r, s, f) ==
  RunInv(r, s) /\ VmHeld(r, s, f) /\ ImageHeld(r, s, f) /\ FileInv(s, f)

\* What terminate has opened still stands for the records it will narrow.
TermInv ==
  /\ Known(term.leaked)
  /\ term.step # "idle" => term.target \in Run /\ vm[term.target] # "none"
  /\ term.step \in {"image", "narrowing"} /\ vm[term.target] = "live" =>
       VmId(term.target) \in term.leaked
  /\ term.image # NoRun => image[term.image] # "none"
  /\ term.step = "narrowing" /\ term.image # NoRun /\ image[term.image] = "live" =>
       ImageId(term.image) \in term.leaked
  /\ \A r \in DOMAIN term.opened :
       /\ term.step # "idle" /\ Readable(term.opened[r])
       /\ term.opened[r].vm = term.target /\ run[r].vm = term.target
       /\ term.opened[r].image = run[r].mem.image
       /\ Known(Ids(term.opened[r]))

\* What a prune is about to remove names nothing that is there.
PruneInv ==
  /\ prune.step = "listing" => DOMAIN prune.seen = Run
  /\ \A r \in DOMAIN prune.seen :
       /\ Readable(prune.seen[r]) => Known(Ids(prune.seen[r]))
       /\ prune.step = "removing" =>
            Readable(prune.seen[r]) /\ \A id \in Outstanding(prune.seen[r]) : Past(id)

\* The assumptions on the constants the proofs need.
LedgerConstants ==
  Run \subseteq Nat /\ IsFiniteSet(Run) /\ Kinds \subseteq {"run", "agent"} /\ NoRun \notin Run

LedgerInv ==
  /\ LedgerConstants /\ LedgerTypeOK
  /\ \A r \in Run : RunHeld(r, run[r], file[r])
  /\ TermInv
  /\ PruneInv

-----------------------------------------------------------------------------
(* Types and records of the ledger.                                        *)

LEMMA BlankFields ==
  /\ Blank \in Record /\ Blank.vm = NoRun /\ Blank.image = NoRun /\ Blank.leaked = {}
  /\ Named(Blank) = {} /\ Absent.is = "absent" /\ Torn.is = "torn"
BY DEF Blank, Record, Named, Absent, Torn

LEMMA FileFields ==
  ASSUME NEW f \in FileState, Readable(f)
  PROVE  f \in Record /\ f # Torn /\ f # Absent
BY BlankFields DEF FileState, Readable

LEMMA RecordFields ==
  ASSUME NEW rec \in Record
  PROVE  /\ rec.vm \in Run \cup {NoRun} /\ rec.image \in Run \cup {NoRun}
         /\ rec.leaked \in SUBSET Id /\ Readable(rec)
BY DEF Record, Readable

LEMMA IdFields ==
  ASSUME NEW r \in Run
  PROVE  /\ VmId(r) \in Id /\ VmId(r).kind = "vm" /\ VmId(r).of = r
         /\ ImageId(r) \in Id /\ ImageId(r).kind = "image" /\ ImageId(r).of = r
         /\ GroupId(r) \in Id /\ GroupId(r).kind = "group" /\ GroupId(r).of = r
BY DEF Id, VmId, ImageId, GroupId

LEMMA NamedType ==
  ASSUME NEW rec \in Record
  PROVE  /\ Named(rec) \in SUBSET Id
         /\ rec.vm # NoRun => VmId(rec.vm) \in Named(rec)
         /\ rec.image # NoRun => ImageId(rec.image) \in Named(rec)
         /\ \A id \in Named(rec) :
              \/ rec.vm # NoRun /\ id = VmId(rec.vm)
              \/ rec.image # NoRun /\ id = ImageId(rec.image)
BY RecordFields, IdFields DEF Named

LEMMA OutstandingType ==
  ASSUME NEW rec \in Record
  PROVE  Outstanding(rec) \subseteq Ids(rec) /\ Ids(rec) \subseteq Id
BY RecordFields, NamedType DEF Outstanding, Ids

\* A record with one field changed.
LEMMA RecordWith ==
  ASSUME NEW rec \in Record, NEW v \in Run \cup {NoRun}, NEW ids \in SUBSET Id
  PROVE  /\ [rec EXCEPT !.vm = v] \in Record /\ [rec EXCEPT !.vm = v].vm = v
         /\ [rec EXCEPT !.vm = v].image = rec.image
         /\ [rec EXCEPT !.vm = v].leaked = rec.leaked
         /\ [rec EXCEPT !.image = v] \in Record /\ [rec EXCEPT !.image = v].image = v
         /\ [rec EXCEPT !.image = v].vm = rec.vm
         /\ [rec EXCEPT !.image = v].leaked = rec.leaked
         /\ [rec EXCEPT !.leaked = ids] \in Record /\ [rec EXCEPT !.leaked = ids].leaked = ids
         /\ [rec EXCEPT !.leaked = ids].vm = rec.vm
         /\ [rec EXCEPT !.leaked = ids].image = rec.image
<1>1. [rec EXCEPT !.vm = v] \in Record
  BY DEF Record
<1>2. [rec EXCEPT !.image = v] \in Record
  BY DEF Record
<1>3. [rec EXCEPT !.leaked = ids] \in Record
  BY DEF Record
<1>4. /\ [rec EXCEPT !.vm = v].vm = v /\ [rec EXCEPT !.vm = v].image = rec.image
      /\ [rec EXCEPT !.vm = v].leaked = rec.leaked
  BY DEF Record
<1>5. /\ [rec EXCEPT !.image = v].image = v /\ [rec EXCEPT !.image = v].vm = rec.vm
      /\ [rec EXCEPT !.image = v].leaked = rec.leaked
  BY DEF Record
<1>6. /\ [rec EXCEPT !.leaked = ids].leaked = ids /\ [rec EXCEPT !.leaked = ids].vm = rec.vm
      /\ [rec EXCEPT !.leaked = ids].image = rec.image
  BY DEF Record
<1> QED
  BY <1>1, <1>2, <1>3, <1>4, <1>5, <1>6

LEMMA RunFields ==
  ASSUME LedgerTypeOK, NEW r \in Run
  PROVE  /\ run[r] \in RunRecord /\ file[r] \in FileState
         /\ run[r].step \in RunStep /\ run[r].kind \in Kinds /\ run[r].keep \in BOOLEAN
         /\ run[r].vm \in Run \cup {NoRun} /\ run[r].mem \in Record
         /\ run[r].still \in SUBSET Id
BY DEF LedgerTypeOK, RunRecord, FileState

\* The ways a process moves.
LEMMA GoesTo ==
  ASSUME LedgerTypeOK, NEW r \in Run, NEW st \in RunStep, Goes(r, st)
  PROVE  \E s \in RunRecord :
           /\ run' = [run EXCEPT ![r] = s] /\ s.step = st /\ s.kind = run[r].kind
           /\ s.keep = run[r].keep /\ s.vm = run[r].vm /\ s.mem = run[r].mem
           /\ s.still = run[r].still
<1> DEFINE q == run[r]
           s == [q EXCEPT !.step = st]
<1>1. q \in RunRecord
  BY RunFields
<1>2. /\ s \in RunRecord /\ s.step = st /\ s.kind = q.kind /\ s.keep = q.keep /\ s.vm = q.vm
      /\ s.mem = q.mem /\ s.still = q.still
  BY <1>1 DEF RunRecord
<1>3. run' = [run EXCEPT ![r] = s]
  BY DEF Goes
<1> QED
  BY <1>2, <1>3

\* A write leaves the record or tears it.
LEMMA Flushes ==
  ASSUME LedgerTypeOK, NEW r \in Run, NEW rec \in Record, NEW st \in RunStep, Flush(r, rec, st)
  PROVE  \E s \in RunRecord, f \in FileState :
           /\ run' = [run EXCEPT ![r] = s] /\ s.step = st /\ s.kind = run[r].kind
           /\ s.keep = run[r].keep /\ s.vm = run[r].vm /\ s.mem = rec
           /\ s.still = run[r].still
           /\ file' = [file EXCEPT ![r] = f] /\ f \in {rec, Torn}
<1> DEFINE q == run[r]
           s == [q EXCEPT !.mem = rec, !.step = st]
<1>1. q \in RunRecord
  BY RunFields
<1>2. /\ s \in RunRecord /\ s.step = st /\ s.kind = q.kind /\ s.keep = q.keep /\ s.vm = q.vm
      /\ s.mem = rec /\ s.still = q.still
  BY <1>1 DEF RunRecord
<1>3. run' = [run EXCEPT ![r] = s]
  <2>1. run \in [Run -> RunRecord] /\ run' = [run EXCEPT ![r].mem = rec, ![r].step = st]
    BY DEF Flush, LedgerTypeOK, RunRecord
  <2> QED
    BY <2>1
<1>4. PICK f \in Written(rec) : file' = [file EXCEPT ![r] = f]
  BY DEF Flush
<1>5. f \in {rec, Torn} /\ f \in FileState
  BY DEF Written, FileState
<1> HIDE DEF s
<1> QED
  BY <1>2, <1>3, <1>4, <1>5

\* A set of numbers that is not empty has a least one.
LEMMA LeastNumber ==
  ASSUME NEW T \in SUBSET Nat, T # {}
  PROVE  \E n \in T : \A m \in T : n <= m
<1>1. PICK n \in T : \A m \in T : ~(<<m, n>> \in OpToRel(<, Nat))
  BY NatLessThanWellFounded, WFMin
<1>2. ASSUME NEW m \in T PROVE ~(m < n)
  BY <1>1 DEF OpToRel
<1> QED
  BY <1>2

\* The newest of the records opened is one of them.
LEMMA NewestIsOne ==
  ASSUME LedgerConstants, NEW rs \in SUBSET Run, rs # {}
  PROVE  Newest(rs) \in rs
<1> DEFINE Topped(S) == \E r \in S : \A o \in S : o <= r
           Bad == {n \in Nat : \E S \in SUBSET rs : S # {} /\ Cardinality(S) = n /\ ~Topped(S)}
<1>1. rs \subseteq Nat /\ IsFiniteSet(rs)
  BY FS_Subset DEF LedgerConstants
<1>2. ASSUME NEW S \in SUBSET rs PROVE IsFiniteSet(S) /\ Cardinality(S) \in Nat
  BY <1>1, FS_Subset, FS_CardinalityType
<1>3. Bad = {}
  <2> SUFFICES ASSUME Bad # {} PROVE FALSE
    OBVIOUS
  <2>1. PICK n \in Bad : \A m \in Bad : n <= m
    BY LeastNumber
  <2>2. PICK S \in SUBSET rs : S # {} /\ Cardinality(S) = n /\ ~Topped(S)
    BY <2>1
  <2>3. PICK x \in S : TRUE
    BY <2>2
  <2> DEFINE R == S \ {x}
  <2>4. R \in SUBSET rs /\ Cardinality(R) = n - 1 /\ Cardinality(R) \in Nat
    BY <1>2, <2>2, <2>3, FS_RemoveElement
  <2>5. R # {} => Topped(R)
    <3> SUFFICES ASSUME R # {}, ~Topped(R) PROVE FALSE
      OBVIOUS
    <3> HIDE DEF R, Topped
    <3>1. n - 1 \in Bad
      BY <2>4
    <3>2. n \in Nat
      OBVIOUS
    <3> QED
      BY <2>1, <3>1, <3>2
  <2>6. CASE R = {}
    <3>1. \A o \in S : o = x
      BY <2>6
    <3> QED
      BY <1>1, <2>2, <2>3, <3>1
  <2>7. CASE R # {}
    <3>1. PICK y \in R : \A o \in R : o <= y
      BY <2>5, <2>7
    <3>2. \A o \in S : o = x \/ o <= y
      BY <3>1
    <3>3. x \in Nat /\ y \in Nat /\ \A o \in S : o \in Nat
      BY <1>1, <2>3
    <3>4. x <= y \/ y <= x
      BY <3>3
    <3> QED
      BY <2>2, <2>3, <3>1, <3>2, <3>3, <3>4
  <2> QED
    BY <2>6, <2>7
<1>4. Topped(rs)
  BY <1>2, <1>3
<1> QED
  BY <1>4 DEF Newest

-----------------------------------------------------------------------------
(* What the passing of time leaves alone.                                  *)

PlatformTypes ==
  vm \in [Run -> {"none", "live", "gone"}] /\ image \in [Run -> {"none", "live", "gone"}]

\* Nothing comes back, and nothing but VM or image b comes to be.
Ages(b) ==
  /\ \A v \in Run : /\ vm[v] # "none" => vm'[v] # "none"
                    /\ vm[v] = "gone" => vm'[v] = "gone"
                    /\ vm'[v] = "live" => vm[v] = "live" \/ (v = b /\ vm[v] = "none")
                    /\ vm'[v] # "none" => vm[v] # "none" \/ v = b
  /\ \A i \in Run : /\ image[i] # "none" => image'[i] # "none"
                    /\ image[i] = "gone" => image'[i] = "gone"
                    /\ image'[i] = "live" => image[i] = "live" \/ (i = b /\ image[i] = "none")
                    /\ image'[i] # "none" => image[i] # "none" \/ i = b

LEMMA KnownStays ==
  ASSUME NEW b, Ages(b), NEW ids \in SUBSET Id, Known(ids)
  PROVE  Known(ids)'
BY DEF Ages, Known, Created, Id

LEMMA PastStays ==
  ASSUME NEW b, Ages(b), NEW id \in Id, Past(id)
  PROVE  Past(id)'
BY DEF Ages, Past, Id

LEMMA OtherRunHeld ==
  ASSUME LedgerConstants, NEW b, Ages(b), NEW r \in Run, r # b, NEW s \in RunRecord,
         NEW f \in FileState, RunHeld(r, s, f), overtaken \subseteq overtaken'
  PROVE  RunHeld(r, s, f)'
<1>1. s.mem \in Record /\ s.still \in SUBSET Id /\ s.vm \in Run \cup {NoRun}
  BY DEF RunRecord
<1>2. Known(Ids(s.mem)) /\ Known(s.still) => Known(Ids(s.mem))' /\ Known(s.still)'
  BY <1>1, KnownStays, OutstandingType
<1>3. /\ image[r] = "none" => image'[r] = "none"
      /\ image[r] # "none" => image'[r] # "none"
      /\ vm'[r] # "none" => vm[r] # "none"
      /\ vm'[r] = "live" => vm[r] = "live"
      /\ image'[r] = "live" => image[r] = "live"
      /\ s.vm # NoRun /\ vm[s.vm] # "none" => vm'[s.vm] # "none"
  BY <1>1 DEF Ages
<1>4. RunInv(r, s)'
  BY <1>2, <1>3 DEF RunHeld, RunInv
<1>5. VmHeld(r, s, f)' /\ ImageHeld(r, s, f)'
  BY <1>3 DEF RunHeld, VmHeld, ImageHeld
<1>6. FileInv(s, f)'
  <2>1. Readable(f) => Known(Ids(f))'
    BY FileFields, OutstandingType, KnownStays DEF RunHeld, FileInv
  <2> QED
    BY <2>1 DEF RunHeld, FileInv
<1> QED
  BY <1>4, <1>5, <1>6 DEF RunHeld

\* What a Files holds.
LEMMA FilesType ==
  ASSUME NEW fs \in Files
  PROVE  /\ DOMAIN fs \in SUBSET Run /\ \A r \in DOMAIN fs : fs[r] \in FileState
         /\ fs \in [DOMAIN fs -> FileState]
BY DEF Files, FileState

LEMMA FilesMake ==
  ASSUME NEW rs \in SUBSET Run, NEW fs \in [rs -> FileState]
  PROVE  fs \in Files
BY DEF Files, FileState

LEMMA TermFields ==
  ASSUME LedgerTypeOK
  PROVE  /\ term.target \in Run \cup {NoRun} /\ term.image \in Run \cup {NoRun}
         /\ term.leaked \in SUBSET Id /\ term.opened \in Files /\ prune.seen \in Files
BY DEF LedgerTypeOK

LEMMA TermStays ==
  ASSUME LedgerConstants, LedgerTypeOK, TermInv, NEW b, Ages(b), UNCHANGED term,
         \A r \in Run : run[r].vm # NoRun =>
           run'[r].vm = run[r].vm /\ run'[r].mem.image = run[r].mem.image
  PROVE  TermInv'
<1>1. Known(term.leaked)'
  BY KnownStays, TermFields DEF TermInv
<1>2. /\ term.step # "idle" => term.target \in Run /\ vm'[term.target] # "none"
      /\ term.step \in {"image", "narrowing"} /\ vm'[term.target] = "live" =>
           VmId(term.target) \in term.leaked
      /\ term.image # NoRun => image'[term.image] # "none"
      /\ term.step = "narrowing" /\ term.image # NoRun /\ image'[term.image] = "live" =>
           ImageId(term.image) \in term.leaked
  BY TermFields DEF TermInv, Ages
<1>3. ASSUME NEW r \in DOMAIN term.opened
      PROVE  /\ run'[r].vm = term.target /\ term.opened[r].image = run'[r].mem.image
             /\ Known(Ids(term.opened[r]))'
  <2>1. r \in Run /\ term.opened[r] \in FileState /\ Readable(term.opened[r])
    BY TermFields, FilesType DEF TermInv
  <2>2. run[r].vm = term.target /\ run[r].vm # NoRun
    BY DEF TermInv, LedgerConstants
  <2>3. Ids(term.opened[r]) \in SUBSET Id
    BY <2>1, FileFields, OutstandingType
  <2> QED
    BY <2>1, <2>2, <2>3, KnownStays DEF TermInv
<1> QED
  BY <1>1, <1>2, <1>3 DEF TermInv

LEMMA SeenStays ==
  ASSUME LedgerTypeOK, NEW b, Ages(b), NEW f \in FileState, Readable(f)
  PROVE  /\ Known(Ids(f)) => Known(Ids(f))'
         /\ (\A id \in Outstanding(f) : Past(id)) => \A id \in Outstanding(f) : Past(id)'
<1>1. Ids(f) \in SUBSET Id /\ Outstanding(f) \subseteq Id
  BY FileFields, OutstandingType
<1> QED
  BY <1>1, KnownStays, PastStays

LEMMA PruneStays ==
  ASSUME LedgerTypeOK, PruneInv, NEW b, Ages(b), UNCHANGED prune
  PROVE  PruneInv'
<1>1. ASSUME NEW r \in DOMAIN prune.seen
      PROVE  /\ Readable(prune.seen[r]) => Known(Ids(prune.seen[r]))'
             /\ prune.step = "removing" =>
                  Readable(prune.seen[r]) /\ \A id \in Outstanding(prune.seen[r]) : Past(id)'
  <2>1. prune.seen[r] \in FileState
    BY TermFields, FilesType
  <2> QED
    BY <2>1, SeenStays DEF PruneInv
<1> QED
  BY <1>1 DEF PruneInv

\* A step of run r's own process: what has to be shown of it.
LEMMA RunMoves ==
  ASSUME LedgerInv, NEW r \in Run, Ages(r), PlatformTypes',
         NEW s \in RunRecord, run' = [run EXCEPT ![r] = s],
         NEW f \in FileState, file' = [file EXCEPT ![r] = f],
         UNCHANGED <<term, prune, overtaken>>, RunHeld(r, s, f)',
         run[r].vm # NoRun => s.vm = run[r].vm /\ s.mem.image = run[r].mem.image
  PROVE  LedgerInv'
<1>1. /\ run \in [Run -> RunRecord] /\ file \in [Run -> FileState]
      /\ run' \in [Run -> RunRecord] /\ file' \in [Run -> FileState]
      /\ run'[r] = s /\ file'[r] = f
      /\ \A o \in Run : o # r => run'[o] = run[o] /\ file'[o] = file[o]
  BY DEF LedgerInv, LedgerTypeOK, RunRecord, FileState
<1>2. LedgerTypeOK'
  BY <1>1 DEF LedgerInv, LedgerTypeOK, PlatformTypes, RunRecord, FileState
<1>3. ASSUME NEW o \in Run PROVE RunHeld(o, run[o], file[o])'
  <2>1. CASE o = r
    <3>1. \A q \in RunRecord, g \in FileState : q = s /\ g = f => RunHeld(r, q, g)'
      OBVIOUS
    <3> QED
      BY <1>1, <2>1, <3>1
  <2>2. CASE o # r
    <3>1. run[o] \in RunRecord /\ file[o] \in FileState /\ run'[o] = run[o] /\ file'[o] = file[o]
      BY <1>1, <2>2
    <3>2. RunHeld(o, run[o], file[o]) /\ LedgerConstants
      BY DEF LedgerInv
    <3>3. \A q \in RunRecord, g \in FileState : RunHeld(o, q, g) => RunHeld(o, q, g)'
      BY <2>2, <3>2, OtherRunHeld
    <3> QED
      BY <3>1, <3>2, <3>3
  <2> QED
    BY <2>1, <2>2
<1>4. \A o \in Run : run[o].vm # NoRun =>
        run'[o].vm = run[o].vm /\ run'[o].mem.image = run[o].mem.image
  BY <1>1
<1>5. TermInv' /\ PruneInv'
  BY <1>4, TermStays, PruneStays DEF LedgerInv
<1> QED
  BY <1>2, <1>3, <1>5 DEF LedgerInv, LedgerConstants

LEMMA StillAges ==
  ASSUME PlatformTypes, UNCHANGED platform, NEW b
  PROVE  Ages(b) /\ PlatformTypes'
BY DEF PlatformTypes, platform, Ages

LEMMA VmGoes ==
  ASSUME PlatformTypes, NEW v \in Run, vm[v] # "none", UNCHANGED image, NEW b,
         vm' \in {vm, [vm EXCEPT ![v] = "gone"]}
  PROVE  Ages(b) /\ PlatformTypes'
BY DEF PlatformTypes, Ages

LEMMA ImageGoes ==
  ASSUME PlatformTypes, NEW i \in Run, image[i] # "none", UNCHANGED vm, NEW b,
         image' \in {image, [image EXCEPT ![i] = "gone"]}
  PROVE  Ages(b) /\ PlatformTypes'
BY DEF PlatformTypes, Ages

LEMMA SameFile ==
  ASSUME LedgerTypeOK, NEW r \in Run, UNCHANGED file
  PROVE  file' = [file EXCEPT ![r] = file[r]] /\ file[r] \in FileState
BY DEF LedgerTypeOK, FileState

\* What the invariant says of one run.
LEMMA OfRun ==
  ASSUME LedgerInv, NEW r \in Run
  PROVE  /\ LedgerConstants /\ LedgerTypeOK /\ PlatformTypes /\ r # NoRun /\ r \in Nat
         /\ RunInv(r, run[r]) /\ VmHeld(r, run[r], file[r])
         /\ ImageHeld(r, run[r], file[r]) /\ FileInv(run[r], file[r])
         /\ run[r] \in RunRecord /\ file[r] \in FileState
         /\ run[r].mem \in Record /\ run[r].vm \in Run \cup {NoRun}
         /\ run[r].kind \in {"run", "agent"} /\ run[r].still \in SUBSET Id
BY RunFields DEF LedgerInv, RunHeld, LedgerConstants, LedgerTypeOK, PlatformTypes

\* The names in a record's fields are of things that were created.
LEMMA FieldsKnown ==
  ASSUME NEW rec \in Record, Known(Ids(rec)), LedgerConstants
  PROVE  /\ rec.vm # NoRun => vm[rec.vm] # "none"
         /\ rec.image # NoRun => image[rec.image] # "none"
<1>1. rec.vm \in Run \cup {NoRun} /\ rec.image \in Run \cup {NoRun}
  BY RecordFields
<1> QED
  BY <1>1, NamedType, IdFields DEF Known, Ids, Created

LEMMA NamedKnown ==
  ASSUME NEW rec \in Record, rec.vm # NoRun => vm'[rec.vm] # "none",
         rec.image # NoRun => image'[rec.image] # "none", LedgerConstants
  PROVE  Known(Named(rec))' /\ (Known(rec.leaked)' => Known(Ids(rec))')
<1>1. rec.vm \in Run \cup {NoRun} /\ rec.image \in Run \cup {NoRun}
  BY RecordFields
<1>2. Known(Named(rec))'
  BY <1>1, NamedType, IdFields DEF Known, Created
<1> QED
  BY <1>2 DEF Known, Ids

\* A step of a process that leaves its record alone, in memory and on disk.
LEMMA QuietMove ==
  ASSUME LedgerInv, NEW r \in Run, Ages(r), PlatformTypes',
         NEW s \in RunRecord, run' = [run EXCEPT ![r] = s],
         UNCHANGED <<file, term, prune, overtaken>>, NEW f \in FileState, file[r] = f,
         s.mem = run[r].mem, run[r].vm \in {NoRun, s.vm},
         RunInv(r, s)', VmHeld(r, s, f)', ImageHeld(r, s, f)'
  PROVE  LedgerInv'
<1>1. file' = [file EXCEPT ![r] = f] /\ FileInv(run[r], f) /\ LedgerConstants
  BY SameFile, OfRun DEF LedgerInv
<1>2. Readable(f) => Known(Ids(f))'
  BY <1>1, FileFields, OutstandingType, KnownStays DEF FileInv
<1>3. Readable(f) /\ f.vm # NoRun => f.vm = s.vm /\ f.image = s.mem.image
  BY <1>1 DEF FileInv
<1>4. FileInv(s, f)'
  BY <1>2, <1>3 DEF FileInv
<1> QED
  BY <1>1, <1>4, RunMoves DEF RunHeld

\* A write of a record whose list is empty or names what its fields do.
LEMMA PlainFlush ==
  ASSUME LedgerInv, NEW r \in Run, Ages(r), PlatformTypes',
         NEW s \in RunRecord, run' = [run EXCEPT ![r] = s],
         NEW f \in FileState, file' = [file EXCEPT ![r] = f], f \in {s.mem, Torn},
         UNCHANGED <<term, prune, overtaken>>,
         s.mem.leaked \in {{}, Named(s.mem)},
         s.step \notin {"deletingImage", "deleted", "clearing"},
         s.step = "done" /\ vm'[r] = "live" => s.mem.vm = r,
         run[r].vm # NoRun => s.vm = run[r].vm /\ s.mem.image = run[r].mem.image,
         RunInv(r, s)'
  PROVE  LedgerInv'
<1>1. s.mem \in Record /\ Outstanding(s.mem) = Named(s.mem) /\ r # NoRun /\ Readable(s.mem)
  BY OfRun, RecordFields DEF RunRecord, Outstanding
<1>2. /\ s.mem.vm = r => Keeps(f, VmId(r))
      /\ s.mem.image = r => Keeps(f, ImageId(r))
  BY <1>1, NamedType DEF Keeps
<1>3. VmHeld(r, s, f)' /\ ImageHeld(r, s, f)'
  BY <1>2 DEF VmHeld, ImageHeld, RunInv
<1>4. FileInv(s, f)'
  BY <1>1, BlankFields DEF FileInv, RunInv, Readable
<1> QED
  BY <1>3, <1>4, RunMoves DEF RunHeld



\* The end of a process: its state in memory goes, but for the history.
LEMMA EndState ==
  ASSUME NEW q \in RunRecord, NEW st \in RunStep
  PROVE  \E s \in RunRecord :
           /\ s = [q EXCEPT !.step = st, !.keep = FALSE, !.still = {}, !.mem.leaked = {}]
           /\ s.step = st /\ s.keep = FALSE /\ s.still = {} /\ s.kind = q.kind /\ s.vm = q.vm
           /\ s.mem = [q.mem EXCEPT !.leaked = {}]
<1> DEFINE m == [q.mem EXCEPT !.leaked = {}]
           s == [q EXCEPT !.step = st, !.keep = FALSE, !.still = {}, !.mem.leaked = {}]
<1>1. q.mem \in Record /\ {} \in SUBSET Id
  BY DEF RunRecord
<1>2. m \in Record
  BY <1>1, RecordWith
<1>3. /\ s.step = st /\ s.keep = FALSE /\ s.still = {} /\ s.kind = q.kind /\ s.vm = q.vm
      /\ s.mem = m
  BY DEF RunRecord
<1>4. s = [q EXCEPT !.step = st, !.keep = FALSE, !.still = {}, !.mem = m]
  BY DEF RunRecord
<1> HIDE DEF m
<1>5. [q EXCEPT !.step = st, !.keep = FALSE, !.still = {}, !.mem = m] \in RunRecord
  BY <1>1, <1>2 DEF RunRecord
<1> QED
  BY <1>3, <1>4, <1>5 DEF m

-----------------------------------------------------------------------------
(* The commands that create.                                               *)

LEMMA BuildKeeps ==
  ASSUME LedgerInv, NEW r \in Run, Build(r)
  PROVE  LedgerInv'
<1>1. /\ run[r].step = "start" /\ Goes(r, "built") /\ "built" \in RunStep
      /\ image' = [image EXCEPT ![r] = "live"] /\ UNCHANGED <<vm, file, term, prune, overtaken>>
  BY DEF Build, Starts, RunStep
<1>2. PICK s \in RunRecord :
        /\ run' = [run EXCEPT ![r] = s] /\ s.step = "built" /\ s.kind = run[r].kind
        /\ s.keep = run[r].keep /\ s.vm = run[r].vm /\ s.mem = run[r].mem
        /\ s.still = run[r].still
  BY <1>1, GoesTo, OfRun
<1>3. PICK f \in FileState : file[r] = f
  BY OfRun
<1>4. /\ RunInv(r, run[r]) /\ VmHeld(r, run[r], f) /\ ImageHeld(r, run[r], f)
      /\ run[r].mem \in Record /\ run[r].still \in SUBSET Id /\ PlatformTypes /\ LedgerConstants
  BY <1>3, OfRun
<1>5. image[r] = "none" /\ run[r].vm = NoRun
  BY <1>1, <1>4 DEF RunInv, Early
<1>6. Ages(r) /\ PlatformTypes' /\ image'[r] = "live"
  BY <1>1, <1>4, <1>5 DEF Ages, PlatformTypes
<1>7. Known(Ids(s.mem))' /\ Known(s.still)'
  BY <1>2, <1>4, <1>6, KnownStays, OutstandingType DEF RunInv
<1>8. RunInv(r, s)'
  BY <1>1, <1>2, <1>4, <1>5, <1>6, <1>7 DEF RunInv, Early
<1>9. ImageHeld(r, s, f)'
  <2>1. s.kind = "run" => s.mem.image = NoRun
    BY <1>2, <1>4, <1>5, FieldsKnown DEF RunInv
  <2> QED
    BY <2>1 DEF ImageHeld
<1>10. VmHeld(r, s, f)'
  BY <1>1, <1>2, <1>4 DEF VmHeld
<1> QED
  BY <1>1, <1>2, <1>3, <1>5, <1>6, <1>8, <1>9, <1>10, QuietMove

\* The body ends, by its failure or an interrupt.
LEMMA BodyEndsKeeps ==
  ASSUME LedgerInv, NEW r \in Run, BuildFails(r) \/ BodyCut(r)
  PROVE  LedgerInv'
<1>1. /\ run[r].step \in Early \cup {"launched", "provisioning"} /\ run[r].step # "start"
      /\ run' = [run EXCEPT ![r].step = "over", ![r].keep = @ /\ run[r].kind = "run"]
      /\ UNCHANGED <<platform, file, term, prune, overtaken>>
  BY DEF BuildFails, BodyCut, Early
<1>2. PICK s \in RunRecord :
        /\ run' = [run EXCEPT ![r] = s] /\ s.step = "over"
        /\ s.keep = (run[r].keep /\ run[r].kind = "run")
        /\ s.kind = run[r].kind /\ s.vm = run[r].vm /\ s.mem = run[r].mem
        /\ s.still = run[r].still
  <2> DEFINE q == run[r]
             k == q.keep /\ q.kind = "run"
  <2>1. q \in RunRecord /\ k \in BOOLEAN /\ "over" \in RunStep /\ run \in [Run -> RunRecord]
    BY OfRun DEF RunStep, LedgerTypeOK, RunRecord
  <2>2. run' = [run EXCEPT ![r] = [q EXCEPT !.step = "over", !.keep = k]]
    BY <1>1, <2>1
  <2> HIDE DEF q, k
  <2> DEFINE s == [q EXCEPT !.step = "over", !.keep = k]
  <2>3. /\ s \in RunRecord /\ s.step = "over" /\ s.keep = k /\ s.kind = q.kind
        /\ s.vm = q.vm /\ s.mem = q.mem /\ s.still = q.still
    BY <2>1 DEF RunRecord
  <2> HIDE DEF s
  <2> QED
    BY <2>2, <2>3 DEF q, k, s
<1>5. PICK f \in FileState : file[r] = f
  BY OfRun
<1>6. /\ RunInv(r, run[r]) /\ VmHeld(r, run[r], f) /\ ImageHeld(r, run[r], f)
      /\ run[r].mem \in Record /\ run[r].still \in SUBSET Id /\ PlatformTypes /\ LedgerConstants
  BY <1>5, OfRun
<1>7. Ages(r) /\ PlatformTypes' /\ UNCHANGED <<vm, image, overtaken>>
  BY <1>1, <1>6, StillAges DEF platform
<1>8. Known(Ids(s.mem))' /\ Known(s.still)'
  BY <1>2, <1>6, <1>7, KnownStays, OutstandingType DEF RunInv
<1>9. RunInv(r, s)'
  BY <1>1, <1>2, <1>6, <1>7, <1>8 DEF RunInv, Early
<1>10. VmHeld(r, s, f)' /\ ImageHeld(r, s, f)'
  BY <1>2, <1>6, <1>7 DEF VmHeld, ImageHeld
<1> QED
  BY <1>1, <1>2, <1>5, <1>7, <1>9, <1>10, QuietMove

\* A command records what it has created, and marks it outstanding.
LEMMA FlushKeeps ==
  ASSUME LedgerInv, NEW r \in Run, NEW rec \in Record, NEW st \in RunStep, Flush(r, rec, st),
         Ages(r), PlatformTypes', UNCHANGED <<vm, term, prune, overtaken>>,
         st \notin {"start", "built", "deletingImage", "deleted", "clearing"},
         rec.leaked \in {{}, Named(rec)}, rec.vm \in {NoRun, run[r].vm},
         st \in Early => run[r].vm = NoRun,
         st \in Early \cup {"launched", "provisioning", "over", "settled"} => rec.leaked = {},
         st = "provisioning" \/ (st = "settled" /\ run[r].keep) => rec.vm = run[r].vm,
         st = "over" /\ run[r].kind = "agent" => ~run[r].keep,
         st = "done" /\ vm[r] = "live" => rec.vm = r,
         run[r].kind = "run" => rec.image \in {NoRun, r},
         rec.image # NoRun => image'[rec.image] # "none",
         run[r].vm # NoRun => rec.image = run[r].mem.image
  PROVE  LedgerInv'
<1>1. PICK s \in RunRecord, f \in FileState :
        /\ run' = [run EXCEPT ![r] = s] /\ s.step = st /\ s.kind = run[r].kind
        /\ s.keep = run[r].keep /\ s.vm = run[r].vm /\ s.mem = rec
        /\ s.still = run[r].still
        /\ file' = [file EXCEPT ![r] = f] /\ f \in {rec, Torn}
  BY Flushes, OfRun
<1>2. RunInv(r, run[r]) /\ run[r].still \in SUBSET Id /\ LedgerConstants
  BY OfRun
<1>3. Known(s.still)'
  BY <1>1, <1>2, KnownStays DEF RunInv
<1>4. rec.vm # NoRun => vm'[rec.vm] # "none"
  BY <1>2 DEF RunInv
<1>5. Known(Ids(s.mem))'
  <2>1. Known({})'
    BY DEF Known
  <2>2. Known(Named(rec))' /\ (Known(rec.leaked)' => Known(Ids(rec))')
    BY <1>2, <1>4, NamedKnown
  <2> QED
    BY <1>1, <2>1, <2>2
<1>6. RunInv(r, s)'
  BY <1>1, <1>2, <1>3, <1>5 DEF RunInv
<1> QED
  BY <1>1, <1>6, PlainFlush

LEMMA RecordImageKeeps ==
  ASSUME LedgerInv, NEW r \in Run, RecordImage(r)
  PROVE  LedgerInv'
<1> DEFINE m == run[r].mem
           rec == [m EXCEPT !.image = r]
<1>1. run[r].step = "built" /\ Flush(r, rec, "ready")
      /\ UNCHANGED <<platform, term, prune, overtaken>>
  BY DEF RecordImage
<1>2. RunInv(r, run[r]) /\ m \in Record /\ PlatformTypes /\ {} \in SUBSET Id
  BY OfRun
<1>3. Ages(r) /\ PlatformTypes' /\ UNCHANGED <<vm, image>>
  BY <1>1, <1>2, StillAges DEF platform
<1>4. rec \in Record /\ rec.vm = m.vm /\ rec.image = r /\ rec.leaked = m.leaked
  <2> HIDE DEF m
  <2> QED
    BY <1>2, RecordWith
<1>5. /\ run[r].vm = NoRun /\ m.leaked = {} /\ image[r] # "none" /\ m.vm \in {NoRun, run[r].vm}
  BY <1>1, <1>2 DEF RunInv, Early
<1>6. "ready" \in RunStep /\ "ready" \in Early
  BY DEF RunStep, Early
<1> HIDE DEF rec, m
<1> QED
  BY <1>1, <1>3, <1>4, <1>5, <1>6, FlushKeeps

LEMMA RecordVmLogGroupKeeps ==
  ASSUME LedgerInv, NEW r \in Run, RecordVmLogGroup(r)
  PROVE  LedgerInv'
<1> DEFINE m == run[r].mem
<1>1. run[r].step = "ready" /\ Flush(r, m, "named")
      /\ UNCHANGED <<platform, term, prune, overtaken>>
  BY DEF RecordVmLogGroup
<1>2. RunInv(r, run[r]) /\ m \in Record /\ PlatformTypes /\ LedgerConstants
  BY OfRun
<1>3. Ages(r) /\ PlatformTypes' /\ UNCHANGED <<vm, image>>
  BY <1>1, <1>2, StillAges DEF platform
<1>4. /\ run[r].vm = NoRun /\ m.leaked = {} /\ m.vm \in {NoRun, run[r].vm}
      /\ run[r].kind = "run" => m.image \in {NoRun, r}
      /\ m.image # NoRun => image[m.image] # "none"
  BY <1>1, <1>2, FieldsKnown DEF RunInv, Early
<1>5. "named" \in RunStep /\ "named" \in Early
  BY DEF RunStep, Early
<1> HIDE DEF m
<1> QED
  BY <1>1, <1>2, <1>3, <1>4, <1>5, FlushKeeps

\* run goes on with an image that is there; agent-up makes sure of one.
LEMMA ReuseKeeps ==
  ASSUME LedgerInv, NEW r \in Run, NEW i \in Run, Reuse(r, i)
  PROVE  LedgerInv'
<1>1. run[r].step = "start" /\ UNCHANGED <<vm, term, prune, overtaken>>
  BY DEF Reuse, Starts
<1>2. PICK f \in FileState : file[r] = f
  BY OfRun
<1>3. /\ RunInv(r, run[r]) /\ VmHeld(r, run[r], f) /\ ImageHeld(r, run[r], f)
      /\ run[r].mem \in Record /\ run[r].still \in SUBSET Id /\ PlatformTypes /\ LedgerConstants
  BY <1>2, OfRun
<1>4. "ready" \in RunStep /\ "ready" \in Early /\ {} \in SUBSET Id
  BY DEF RunStep, Early
<1>5. run[r].vm = NoRun /\ run[r].mem.leaked = {} /\ image[r] = "none"
      /\ run[r].mem.vm \in {NoRun, run[r].vm}
  BY <1>1, <1>3 DEF RunInv, Early
<1>6. CASE run[r].kind = "run"
  <2>1. Goes(r, "ready") /\ UNCHANGED <<image, file>>
    BY <1>6 DEF Reuse
  <2>2. PICK s \in RunRecord :
          /\ run' = [run EXCEPT ![r] = s] /\ s.step = "ready" /\ s.kind = run[r].kind
          /\ s.keep = run[r].keep /\ s.vm = run[r].vm /\ s.mem = run[r].mem
          /\ s.still = run[r].still
    BY <1>4, <2>1, GoesTo, OfRun
  <2>3. Ages(r) /\ PlatformTypes'
    BY <1>1, <1>3, <2>1, StillAges DEF platform
  <2>4. Known(Ids(s.mem))' /\ Known(s.still)'
    BY <1>3, <2>2, <2>3, KnownStays, OutstandingType DEF RunInv
  <2>5. RunInv(r, s)'
    BY <1>1, <1>3, <1>4, <1>5, <2>1, <2>2, <2>4 DEF RunInv, Early
  <2>6. VmHeld(r, s, f)' /\ ImageHeld(r, s, f)'
    BY <1>1, <1>3, <2>1, <2>2 DEF VmHeld, ImageHeld
  <2> QED
    BY <1>1, <1>2, <1>5, <2>1, <2>2, <2>3, <2>5, <2>6, QuietMove
<1>7. CASE run[r].kind = "agent"
  <2> DEFINE m == run[r].mem
             rec == [m EXCEPT !.image = i]
  <2>1. /\ i = r \/ image[i] = "live"
        /\ image' = [image EXCEPT ![i] = "live"] /\ Flush(r, rec, "ready")
    BY <1>7 DEF Reuse
  <2>2. rec \in Record /\ rec.vm = m.vm /\ rec.image = i /\ rec.leaked = m.leaked
    BY <1>3, <1>4, RecordWith
  <2>3. Ages(r) /\ PlatformTypes' /\ image'[i] = "live"
    BY <1>1, <1>3, <1>5, <2>1 DEF Ages, PlatformTypes
  <2> HIDE DEF rec
  <2> QED
    BY <1>1, <1>4, <1>5, <1>7, <2>1, <2>2, <2>3, FlushKeeps
<1> QED
  BY <1>6, <1>7 DEF Reuse

LEMMA LaunchKeeps ==
  ASSUME LedgerInv, NEW r \in Run, NEW v \in Run, Launch(r, v)
  PROVE  LedgerInv'
<1>1. /\ run[r].step \in {"ready", "named"} /\ (IF v = r THEN vm[r] = "none" ELSE vm[v] = "live")
      /\ vm' = [vm EXCEPT ![v] = "live"]
      /\ run' = [run EXCEPT ![r].step = "launched", ![r].vm = v]
      /\ UNCHANGED <<image, file, term, prune, overtaken>>
  BY DEF Launch
<1>2. PICK s \in RunRecord :
        /\ run' = [run EXCEPT ![r] = s] /\ s.step = "launched" /\ s.vm = v
        /\ s.kind = run[r].kind /\ s.keep = run[r].keep /\ s.mem = run[r].mem
        /\ s.still = run[r].still
  <2> DEFINE q == run[r]
             s == [q EXCEPT !.step = "launched", !.vm = v]
  <2>1. q \in RunRecord /\ "launched" \in RunStep /\ run \in [Run -> RunRecord]
    BY OfRun DEF RunStep, LedgerTypeOK, RunRecord
  <2>2. run' = [run EXCEPT ![r] = s]
    BY <1>1, <2>1
  <2>3. /\ s \in RunRecord /\ s.step = "launched" /\ s.vm = v /\ s.kind = q.kind
        /\ s.keep = q.keep /\ s.mem = q.mem /\ s.still = q.still
    BY <2>1 DEF RunRecord
  <2> HIDE DEF s
  <2> QED
    BY <2>2, <2>3
<1>3. PICK f \in FileState : file[r] = f
  BY OfRun
<1>4. /\ RunInv(r, run[r]) /\ VmHeld(r, run[r], f) /\ ImageHeld(r, run[r], f)
      /\ run[r].mem \in Record /\ run[r].still \in SUBSET Id /\ PlatformTypes /\ LedgerConstants
      /\ r # NoRun /\ v # NoRun
  BY <1>3, OfRun DEF LedgerConstants
<1>5. run[r].vm = NoRun /\ vm[r] = "none" /\ run[r].mem.leaked = {} /\ run[r].mem.vm = NoRun
  BY <1>1, <1>4 DEF RunInv, Early
<1>6. Ages(r) /\ PlatformTypes' /\ vm'[v] = "live" /\ (v # r => vm'[r] = "none")
  BY <1>1, <1>4, <1>5 DEF Ages, PlatformTypes
<1>7. Known(Ids(s.mem))' /\ Known(s.still)'
  BY <1>2, <1>4, <1>6, KnownStays, OutstandingType DEF RunInv
<1>8. RunInv(r, s)'
  BY <1>1, <1>2, <1>4, <1>5, <1>6, <1>7 DEF RunInv, Early
<1>9. VmHeld(r, s, f)' /\ ImageHeld(r, s, f)'
  BY <1>1, <1>2, <1>4, <1>5 DEF VmHeld, ImageHeld
<1> QED
  BY <1>1, <1>2, <1>3, <1>5, <1>6, <1>8, <1>9, QuietMove

LEMMA RecordLaunchKeeps ==
  ASSUME LedgerInv, NEW r \in Run, RecordLaunch(r)
  PROVE  LedgerInv'
<1> DEFINE m == run[r].mem
           v == run[r].vm
           rec == [m EXCEPT !.vm = v]
           st == IF run[r].kind = "run" THEN "over" ELSE "provisioning"
<1>1. run[r].step = "launched" /\ Flush(r, rec, st)
      /\ UNCHANGED <<platform, term, prune, overtaken>>
  BY DEF RecordLaunch
<1>2. /\ RunInv(r, run[r]) /\ m \in Record /\ PlatformTypes /\ {} \in SUBSET Id
      /\ v \in Run \cup {NoRun} /\ LedgerConstants
  BY OfRun
<1>3. Ages(r) /\ PlatformTypes' /\ UNCHANGED <<vm, image>>
  BY <1>1, <1>2, StillAges DEF platform
<1>4. rec \in Record /\ rec.vm = v /\ rec.image = m.image /\ rec.leaked = m.leaked
  <2> HIDE DEF m, v
  <2> QED
    BY <1>2, RecordWith
<1>5. /\ m.leaked = {} /\ (run[r].kind = "run" => m.image \in {NoRun, r})
      /\ m.image # NoRun => image[m.image] # "none"
  BY <1>1, <1>2, FieldsKnown DEF RunInv
<1>6. /\ st \in RunStep /\ st \in {"over", "provisioning"} /\ st \notin Early
      /\ ~(st = "over" /\ run[r].kind = "agent")
  BY DEF RunStep, Early
<1> HIDE DEF rec, m, v, st
<1>7. /\ st \notin {"start", "built", "deletingImage", "deleted", "clearing"}
      /\ ~(st = "settled" /\ run[r].keep) /\ st # "done"
  BY <1>6
<1>8. run[r].mem = m /\ run[r].vm = v
  BY DEF m, v
<1> QED
  BY <1>1, <1>3, <1>4, <1>5, <1>6, <1>7, <1>8, FlushKeeps

\* A step of a process after its launch that leaves its record alone.
LEMMA LateMove ==
  ASSUME LedgerInv, NEW r \in Run, Ages(NoRun), PlatformTypes',
         NEW s \in RunRecord, run' = [run EXCEPT ![r] = s],
         UNCHANGED <<file, term, prune, overtaken>>,
         s.mem = run[r].mem, s.kind = run[r].kind, s.vm = run[r].vm, Known(s.still)',
         s.step \in {"settled", "done", "deletingImage", "deleted"},
         s.step = "settled" => s.mem.leaked = {} /\ (s.keep => s.mem.vm = s.vm),
         vm'[r] = "live" /\ s.step \in {"deletingImage", "deleted"} => VmId(r) \in s.still,
         vm'[r] = "live" => s.step # "done",
         s.step = "deleted" /\ s.kind = "run" /\ s.mem.image # NoRun =>
           GroupId(r) \in s.still /\ (image'[r] = "live" => ImageId(r) \in s.still)
  PROVE  LedgerInv'
<1>1. PICK q \in RunRecord, f \in FileState : run[r] = q /\ file[r] = f
  BY OfRun
<1>2. RunHeld(r, q, f) /\ LedgerConstants /\ r # NoRun
  BY <1>1, OfRun DEF RunHeld
<1>3. RunHeld(r, q, f)'
  BY <1>2, OtherRunHeld
<1>4. Ages(r)
  BY <1>2 DEF Ages, LedgerConstants
<1>5. RunInv(r, s)'
  BY <1>1, <1>3 DEF RunHeld, RunInv, Early
<1>6. VmHeld(r, s, f)' /\ ImageHeld(r, s, f)'
  BY <1>1, <1>3 DEF RunHeld, VmHeld, ImageHeld
<1> QED
  BY <1>1, <1>4, <1>5, <1>6, QuietMove

LEMMA ProvisionedKeeps ==
  ASSUME LedgerInv, NEW r \in Run, Provisioned(r)
  PROVE  LedgerInv'
<1>1. /\ run[r].step = "provisioning" /\ run' = [run EXCEPT ![r].step = "settled", ![r].keep = TRUE]
      /\ UNCHANGED <<platform, file, term, prune, overtaken>>
  BY DEF Provisioned
<1>2. PICK s \in RunRecord :
        /\ run' = [run EXCEPT ![r] = s] /\ s.step = "settled"
        /\ s.kind = run[r].kind /\ s.vm = run[r].vm /\ s.mem = run[r].mem
        /\ s.still = run[r].still
  <2> DEFINE q == run[r]
             s == [q EXCEPT !.step = "settled", !.keep = TRUE]
  <2>1. q \in RunRecord /\ "settled" \in RunStep /\ run \in [Run -> RunRecord]
    BY OfRun DEF RunStep, LedgerTypeOK, RunRecord
  <2>2. run' = [run EXCEPT ![r] = s]
    BY <1>1, <2>1
  <2>3. /\ s \in RunRecord /\ s.step = "settled" /\ s.kind = q.kind
        /\ s.vm = q.vm /\ s.mem = q.mem /\ s.still = q.still
    BY <2>1 DEF RunRecord
  <2> HIDE DEF s
  <2> QED
    BY <2>2, <2>3
<1>3. RunInv(r, run[r]) /\ run[r].still \in SUBSET Id /\ PlatformTypes
  BY OfRun
<1>4. Ages(NoRun) /\ PlatformTypes'
  BY <1>1, <1>3, StillAges
<1>5. Known(s.still)' /\ s.mem.leaked = {} /\ s.mem.vm = s.vm
  BY <1>1, <1>2, <1>3, <1>4, KnownStays DEF RunInv
<1> QED
  BY <1>1, <1>2, <1>4, <1>5, LateMove

\* The record gets the VM the handle has, whatever ended the body.
LEMMA AfterSelectKeeps ==
  ASSUME LedgerInv, NEW r \in Run, AfterSelect(r)
  PROVE  LedgerInv'
<1> DEFINE m == run[r].mem
           v == run[r].vm
           rec == [m EXCEPT !.vm = v]
<1>1. /\ run[r].step = "over" /\ run[r].kind = "run"
      /\ UNCHANGED <<platform, term, prune, overtaken>>
      /\ \/ Flush(r, rec, "settled")
         \/ v = NoRun /\ Goes(r, "settled") /\ UNCHANGED file
  BY DEF AfterSelect
<1>2. /\ RunInv(r, run[r]) /\ m \in Record /\ PlatformTypes /\ {} \in SUBSET Id
      /\ v \in Run \cup {NoRun} /\ LedgerConstants /\ run[r].still \in SUBSET Id
  BY OfRun
<1>3. Ages(r) /\ Ages(NoRun) /\ PlatformTypes' /\ UNCHANGED <<vm, image>>
  BY <1>1, <1>2, StillAges DEF platform
<1>4. rec \in Record /\ rec.vm = v /\ rec.image = m.image /\ rec.leaked = m.leaked
  <2> HIDE DEF m, v
  <2> QED
    BY <1>2, RecordWith
<1>5. /\ m.leaked = {} /\ m.image \in {NoRun, r} /\ m.vm \in {NoRun, v}
      /\ m.image # NoRun => image[m.image] # "none"
  BY <1>1, <1>2, FieldsKnown DEF RunInv
<1>6. "settled" \in RunStep /\ "settled" \notin Early
  BY DEF RunStep, Early
<1> HIDE DEF rec, m, v
<1>7. run[r].mem = m /\ run[r].vm = v
  BY DEF m, v
<1>8. CASE Flush(r, rec, "settled")
  BY <1>1, <1>3, <1>4, <1>5, <1>6, <1>7, <1>8, FlushKeeps
<1>9. CASE v = NoRun /\ Goes(r, "settled") /\ UNCHANGED file
  <2>1. PICK s \in RunRecord :
        /\ run' = [run EXCEPT ![r] = s] /\ s.step = "settled" /\ s.kind = run[r].kind
        /\ s.keep = run[r].keep /\ s.vm = run[r].vm /\ s.mem = run[r].mem
        /\ s.still = run[r].still
    BY <1>6, <1>9, GoesTo, OfRun
  <2>2. Known(s.still)'
    BY <1>2, <1>3, <2>1, KnownStays DEF RunInv
  <2> QED
    BY <1>1, <1>3, <1>5, <1>7, <1>9, <2>1, <2>2, LateMove
<1> QED
  BY <1>1, <1>8, <1>9

LEMMA AgentFailedKeeps ==
  ASSUME LedgerInv, NEW r \in Run, AgentFailed(r)
  PROVE  LedgerInv'
<1> DEFINE st == IF run[r].vm = NoRun THEN "done" ELSE "settled"
<1>1. /\ run[r].step = "over" /\ run[r].kind = "agent" /\ Goes(r, st)
      /\ UNCHANGED <<platform, file, term, prune, overtaken>>
  BY DEF AgentFailed
<1>2. st \in RunStep /\ st \in {"done", "settled"} /\ (st = "done" => run[r].vm = NoRun)
  BY DEF RunStep
<1> HIDE DEF st
<1>3. PICK s \in RunRecord :
        /\ run' = [run EXCEPT ![r] = s] /\ s.step = st /\ s.kind = run[r].kind
        /\ s.keep = run[r].keep /\ s.vm = run[r].vm /\ s.mem = run[r].mem
        /\ s.still = run[r].still
  BY <1>1, <1>2, GoesTo, OfRun
<1>4. RunInv(r, run[r]) /\ run[r].still \in SUBSET Id /\ PlatformTypes /\ r # NoRun
  BY OfRun
<1>5. Ages(NoRun) /\ PlatformTypes' /\ UNCHANGED vm
  BY <1>1, <1>4, StillAges DEF platform
<1>6. Known(s.still)' /\ s.mem.leaked = {} /\ ~s.keep /\ (vm[r] # "none" => run[r].vm = r)
  BY <1>1, <1>3, <1>4, <1>5, KnownStays DEF RunInv
<1> QED
  BY <1>1, <1>2, <1>3, <1>4, <1>5, <1>6, LateMove

-----------------------------------------------------------------------------
(* The commands that tear down what they created, and their deaths.        *)

LEMMA MarkOutstandingKeeps ==
  ASSUME LedgerInv, NEW r \in Run, MarkOutstanding(r)
  PROVE  LedgerInv'
<1> DEFINE m == run[r].mem
           rec == [m EXCEPT !.leaked = Named(m)]
           st == IF run[r].keep THEN "done" ELSE "deleting"
<1>1. run[r].step = "settled" /\ Flush(r, rec, st)
      /\ UNCHANGED <<platform, term, prune, overtaken>>
  BY DEF MarkOutstanding
<1>2. /\ RunInv(r, run[r]) /\ m \in Record /\ PlatformTypes /\ LedgerConstants
  BY OfRun
<1>3. Ages(r) /\ PlatformTypes' /\ UNCHANGED <<vm, image>>
  BY <1>1, <1>2, StillAges DEF platform
<1>4. rec \in Record /\ rec.vm = m.vm /\ rec.image = m.image /\ rec.leaked = Named(rec)
  <2> HIDE DEF m
  <2>1. /\ rec \in Record /\ rec.vm = m.vm /\ rec.image = m.image /\ rec.leaked = Named(m)
    <3>1. Named(m) \in SUBSET Id /\ NoRun \in Run \cup {NoRun}
      BY <1>2, NamedType
    <3> QED
      BY <1>2, <3>1, RecordWith
  <2> HIDE DEF rec
  <2> QED
    BY <2>1 DEF Named
<1>5. /\ m.vm \in {NoRun, run[r].vm} /\ (run[r].kind = "run" => m.image \in {NoRun, r})
      /\ m.image # NoRun => image[m.image] # "none"
      /\ run[r].keep => m.vm = run[r].vm
      /\ vm[r] # "none" => run[r].vm = r
  BY <1>1, <1>2, FieldsKnown DEF RunInv
<1>6. /\ st \in RunStep /\ st \in {"done", "deleting"} /\ st \notin Early
      /\ st = "done" => run[r].keep
  BY DEF RunStep, Early
<1> HIDE DEF rec, m, st
<1>7. /\ st \notin {"start", "built", "deletingImage", "deleted", "clearing"}
      /\ st \notin {"launched", "provisioning", "over", "settled"}
      /\ st = "done" /\ vm[r] = "live" => rec.vm = r
  BY <1>4, <1>5, <1>6
<1>8. run[r].mem = m
  BY DEF m
<1> QED
  BY <1>1, <1>3, <1>4, <1>5, <1>6, <1>7, <1>8, FlushKeeps

\* A process goes on in its teardown with another list of what is left.
LeavesWith(r, st, ids) == run' = [run EXCEPT ![r].step = st, ![r].still = ids]

LEMMA StillMoves ==
  ASSUME LedgerTypeOK, NEW r \in Run, NEW st \in RunStep, NEW ids \in SUBSET Id,
         LeavesWith(r, st, ids)
  PROVE  \E s \in RunRecord :
           /\ run' = [run EXCEPT ![r] = s] /\ s.step = st /\ s.still = ids
           /\ s.kind = run[r].kind /\ s.vm = run[r].vm /\ s.mem = run[r].mem
<1> DEFINE q == run[r]
           s == [q EXCEPT !.step = st, !.still = ids]
<1>1. q \in RunRecord /\ run \in [Run -> RunRecord]
  BY RunFields DEF LedgerTypeOK, RunRecord
<1>2. run' = [run EXCEPT ![r] = s]
  BY <1>1 DEF LeavesWith
<1>3. /\ s \in RunRecord /\ s.step = st /\ s.still = ids /\ s.kind = q.kind
      /\ s.vm = q.vm /\ s.mem = q.mem
  BY <1>1 DEF RunRecord
<1> HIDE DEF s
<1> QED
  BY <1>2, <1>3

LEMMA TerminateVmKeeps ==
  ASSUME LedgerInv, NEW r \in Run, TerminateVm(r)
  PROVE  LedgerInv'
<1>1. run[r].step = "deleting" /\ UNCHANGED <<image, file, term, prune, overtaken>>
      /\ "deletingImage" \in RunStep
  BY DEF TerminateVm, RunStep
<1>2. /\ RunInv(r, run[r]) /\ run[r].still \in SUBSET Id /\ PlatformTypes /\ r # NoRun
      /\ run[r].vm \in Run \cup {NoRun} /\ LedgerTypeOK /\ LedgerConstants
  BY OfRun
<1>3. (vm[r] # "none" => run[r].vm = r) /\ (run[r].vm # NoRun => vm[run[r].vm] # "none")
  BY <1>2 DEF RunInv
<1>4. Ages(NoRun) /\ PlatformTypes'
  <2>1. CASE UNCHANGED vm
    BY <1>1, <1>2, <2>1, StillAges DEF platform
  <2>2. CASE run[r].vm # NoRun /\ vm' \in {vm, [vm EXCEPT ![run[r].vm] = "gone"]}
    BY <1>1, <1>2, <1>3, <2>2, VmGoes
  <2> QED
    BY <2>1, <2>2 DEF TerminateVm
<1>5. vm'[r] = "live" => vm[r] = "live" /\ run[r].vm = r
  BY <1>2, <1>3, <1>4 DEF Ages
<1>6. PICK old \in SUBSET Id : old = run[r].still /\ Known(old)'
  BY <1>2, <1>4, KnownStays DEF RunInv
<1>7. CASE Goes(r, "deletingImage")
           /\ (run[r].vm = NoRun \/ vm' = [vm EXCEPT ![run[r].vm] = "gone"])
  <2>1. PICK s \in RunRecord :
        /\ run' = [run EXCEPT ![r] = s] /\ s.step = "deletingImage" /\ s.kind = run[r].kind
        /\ s.keep = run[r].keep /\ s.vm = run[r].vm /\ s.mem = run[r].mem
        /\ s.still = run[r].still
    BY <1>1, <1>2, <1>7, GoesTo
  <2>2. vm'[r] # "live"
    BY <1>2, <1>5, <1>7 DEF PlatformTypes
  <2> QED
    BY <1>1, <1>4, <1>6, <2>1, <2>2, LateMove
<1>8. CASE /\ run[r].vm # NoRun
           /\ run' = [run EXCEPT ![r].step = "deletingImage", ![r].still = {VmId(run[r].vm)}]
  <2>1. PICK v \in Run : v = run[r].vm /\ vm'[v] # "none"
    BY <1>2, <1>3, <1>4, <1>8 DEF Ages
  <2>2. /\ {VmId(v)} \in SUBSET Id /\ Known({VmId(v)})'
        /\ vm'[r] = "live" => VmId(r) \in {VmId(v)}
    BY <1>5, <2>1, IdFields DEF Known, Created
  <2>3. LeavesWith(r, "deletingImage", {VmId(v)})
    BY <1>8, <2>1 DEF LeavesWith
  <2>4. PICK s \in RunRecord :
          /\ run' = [run EXCEPT ![r] = s] /\ s.step = "deletingImage" /\ s.still = {VmId(v)}
          /\ s.kind = run[r].kind /\ s.vm = run[r].vm /\ s.mem = run[r].mem
    BY <1>1, <1>2, <2>2, <2>3, StillMoves
  <2> QED
    BY <1>1, <1>4, <2>2, <2>4, LateMove
<1> QED
  BY <1>7, <1>8 DEF TerminateVm

LEMMA DeleteImageKeeps ==
  ASSUME LedgerInv, NEW r \in Run, DeleteImage(r)
  PROVE  LedgerInv'
<1>1. run[r].step = "deletingImage" /\ UNCHANGED <<vm, file, term, prune, overtaken>>
      /\ "deleted" \in RunStep
  BY DEF DeleteImage, RunStep
<1>2. /\ RunInv(r, run[r]) /\ VmHeld(r, run[r], file[r]) /\ run[r].still \in SUBSET Id
      /\ PlatformTypes /\ r # NoRun /\ run[r].mem \in Record /\ LedgerTypeOK /\ LedgerConstants
  BY OfRun
<1>3. /\ run[r].kind = "run" => run[r].mem.image \in {NoRun, r}
      /\ run[r].mem.image # NoRun => image[run[r].mem.image] # "none"
      /\ vm[r] = "live" => VmId(r) \in run[r].still
  BY <1>1, <1>2, FieldsKnown DEF RunInv, VmHeld
<1>4. CASE (run[r].kind = "agent" \/ run[r].mem.image = NoRun) /\ UNCHANGED image
           /\ Goes(r, "deleted")
  <2>1. PICK s \in RunRecord :
        /\ run' = [run EXCEPT ![r] = s] /\ s.step = "deleted" /\ s.kind = run[r].kind
        /\ s.keep = run[r].keep /\ s.vm = run[r].vm /\ s.mem = run[r].mem
        /\ s.still = run[r].still
    BY <1>1, <1>2, <1>4, GoesTo
  <2>2. Ages(NoRun) /\ PlatformTypes'
    BY <1>1, <1>2, <1>4, StillAges DEF platform
  <2>3. Known(s.still)'
    BY <1>2, <2>1, <2>2, KnownStays DEF RunInv
  <2> QED
    BY <1>1, <1>3, <1>4, <2>1, <2>2, <2>3, LateMove
<1>5. CASE run[r].kind = "run" /\ run[r].mem.image # NoRun
  <2>1. run[r].mem.image = r /\ image[r] # "none"
    BY <1>3, <1>5
  <2>2. PICK left \in {{}, {ImageId(r)}} :
          /\ image' = IF left = {} THEN [image EXCEPT ![r] = "gone"] ELSE image
          /\ run' = [run EXCEPT ![r].step = "deleted", ![r].still = @ \cup left \cup {GroupId(r)}]
    BY <1>5, <2>1 DEF DeleteImage
  <2>3. Ages(NoRun) /\ PlatformTypes'
    BY <1>1, <1>2, <2>1, <2>2, ImageGoes
  <2>4. PICK old \in SUBSET Id : old = run[r].still /\ Known(old)'
    BY <1>2, <2>3, KnownStays DEF RunInv
  <2> DEFINE ids == old \cup left \cup {GroupId(r)}
  <2>5. ids \in SUBSET Id /\ LeavesWith(r, "deleted", ids)
    <3>1. run \in [Run -> RunRecord]
      BY <1>2 DEF LedgerTypeOK, RunRecord
    <3>2. run[r].still = old
      BY <2>4
    <3>3. run' = [run EXCEPT ![r].step = "deleted", ![r].still = ids]
      BY <2>2, <3>1, <3>2 DEF RunRecord
    <3> QED
      BY <3>3, IdFields DEF LeavesWith
  <2>6. Known(ids)'
    <3>1. image'[r] # "none"
      BY <2>1, <2>3 DEF Ages
    <3> QED
      BY <2>4, <3>1, IdFields DEF Known, Created
  <2>7. /\ vm'[r] = "live" => VmId(r) \in ids
        /\ GroupId(r) \in ids
        /\ image'[r] = "live" => ImageId(r) \in ids
    <3>1. left = {} => image'[r] = "gone"
      BY <1>2, <2>2 DEF PlatformTypes
    <3> QED
      BY <1>1, <1>3, <2>4, <3>1
  <2> HIDE DEF ids
  <2>8. PICK s \in RunRecord :
          /\ run' = [run EXCEPT ![r] = s] /\ s.step = "deleted" /\ s.still = ids
          /\ s.kind = run[r].kind /\ s.vm = run[r].vm /\ s.mem = run[r].mem
    BY <1>1, <1>2, <2>5, StillMoves
  <2>9. Known(s.still)'
    BY <2>6, <2>8
  <2> QED
    BY <1>1, <2>3, <2>7, <2>8, <2>9, LateMove
<1> QED
  BY <1>4, <1>5 DEF DeleteImage

LEMMA MarkDeletedKeeps ==
  ASSUME LedgerInv, NEW r \in Run, MarkDeleted(r)
  PROVE  LedgerInv'
<1>1. PICK m \in Record, left \in SUBSET Id : run[r].mem = m /\ run[r].still = left
  BY OfRun
<1> DEFINE rec == [m EXCEPT !.leaked = left]
<1>2. /\ run[r].step = "deleted" /\ Flush(r, rec, "clearing") /\ "clearing" \in RunStep
      /\ UNCHANGED <<platform, term, prune, overtaken>>
  BY <1>1 DEF MarkDeleted, RunStep
<1>3. rec \in Record /\ rec.vm = m.vm /\ rec.image = m.image /\ rec.leaked = left
  <2>1. NoRun \in Run \cup {NoRun}
    OBVIOUS
  <2> QED
    BY <2>1, RecordWith
<1> HIDE DEF rec
<1>4. /\ RunInv(r, run[r]) /\ VmHeld(r, run[r], file[r]) /\ ImageHeld(r, run[r], file[r])
      /\ PlatformTypes /\ LedgerConstants /\ LedgerTypeOK
  BY OfRun
<1>5. PICK s \in RunRecord, f \in FileState :
        /\ run' = [run EXCEPT ![r] = s] /\ s.step = "clearing" /\ s.kind = run[r].kind
        /\ s.keep = run[r].keep /\ s.vm = run[r].vm /\ s.mem = rec
        /\ s.still = left
        /\ file' = [file EXCEPT ![r] = f] /\ f \in {rec, Torn}
  BY <1>1, <1>2, <1>3, <1>4, Flushes
<1>6. Ages(r) /\ PlatformTypes' /\ UNCHANGED <<vm, image>>
  BY <1>2, <1>4, StillAges DEF platform
<1>7. Known(Ids(rec))' /\ Known(left)'
  <2>1. Known(left)'
    BY <1>1, <1>4, <1>6, KnownStays DEF RunInv
  <2>2. Known(Ids(m))
    BY <1>1, <1>4 DEF RunInv
  <2>3. /\ rec.vm # NoRun => vm'[rec.vm] # "none"
        /\ rec.image # NoRun => image'[rec.image] # "none"
    BY <1>3, <1>4, <1>6, <2>2, FieldsKnown
  <2>4. Known(rec.leaked)'
    BY <1>3, <2>1
  <2> QED
    BY <1>3, <1>4, <2>1, <2>3, <2>4, NamedKnown
<1>8. RunInv(r, s)'
  BY <1>1, <1>3, <1>4, <1>5, <1>6, <1>7 DEF RunInv, Early
<1>9. \A id \in left : Keeps(f, id)
  BY <1>3, <1>5, RecordFields DEF Keeps, Outstanding
<1>10. /\ vm'[r] = "live" => VmId(r) \in left
       /\ s.kind = "run" /\ rec.image # NoRun =>
            GroupId(r) \in left /\ (image'[r] = "live" => ImageId(r) \in left)
  BY <1>1, <1>2, <1>3, <1>4, <1>5, <1>6 DEF VmHeld, ImageHeld
<1>11. VmHeld(r, s, f)' /\ ImageHeld(r, s, f)'
  BY <1>3, <1>5, <1>9, <1>10 DEF VmHeld, ImageHeld
<1>12. FileInv(s, f)'
  BY <1>1, <1>3, <1>4, <1>5, <1>7, BlankFields DEF FileInv, RunInv, Readable
<1>13. s.mem.image = run[r].mem.image
  BY <1>1, <1>3, <1>5
<1> QED
  BY <1>2, <1>5, <1>6, <1>8, <1>11, <1>12, <1>13, RunMoves DEF RunHeld

\* A process ends, and its file stays, or goes when nothing is left to name.
LEMMA EndsKeeps ==
  ASSUME LedgerInv, NEW r \in Run, NEW st \in {"done", "crashed"}, Ends(r, st),
         UNCHANGED <<platform, term, prune, overtaken>>,
         NEW f \in FileState, file' = [file EXCEPT ![r] = f],
         st = "done" => run[r].step = "clearing",
         f # file[r] => /\ f = Absent /\ vm[r] # "live"
                        /\ ~(run[r].kind = "run" /\ run[r].mem.image # NoRun)
  PROVE  LedgerInv'
<1>1. PICK q \in RunRecord, m \in Record, g \in FileState :
        run[r] = q /\ q.mem = m /\ file[r] = g
  BY OfRun DEF RunRecord
<1>2. RunInv(r, q) /\ VmHeld(r, q, g) /\ ImageHeld(r, q, g) /\ FileInv(q, g)
      /\ PlatformTypes /\ LedgerConstants /\ LedgerTypeOK
  BY <1>1, OfRun
<1>3. Ages(r) /\ PlatformTypes' /\ UNCHANGED <<vm, image>>
  BY <1>2, StillAges DEF platform
<1>4. PICK s \in RunRecord :
        /\ run' = [run EXCEPT ![r] = s]
        /\ s.step = st /\ s.keep = FALSE /\ s.still = {} /\ s.kind = q.kind /\ s.vm = q.vm
        /\ s.mem = [m EXCEPT !.leaked = {}]
  <2>1. st \in RunStep
    BY DEF RunStep
  <2>2. PICK s \in RunRecord :
           /\ s = [q EXCEPT !.step = st, !.keep = FALSE, !.still = {}, !.mem.leaked = {}]
           /\ s.step = st /\ s.keep = FALSE /\ s.still = {} /\ s.kind = q.kind /\ s.vm = q.vm
           /\ s.mem = [q.mem EXCEPT !.leaked = {}]
    BY <2>1, EndState
  <2>3. run \in [Run -> RunRecord]
    BY <1>2 DEF LedgerTypeOK, RunRecord
  <2>4. run' = [run EXCEPT ![r] = s]
    BY <1>1, <2>2, <2>3 DEF Ends, RunRecord
  <2> QED
    BY <1>1, <2>2, <2>4
<1>5. s.mem \in Record /\ s.mem.vm = m.vm /\ s.mem.image = m.image /\ s.mem.leaked = {}
  <2> DEFINE rec == [m EXCEPT !.leaked = {}]
  <2>1. NoRun \in Run \cup {NoRun} /\ {} \in SUBSET Id
    OBVIOUS
  <2>2. rec \in Record /\ rec.vm = m.vm /\ rec.image = m.image /\ rec.leaked = {}
    BY <2>1, RecordWith
  <2>3. s.mem = rec
    BY <1>4
  <2> HIDE DEF rec
  <2> QED
    BY <2>2, <2>3
<1>6. Known(Ids(s.mem))' /\ Known({})'
  <2>1. Known({})'
    BY DEF Known
  <2>2. Known(Ids(m))
    BY <1>1, <1>2 DEF RunInv
  <2>3. /\ m.vm # NoRun => vm'[m.vm] # "none"
        /\ m.image # NoRun => image'[m.image] # "none"
    BY <1>2, <1>3, <2>2, FieldsKnown
  <2> QED
    BY <1>2, <1>5, <2>1, <2>3, NamedKnown
<1>7. RunInv(r, s)'
  BY <1>1, <1>2, <1>3, <1>4, <1>5, <1>6 DEF RunInv, Early
<1>8. VmHeld(r, s, f)'
  BY <1>1, <1>2, <1>3, <1>4, <1>5 DEF VmHeld
<1>9. ImageHeld(r, s, f)'
  BY <1>1, <1>2, <1>3, <1>4, <1>5 DEF ImageHeld
<1>10. FileInv(s, f)'
  <2>1. Readable(f) => f = g
    BY <1>1, BlankFields DEF Readable
  <2>2. Readable(g) => Known(Ids(g))'
    BY <1>2, <1>3, FileFields, OutstandingType, KnownStays DEF FileInv
  <2> QED
    BY <1>1, <1>2, <1>4, <1>5, <2>1, <2>2 DEF FileInv
<1>11. run[r].vm # NoRun => s.vm = run[r].vm /\ s.mem.image = run[r].mem.image
  BY <1>1, <1>4, <1>5
<1> QED
  BY <1>3, <1>4, <1>7, <1>8, <1>9, <1>10, <1>11, RunMoves DEF RunHeld

LEMMA ClearKeeps ==
  ASSUME LedgerInv, NEW r \in Run, Clear(r)
  PROVE  LedgerInv'
<1>1. /\ run[r].step = "clearing" /\ Ends(r, "done")
      /\ UNCHANGED <<platform, term, prune, overtaken>>
      /\ file' = IF run[r].mem.leaked = {} THEN [file EXCEPT ![r] = Absent] ELSE file
  BY DEF Clear
<1>2. VmHeld(r, run[r], file[r]) /\ ImageHeld(r, run[r], file[r]) /\ LedgerTypeOK
  BY OfRun
<1>3. CASE run[r].mem.leaked = {}
  <2>1. Absent \in FileState
    BY DEF FileState
  <2>2. vm[r] # "live" /\ ~(run[r].kind = "run" /\ run[r].mem.image # NoRun)
    BY <1>1, <1>2, <1>3 DEF VmHeld, ImageHeld
  <2> QED
    BY <1>1, <1>3, <2>1, <2>2, EndsKeeps
<1>4. CASE run[r].mem.leaked # {}
  <2>1. PICK f \in FileState : f = file[r] /\ file' = [file EXCEPT ![r] = f]
    BY <1>1, <1>2, <1>4, SameFile
  <2> QED
    BY <1>1, <2>1, EndsKeeps
<1> QED
  BY <1>3, <1>4

LEMMA CrashKeeps ==
  ASSUME LedgerInv, NEW r \in Run, Crash(r)
  PROVE  LedgerInv'
<1>1. Ends(r, "crashed") /\ UNCHANGED <<platform, file, term, prune, overtaken>>
  BY DEF Crash
<1>2. PICK f \in FileState : f = file[r] /\ file' = [file EXCEPT ![r] = f]
  BY <1>1, OfRun, SameFile
<1> QED
  BY <1>1, <1>2, EndsKeeps

-----------------------------------------------------------------------------
(* The platform, terminate and prune.                                      *)

TermType == [step : {"idle", "terminating", "image", "narrowing"},
             target : Run \cup {NoRun}, image : Run \cup {NoRun},
             leaked : SUBSET Id, opened : Files]
PruneType == [step : {"idle", "listing", "removing"}, seen : Files]

\* A step that leaves the runs and their files alone.
LEMMA OutsideMoves ==
  ASSUME LedgerInv, Ages(NoRun), PlatformTypes', UNCHANGED <<file, run, overtaken>>,
         term' \in TermType, prune' \in PruneType, TermInv', PruneInv'
  PROVE  LedgerInv'
<1>1. LedgerTypeOK'
  BY DEF LedgerInv, LedgerTypeOK, PlatformTypes, TermType, PruneType
<1>2. ASSUME NEW o \in Run PROVE RunHeld(o, run[o], file[o])'
  <2>1. PICK q \in RunRecord, f \in FileState : run[o] = q /\ file[o] = f
    BY OfRun
  <2>2. RunHeld(o, q, f) /\ LedgerConstants /\ o # NoRun
    BY <2>1, OfRun DEF RunHeld
  <2>3. RunHeld(o, q, f)'
    BY <2>2, OtherRunHeld
  <2>4. run'[o] = q /\ file'[o] = f
    BY <2>1
  <2>5. \A x \in RunRecord, g \in FileState : x = q /\ g = f => RunHeld(o, x, g)'
    BY <2>3
  <2> QED
    BY <2>4, <2>5
<1> QED
  BY <1>1, <1>2 DEF LedgerInv, LedgerConstants

\* A step that leaves all but one file alone.
LEMMA FileMoves ==
  ASSUME LedgerInv, UNCHANGED <<platform, run>>, NEW r \in Run,
         NEW f \in FileState, file' = [file EXCEPT ![r] = f],
         overtaken \subseteq overtaken', overtaken' \subseteq Run,
         VmHeld(r, run[r], f)', ImageHeld(r, run[r], f)', FileInv(run[r], f)',
         term' \in TermType, prune' \in PruneType, TermInv', PruneInv'
  PROVE  LedgerInv'
<1>1. /\ file \in [Run -> FileState] /\ file' \in [Run -> FileState] /\ file'[r] = f
      /\ \A o \in Run : o # r => file'[o] = file[o]
  BY DEF LedgerInv, LedgerTypeOK, FileState
<1>2. LedgerTypeOK'
  BY <1>1 DEF LedgerInv, LedgerTypeOK, TermType, PruneType, FileState, platform
<1>3. PlatformTypes /\ LedgerConstants
  BY DEF LedgerInv, LedgerTypeOK, PlatformTypes
<1>4. Ages(NoRun) /\ PlatformTypes'
  BY <1>3, StillAges
<1>5. ASSUME NEW o \in Run PROVE RunHeld(o, run[o], file[o])'
  <2>1. PICK q \in RunRecord, g \in FileState : run[o] = q /\ file[o] = g
    BY OfRun
  <2>2. RunHeld(o, q, g) /\ LedgerConstants /\ o # NoRun
    BY <2>1, OfRun DEF RunHeld
  <2>3. RunHeld(o, q, g)'
    BY <1>4, <2>2, OtherRunHeld
  <2>4. run'[o] = q
    BY <2>1
  <2>5. CASE o # r
    <3>1. file'[o] = g
      BY <1>1, <2>1, <2>5
    <3>2. \A x \in RunRecord, h \in FileState : x = q /\ h = g => RunHeld(o, x, h)'
      BY <2>3
    <3> QED
      BY <2>4, <3>1, <3>2
  <2>6. CASE o = r
    <3>1. file'[o] = f
      BY <1>1, <2>6
    <3>2. VmHeld(o, q, f)' /\ ImageHeld(o, q, f)' /\ FileInv(q, f)'
      BY <2>1, <2>4, <2>6
    <3>3. RunHeld(o, q, f)'
      BY <2>3, <3>2 DEF RunHeld
    <3>4. \A x \in RunRecord, h \in FileState : x = q /\ h = f => RunHeld(o, x, h)'
      BY <3>3
    <3> QED
      BY <2>4, <3>1, <3>4
  <2> QED
    BY <2>5, <2>6
<1> QED
  BY <1>2, <1>3, <1>5 DEF LedgerInv, LedgerConstants

LEMMA OfCleaners ==
  ASSUME LedgerInv
  PROVE  /\ LedgerConstants /\ LedgerTypeOK /\ PlatformTypes /\ TermInv /\ PruneInv
         /\ term \in TermType /\ prune \in PruneType /\ NoRun \notin Run
BY DEF LedgerInv, LedgerConstants, LedgerTypeOK, PlatformTypes, TermType, PruneType

LEMMA VmEndsKeeps ==
  ASSUME LedgerInv, NEW v \in Run, VmEnds(v)
  PROVE  LedgerInv'
<1>1. /\ vm[v] = "live" /\ vm' = [vm EXCEPT ![v] = "gone"]
      /\ UNCHANGED <<image, file, run, term, prune, overtaken>>
  BY DEF VmEnds
<1>2. Ages(NoRun) /\ PlatformTypes'
  <2>1. /\ PlatformTypes /\ vm[v] # "none" /\ UNCHANGED image
        /\ vm' \in {vm, [vm EXCEPT ![v] = "gone"]}
    BY <1>1, OfCleaners
  <2> QED
    BY <2>1, VmGoes
<1>3. TermInv' /\ PruneInv'
  BY <1>1, <1>2, OfCleaners, TermStays, PruneStays
<1> QED
  BY <1>1, <1>2, <1>3, OfCleaners, OutsideMoves

LEMMA ImageEndsKeeps ==
  ASSUME LedgerInv, NEW i \in Run, ImageEnds(i)
  PROVE  LedgerInv'
<1>1. /\ image[i] = "live" /\ image' = [image EXCEPT ![i] = "gone"]
      /\ UNCHANGED <<vm, file, run, term, prune, overtaken>>
  BY DEF ImageEnds
<1>2. Ages(NoRun) /\ PlatformTypes'
  <2>1. /\ PlatformTypes /\ image[i] # "none" /\ UNCHANGED vm
        /\ image' \in {image, [image EXCEPT ![i] = "gone"]}
    BY <1>1, OfCleaners
  <2> QED
    BY <2>1, ImageGoes
<1>3. TermInv' /\ PruneInv'
  BY <1>1, <1>2, OfCleaners, TermStays, PruneStays
<1> QED
  BY <1>1, <1>2, <1>3, OfCleaners, OutsideMoves

\* Nothing happens.
LEMMA StandsStill ==
  ASSUME LedgerInv, UNCHANGED ledgerVars
  PROVE  LedgerInv'
<1>1. UNCHANGED <<platform, file, run, term, prune, overtaken>>
  BY DEF ledgerVars, platform
<1>2. Ages(NoRun) /\ PlatformTypes'
  BY <1>1, OfCleaners, StillAges
<1>3. TermInv' /\ PruneInv'
  BY <1>1, <1>2, OfCleaners, TermStays, PruneStays
<1> QED
  BY <1>1, <1>2, <1>3, OfCleaners, OutsideMoves

\* What has to be shown of the state t of terminate.
LEMMA TermMake ==
  ASSUME NEW t \in TermType, term' = t, Known(t.leaked)',
         t.step # "idle" => t.target \in Run /\ vm'[t.target] # "none",
         t.step \in {"image", "narrowing"} /\ vm'[t.target] = "live" =>
           VmId(t.target) \in t.leaked,
         t.image # NoRun => image'[t.image] # "none",
         t.step = "narrowing" /\ t.image # NoRun /\ image'[t.image] = "live" =>
           ImageId(t.image) \in t.leaked,
         \A r \in DOMAIN t.opened :
           /\ t.step # "idle" /\ Readable(t.opened[r])
           /\ t.opened[r].vm = t.target /\ run'[r].vm = t.target
           /\ t.opened[r].image = run'[r].mem.image
           /\ Known(Ids(t.opened[r]))'
  PROVE  TermInv'
<1>1. Known(term.leaked)'
  BY DEF Known
<1>2. ASSUME NEW r \in DOMAIN term'.opened PROVE Known(Ids(term.opened[r]))'
  <2>1. Known(Ids(t.opened[r]))'
    OBVIOUS
  <2>2. term'.opened[r] = t.opened[r]
    OBVIOUS
  <2> QED
    BY <2>1, <2>2 DEF Known
<1> QED
  BY <1>1, <1>2 DEF TermInv

LEMMA OpenAllForVmKeeps ==
  ASSUME LedgerInv, NEW v \in Run, NEW delete \in BOOLEAN, OpenAllForVm(v, delete)
  PROVE  LedgerInv'
<1>1. PICK g \in [Run -> FileState] : g = file
  BY DEF LedgerInv, LedgerTypeOK, FileState
<1> DEFINE named == {r \in Run : Readable(g[r]) /\ g[r].vm = v}
           newest == IF named = {} THEN NoRun ELSE g[Newest(named)].image
           gone == IF delete THEN newest ELSE NoRun
           read == [r \in named |-> g[r]]
           t == [step |-> "terminating", target |-> v, leaked |-> {},
                 image |-> gone, opened |-> read]
<1>2. vm[v] # "none" /\ term' = t /\ UNCHANGED <<platform, file, run, prune, overtaken>>
  BY <1>1 DEF OpenAllForVm
<1>3. Ages(NoRun) /\ PlatformTypes' /\ UNCHANGED <<vm, image>>
  BY <1>2, OfCleaners, StillAges DEF platform
<1>4. ASSUME NEW r \in named
      PROVE  /\ r \in Run /\ g[r] \in Record /\ Readable(g[r]) /\ g[r].vm = v
             /\ run[r].vm = v /\ g[r].image = run[r].mem.image
             /\ Known(Ids(g[r])) /\ Known(Ids(g[r]))'
  <2>1. r \in Run /\ Readable(g[r]) /\ g[r].vm = v
    OBVIOUS
  <2>2. FileInv(run[r], g[r]) /\ g[r] \in Record /\ v # NoRun
    BY <1>1, <2>1, OfRun, FileFields, OfCleaners
  <2>3. run[r].vm = v /\ g[r].image = run[r].mem.image /\ Known(Ids(g[r]))
    BY <2>1, <2>2 DEF FileInv
  <2>4. Known(Ids(g[r]))'
    BY <1>3, <2>2, <2>3, KnownStays, OutstandingType
  <2> QED
    BY <2>1, <2>2, <2>3, <2>4
<1>5. gone \in Run \cup {NoRun} /\ (gone # NoRun => image[gone] # "none")
  <2>1. CASE gone = NoRun
    BY <2>1
  <2>2. CASE gone # NoRun
    <3>1. named \in SUBSET Run /\ named # {} /\ LedgerConstants
      BY <2>2, OfCleaners
    <3>2. Newest(named) \in named
      BY <3>1, NewestIsOne
    <3>3. gone = g[Newest(named)].image
      BY <2>2, <3>1
    <3>4. PICK rec \in Record : rec = g[Newest(named)] /\ Known(Ids(rec))
      BY <1>4, <3>2
    <3> QED
      BY <2>2, <3>1, <3>3, <3>4, FieldsKnown, RecordFields
  <2> QED
    BY <2>1, <2>2
<1>6. read \in Files /\ DOMAIN read = named /\ \A r \in named : read[r] = g[r]
  <2>1. named \in SUBSET Run /\ read \in [named -> FileState]
    BY <1>4 DEF FileState
  <2> QED
    BY <2>1, FilesMake
<1>7. ASSUME NEW r \in DOMAIN read
      PROVE  /\ Readable(read[r]) /\ read[r].vm = v /\ run'[r].vm = v
             /\ read[r].image = run'[r].mem.image /\ Known(Ids(read[r]))'
  <2>1. r \in named /\ read[r] = g[r] /\ run' = run
    BY <1>2, <1>6
  <2> HIDE DEF read, named
  <2> QED
    BY <1>4, <2>1
<1> HIDE DEF named, newest, gone, read
<1>8. /\ t.step = "terminating" /\ t.target = v /\ t.leaked = {}
      /\ t.image = gone /\ t.opened = read /\ t \in TermType
  BY <1>5, <1>6 DEF TermType
<1> HIDE DEF t
<1>9. TermInv'
  <2>1. Known(t.leaked)'
    BY <1>8 DEF Known
  <2>2. \A r \in DOMAIN t.opened :
           /\ t.step # "idle" /\ Readable(t.opened[r])
           /\ t.opened[r].vm = t.target /\ run'[r].vm = t.target
           /\ t.opened[r].image = run'[r].mem.image
           /\ Known(Ids(t.opened[r]))'
    BY <1>7, <1>8
  <2> QED
    BY <1>2, <1>3, <1>5, <1>8, <2>1, <2>2, TermMake
<1>10. PruneInv'
  BY <1>2, <1>3, OfCleaners, PruneStays
<1> QED
  BY <1>2, <1>3, <1>8, <1>9, <1>10, OfCleaners, OutsideMoves

\* What terminate has opened stands while it makes its calls.
LEMMA OpenedStays ==
  ASSUME LedgerInv, Ages(NoRun), UNCHANGED run, NEW t \in TermType, term = t,
         NEW r \in DOMAIN t.opened
  PROVE  /\ r \in Run /\ Readable(t.opened[r]) /\ t.opened[r] \in Record /\ t.step # "idle"
         /\ t.opened[r].vm = t.target /\ run'[r].vm = t.target
         /\ t.opened[r].image = run'[r].mem.image
         /\ Known(Ids(t.opened[r])) /\ Known(Ids(t.opened[r]))'
<1>1. /\ r \in Run /\ t.opened[r] \in FileState /\ Readable(t.opened[r])
      /\ t.opened[r] \in Record
  BY OfCleaners, TermFields, FilesType, FileFields DEF TermInv
<1>2. Known(Ids(t.opened[r])) /\ Ids(t.opened[r]) \in SUBSET Id
  BY <1>1, OfCleaners, OutstandingType DEF TermInv
<1>3. Known(Ids(t.opened[r]))'
  BY <1>2, KnownStays
<1>4. /\ t.step # "idle" /\ t.opened[r].vm = t.target /\ run[r].vm = t.target
      /\ t.opened[r].image = run[r].mem.image
  BY OfCleaners DEF TermInv
<1> QED
  BY <1>1, <1>2, <1>3, <1>4

LEMMA TermCallKeeps ==
  ASSUME LedgerInv, TermCall
  PROVE  LedgerInv'
<1>1. PICK t \in TermType : t = term
  BY OfCleaners
<1>2. t.step = "terminating" /\ UNCHANGED <<image, file, run, prune, overtaken>>
      /\ vm' \in {vm, [vm EXCEPT ![t.target] = "gone"]}
  BY <1>1 DEF TermCall
<1>3. /\ t.target \in Run /\ vm[t.target] # "none" /\ PlatformTypes
      /\ t.image # NoRun => image'[t.image] # "none"
  BY <1>1, <1>2, OfCleaners DEF TermInv
<1>4. Ages(NoRun) /\ PlatformTypes'
  BY <1>2, <1>3, VmGoes
<1>5. vm'[t.target] # "none"
  BY <1>3, <1>4 DEF Ages
<1>6. PICK ids \in SUBSET Id :
        /\ term' = [t EXCEPT !.step = "image", !.leaked = ids]
        /\ Known(ids)' /\ (vm'[t.target] = "live" => VmId(t.target) \in ids)
  <2>1. {VmId(t.target)} \in SUBSET Id /\ Known({VmId(t.target)})'
    BY <1>3, <1>5, IdFields DEF Known, Created
  <2>2. CASE vm' = [vm EXCEPT ![t.target] = "gone"] /\ term' = [t EXCEPT !.step = "image"]
    <3>1. Known(t.leaked) /\ t.leaked \in SUBSET Id
      BY <1>1, OfCleaners DEF TermInv, TermType
    <3>2. Known(t.leaked)'
      BY <1>4, <3>1, KnownStays
    <3>3. vm'[t.target] = "gone"
      BY <1>3, <2>2 DEF PlatformTypes
    <3>4. term' = [t EXCEPT !.step = "image", !.leaked = t.leaked]
      BY <2>2 DEF TermType
    <3> QED
      BY <3>1, <3>2, <3>3, <3>4
  <2>3. CASE term' = [t EXCEPT !.step = "image", !.leaked = {VmId(t.target)}]
    BY <2>1, <2>3
  <2> QED
    BY <1>1, <2>2, <2>3 DEF TermCall
<1> DEFINE u == [t EXCEPT !.step = "image", !.leaked = ids]
<1>7. /\ u \in TermType /\ u.step = "image" /\ u.target = t.target
      /\ u.image = t.image /\ u.opened = t.opened /\ u.leaked = ids /\ term' = u
  BY <1>6 DEF TermType
<1> HIDE DEF u
<1>8. TermInv'
  <2>1. Known(u.leaked)'
    BY <1>6, <1>7
  <2>2. \A r \in DOMAIN t.opened :
          /\ Readable(t.opened[r])
          /\ t.opened[r].vm = t.target /\ run'[r].vm = t.target
          /\ t.opened[r].image = run'[r].mem.image
          /\ Known(Ids(t.opened[r]))'
    BY <1>1, <1>2, <1>4, OpenedStays
  <2>3. \A r \in DOMAIN u.opened :
          /\ u.step # "idle" /\ Readable(u.opened[r])
          /\ u.opened[r].vm = u.target /\ run'[r].vm = u.target
          /\ u.opened[r].image = run'[r].mem.image
          /\ Known(Ids(u.opened[r]))'
    BY <1>7, <2>2
  <2> QED
    BY <1>3, <1>5, <1>6, <1>7, <2>1, <2>3, TermMake
<1>9. PruneInv'
  BY <1>2, <1>4, OfCleaners, PruneStays
<1> QED
  BY <1>2, <1>4, <1>7, <1>8, <1>9, OfCleaners, OutsideMoves

LEMMA TermImageKeeps ==
  ASSUME LedgerInv, TermImage
  PROVE  LedgerInv'
<1>1. PICK t \in TermType : t = term
  BY OfCleaners
<1>2. t.step = "image" /\ UNCHANGED <<vm, file, run, prune, overtaken>>
      /\ (t.image = NoRun => UNCHANGED image)
      /\ (t.image # NoRun => image' \in {image, [image EXCEPT ![t.image] = "gone"]})
  BY <1>1 DEF TermImage
<1>3. /\ t.target \in Run /\ vm[t.target] # "none" /\ PlatformTypes
      /\ t.image \in Run \cup {NoRun} /\ (t.image # NoRun => image[t.image] # "none")
      /\ vm[t.target] = "live" => VmId(t.target) \in t.leaked
  BY <1>1, <1>2, OfCleaners, TermFields DEF TermInv
<1>4. Ages(NoRun) /\ PlatformTypes'
  <2>1. CASE t.image = NoRun
    BY <1>2, <1>3, <2>1, StillAges DEF platform
  <2>2. CASE t.image # NoRun
    BY <1>2, <1>3, <2>2, ImageGoes
  <2> QED
    BY <2>1, <2>2
<1>5. t.image # NoRun => image'[t.image] # "none"
  BY <1>3, <1>4 DEF Ages
<1>6. t.leaked \in SUBSET Id /\ Known(t.leaked)'
  <2>1. Known(t.leaked) /\ t.leaked \in SUBSET Id
    BY <1>1, OfCleaners DEF TermInv, TermType
  <2> QED
    BY <1>4, <2>1, KnownStays
<1>7. PICK ids \in SUBSET Id :
        /\ term' = [t EXCEPT !.step = "narrowing", !.leaked = ids]
        /\ Known(ids)' /\ t.leaked \subseteq ids
        /\ t.image # NoRun /\ image'[t.image] = "live" => ImageId(t.image) \in ids
  <2>1. CASE /\ term' = [t EXCEPT !.step = "narrowing"]
             /\ t.image = NoRun \/ image' = [image EXCEPT ![t.image] = "gone"]
    <3>1. t.image # NoRun => image'[t.image] = "gone"
      BY <1>3, <2>1 DEF PlatformTypes
    <3>2. term' = [t EXCEPT !.step = "narrowing", !.leaked = t.leaked]
      BY <2>1 DEF TermType
    <3> QED
      BY <1>6, <3>1, <3>2
  <2>2. CASE /\ term' = [t EXCEPT !.step = "narrowing", !.leaked = @ \cup {ImageId(t.image)}]
             /\ t.image # NoRun
    <3> DEFINE ids == t.leaked \cup {ImageId(t.image)}
    <3>1. ids \in SUBSET Id /\ Known(ids)'
      BY <1>3, <1>5, <1>6, <2>2, IdFields DEF Known, Created
    <3>2. term' = [t EXCEPT !.step = "narrowing", !.leaked = ids]
      BY <2>2 DEF TermType
    <3> QED
      BY <3>1, <3>2
  <2> QED
    BY <1>1, <2>1, <2>2 DEF TermImage
<1> DEFINE u == [t EXCEPT !.step = "narrowing", !.leaked = ids]
<1>8. /\ u \in TermType /\ u.step = "narrowing" /\ u.target = t.target
      /\ u.image = t.image /\ u.opened = t.opened /\ u.leaked = ids /\ term' = u
  BY <1>7 DEF TermType
<1> HIDE DEF u
<1>9. TermInv'
  <2>1. Known(u.leaked)'
    BY <1>7, <1>8
  <2>2. \A r \in DOMAIN t.opened :
          /\ Readable(t.opened[r])
          /\ t.opened[r].vm = t.target /\ run'[r].vm = t.target
          /\ t.opened[r].image = run'[r].mem.image
          /\ Known(Ids(t.opened[r]))'
    BY <1>1, <1>2, <1>4, OpenedStays
  <2>3. \A r \in DOMAIN u.opened :
          /\ u.step # "idle" /\ Readable(u.opened[r])
          /\ u.opened[r].vm = u.target /\ run'[r].vm = u.target
          /\ u.opened[r].image = run'[r].mem.image
          /\ Known(Ids(u.opened[r]))'
    BY <1>8, <2>2
  <2>4. vm'[u.target] # "none" /\ (vm'[u.target] = "live" => VmId(u.target) \in u.leaked)
    BY <1>2, <1>3, <1>7, <1>8
  <2> QED
    BY <1>3, <1>5, <1>7, <1>8, <2>1, <2>3, <2>4, TermMake
<1>10. PruneInv'
  BY <1>2, <1>4, OfCleaners, PruneStays
<1> QED
  BY <1>2, <1>4, <1>8, <1>9, <1>10, OfCleaners, OutsideMoves

\* What terminate leaves in a record it has opened: nothing that is there is
\* dropped, and nothing is named that never was.
LEMMA StillThereIsRight ==
  ASSUME LedgerInv, NEW t \in TermType, term = t, t.step = "narrowing",
         NEW r \in DOMAIN t.opened, NEW rec \in Record, rec = t.opened[r],
         UNCHANGED <<platform, run>>
  PROVE  \E ids \in SUBSET Id :
           /\ ids = StillThere(rec) /\ Known(ids)'
           /\ vm[t.target] = "live" => VmId(t.target) \in ids
           /\ rec.image # NoRun /\ image[rec.image] = "live" => ImageId(rec.image) \in ids
<1>1. /\ t.target \in Run /\ vm[t.target] # "none"
      /\ vm[t.target] = "live" => VmId(t.target) \in t.leaked
      /\ t.image # NoRun /\ image[t.image] = "live" => ImageId(t.image) \in t.leaked
  BY OfCleaners DEF TermInv
<1>2. PlatformTypes /\ LedgerConstants
  BY OfCleaners
<1>3. Ages(NoRun)
  BY <1>2, StillAges
<1>4. Known(Ids(rec))
  BY <1>3, OpenedStays
<1>5. /\ rec.image \in Run \cup {NoRun} /\ (rec.image # NoRun => image[rec.image] # "none")
  BY <1>2, <1>4, FieldsKnown, RecordFields
<1>6. vm' = vm /\ image' = image
  BY DEF platform
<1>7. ASSUME NEW id \in StillThere(rec)
      PROVE  \/ id = VmId(t.target)
             \/ rec.image # NoRun /\ id \in {ImageId(rec.image), GroupId(rec.image)}
  BY DEF StillThere
<1>8. StillThere(rec) \in SUBSET Id
  BY <1>1, <1>5, <1>7, IdFields
<1>9. Known(StillThere(rec))
  BY <1>1, <1>5, <1>7, IdFields DEF Known, Created
<1>10. PICK ids \in SUBSET Id : ids = StillThere(rec) /\ Known(ids)
  BY <1>8, <1>9
<1>11. Known(ids)'
  BY <1>3, <1>10, KnownStays
<1>12. /\ vm[t.target] = "live" => VmId(t.target) \in StillThere(rec)
       /\ rec.image # NoRun /\ image[rec.image] = "live" =>
            ImageId(rec.image) \in StillThere(rec)
  BY <1>1 DEF StillThere
<1> QED
  BY <1>10, <1>11, <1>12

LEMMA NarrowRecordKeeps ==
  ASSUME LedgerInv, NarrowRecord
  PROVE  LedgerInv'
<1>1. PICK t \in TermType : t = term
  BY OfCleaners
<1>2. /\ t.step = "narrowing" /\ DOMAIN t.opened # {}
      /\ UNCHANGED <<platform, run, prune, overtaken>>
  BY <1>1 DEF NarrowRecord
<1>3. PlatformTypes /\ LedgerConstants /\ LedgerTypeOK /\ TermInv
  BY OfCleaners
<1>4. Ages(NoRun) /\ PlatformTypes' /\ vm' = vm /\ image' = image /\ run' = run
  BY <1>2, <1>3, StillAges DEF platform
<1>5. t.opened \in Files /\ DOMAIN t.opened \in SUBSET Run
  BY FilesType DEF TermType
<1>6. PICK r \in DOMAIN t.opened : r = Newest(DOMAIN t.opened)
  BY <1>2, <1>3, <1>5, NewestIsOne
<1>7. /\ r \in Run /\ t.opened[r] \in Record /\ t.opened[r].vm = t.target
      /\ run[r].vm = t.target /\ t.opened[r].image = run[r].mem.image
      /\ Known(Ids(t.opened[r]))
  BY <1>1, <1>4, OpenedStays
<1>8. PICK rec \in Record : rec = t.opened[r]
  BY <1>7
<1>9. PICK ids \in SUBSET Id :
        /\ ids = StillThere(rec) /\ Known(ids)'
        /\ vm[t.target] = "live" => VmId(t.target) \in ids
        /\ rec.image # NoRun /\ image[rec.image] = "live" => ImageId(rec.image) \in ids
  BY <1>1, <1>2, <1>8, StillThereIsRight
<1> DEFINE new == [rec EXCEPT !.leaked = ids]
<1>10. new \in Record /\ new.vm = rec.vm /\ new.image = rec.image /\ new.leaked = ids
  <2>1. NoRun \in Run \cup {NoRun}
    OBVIOUS
  <2> QED
    BY <2>1, RecordWith
<1>11. PICK f \in FileState :
         /\ file' = [file EXCEPT ![r] = f]
         /\ IF ids = {} THEN f = Absent ELSE f \in {new, Torn}
  <2>1. PICK w \in Written(new) : file' = [file EXCEPT ![r] = IF ids = {} THEN Absent ELSE w]
    BY <1>1, <1>6, <1>8, <1>9 DEF NarrowRecord
  <2>2. w \in {new, Torn}
    BY DEF Written
  <2> QED
    BY <1>10, <2>1, <2>2 DEF FileState
<1> HIDE DEF new
<1>12. PICK q \in RunRecord, g \in FileState : q = run[r] /\ g = file[r]
  BY <1>7, OfRun
<1>13. RunInv(r, q) /\ VmHeld(r, q, g) /\ ImageHeld(r, q, g) /\ r # NoRun
  BY <1>7, <1>12, OfRun
<1>14. \A id \in ids : Keeps(f, id)
  BY <1>10, <1>11, RecordFields DEF Keeps, Outstanding
<1>15. VmHeld(r, q, f)'
  <2>1. vm[r] = "live" => Keeps(f, VmId(r))
    BY <1>7, <1>9, <1>12, <1>13, <1>14 DEF RunInv
  <2> QED
    BY <1>2, <1>4, <1>13, <2>1 DEF VmHeld
<1>16. ImageHeld(r, q, f)'
  <2>1. q.kind = "run" /\ q.mem.image # NoRun /\ image[r] = "live" => Keeps(f, ImageId(r))
    BY <1>7, <1>8, <1>9, <1>12, <1>13, <1>14 DEF RunInv
  <2> QED
    BY <1>2, <1>4, <1>13, <2>1 DEF ImageHeld
<1>17. FileInv(q, f)'
  <2>1. Known(Ids(new))'
    <3>1. /\ new.vm # NoRun => vm'[new.vm] # "none"
          /\ new.image # NoRun => image'[new.image] # "none"
      BY <1>3, <1>4, <1>7, <1>8, <1>10, FieldsKnown
    <3> QED
      BY <1>3, <1>9, <1>10, <3>1, NamedKnown
  <2>2. Readable(f) => f = new
    BY <1>11, BlankFields DEF Readable
  <2>3. new.vm = q.vm /\ new.image = q.mem.image
    BY <1>7, <1>8, <1>10, <1>12
  <2> QED
    BY <2>1, <2>2, <2>3 DEF FileInv
<1>18. VmHeld(r, run[r], f)' /\ ImageHeld(r, run[r], f)' /\ FileInv(run[r], f)'
  <2>1. run'[r] = q
    BY <1>4, <1>12
  <2>2. \A x \in RunRecord : x = q => VmHeld(r, x, f)' /\ ImageHeld(r, x, f)' /\ FileInv(x, f)'
    BY <1>15, <1>16, <1>17
  <2> QED
    BY <2>1, <2>2
<1> DEFINE rest == [o \in DOMAIN t.opened \ {r} |-> t.opened[o]]
           u == [t EXCEPT !.opened = rest]
<1>19. /\ rest \in Files /\ DOMAIN rest \subseteq DOMAIN t.opened
       /\ \A o \in DOMAIN rest : rest[o] = t.opened[o]
  <2>1. DOMAIN t.opened \ {r} \in SUBSET Run /\ rest \in [DOMAIN t.opened \ {r} -> FileState]
    BY <1>5, FilesType
  <2> QED
    BY <2>1, FilesMake
<1>20. term' = u
  BY <1>1, <1>6 DEF NarrowRecord, TermType
<1> HIDE DEF rest
<1>21. /\ u \in TermType /\ u.step = "narrowing" /\ u.target = t.target /\ u.image = t.image
       /\ u.leaked = t.leaked /\ u.opened = rest
  BY <1>2, <1>19 DEF TermType
<1> HIDE DEF u
<1>22. TermInv'
  <2>1. Known(t.leaked)'
    <3>1. Known(t.leaked) /\ t.leaked \in SUBSET Id
      BY <1>1, <1>3 DEF TermInv, TermType
    <3> QED
      BY <1>4, <3>1, KnownStays
  <2>2. Known(u.leaked)'
    BY <1>21, <2>1
  <2>3. \A o \in DOMAIN t.opened :
          /\ Readable(t.opened[o])
          /\ t.opened[o].vm = t.target /\ run'[o].vm = t.target
          /\ t.opened[o].image = run'[o].mem.image
          /\ Known(Ids(t.opened[o]))'
    BY <1>1, <1>4, OpenedStays
  <2>4. \A o \in DOMAIN u.opened :
          /\ u.step # "idle" /\ Readable(u.opened[o])
          /\ u.opened[o].vm = u.target /\ run'[o].vm = u.target
          /\ u.opened[o].image = run'[o].mem.image
          /\ Known(Ids(u.opened[o]))'
    <3> SUFFICES ASSUME NEW o \in DOMAIN rest
                 PROVE  /\ Readable(rest[o])
                        /\ rest[o].vm = t.target /\ run'[o].vm = t.target
                        /\ rest[o].image = run'[o].mem.image
                        /\ Known(Ids(rest[o]))'
      BY <1>21
    <3>1. o \in DOMAIN t.opened /\ rest[o] = t.opened[o]
      BY <1>19
    <3> QED
      BY <2>3, <3>1
  <2>5. /\ t.target \in Run /\ vm[t.target] # "none"
        /\ vm[t.target] = "live" => VmId(t.target) \in t.leaked
        /\ t.image # NoRun => image[t.image] # "none"
        /\ t.image # NoRun /\ image[t.image] = "live" => ImageId(t.image) \in t.leaked
    BY <1>1, <1>2, <1>3 DEF TermInv
  <2> QED
    BY <1>4, <1>20, <1>21, <2>2, <2>4, <2>5, TermMake
<1>23. PruneInv' /\ prune' \in PruneType
  BY <1>2, <1>4, OfCleaners, PruneStays
<1>24. overtaken' = overtaken /\ overtaken \subseteq Run
  BY <1>2, <1>3 DEF LedgerTypeOK
<1> QED
  BY <1>2, <1>7, <1>11, <1>18, <1>20, <1>21, <1>22, <1>23, <1>24, FileMoves

\* A file no record was read from.
LEMMA NothingRead == Nothing \in Files /\ DOMAIN Nothing = {}
<1>1. Nothing \in [{} -> FileState] /\ {} \in SUBSET Run
  BY DEF Nothing
<1> QED
  BY <1>1, FilesMake DEF Nothing

LEMMA TermEndsKeeps ==
  ASSUME LedgerInv, TermEnds
  PROVE  LedgerInv'
<1>1. term' = Idle /\ UNCHANGED <<platform, file, run, prune, overtaken>>
  BY DEF TermEnds
<1>2. Ages(NoRun) /\ PlatformTypes'
  BY <1>1, OfCleaners, StillAges
<1>3. /\ Idle \in TermType /\ Idle.step = "idle" /\ Idle.leaked = {} /\ Idle.image = NoRun
      /\ DOMAIN Idle.opened = {}
  BY NothingRead DEF Idle, TermType
<1>4. Known(Idle.leaked)'
  BY <1>3 DEF Known
<1>5. TermInv'
  BY <1>1, <1>3, <1>4, TermMake
<1>6. PruneInv'
  BY <1>1, <1>2, OfCleaners, PruneStays
<1> QED
  BY <1>1, <1>2, <1>3, <1>5, <1>6, OfCleaners, OutsideMoves

\* What has to be shown of the state p of prune.
LEMMA PruneMake ==
  ASSUME NEW p \in PruneType, prune' = p,
         p.step = "listing" => DOMAIN p.seen = Run,
         \A r \in DOMAIN p.seen :
           /\ Readable(p.seen[r]) => Known(Ids(p.seen[r]))'
           /\ p.step = "removing" =>
                Readable(p.seen[r]) /\ \A id \in Outstanding(p.seen[r]) : Past(id)'
  PROVE  PruneInv'
<1>1. ASSUME NEW r \in DOMAIN prune'.seen
      PROVE  /\ Readable(prune'.seen[r]) => Known(Ids(prune.seen[r]))'
             /\ p.step = "removing" =>
                  Readable(prune'.seen[r]) /\ \A id \in Outstanding(prune'.seen[r]) : Past(id)'
  <2>1. prune'.seen[r] = p.seen[r] /\ r \in DOMAIN p.seen
    OBVIOUS
  <2> QED
    BY <2>1 DEF Known
<1> QED
  BY <1>1 DEF PruneInv

LEMMA ReadAllKeeps ==
  ASSUME LedgerInv, ReadAll
  PROVE  LedgerInv'
<1>1. PICK g \in [Run -> FileState] : g = file
  BY DEF LedgerInv, LedgerTypeOK, FileState
<1> DEFINE p == [step |-> "listing", seen |-> g]
<1>2. prune' = p /\ UNCHANGED <<platform, file, run, term, overtaken>>
  BY <1>1 DEF ReadAll
<1>3. Ages(NoRun) /\ PlatformTypes'
  BY <1>2, OfCleaners, StillAges
<1>4. p \in PruneType /\ p.step = "listing" /\ p.seen = g /\ DOMAIN g = Run
  <2>1. g \in Files
    BY FilesMake
  <2> QED
    BY <2>1 DEF PruneType
<1> HIDE DEF p
<1>5. ASSUME NEW r \in Run, Readable(g[r]) PROVE Known(Ids(g[r]))'
  <2>1. g[r] \in Record /\ Known(Ids(g[r]))
    BY <1>1, <1>5, OfRun, FileFields DEF FileInv
  <2> QED
    BY <1>3, <2>1, KnownStays, OutstandingType
<1>6. PruneInv'
  BY <1>2, <1>4, <1>5, PruneMake
<1>7. TermInv'
  BY <1>2, <1>3, OfCleaners, TermStays
<1> QED
  BY <1>2, <1>3, <1>4, <1>6, <1>7, OfCleaners, OutsideMoves

\* A record found gone names nothing that is there, or will be.
LEMMA GoneIsPast ==
  ASSUME PlatformTypes, NEW f \in FileState, Gone(f), Known(Ids(f))
  PROVE  Readable(f) /\ \A id \in Outstanding(f) : Past(id)
<1>1. f \in Record
  BY FileFields DEF Gone
<1>2. ASSUME NEW id \in Outstanding(f) PROVE Past(id)
  <2>1. id \in Id /\ Created(id)
    BY <1>1, OutstandingType DEF Known
  <2>2. id.of \in Run /\ id.kind # "group" /\ ~Live(id)
    BY <2>1 DEF Gone, Id
  <2> QED
    BY <2>1, <2>2 DEF PlatformTypes, Created, Live, Past
<1> QED
  BY <1>2 DEF Gone

LEMMA ReconcileKeeps ==
  ASSUME LedgerInv, Reconcile
  PROVE  LedgerInv'
<1>1. PICK p \in PruneType : p = prune
  BY OfCleaners
<1>2. PICK rs \in SUBSET Run : rs = {o \in Run : Gone(p.seen[o])}
  OBVIOUS
<1> DEFINE left == [r \in rs |-> p.seen[r]]
           n == [step |-> "removing", seen |-> left]
<1>3. p.step = "listing" /\ prune' = n /\ UNCHANGED <<platform, file, run, term, overtaken>>
  BY <1>1, <1>2 DEF Reconcile
<1>4. PlatformTypes /\ PruneInv
  BY OfCleaners
<1>5. Ages(NoRun) /\ PlatformTypes'
  BY <1>3, <1>4, StillAges
<1>6. DOMAIN p.seen = Run /\ \A r \in Run : p.seen[r] \in FileState
  BY <1>1, <1>3, <1>4, FilesType DEF PruneInv, PruneType
<1>7. left \in Files /\ DOMAIN left = rs /\ \A r \in rs : left[r] = p.seen[r]
  <2>1. left \in [rs -> FileState]
    BY <1>6
  <2> QED
    BY <2>1, FilesMake
<1>8. ASSUME NEW r \in rs
      PROVE  /\ Readable(p.seen[r]) /\ Known(Ids(p.seen[r]))'
             /\ \A id \in Outstanding(p.seen[r]) : Past(id)'
  <2>1. PICK f \in FileState : f = p.seen[r] /\ Gone(f)
    BY <1>2, <1>6
  <2>2. Readable(f) /\ Known(Ids(f))
    BY <1>1, <1>4, <1>6, <2>1 DEF PruneInv, Gone
  <2>3. \A id \in Outstanding(f) : Past(id)
    BY <1>4, <2>1, <2>2, GoneIsPast
  <2>4. f \in Record /\ Known(Ids(f))' /\ Outstanding(f) \subseteq Id
    BY <1>5, <2>2, FileFields, KnownStays, OutstandingType
  <2>5. \A id \in Outstanding(f) : Past(id)'
    BY <1>5, <2>3, <2>4, PastStays
  <2> QED
    BY <2>1, <2>2, <2>4, <2>5
<1> HIDE DEF left
<1>9. n \in PruneType /\ n.step = "removing" /\ n.seen = left
  BY <1>7 DEF PruneType
<1> HIDE DEF n
<1>10. PruneInv'
  <2>1. \A r \in DOMAIN n.seen :
           /\ Readable(n.seen[r]) => Known(Ids(n.seen[r]))'
           /\ n.step = "removing" =>
                Readable(n.seen[r]) /\ \A id \in Outstanding(n.seen[r]) : Past(id)'
    BY <1>7, <1>8, <1>9
  <2> QED
    BY <1>3, <1>9, <2>1, PruneMake
<1>11. TermInv'
  BY <1>3, <1>5, OfCleaners, TermStays
<1> QED
  BY <1>3, <1>5, <1>9, <1>10, <1>11, OfCleaners, OutsideMoves

LEMMA RemoveKeeps ==
  ASSUME LedgerInv, NEW r \in Run, Remove(r)
  PROVE  LedgerInv'
<1>1. PICK p \in PruneType : p = prune
  BY OfCleaners
<1> DEFINE left == [o \in DOMAIN p.seen \ {r} |-> p.seen[o]]
           n == [p EXCEPT !.seen = left]
<1>2. /\ p.step = "removing" /\ r \in DOMAIN p.seen /\ prune' = n
      /\ overtaken' = IF file[r] = p.seen[r] THEN overtaken ELSE overtaken \cup {r}
      /\ file' = [file EXCEPT ![r] = Absent] /\ UNCHANGED <<platform, run, term>>
  BY <1>1 DEF Remove, PruneType
<1>3. PlatformTypes /\ PruneInv /\ overtaken \subseteq Run
  BY OfCleaners DEF LedgerTypeOK
<1>4. Ages(NoRun) /\ PlatformTypes' /\ vm' = vm /\ image' = image /\ run' = run
  BY <1>2, <1>3, StillAges DEF platform
<1>5. DOMAIN p.seen \in SUBSET Run /\ \A o \in DOMAIN p.seen : p.seen[o] \in FileState
  BY FilesType DEF PruneType
<1>6. left \in Files /\ DOMAIN left \subseteq DOMAIN p.seen
      /\ \A o \in DOMAIN left : left[o] = p.seen[o]
  <2>1. DOMAIN p.seen \ {r} \in SUBSET Run /\ left \in [DOMAIN p.seen \ {r} -> FileState]
    BY <1>5
  <2> QED
    BY <2>1, FilesMake
<1>7. ASSUME NEW o \in DOMAIN p.seen
      PROVE  /\ Readable(p.seen[o]) /\ Known(Ids(p.seen[o]))'
             /\ \A id \in Outstanding(p.seen[o]) : Past(id) /\ Past(id)'
  <2>1. PICK f \in FileState : f = p.seen[o]
    BY <1>5
  <2>2. Readable(f) /\ Known(Ids(f)) /\ \A id \in Outstanding(f) : Past(id)
    BY <1>1, <1>2, <1>3, <2>1 DEF PruneInv
  <2>3. f \in Record /\ Known(Ids(f))' /\ Outstanding(f) \subseteq Id
    BY <1>4, <2>2, FileFields, KnownStays, OutstandingType
  <2>4. \A id \in Outstanding(f) : Past(id)'
    BY <1>4, <2>2, <2>3, PastStays
  <2> QED
    BY <2>1, <2>2, <2>3, <2>4
<1> HIDE DEF left
<1>8. n \in PruneType /\ n.step = "removing" /\ n.seen = left
  BY <1>2, <1>6 DEF PruneType
<1> HIDE DEF n
<1>9. PruneInv'
  <2>1. \A o \in DOMAIN n.seen :
           /\ Readable(n.seen[o]) => Known(Ids(n.seen[o]))'
           /\ n.step = "removing" =>
                Readable(n.seen[o]) /\ \A id \in Outstanding(n.seen[o]) : Past(id)'
    <3> SUFFICES ASSUME NEW o \in DOMAIN left
                 PROVE  /\ Readable(left[o]) /\ Known(Ids(left[o]))'
                        /\ \A id \in Outstanding(left[o]) : Past(id)'
      BY <1>8
    <3>1. o \in DOMAIN p.seen /\ left[o] = p.seen[o]
      BY <1>6
    <3> QED
      BY <1>7, <3>1
  <2> QED
    BY <1>2, <1>8, <2>1, PruneMake
<1>10. TermInv'
  BY <1>2, <1>4, OfCleaners, TermStays
<1>11. PICK q \in RunRecord, g \in FileState : q = run[r] /\ g = file[r]
  BY OfRun
<1>12. VmHeld(r, q, g) /\ ImageHeld(r, q, g)
  BY <1>11, OfRun
<1>13. r \in overtaken' \/ \A id \in Id : Keeps(g, id) => Past(id)
  BY <1>2, <1>7, <1>11, BlankFields DEF Keeps, Readable
<1>14. VmHeld(r, q, Absent)' /\ ImageHeld(r, q, Absent)' /\ FileInv(q, Absent)'
  <2>1. /\ Keeps(g, VmId(r)) /\ vm[r] = "live" => r \in overtaken'
        /\ Keeps(g, ImageId(r)) /\ image[r] = "live" => r \in overtaken'
    BY <1>13, IdFields DEF Past
  <2>2. r \in overtaken => r \in overtaken'
    BY <1>2
  <2>3. VmHeld(r, q, Absent)'
    BY <1>4, <1>12, <2>1, <2>2 DEF VmHeld
  <2>4. ImageHeld(r, q, Absent)'
    BY <1>4, <1>12, <2>1, <2>2 DEF ImageHeld
  <2>5. FileInv(q, Absent)'
    BY BlankFields DEF FileInv, Readable
  <2> QED
    BY <2>3, <2>4, <2>5
<1>15. VmHeld(r, run[r], Absent)' /\ ImageHeld(r, run[r], Absent)' /\ FileInv(run[r], Absent)'
  <2>1. run'[r] = q
    BY <1>4, <1>11
  <2>2. \A x \in RunRecord : x = q =>
          VmHeld(r, x, Absent)' /\ ImageHeld(r, x, Absent)' /\ FileInv(x, Absent)'
    BY <1>14
  <2> QED
    BY <2>1, <2>2
<1>16. overtaken \subseteq overtaken' /\ overtaken' \subseteq Run /\ Absent \in FileState
  BY <1>2, <1>3 DEF FileState
<1>17. term' \in TermType
  BY <1>2, OfCleaners
<1> QED
  BY <1>2, <1>8, <1>9, <1>10, <1>15, <1>16, <1>17, FileMoves

LEMMA PruneEndsKeeps ==
  ASSUME LedgerInv, PruneEnds
  PROVE  LedgerInv'
<1>1. prune' = Unread /\ UNCHANGED <<platform, file, run, term, overtaken>>
  BY DEF PruneEnds
<1>2. Ages(NoRun) /\ PlatformTypes'
  BY <1>1, OfCleaners, StillAges
<1>3. Unread \in PruneType /\ Unread.step = "idle" /\ DOMAIN Unread.seen = {}
  BY NothingRead DEF Unread, PruneType
<1>4. PruneInv'
  BY <1>1, <1>3, PruneMake
<1>5. TermInv'
  BY <1>1, <1>2, OfCleaners, TermStays
<1> QED
  BY <1>1, <1>2, <1>3, <1>4, <1>5, OfCleaners, OutsideMoves

-----------------------------------------------------------------------------
(* The invariant and what follows from it.                                 *)

\* The directory before any run.
LEMMA LedgerStarts ==
  ASSUME LedgerConstants, LedgerInit
  PROVE  LedgerInv
<1>1. run \in [Run -> {[step |-> "start", kind |-> k, keep |-> b, vm |-> NoRun,
                        mem |-> Blank, still |-> {}] : k \in Kinds, b \in BOOLEAN}]
  BY DEF LedgerInit
<1>2. ASSUME NEW r \in Run
      PROVE  /\ run[r] \in RunRecord /\ run[r].step = "start" /\ run[r].vm = NoRun
             /\ run[r].mem = Blank /\ run[r].still = {}
             /\ vm[r] = "none" /\ image[r] = "none" /\ file[r] = Absent
  <2>1. PICK k \in Kinds, b \in BOOLEAN :
          run[r] = [step |-> "start", kind |-> k, keep |-> b, vm |-> NoRun,
                    mem |-> Blank, still |-> {}]
    BY <1>1
  <2>2. "start" \in RunStep /\ Blank \in Record
    BY BlankFields DEF RunStep
  <2>3. run[r] \in RunRecord
    BY <2>1, <2>2 DEF RunRecord
  <2> QED
    BY <2>1, <2>3 DEF LedgerInit
<1>3. /\ term.step = "idle" /\ term.leaked = {} /\ term.image = NoRun /\ DOMAIN term.opened = {}
      /\ prune.step = "idle" /\ DOMAIN prune.seen = {}
      /\ term \in TermType /\ prune \in PruneType
  BY NothingRead DEF LedgerInit, Idle, Unread, TermType, PruneType
<1>4. LedgerTypeOK
  <2>1. run \in [Run -> RunRecord]
    BY <1>1, <1>2
  <2>2. file \in [Run -> FileState]
    BY DEF LedgerInit, FileState
  <2> QED
    BY <1>3, <2>1, <2>2 DEF LedgerInit, LedgerTypeOK, RunRecord, FileState, TermType, PruneType
<1>5. Known({}) /\ Ids(Blank) = {}
  BY BlankFields DEF Known, Ids
<1>6. ASSUME NEW r \in Run PROVE RunHeld(r, run[r], file[r])
  <2>1. RunInv(r, run[r])
    BY <1>2, <1>5, BlankFields DEF RunInv
  <2>2. VmHeld(r, run[r], file[r]) /\ ImageHeld(r, run[r], file[r])
    BY <1>2, BlankFields DEF VmHeld, ImageHeld
  <2>3. FileInv(run[r], file[r])
    BY <1>2, BlankFields DEF FileInv, Readable
  <2> QED
    BY <2>1, <2>2, <2>3 DEF RunHeld
<1>7. TermInv /\ PruneInv
  BY <1>3, <1>5 DEF TermInv, PruneInv
<1> QED
  BY <1>4, <1>6, <1>7 DEF LedgerInv

\* Every step of every command, and of the platform, keeps the invariant.
LEMMA LedgerStep ==
  ASSUME LedgerInv, [LedgerNext]_ledgerVars
  PROVE  LedgerInv'
<1>1. ASSUME NEW r \in Run, Creates(r) PROVE LedgerInv'
  BY <1>1, BuildKeeps, BodyEndsKeeps, RecordImageKeeps, RecordVmLogGroupKeeps, ReuseKeeps,
     LaunchKeeps, RecordLaunchKeeps, ProvisionedKeeps, AfterSelectKeeps, AgentFailedKeeps
     DEF Creates
<1>2. ASSUME NEW r \in Run, TearsDown(r) PROVE LedgerInv'
  BY <1>2, MarkOutstandingKeeps, TerminateVmKeeps, DeleteImageKeeps, MarkDeletedKeeps,
     ClearKeeps DEF TearsDown
<1>3. ASSUME NEW r \in Run, Crash(r) \/ VmEnds(r) \/ ImageEnds(r) PROVE LedgerInv'
  BY <1>3, CrashKeeps, VmEndsKeeps, ImageEndsKeeps
<1>4. CASE Terminate
  BY <1>4, OpenAllForVmKeeps, TermCallKeeps, TermImageKeeps, NarrowRecordKeeps, TermEndsKeeps
     DEF Terminate
<1>5. CASE Prune
  BY <1>5, ReadAllKeeps, ReconcileKeeps, RemoveKeeps, PruneEndsKeeps DEF Prune
<1> QED
  BY <1>1, <1>2, <1>3, <1>4, <1>5, StandsStill DEF LedgerNext

\* What the assumptions on the constants come to.
LEMMA LedgerAssumptions ==
  LedgerConstants
BY RunAssumption, KindsAssumption, NoRunAssumption DEF LedgerConstants

\* In every reachable state of the commands that share the directory, each
\* process knows what its step says it does, the file of a run keeps what is
\* there and the process has recorded, and what terminate and prune have read is
\* about things that were created (Ledger, tear_down, terminate, reconcile).
THEOREM LedgerInvariant == LedgerSpec => []LedgerInv
<1>1. LedgerInit => LedgerInv
  BY LedgerAssumptions, LedgerStarts
<1>2. LedgerInv /\ [LedgerNext]_ledgerVars => LedgerInv'
  BY LedgerStep
<1> QED
  BY <1>1, <1>2, PTL DEF LedgerSpec

\* Every variable of the ledger keeps its type.
THEOREM LedgerTypeCorrect == LedgerSpec => []LedgerTypeOK
<1>1. LedgerInv => LedgerTypeOK
  BY DEF LedgerInv
<1> QED
  BY <1>1, LedgerInvariant, PTL

\* However many runs there are, wherever they are killed and whichever writes
\* tear, a VM or an image that is there is in the hands of a live command or on
\* disk, but for the exceptions LiveIsRecorded names (Ledger::flush,
\* tear_down, terminate's narrowing, prune).
THEOREM WhatBillsIsRecorded == LedgerSpec => []LiveIsRecorded
<1>1. ASSUME LedgerInv, NEW r \in Run, Over(r)
      PROVE  /\ vm[r] = "live" =>
                  \/ Shows(r, VmId(r)) \/ r \in overtaken
                  \/ run[r].step = "crashed" /\ run[r].mem.vm = NoRun
             /\ image[r] = "live" /\ run[r].kind = "run" =>
                  Shows(r, ImageId(r)) \/ run[r].mem.image = NoRun \/ r \in overtaken
  <2>1. RunInv(r, run[r]) /\ VmHeld(r, run[r], file[r]) /\ ImageHeld(r, run[r], file[r])
    BY <1>1, OfRun
  <2>2. /\ Keeps(file[r], VmId(r)) => Shows(r, VmId(r))
        /\ Keeps(file[r], ImageId(r)) => Shows(r, ImageId(r))
    BY DEF Keeps, Shows
  <2>3. run[r].step \in {"done", "crashed"}
    BY <1>1 DEF Over
  <2>4. vm[r] = "live" => run[r].mem.vm \in {NoRun, r}
    BY <2>1 DEF RunInv
  <2>5. vm[r] = "live" =>
          \/ Shows(r, VmId(r)) \/ r \in overtaken
          \/ run[r].step = "crashed" /\ run[r].mem.vm = NoRun
    BY <2>1, <2>2, <2>3, <2>4 DEF VmHeld
  <2> QED
    BY <2>1, <2>2, <2>5 DEF ImageHeld
<1>2. ASSUME LedgerInv PROVE LiveVmIsRecorded
  <2> SUFFICES ASSUME NEW v \in Run, vm[v] = "live"
               PROVE  \E r \in {o \in Run : run[o].vm = v} :
                        \/ ~Over(r) \/ Shows(r, VmId(v)) \/ r \in overtaken
                        \/ run[r].step = "crashed" /\ run[r].mem.vm = NoRun
    BY DEF LiveVmIsRecorded
  <2>1. run[v].vm = v
    BY <1>2, OfRun DEF RunInv
  <2> QED
    BY <1>1, <1>2, <2>1
<1>3. ASSUME LedgerInv PROVE LiveImageIsRecorded
  BY <1>1, <1>3 DEF LiveImageIsRecorded
<1>4. LedgerInv => LiveIsRecorded
  BY <1>2, <1>3 DEF LiveIsRecorded
<1> QED
  BY <1>4, LedgerInvariant, PTL

\* A prune that removes the record it has read removes one whose outstanding
\* things were all gone when they were listed, and nothing comes back between
\* the listing and the removal (reconcile, prune).
THEOREM PruneSpares == LedgerSpec => PruneSparesOutstanding
<1>1. ASSUME LedgerInv, [LedgerNext]_ledgerVars
      PROVE  [\A r \in Run : Remove(r) /\ Readable(file[r]) /\ file[r] = prune.seen[r] =>
                \A id \in Outstanding(file[r]) : id.kind # "group" /\ ~Live(id)]_ledgerVars
  <2> SUFFICES ASSUME NEW r \in Run, Remove(r), file[r] = prune.seen[r],
                      NEW id \in Outstanding(file[r])
               PROVE  id.kind # "group" /\ ~Live(id)
    OBVIOUS
  <2>1. Past(id)
    BY <1>1, OfCleaners DEF PruneInv, Remove
  <2> QED
    BY <2>1 DEF Past, Live
<1> QED
  BY <1>1, LedgerInvariant, PTL DEF LedgerSpec, PruneSparesOutstanding
=============================================================================
