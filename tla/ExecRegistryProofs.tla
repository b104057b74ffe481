------------------------- MODULE ExecRegistryProofs -------------------------
(***************************************************************************)
(* Proofs about ExecRegistry, for any ids, requests and number of execs:   *)
(* its types, that no outcome is lost or handed out twice, what a poll and *)
(* the activity signal may say, and that it implements ExecLifecycle; and  *)
(* about ExecCompletion, the call that drives it over a lossy network:     *)
(* what its result says of the outcome.                                    *)
(***************************************************************************)
EXTENDS ExecCompletion, SequenceTheorems, TLAPS

\* No two ids share an exec.
Slots == \A i, j \in Id : entries[i] # 0 /\ entries[i] = entries[j] => i = j

\* How far an exec is, and where its outcome is.
Life(x) ==
  /\ task[x] = "none" <=> x > execs
  /\ terminal[x] <=> task[x] \notin {"none", "wait"}
  /\ ~Published(x) => ~acked[x] /\ ~result[x] /\ delivered[x] = 0
  /\ Published(x) => /\ result[x] <=> ~acked[x]
                     /\ delivered[x] = IF acked[x] THEN 1 ELSE 0
  /\ task[x] # "none" /\ ~acked[x] => Registered(x)

\* A request that works on the exec it looked up.
Open(h) == handler[h].at \in {"poll", "ack", "stdin", "kill"}

AtLock(h) == handler[h].at \in {"poll", "ack"}

\* The exec of an open request was registered under its id and under no
\* other since, and a poll that found an unacked outcome finds it again
\* unless an await on a free lock suspends.
Serving(h) ==
  Open(h) =>
    /\ handler[h].exec \in 1..execs
    /\ \A j \in Id : entries[j] = handler[h].exec => j = handler[h].id
    /\ handler[h].over => Published(handler[h].exec)
    /\ ~yields /\ handler[h].at = "poll" /\ handler[h].over /\ ~handler[h].acked
         => result[handler[h].exec]

\* Unless such an await suspends, one request at a time is at a free lock.
Exclusive == ~yields => \A g, h \in Handler : AtLock(g) /\ AtLock(h) => g = h

\* The inductive invariant.
Inv ==
  /\ TypeOK
  /\ Slots
  /\ \A x \in Exec : Life(x)
  /\ \A h \in Handler : Serving(h)
  /\ Exclusive

-----------------------------------------------------------------------------
(* Types.                                                                  *)

LEMMA NoRequestType ==
  /\ NoRequest \in HandlerState
  /\ NoRequest.at = "idle"
<1>1. (CHOOSE i \in Id : TRUE) \in Id
  BY IdsAssumption
<1>2. 0 \in Entry
  BY SpawnAssumption DEF Entry
<1> QED
  BY <1>1, <1>2 DEF NoRequest, HandlerState, Reply

LEMMA AnsweredType ==
  ASSUME NEW r \in Reply
  PROVE  Answered(r) \in HandlerState /\ Answered(r).at = "replied"
BY NoRequestType DEF Answered, HandlerState

\* A request that leaves a queue leaves a queue.
LEMMA WithoutType ==
  ASSUME NEW S, NEW q \in Seq(S), NEW w
  PROVE  Without(q, w) \in Seq(S)
<1>1. CASE \E k \in DOMAIN q : q[k] = w
  <2> DEFINE k == CHOOSE n \in DOMAIN q : q[n] = w
  <2>1. k \in DOMAIN q
    BY <1>1
  <2>2. k \in 1..Len(q) /\ Len(q) \in Nat /\ \A n \in 1..Len(q) : q[n] \in S
    BY <2>1, LenProperties, ElementOfSeq
  <2> HIDE DEF k
  <2>3. SubSeq(q, 1, k - 1) \in Seq(S)
    BY <2>2, SubSeqProperties
  <2>4. SubSeq(q, k + 1, Len(q)) \in Seq(S)
    BY <2>2, SubSeqProperties
  <2>5. SubSeq(q, 1, k - 1) \o SubSeq(q, k + 1, Len(q)) \in Seq(S)
    BY <2>3, <2>4, ConcatProperties
  <2> QED
    BY <1>1, <2>5 DEF Without, k
<1>2. CASE ~\E k \in DOMAIN q : q[k] = w
  BY <1>2 DEF Without
<1> QED
  BY <1>1, <1>2

StdinTypes ==
  /\ stdin \in [Exec -> {"none", "open", "closed"}]
  /\ stdinLock \in [Exec -> Seq(Handler \cup {"waiter"})]

\* What an open request holds.
LEMMA OpenExec ==
  ASSUME Inv, NEW h \in Handler, Open(h)
  PROVE  /\ handler[h].exec \in Exec /\ handler[h].exec # 0
         /\ handler[h].id \in Id
         /\ handler[h].exec <= execs
         /\ task[handler[h].exec] # "none"
<1>1. handler[h].exec \in 1..execs /\ execs \in 0..MaxSpawns /\ handler[h].id \in Id
  BY DEF Inv, Serving, TypeOK, HandlerState, Entry
<1>2. handler[h].exec \in Exec /\ handler[h].exec # 0 /\ handler[h].exec <= execs
      /\ handler[h].exec \in Nat /\ execs \in Nat
  BY <1>1, SpawnAssumption DEF Exec
<1>3. Life(handler[h].exec)
  BY <1>2 DEF Inv
<1> QED
  BY <1>1, <1>2, <1>3 DEF Life

LEMMA EntryExec ==
  ASSUME Inv, NEW i \in Id, entries[i] # 0
  PROVE  /\ entries[i] \in Exec /\ entries[i] \in 1..execs
         /\ task[entries[i]] # "none" /\ Life(entries[i])
<1>1. entries[i] \in 0..MaxSpawns /\ entries[i] <= execs /\ execs \in 0..MaxSpawns
  BY DEF Inv, TypeOK, Entry
<1>2. entries[i] \in Exec /\ entries[i] \in 1..execs /\ ~(entries[i] > execs)
  BY <1>1, SpawnAssumption DEF Exec
<1>3. Life(entries[i])
  BY <1>2 DEF Inv
<1> QED
  BY <1>2, <1>3 DEF Life

-----------------------------------------------------------------------------
(* Steps of a request that leave the registry and the outcomes alone.      *)

Calm == UNCHANGED <<yields, execs, entries, acked, task, terminal, result, delivered>>

LEMMA CalmLife ==
  ASSUME Inv, Calm
  PROVE  Slots' /\ \A x \in Exec : Life(x)'
<1>1. Slots'
  BY DEF Calm, Inv, Slots
<1>2. ASSUME NEW x \in Exec PROVE Life(x)'
  BY DEF Calm, Inv, Life, Published, Registered
<1> QED
  BY <1>1, <1>2

\* A request ends, or its client goes away.
LEMMA EndsKeeps ==
  ASSUME Inv, Calm, StdinTypes', NEW h \in Handler, NEW s \in HandlerState,
         s.at \in {"idle", "replied"}, handler' = [handler EXCEPT ![h] = s]
  PROVE  Inv'
<1>1. /\ handler' \in [Handler -> HandlerState] /\ handler'[h] = s
      /\ \A g \in Handler \ {h} : handler'[g] = handler[g]
  BY DEF Inv, TypeOK
<1>2. TypeOK'
  BY <1>1 DEF Inv, TypeOK, Calm, StdinTypes
<1>3. ASSUME NEW g \in Handler PROVE Serving(g)'
  <2>1. CASE g = h
    BY <1>1, <2>1 DEF Serving, Open
  <2>2. CASE g # h
    BY <1>1, <2>2 DEF Serving, Open, Inv, Calm, Published
  <2> QED
    BY <2>1, <2>2
<1>4. Exclusive'
  BY <1>1 DEF Inv, Exclusive, AtLock, Calm
<1> QED
  BY <1>2, <1>3, <1>4, CalmLife DEF Inv

LEMMA AnswersKeeps ==
  ASSUME Inv, Calm, StdinTypes', NEW h \in Handler, NEW r \in Reply, Answers(h, r)
  PROVE  Inv'
<1>1. Answered(r) \in HandlerState /\ Answered(r).at \in {"idle", "replied"}
  BY AnsweredType
<1> QED
  BY <1>1, EndsKeeps DEF Answers

\* A request looks its exec up.
LEMMA BeginKeeps ==
  ASSUME Inv, Calm, StdinTypes', yields \/ ~AtFreeLock,
         NEW h \in Handler, NEW i \in Id, entries[i] # 0,
         NEW op \in {"poll", "ack", "stdin", "kill"}, NEW eof \in BOOLEAN,
         Begin(h, i, op, eof)
  PROVE  Inv'
<1> DEFINE s == [at |-> op, id |-> i, exec |-> entries[i], acked |-> acked[entries[i]],
                 eof |-> eof, over |-> Published(entries[i]), reply |-> "none"]
<1>1. /\ entries[i] \in Exec /\ entries[i] \in Entry /\ entries[i] \in 1..execs
      /\ acked[entries[i]] \in BOOLEAN /\ Life(entries[i])
  BY EntryExec DEF Inv, TypeOK
<1>2. Published(entries[i]) \in BOOLEAN
  BY DEF Published
<1>3. s \in HandlerState
  BY <1>1, <1>2 DEF HandlerState, Reply
<1>4. handler' = [handler EXCEPT ![h] = s]
  BY DEF Begin
<1>5. /\ s.at = op /\ s.id = i /\ s.exec = entries[i] /\ s.acked = acked[entries[i]]
      /\ s.over = Published(entries[i])
  OBVIOUS
<1> HIDE DEF s
<1>6. /\ handler' \in [Handler -> HandlerState] /\ handler'[h] = s
      /\ \A g \in Handler \ {h} : handler'[g] = handler[g]
  BY <1>3, <1>4 DEF Inv, TypeOK
<1>7. TypeOK'
  BY <1>6 DEF Inv, TypeOK, Calm, StdinTypes
<1>8. ASSUME NEW g \in Handler PROVE Serving(g)'
  <2>1. CASE g = h
    <3>1. \A j \in Id : entries[j] = entries[i] => j = i
      BY DEF Inv, Slots
    <3>2. Published(entries[i]) /\ ~acked[entries[i]] => result[entries[i]]
      BY <1>1 DEF Life
    <3> QED
      BY <1>1, <1>5, <1>6, <2>1, <3>1, <3>2 DEF Serving, Open, Calm, Published
  <2>2. CASE g # h
    BY <1>6, <2>2 DEF Serving, Open, Inv, Calm, Published
  <2> QED
    BY <2>1, <2>2
<1>9. Exclusive'
  BY <1>6 DEF Exclusive, AtLock, AtFreeLock, Calm
<1> QED
  BY <1>7, <1>8, <1>9, CalmLife DEF Inv

LEMMA SameStdin ==
  ASSUME Inv, UNCHANGED stdinVars
  PROVE  StdinTypes'
BY DEF Inv, TypeOK, StdinTypes, stdinVars

-----------------------------------------------------------------------------
(* The requests that leave the registry and the outcomes alone.            *)

\* A request that is answered at once.
LEMMA RefusalsKeep ==
  ASSUME Inv, NEW h \in Handler, NEW i \in Id,
         \/ StartKnown(h, i) \/ StartRefused(h) \/ Unknown(h, i)
         \/ StdinNotRequested(h, i)
  PROVE  Inv'
<1>1. PICK r \in Reply : Answers(h, r)
  BY DEF StartKnown, StartRefused, Unknown, StdinNotRequested, Reply
<1>2. Calm /\ UNCHANGED stdinVars
  BY DEF StartKnown, StartRefused, Unknown, StdinNotRequested, Calm, entryVars, taskVars
<1> QED
  BY <1>1, <1>2, SameStdin, AnswersKeeps

\* A request that looks its exec up and awaits.
LEMMA LookupsKeep ==
  ASSUME Inv, yields \/ ~AtFreeLock, NEW h \in Handler, NEW i \in Id,
         PollLookup(h, i) \/ AckLookup(h, i) \/ KillLookup(h, i)
  PROVE  Inv'
<1>1. PICK op \in {"poll", "ack", "stdin", "kill"} : Begin(h, i, op, FALSE)
  BY DEF PollLookup, AckLookup, KillLookup
<1>2. Calm /\ UNCHANGED stdinVars /\ entries[i] # 0
  BY DEF PollLookup, AckLookup, KillLookup, Calm, entryVars, taskVars
<1> QED
  BY <1>1, <1>2, SameStdin, BeginKeeps

LEMMA StdinQueuesKeeps ==
  ASSUME Inv, yields \/ ~AtFreeLock, NEW h \in Handler, NEW i \in Id, StdinQueues(h, i)
  PROVE  Inv'
<1>1. PICK eof \in BOOLEAN : Begin(h, i, "stdin", eof)
  BY DEF StdinQueues
<1>2. Calm /\ UNCHANGED stdin /\ entries[i] # 0
  BY DEF StdinQueues, Calm, entryVars, taskVars
<1>3. StdinTypes'
  <2> DEFINE q == stdinLock[entries[i]]
  <2>1. q \in Seq(Handler \cup {"waiter"}) /\ entries[i] \in Exec
    BY <1>2, EntryExec DEF Inv, TypeOK
  <2>2. Append(q, h) \in Seq(Handler \cup {"waiter"})
    BY <2>1, AppendProperties
  <2>3. stdinLock' = [stdinLock EXCEPT ![entries[i]] = Append(q, h)]
    BY DEF StdinQueues
  <2> HIDE DEF q
  <2> QED
    BY <1>2, <2>2, <2>3 DEF StdinTypes, Inv, TypeOK
<1> QED
  BY <1>1, <1>2, <1>3, BeginKeeps

\* A poll or an ack that finds the slot empty answers.
LEMMA ReadsKeep ==
  ASSUME Inv, NEW h \in Handler, PollAnswers(h) \/ AckEmpty(h)
  PROVE  Inv'
<1>1. PICK r \in Reply : Answers(h, r)
  BY DEF PollAnswers, PollPhase, AckEmpty, Reply
<1>2. Calm /\ UNCHANGED stdinVars
  BY DEF PollAnswers, AckEmpty, Calm, entryVars, taskVars
<1> QED
  BY <1>1, <1>2, SameStdin, AnswersKeeps

LEMMA KillAnswersKeeps ==
  ASSUME Inv, NEW h \in Handler, KillAnswers(h)
  PROVE  Inv'
<1>1. PICK r \in Reply : Answers(h, r)
  BY DEF KillAnswers, Reply
<1>2. Calm /\ UNCHANGED stdinVars
  BY DEF KillAnswers, Calm, entryVars, taskVars
<1> QED
  BY <1>1, <1>2, SameStdin, AnswersKeeps

\* The queue behind its first member.
LEMMA TailType ==
  ASSUME Inv, NEW x \in Exec, stdinLock[x] # <<>>
  PROVE  [stdinLock EXCEPT ![x] = Tail(@)] \in [Exec -> Seq(Handler \cup {"waiter"})]
<1> DEFINE q == stdinLock[x]
<1>1. stdinLock \in [Exec -> Seq(Handler \cup {"waiter"})] /\ q # <<>>
      /\ q \in Seq(Handler \cup {"waiter"})
  BY DEF Inv, TypeOK
<1>2. Tail(q) \in Seq(Handler \cup {"waiter"})
  BY <1>1, HeadTailProperties
<1>3. [stdinLock EXCEPT ![x] = Tail(@)] = [stdinLock EXCEPT ![x] = Tail(q)]
  OBVIOUS
<1> HIDE DEF q
<1> QED
  BY <1>1, <1>2, <1>3

LEMMA HolderExec ==
  ASSUME Inv, NEW h \in Handler, HoldsStdin(h)
  PROVE  handler[h].exec \in Exec /\ stdinLock[handler[h].exec] # <<>>
BY OpenExec DEF HoldsStdin, Open

LEMMA StdinGoneKeeps ==
  ASSUME Inv, NEW h \in Handler, StdinGone(h)
  PROVE  Inv'
<1>1. Calm /\ Answers(h, "closed") /\ "closed" \in Reply
  BY DEF StdinGone, Calm, entryVars, taskVars, Reply
<1>2. StdinTypes'
  BY HolderExec, TailType DEF StdinGone, StdinTypes, Inv, TypeOK
<1> QED
  BY <1>1, <1>2, AnswersKeeps

LEMMA StdinWriteEndsKeeps ==
  ASSUME Inv, NEW h \in Handler, NEW left \in {"open", "closed"}, NEW r \in Reply,
         StdinWriteEnds(h, left, r)
  PROVE  Inv'
<1>1. Calm /\ Answers(h, r)
  BY DEF StdinWriteEnds, Calm, entryVars, taskVars
<1>2. StdinTypes'
  <2>1. stdinLock' \in [Exec -> Seq(Handler \cup {"waiter"})]
    BY HolderExec, TailType DEF StdinWriteEnds
  <2>2. stdin' \in [Exec -> {"none", "open", "closed"}]
    BY DEF StdinWriteEnds, Inv, TypeOK
  <2> QED
    BY <2>1, <2>2 DEF StdinTypes
<1> QED
  BY <1>1, <1>2, AnswersKeeps

LEMMA ProceedsKeeps ==
  ASSUME Inv, NEW h \in Handler, Proceeds(h)
  PROVE  Inv'
<1>1. "written" \in Reply /\ "closed" \in Reply /\ "failed" \in Reply
      /\ "timed_out" \in Reply
  BY DEF Reply
<1>2. (IF handler[h].eof THEN "closed" ELSE "open") \in {"open", "closed"}
  OBVIOUS
<1>3. StdinWritten(h) => Inv'
  BY <1>1, <1>2, StdinWriteEndsKeeps DEF StdinWritten
<1>4. StdinBroken(h) \/ StdinFailed(h) \/ StdinTimesOut(h) => Inv'
  BY <1>1, StdinWriteEndsKeeps DEF StdinBroken, StdinFailed, StdinTimesOut
<1> QED
  BY <1>3, <1>4, StdinGoneKeeps, KillAnswersKeeps DEF Proceeds

LEMMA DisconnectKeeps ==
  ASSUME Inv, NEW h \in Handler, Disconnect(h)
  PROVE  Inv'
<1>1. Calm
  BY DEF Disconnect, Calm, entryVars, taskVars
<1>2. StdinTypes'
  <2>1. \A x \in Exec : Without(stdinLock[x], h) \in Seq(Handler \cup {"waiter"})
    BY WithoutType DEF Inv, TypeOK
  <2> QED
    BY <2>1 DEF Disconnect, StdinTypes, Inv, TypeOK
<1> QED
  BY <1>1, <1>2, NoRequestType, EndsKeeps DEF Disconnect

-----------------------------------------------------------------------------
(* The steps that change the registry or an outcome.                       *)

LEMMA SpawnKeeps ==
  ASSUME Inv, NEW h \in Handler, NEW i \in Id, Spawn(h, i)
  PROVE  Inv'
<1> DEFINE n == execs + 1
<1>1. execs \in Nat /\ n \in Exec /\ n \in Entry /\ n \in Nat /\ n # 0
      /\ execs' = n /\ execs < n /\ n \in 0..MaxSpawns
  BY SpawnAssumption DEF Spawn, Inv, TypeOK, Entry, Exec
<1>2. /\ entries' = [entries EXCEPT ![i] = n] /\ task' = [task EXCEPT ![n] = "wait"]
      /\ UNCHANGED <<yields, acked, terminal, result, stdinLock, delivered>>
      /\ entries[i] = 0
  BY DEF Spawn
<1>3. PICK pipe \in {"open", "none"} : stdin' = [stdin EXCEPT ![n] = pipe]
  BY DEF Spawn
<1>4. handler' = [handler EXCEPT ![h] = Answered("started")]
      /\ Answered("started") \in HandlerState /\ Answered("started").at = "replied"
  BY AnsweredType DEF Spawn, Answers, Reply
<1>5. /\ handler' \in [Handler -> HandlerState] /\ handler'[h].at = "replied"
      /\ \A g \in Handler \ {h} : handler'[g] = handler[g]
  BY <1>4 DEF Inv, TypeOK
<1>6. \A j \in Id : entries[j] \in Nat /\ entries[j] <= execs
  BY SpawnAssumption DEF Inv, TypeOK, Entry
<1> HIDE DEF n
<1>7. /\ entries' \in [Id -> Entry] /\ entries'[i] = n
      /\ \A j \in Id \ {i} : entries'[j] = entries[j]
  BY <1>1, <1>2 DEF Inv, TypeOK
<1>8. TypeOK'
  <2>1. \A j \in Id : entries'[j] <= execs'
    BY <1>1, <1>6, <1>7
  <2>2. task' \in [Exec -> {"none", "wait", "result", "stdin", "finished"}]
    BY <1>2 DEF Inv, TypeOK
  <2>3. stdin' \in [Exec -> {"none", "open", "closed"}]
    BY <1>3 DEF Inv, TypeOK
  <2> QED
    BY <1>1, <1>2, <1>5, <1>7, <2>1, <2>2, <2>3 DEF Inv, TypeOK
<1>9. Slots'
  <2>1. \A j \in Id : entries[j] # n
    BY <1>1, <1>6
  <2> QED
    BY <1>1, <1>7, <2>1 DEF Inv, Slots
<1>10. /\ task'[n] = "wait" /\ \A x \in Exec \ {n} : task'[x] = task[x]
  BY <1>1, <1>2 DEF Inv, TypeOK
<1>11. ASSUME NEW x \in Exec PROVE Life(x)'
  <2>1. Life(x) /\ x \in Nat
    BY DEF Inv, Exec
  <2>2. CASE x = n
    <3>1. task[x] = "none" /\ ~terminal[x] /\ ~acked[x] /\ ~result[x] /\ delivered[x] = 0
      BY <1>1, <2>1, <2>2 DEF Life, Published
    <3>2. Registered(x)'
      BY <1>7, <2>2 DEF Registered
    <3> QED
      BY <1>1, <1>2, <1>10, <2>2, <3>1, <3>2 DEF Life, Published
  <2>3. CASE x # n
    <3>1. x > execs <=> x > n
      BY <1>1, <2>1, <2>3 DEF n
    <3>2. Registered(x) => Registered(x)' \/ x = 0
      BY <1>2, <1>7 DEF Registered
    <3>3. x # 0
      BY DEF Exec
    <3> QED
      BY <1>1, <1>2, <1>10, <2>1, <2>3, <3>1, <3>2, <3>3 DEF Life, Published
  <2> QED
    BY <2>2, <2>3
<1>12. ASSUME NEW g \in Handler PROVE Serving(g)'
  <2>1. CASE g = h
    BY <1>5, <2>1 DEF Serving, Open
  <2>2. CASE g # h /\ Open(g)
    <3>1. handler'[g] = handler[g] /\ Serving(g)
      BY <1>5, <2>2 DEF Inv
    <3>2. handler[g].exec \in Exec /\ handler[g].exec \in 1..execs
          /\ handler[g].exec # n /\ handler[g].exec \in 1..n
      BY <1>1, <2>2, <3>1, OpenExec DEF Serving, n
    <3>3. Published(handler[g].exec) = Published(handler[g].exec)'
      BY <1>10, <3>1, <3>2 DEF Published
    <3>4. \A j \in Id : entries'[j] = handler[g].exec => j = handler[g].id
      BY <1>7, <2>2, <3>1, <3>2 DEF Serving
    <3> QED
      BY <1>1, <1>2, <2>2, <3>1, <3>2, <3>3, <3>4 DEF Serving, Open
  <2>3. CASE g # h /\ ~Open(g)
    BY <1>5, <2>3 DEF Serving, Open
  <2> QED
    BY <2>1, <2>2, <2>3
<1>13. Exclusive'
  BY <1>2, <1>5 DEF Inv, Exclusive, AtLock
<1> QED
  BY <1>8, <1>9, <1>11, <1>12, <1>13 DEF Inv

\* A step of the waiter of x: no entry and no request is touched, a
\* published outcome stays published and a slot is only filled.
LEMMA WaiterKeeps ==
  ASSUME Inv, TypeOK', NEW x \in Exec,
         UNCHANGED <<yields, execs, entries, acked, handler, delivered>>,
         \A y \in Exec \ {x} : /\ task'[y] = task[y] /\ terminal'[y] = terminal[y]
                               /\ result'[y] = result[y],
         Published(x) => Published(x)', result[x] => result'[x],
         Life(x)'
  PROVE  Inv'
<1>1. Slots' /\ Exclusive'
  BY DEF Inv, Slots, Exclusive, AtLock
<1>2. ASSUME NEW y \in Exec PROVE Life(y)'
  <2>1. CASE y # x
    BY <2>1 DEF Inv, Life, Published, Registered
  <2> QED
    BY <2>1
<1>3. ASSUME NEW h \in Handler PROVE Serving(h)'
  <2>1. CASE Open(h)
    <3>1. handler[h].exec \in Exec
      BY <2>1, OpenExec
    <3>2. Published(handler[h].exec) => Published(handler[h].exec)'
      BY <3>1 DEF Published
    <3>3. result[handler[h].exec] => result'[handler[h].exec]
      BY <3>1 DEF Inv, TypeOK
    <3> QED
      BY <2>1, <3>2, <3>3 DEF Inv, Serving, Open
  <2>2. CASE ~Open(h)
    BY <2>2 DEF Serving, Open
  <2> QED
    BY <2>1, <2>2
<1> QED
  BY <1>1, <1>2, <1>3 DEF Inv

LEMMA SetTerminalKeeps ==
  ASSUME Inv, NEW x \in Exec, SetTerminal(x)
  PROVE  Inv'
<1>1. /\ UNCHANGED <<yields, execs, entries, acked, handler, delivered, result, stdinVars>>
      /\ task[x] = "wait" /\ task' = [task EXCEPT ![x] = "result"]
      /\ terminal' = [terminal EXCEPT ![x] = TRUE]
  BY DEF SetTerminal, entryVars
<1>2. TypeOK'
  BY <1>1 DEF Inv, TypeOK, stdinVars
<1>3. /\ task'[x] = "result" /\ terminal'[x]
      /\ \A y \in Exec \ {x} : task'[y] = task[y] /\ terminal'[y] = terminal[y]
  BY <1>1 DEF Inv, TypeOK
<1>4. Life(x)'
  BY <1>1, <1>3 DEF Inv, Life, Published, Registered
<1>5. ~Published(x)
  BY <1>1 DEF Published
<1> QED
  BY <1>1, <1>2, <1>3, <1>4, <1>5, WaiterKeeps

LEMMA SetResultKeeps ==
  ASSUME Inv, NEW x \in Exec, SetResult(x)
  PROVE  Inv'
<1>1. /\ UNCHANGED <<yields, execs, entries, acked, handler, delivered, terminal, stdin>>
      /\ task[x] = "result" /\ task' = [task EXCEPT ![x] = "stdin"]
      /\ result' = [result EXCEPT ![x] = TRUE]
  BY DEF SetResult, entryVars
<1>2. TypeOK'
  <2> DEFINE q == stdinLock[x]
  <2>1. Append(q, "waiter") \in Seq(Handler \cup {"waiter"})
    BY AppendProperties DEF Inv, TypeOK
  <2>2. stdinLock' = [stdinLock EXCEPT ![x] = Append(q, "waiter")]
    BY DEF SetResult
  <2> HIDE DEF q
  <2>3. stdinLock' \in [Exec -> Seq(Handler \cup {"waiter"})]
    BY <2>1, <2>2 DEF Inv, TypeOK
  <2>4. task' \in [Exec -> {"none", "wait", "result", "stdin", "finished"}]
        /\ result' \in [Exec -> BOOLEAN]
    BY <1>1 DEF Inv, TypeOK
  <2> QED
    BY <1>1, <2>3, <2>4 DEF Inv, TypeOK
<1>3. /\ task'[x] = "stdin" /\ result'[x]
      /\ \A y \in Exec \ {x} : task'[y] = task[y] /\ result'[y] = result[y]
  BY <1>1 DEF Inv, TypeOK
<1>4. Life(x)'
  BY <1>1, <1>3 DEF Inv, Life, Published, Registered
<1>5. ~Published(x)
  BY <1>1 DEF Published
<1> QED
  BY <1>1, <1>2, <1>3, <1>4, <1>5, WaiterKeeps

LEMMA CloseStdinKeeps ==
  ASSUME Inv, NEW x \in Exec, CloseStdin(x)
  PROVE  Inv'
<1>1. /\ UNCHANGED <<yields, execs, entries, acked, handler, delivered, terminal, result>>
      /\ task[x] = "stdin" /\ task' = [task EXCEPT ![x] = "finished"]
      /\ stdin' = [stdin EXCEPT ![x] = IF @ = "open" THEN "closed" ELSE @]
  BY DEF CloseStdin, entryVars
<1>2. TypeOK'
  <2>1. stdinLock' \in [Exec -> Seq(Handler \cup {"waiter"})]
    BY TailType DEF CloseStdin
  <2>2. task' \in [Exec -> {"none", "wait", "result", "stdin", "finished"}]
    BY <1>1 DEF Inv, TypeOK
  <2>3. stdin' \in [Exec -> {"none", "open", "closed"}]
    BY <1>1 DEF Inv, TypeOK
  <2> QED
    BY <1>1, <2>1, <2>2, <2>3 DEF Inv, TypeOK
<1>3. /\ task'[x] = "finished" /\ \A y \in Exec \ {x} : task'[y] = task[y]
  BY <1>1 DEF Inv, TypeOK
<1>4. Life(x)' /\ Published(x)'
  BY <1>1, <1>3 DEF Inv, Life, Published, Registered
<1> QED
  BY <1>1, <1>2, <1>3, <1>4, WaiterKeeps

\* The entry an ack finds under its id is the one whose outcome it took.
LEMMA AckMarksItsExec ==
  ASSUME Inv, NEW h \in Handler, handler[h].at = "ack", result[handler[h].exec]
  PROVE  /\ entries[handler[h].id] = handler[h].exec
         /\ ~acked[handler[h].exec] /\ delivered[handler[h].exec] = 0
         /\ Published(handler[h].exec)
<1>1. handler[h].exec \in Exec /\ task[handler[h].exec] # "none" /\ Open(h)
  BY OpenExec DEF Open
<1>2. Published(handler[h].exec) /\ ~acked[handler[h].exec]
      /\ Registered(handler[h].exec) /\ delivered[handler[h].exec] = 0
  BY <1>1 DEF Inv, Life
<1>3. PICK j \in Id : entries[j] = handler[h].exec
  BY <1>2 DEF Registered
<1>4. j = handler[h].id
  BY <1>1, <1>3 DEF Inv, Serving
<1> QED
  BY <1>2, <1>3, <1>4

\* What an ack that finds an outcome does.
LEMMA AckTakesEffect ==
  ASSUME Inv, NEW h \in Handler, AckTakes(h)
  PROVE  /\ handler[h].exec \in Exec /\ result[handler[h].exec]
         /\ entries[handler[h].id] = handler[h].exec
         /\ ~acked[handler[h].exec] /\ delivered[handler[h].exec] = 0
         /\ Published(handler[h].exec)
         /\ result' = [result EXCEPT ![handler[h].exec] = FALSE]
         /\ acked' = [acked EXCEPT ![handler[h].exec] = TRUE]
         /\ delivered' = [delivered EXCEPT ![handler[h].exec] = 1]
         /\ Answers(h, "released")
         /\ UNCHANGED <<yields, execs, entries, task, terminal, stdin, stdinLock>>
<1> DEFINE x == handler[h].exec
           y == entries[handler[h].id]
           marked == y # 0 /\ ~acked[y]
<1>1. handler[h].at = "ack" /\ result[x]
  BY DEF AckTakes
<1>2. y = x /\ ~acked[x] /\ delivered[x] = 0 /\ Published(x)
  BY <1>1, AckMarksItsExec
<1>3. x \in Exec /\ x # 0
  BY <1>1, OpenExec DEF Open
<1>4. marked
  BY <1>2, <1>3
<1>5. /\ result' = [result EXCEPT ![x] = FALSE]
      /\ acked' = IF marked THEN [acked EXCEPT ![y] = TRUE] ELSE acked
      /\ delivered' = IF marked THEN [delivered EXCEPT ![x] = @ + 1] ELSE delivered
      /\ Answers(h, IF marked THEN "released" ELSE "already_acked")
      /\ UNCHANGED <<yields, execs, entries, task, terminal, stdin, stdinLock>>
  BY DEF AckTakes, taskVars, stdinVars
<1> HIDE DEF x, y, marked
<1>6. acked' = [acked EXCEPT ![x] = TRUE] /\ Answers(h, "released")
  BY <1>2, <1>4, <1>5
<1>7. delivered' = [delivered EXCEPT ![x] = 1]
  BY <1>2, <1>3, <1>4, <1>5 DEF Inv, TypeOK
<1> QED
  BY <1>1, <1>2, <1>3, <1>5, <1>6, <1>7 DEF x, y

LEMMA AckTakesKeeps ==
  ASSUME Inv, NEW h \in Handler, AckTakes(h)
  PROVE  Inv'
<1> DEFINE x == handler[h].exec
<1>1. /\ x \in Exec /\ result[x] /\ ~acked[x] /\ delivered[x] = 0 /\ Published(x)
      /\ result' = [result EXCEPT ![x] = FALSE]
      /\ acked' = [acked EXCEPT ![x] = TRUE]
      /\ delivered' = [delivered EXCEPT ![x] = 1]
      /\ UNCHANGED <<yields, execs, entries, task, terminal, stdin, stdinLock>>
      /\ handler[h].at = "ack"
  BY AckTakesEffect DEF AckTakes
<1>2. /\ handler' = [handler EXCEPT ![h] = Answered("released")]
      /\ Answered("released") \in HandlerState /\ Answered("released").at = "replied"
  BY AckTakesEffect, AnsweredType DEF Answers, Reply
<1> HIDE DEF x
<1>3. /\ handler' \in [Handler -> HandlerState] /\ handler'[h].at = "replied"
      /\ \A g \in Handler \ {h} : handler'[g] = handler[g]
  BY <1>2 DEF Inv, TypeOK
<1>4. TypeOK'
  BY <1>1, <1>3 DEF Inv, TypeOK
<1>5. Slots'
  BY <1>1 DEF Inv, Slots
<1>6. /\ ~result'[x] /\ acked'[x] /\ delivered'[x] = 1
      /\ \A y \in Exec \ {x} : /\ result'[y] = result[y] /\ acked'[y] = acked[y]
                               /\ delivered'[y] = delivered[y]
  BY <1>1 DEF Inv, TypeOK
<1>7. ASSUME NEW y \in Exec PROVE Life(y)'
  <2>1. CASE y = x
    BY <1>1, <1>6, <2>1 DEF Inv, Life, Published, Registered
  <2>2. CASE y # x
    BY <1>1, <1>6, <2>2 DEF Inv, Life, Published, Registered
  <2> QED
    BY <2>1, <2>2
<1>8. ASSUME NEW g \in Handler PROVE Serving(g)'
  <2>1. CASE g = h
    BY <1>3, <2>1 DEF Serving, Open
  <2>2. CASE g # h
    <3>1. handler'[g] = handler[g] /\ Serving(g)
      BY <1>3, <2>2 DEF Inv
    <3>2. handler[g].at = "poll" => yields
      BY <1>1, <2>2 DEF Inv, Exclusive, AtLock
    <3> QED
      BY <1>1, <3>1, <3>2 DEF Serving, Open, Published
  <2> QED
    BY <2>1, <2>2
<1>9. Exclusive'
  BY <1>1, <1>3 DEF Inv, Exclusive, AtLock
<1> QED
  BY <1>4, <1>5, <1>7, <1>8, <1>9 DEF Inv

LEMMA CollectKeeps ==
  ASSUME Inv, CollectExpired
  PROVE  Inv'
<1>1. PICK S \in SUBSET Id :
        /\ \A i \in S : IsAcked(i)
        /\ entries' = [i \in Id |-> IF i \in S THEN 0 ELSE entries[i]]
  BY DEF CollectExpired
<1>2. UNCHANGED <<yields, execs, acked, task, terminal, result, stdin, stdinLock,
                  handler, delivered>>
  BY DEF CollectExpired, taskVars, stdinVars
<1>3. /\ \A i \in Id : entries'[i] = IF i \in S THEN 0 ELSE entries[i]
      /\ \A i \in Id : entries[i] \in Entry /\ entries[i] <= execs
      /\ 0 \in Entry /\ execs \in Nat
  BY <1>1, SpawnAssumption DEF Inv, TypeOK, Entry
<1>4. TypeOK'
  <2>1. entries' \in [Id -> Entry]
    BY <1>1, <1>3
  <2>2. \A i \in Id : entries'[i] <= execs
    BY <1>3
  <2> QED
    BY <1>2, <2>1, <2>2 DEF Inv, TypeOK
<1>5. Slots' /\ Exclusive'
  BY <1>2, <1>3 DEF Inv, Slots, Exclusive, AtLock
<1>6. ASSUME NEW x \in Exec PROVE Life(x)'
  <2>1. Registered(x) /\ ~acked[x] => Registered(x)'
    BY <1>1, <1>3 DEF Registered, IsAcked
  <2> QED
    BY <1>2, <2>1 DEF Inv, Life, Published
<1>7. ASSUME NEW h \in Handler PROVE Serving(h)'
  <2>1. Open(h) => handler[h].exec # 0
    BY OpenExec
  <2> QED
    BY <1>2, <1>3, <2>1 DEF Inv, Serving, Open, Published
<1> QED
  BY <1>4, <1>5, <1>6, <1>7 DEF Inv

LEMMA InitKeeps == Init => Inv
<1> SUFFICES ASSUME Init PROVE Inv
  OBVIOUS
<1>1. TypeOK
  <2>1. 0 \in Entry /\ 0 <= 0 /\ 0 \in Nat
    BY SpawnAssumption DEF Entry
  <2>2. <<>> \in Seq(Handler \cup {"waiter"})
    OBVIOUS
  <2> QED
    BY <2>1, <2>2, NoRequestType DEF Init, TypeOK
<1>2. \A x \in Exec : Life(x)
  BY DEF Init, Life, Published, Exec
<1>3. \A h \in Handler : Serving(h) /\ ~AtLock(h)
  BY NoRequestType DEF Init, Serving, Open, AtLock
<1> QED
  BY <1>1, <1>2, <1>3 DEF Inv, Init, Slots, Exclusive

LEMMA NextKeeps ==
  ASSUME Inv, [Next]_vars
  PROVE  Inv'
<1>1. ASSUME NEW h \in Handler, Resumes(h) PROVE Inv'
  BY <1>1, ReadsKeep, AckTakesKeeps DEF Resumes
<1>2. ASSUME NEW h \in Handler, NEW i \in Id, yields \/ ~AtFreeLock, Request(h, i)
      PROVE  Inv'
  BY <1>2, RefusalsKeep, LookupsKeep, StdinQueuesKeeps, SpawnKeeps
     DEF Request, Start, Poll, Ack, WriteStdin, Kill
<1>3. ASSUME NEW h \in Handler, Proceeds(h) \/ Disconnect(h) PROVE Inv'
  BY <1>3, ProceedsKeeps, DisconnectKeeps
<1>4. ASSUME NEW x \in Exec, SetResult(x) \/ Waiter(x) PROVE Inv'
  BY <1>4, SetResultKeeps, SetTerminalKeeps, CloseStdinKeeps DEF Waiter
<1>5. CASE UNCHANGED vars
  <2>1. Calm /\ UNCHANGED <<stdin, stdinLock, handler>>
    BY <1>5 DEF vars, Calm
  <2>2. TypeOK'
    BY <2>1 DEF Inv, TypeOK, Calm
  <2>3. (\A h \in Handler : Serving(h)') /\ Exclusive'
    BY <2>1 DEF Inv, Serving, Open, Exclusive, AtLock, Calm, Published
  <2> QED
    BY <2>1, <2>2, <2>3, CalmLife DEF Inv
<1> QED
  BY <1>1, <1>2, <1>3, <1>4, <1>5, CollectKeeps DEF Next

-----------------------------------------------------------------------------
(* Theorems.                                                               *)

\* The inductive invariant holds of every behaviour of the registry.
THEOREM RegistryInvariant == Spec => []Inv
BY InitKeeps, NextKeeps, PTL DEF Spec

\* Every variable keeps its type, every entry names a spawned exec and every
\* stdin queue holds requests and the waiter only (Registry, ExecEntry).
THEOREM TypeCorrect == Spec => []TypeOK
<1>1. Inv => TypeOK
  BY DEF Inv
<1> QED
  BY <1>1, RegistryInvariant, PTL

\* A published outcome is in its slot behind a registered unacked entry, or
\* exactly one ack handed it out (ack, collect_expired).
THEOREM OutcomesKept == Spec => []OutcomeKept
<1>1. Inv => OutcomeKept
  <2> SUFFICES ASSUME Inv, NEW x \in Exec, Published(x)
               PROVE  \/ result[x] /\ Registered(x) /\ ~acked[x] /\ delivered[x] = 0
                      \/ ~result[x] /\ acked[x] /\ delivered[x] = 1
    BY DEF OutcomeKept
  <2>1. Life(x) /\ task[x] # "none"
    BY DEF Inv, Published
  <2> QED
    BY <2>1 DEF Life
<1> QED
  BY <1>1, RegistryInvariant, PTL

\* A poll calls an exec running that was over when the request arrived only
\* if an ack took the outcome while the poll was suspended (poll).
THEOREM PollsMisled == Spec => []PollMisledOnlyByAck
<1>1. Inv => PollMisledOnlyByAck
  <2> SUFFICES ASSUME Inv, NEW h \in Handler, handler[h].at = "poll", handler[h].over,
                      PollPhase(h) = "running"
               PROVE  yields /\ delivered[handler[h].exec] = 1
    BY DEF PollMisledOnlyByAck
  <2>1. ~handler[h].acked /\ ~result[handler[h].exec]
    BY DEF PollPhase
  <2>2. handler[h].exec \in Exec /\ Open(h) /\ Serving(h)
    BY OpenExec DEF Open, Inv
  <2>3. Published(handler[h].exec) /\ yields
    BY <2>1, <2>2 DEF Serving, Inv, TypeOK
  <2> QED
    BY <2>1, <2>2, <2>3 DEF Inv, Life
<1> QED
  BY <1>1, RegistryInvariant, PTL

\* The activity signal is true exactly while a registered exec produces
\* output (activity, procs).
THEOREM BusyExact == Spec => []BusyMeansProducing
<1>1. Inv => BusyMeansProducing
  <2> SUFFICES ASSUME Inv, NEW i \in Id, entries[i] # 0
               PROVE  ~terminal[entries[i]] <=> task[entries[i]] = "wait"
    BY DEF BusyMeansProducing, Busy
  <2>1. Life(entries[i]) /\ task[entries[i]] # "none"
    BY EntryExec
  <2> QED
    BY <2>1 DEF Life
<1> QED
  BY <1>1, RegistryInvariant, PTL

-----------------------------------------------------------------------------
(* The registry implements ExecLifecycle.                                  *)

\* The abstract phases, and when they agree with a change at one id.
phases == [i \in Id |-> RegisteredPhase(i)]

LEMMA PhaseAt ==
  ASSUME NEW i \in Id, NEW p, RegisteredPhase(i)' = p,
         \A j \in Id \ {i} : RegisteredPhase(j)' = RegisteredPhase(j)
  PROVE  phases' = [phases EXCEPT ![i] = p]
BY DEF phases

\* Nothing the lifecycle speaks of changes.
LEMMA StillLifecycle ==
  ASSUME UNCHANGED <<execs, entries, acked, result, delivered>>
  PROVE  UNCHANGED Lifecycle!lifecycle
<1>1. phases' = phases
  BY DEF phases, RegisteredPhase
<1> QED
  BY <1>1 DEF Lifecycle!lifecycle, phases

\* The step that registers an exec begins it.
LEMMA SpawnBegins ==
  ASSUME Inv, NEW h \in Handler, NEW i \in Id, Spawn(h, i)
  PROVE  Lifecycle!Begin(i)
<1> DEFINE n == execs + 1
<1>1. /\ entries[i] = 0 /\ execs < MaxSpawns /\ execs' = n
      /\ entries' = [entries EXCEPT ![i] = n]
      /\ UNCHANGED <<acked, result, delivered>>
  BY DEF Spawn
<1>2. n \in Exec /\ n > execs /\ n # 0
  BY <1>1, SpawnAssumption DEF Inv, TypeOK, Entry, Exec
<1>3. ~acked[n] /\ ~result[n]
  BY <1>2 DEF Inv, Life, Published
<1> HIDE DEF n
<1>4. entries'[i] = n /\ \A j \in Id \ {i} : entries'[j] = entries[j]
  BY <1>1 DEF Inv, TypeOK
<1>5. RegisteredPhase(i)' = "running"
  BY <1>1, <1>2, <1>3, <1>4 DEF RegisteredPhase
<1>6. \A j \in Id \ {i} : RegisteredPhase(j)' = RegisteredPhase(j)
  BY <1>1, <1>4 DEF RegisteredPhase
<1>7. phases' = [phases EXCEPT ![i] = "running"] /\ phases[i] = "absent"
  BY <1>1, <1>5, <1>6, PhaseAt DEF phases, RegisteredPhase
<1> QED
  BY <1>1, <1>7 DEF Lifecycle!Begin, phases, n

\* The step that publishes an outcome ends the exec, under the one id it is
\* registered under.
LEMMA SetResultEnds ==
  ASSUME Inv, NEW x \in Exec, SetResult(x)
  PROVE  \E i \in Id : Lifecycle!End(i)
<1>1. /\ task[x] = "result" /\ result' = [result EXCEPT ![x] = TRUE]
      /\ UNCHANGED <<execs, entries, acked, delivered>>
  BY DEF SetResult, entryVars
<1>2. ~acked[x] /\ ~result[x] /\ Registered(x) /\ x # 0
  BY <1>1 DEF Inv, Life, Published, Exec
<1>3. PICK i \in Id : entries[i] = x
  BY <1>2 DEF Registered
<1>4. \A j \in Id \ {i} : entries[j] # x
  BY <1>2, <1>3 DEF Inv, Slots
<1>5. result'[x] /\ \A y \in Exec \ {x} : result'[y] = result[y]
  BY <1>1 DEF Inv, TypeOK
<1>6. RegisteredPhase(i)' = "exited"
  BY <1>1, <1>2, <1>3, <1>5 DEF RegisteredPhase
<1>7. ASSUME NEW j \in Id \ {i} PROVE RegisteredPhase(j)' = RegisteredPhase(j)
  <2>1. entries[j] # 0 => entries[j] \in Exec \ {x}
    BY <1>4, EntryExec
  <2> QED
    BY <1>1, <1>5, <2>1 DEF RegisteredPhase
<1>8. phases' = [phases EXCEPT ![i] = "exited"] /\ phases[i] = "running"
  BY <1>2, <1>3, <1>6, <1>7, PhaseAt DEF phases, RegisteredPhase
<1>9. Lifecycle!End(i)
  BY <1>1, <1>8 DEF Lifecycle!End, phases
<1> QED
  BY <1>9

\* The ack that takes an outcome hands it out.
LEMMA AckTakesHandsOut ==
  ASSUME Inv, NEW h \in Handler, AckTakes(h)
  PROVE  \E i \in Id : Lifecycle!HandOut(i)
<1>1. /\ handler[h].exec \in Exec /\ result[handler[h].exec]
      /\ entries[handler[h].id] = handler[h].exec
      /\ ~acked[handler[h].exec] /\ delivered[handler[h].exec] = 0
      /\ result' = [result EXCEPT ![handler[h].exec] = FALSE]
      /\ acked' = [acked EXCEPT ![handler[h].exec] = TRUE]
      /\ delivered' = [delivered EXCEPT ![handler[h].exec] = 1]
      /\ UNCHANGED <<execs, entries>>
  BY AckTakesEffect
<1>2. handler[h].id \in Id /\ handler[h].exec # 0
  BY OpenExec DEF AckTakes, Open
<1>3. PICK i \in Id, x \in Exec : i = handler[h].id /\ x = handler[h].exec
  BY <1>1, <1>2
<1>4. /\ result[x] /\ entries[i] = x /\ ~acked[x] /\ delivered[x] = 0 /\ x # 0
      /\ result' = [result EXCEPT ![x] = FALSE]
      /\ acked' = [acked EXCEPT ![x] = TRUE]
      /\ delivered' = [delivered EXCEPT ![x] = 1]
      /\ UNCHANGED <<execs, entries>>
  BY <1>1, <1>2, <1>3
<1>5. \A j \in Id \ {i} : entries[j] # x
  BY <1>4 DEF Inv, Slots
<1>6. acked'[x] /\ \A y \in Exec \ {x} : result'[y] = result[y] /\ acked'[y] = acked[y]
  BY <1>4 DEF Inv, TypeOK
<1>7. RegisteredPhase(i)' = "acked"
  BY <1>4, <1>6 DEF RegisteredPhase
<1>8. ASSUME NEW j \in Id \ {i} PROVE RegisteredPhase(j)' = RegisteredPhase(j)
  <2>1. entries[j] # 0 => entries[j] \in Exec \ {x}
    BY <1>5, EntryExec
  <2> QED
    BY <1>4, <1>6, <2>1 DEF RegisteredPhase
<1>9. phases' = [phases EXCEPT ![i] = "acked"] /\ phases[i] = "exited"
  BY <1>4, <1>7, <1>8, PhaseAt DEF phases, RegisteredPhase
<1>10. Lifecycle!HandOut(i)
  BY <1>4, <1>9 DEF Lifecycle!HandOut, phases
<1> QED
  BY <1>10

\* The collector forgets acked execs only.
LEMMA CollectForgets ==
  ASSUME Inv, CollectExpired
  PROVE  \E S \in SUBSET Id : Lifecycle!Forget(S)
<1>1. PICK S \in SUBSET Id :
        /\ \A i \in S : IsAcked(i)
        /\ entries' = [i \in Id |-> IF i \in S THEN 0 ELSE entries[i]]
  BY DEF CollectExpired
<1>2. UNCHANGED <<execs, acked, result, delivered>>
  BY DEF CollectExpired
<1>3. \A i \in S : phases[i] = "acked"
  BY <1>1 DEF phases, RegisteredPhase, IsAcked
<1>4. \A i \in Id : entries'[i] = IF i \in S THEN 0 ELSE entries[i]
  BY <1>1
<1>5. \A i \in Id : RegisteredPhase(i)' = IF i \in S THEN "absent" ELSE RegisteredPhase(i)
  BY <1>2, <1>4 DEF RegisteredPhase
<1>6. phases' = [i \in Id |-> IF i \in S THEN "absent" ELSE phases[i]]
  BY <1>5 DEF phases
<1>7. Lifecycle!Forget(S)
  BY <1>1, <1>2, <1>3, <1>6 DEF Lifecycle!Forget, phases
<1> QED
  BY <1>7

LEMMA NextModelled ==
  ASSUME Inv, [Next]_vars
  PROVE  [Lifecycle!Next]_(Lifecycle!lifecycle)
<1>1. ASSUME NEW h \in Handler, Resumes(h)
      PROVE  Lifecycle!Next \/ UNCHANGED Lifecycle!lifecycle
  <2>1. CASE AckTakes(h)
    BY <2>1, AckTakesHandsOut DEF Lifecycle!Next
  <2>2. CASE PollAnswers(h) \/ AckEmpty(h)
    BY <2>2, StillLifecycle DEF PollAnswers, AckEmpty, entryVars
  <2> QED
    BY <1>1, <2>1, <2>2 DEF Resumes
<1>2. ASSUME NEW h \in Handler, NEW i \in Id, Request(h, i)
      PROVE  Lifecycle!Next \/ UNCHANGED Lifecycle!lifecycle
  <2>1. CASE Spawn(h, i)
    BY <2>1, SpawnBegins DEF Lifecycle!Next
  <2>2. CASE ~Spawn(h, i)
    <3>1. UNCHANGED <<entryVars, result, delivered>>
      BY <1>2, <2>2 DEF Request, Start, Poll, Ack, WriteStdin, Kill, StartKnown,
         StartRefused, Unknown, PollLookup, AckLookup, StdinNotRequested, StdinQueues,
         KillLookup
    <3> QED
      BY <3>1, StillLifecycle DEF entryVars
  <2> QED
    BY <2>1, <2>2
<1>3. ASSUME NEW h \in Handler, Proceeds(h) \/ Disconnect(h)
      PROVE  UNCHANGED Lifecycle!lifecycle
  <2>1. UNCHANGED <<entryVars, result, delivered>>
    BY <1>3 DEF Proceeds, Disconnect, StdinGone, StdinWritten, StdinBroken, StdinFailed,
       StdinTimesOut, StdinWriteEnds, KillAnswers
  <2> QED
    BY <2>1, StillLifecycle DEF entryVars
<1>4. ASSUME NEW x \in Exec, SetResult(x)
      PROVE  Lifecycle!Next
  BY <1>4, SetResultEnds DEF Lifecycle!Next
<1>5. ASSUME NEW x \in Exec, Waiter(x)
      PROVE  UNCHANGED Lifecycle!lifecycle
  BY <1>5, StillLifecycle DEF Waiter, SetTerminal, CloseStdin, entryVars
<1>6. CASE CollectExpired
  BY <1>6, CollectForgets DEF Lifecycle!Next
<1>7. CASE UNCHANGED vars
  BY <1>7, StillLifecycle DEF vars
<1> QED
  BY <1>1, <1>2, <1>3, <1>4, <1>5, <1>6, <1>7 DEF Next

LEMMA InitModelled == Init => Lifecycle!Init
<1> SUFFICES ASSUME Init PROVE Lifecycle!Init
  OBVIOUS
<1>1. phases = [i \in Id |-> "absent"]
  BY DEF Init, phases, RegisteredPhase
<1> QED
  BY <1>1 DEF Init, Lifecycle!Init, phases, Exec

\* The registry implements the lifecycle it promises: phases only advance,
\* the ack that advances one hands out its outcome, and only acked execs are
\* forgotten, whatever requests race and however often an id is used again
\* (start, poll, ack, collect_expired).
THEOREM Implements == Spec => LifecycleImplemented
BY InitModelled, NextModelled, RegistryInvariant, PTL
   DEF Spec, LifecycleImplemented, Lifecycle!Spec

-----------------------------------------------------------------------------
(* The call of ExecCompletion.                                             *)

\* What the daemon may answer to a request.
Fits(op, r) ==
  \/ op = "start" /\ r \in {"started", "refused"}
  \/ op = "poll" /\ r \in {"unknown", "running", "exited", "acked"}
  \/ op = "ack" /\ r \in {"unknown", "released", "already_acked", "still_running"}
  \/ op = "kill" /\ r \in {"unknown", "killed", "not_killed"}

CallTypes ==
  /\ step \in Step /\ slot \in Handler \cup {"none"} /\ lostAck \in BOOLEAN
  /\ transit \in [Handler -> Op \cup {"none"}]
  /\ step # "returned" => returned = NotReturned

\* The request the call awaits is the one its step sends.
Awaiting ==
  slot # "none" =>
    /\ Sends[step] # "none"
    /\ transit[slot] # "none" => transit[slot] = Sends[step] /\ handler[slot].at = "idle"
    /\ handler[slot].at \in {"idle", "replied", Sends[step]}
    /\ handler[slot].at = "replied" => Fits(Sends[step], handler[slot].reply)

\* The answer waits for the call.
Got(r) == slot # "none" /\ handler[slot].at = "replied" /\ handler[slot].reply = r

\* A request that knows of an outcome that was handed out.
Tells(s) ==
  \/ s.at = "replied" /\ s.reply \in {"released", "acked"}
  \/ s.at = "poll" /\ s.acked

\* Some outcome was handed out.
Handed == \E x \in Exec : delivered[x] = 1

HandedInv ==
  /\ \A h \in Handler : Tells(handler[h]) => Handed
  /\ returned.kind = "result" /\ ~returned.synthesized => Handed

\* An ack on its way, at work or granted.
Acking(h) ==
  \/ transit[h] = "ack" \/ handler[h].at = "ack"
  \/ handler[h].at = "replied" /\ handler[h].reply = "released"

\* The outcome is still to be had: nothing is acked, the entry of the call's exec
\* stands once the call knows of it, and a poll that said exited was right.
ToBeHad ==
  /\ \A x \in Exec : ~acked[x]
  /\ step # "run" \/ Got("started") => entries[TheId] # 0
  /\ step = "ack" => result[entries[TheId]]
  /\ slot # "none" /\ handler[slot].at \in {"poll", "ack"} =>
       handler[slot].exec = entries[TheId] /\ ~handler[slot].acked
  /\ step = "wait" =>
       ~Got("acked") /\ ~Got("unknown") /\ (Got("exited") => result[entries[TheId]])
  /\ step = "ack" /\ slot # "none" => handler[slot].at # "replied"

\* While the call has given up on no ack, the only ack is the one it awaits.
Sound ==
  ~lostAck =>
    /\ \A h \in Handler : Acking(h) => h = slot
    /\ step # "returned" /\ ~Got("released") => ToBeHad
    /\ returned.kind \in {"result", "error"} => returned \in {Released, Synthesized}

CallInv == CallTypes /\ Awaiting /\ HandedInv /\ Sound

LEMMA SendsOf ==
  /\ Sends["run"] = "start" /\ Sends["wait"] = "poll" /\ Sends["kill"] = "kill"
  /\ Sends["ack"] = "ack" /\ Sends["ack_after_exit"] = "ack"
  /\ Sends["stream"] = "none" /\ Sends["returned"] = "none"
<1>1. ASSUME NEW x \in Step
      PROVE  Sends[x] = CASE x = "run" -> "start" [] x = "wait" -> "poll" [] x = "kill" -> "kill"
                          [] x \in {"ack", "ack_after_exit"} -> "ack" [] OTHER -> "none"
  BY DEF Sends
<1>2. {"run", "wait", "kill", "ack", "ack_after_exit", "stream", "returned"} = Step
  BY DEF Step
<1>3. Sends["run"] = "start" /\ Sends["wait"] = "poll" /\ Sends["kill"] = "kill"
  BY <1>1, <1>2
<1>4. Sends["ack"] = "ack" /\ Sends["ack_after_exit"] = "ack"
  BY <1>1, <1>2
<1>5. Sends["stream"] = "none" /\ Sends["returned"] = "none"
  BY <1>1, <1>2
<1> QED
  BY <1>3, <1>4, <1>5

LEMMA SendsType == ASSUME NEW x \in Step PROVE Sends[x] \in Op \cup {"none"}
BY SendsOf DEF Step, Op

\* A step of the daemon for one request: it answers, begins, or is dropped.
LEMMA ServesKeep ==
  ASSUME Inv, CallInv, NEW h \in Handler, NEW s \in HandlerState,
         handler' = [handler EXCEPT ![h] = s],
         UNCHANGED <<step, slot, returned, lostAck, acked, delivered, result>>,
         \/ entries'[TheId] = entries[TheId]
         \/ entries[TheId] = 0 /\ entries'[TheId] # 0,
         NEW t \in {"none", transit[h]}, transit' = [transit EXCEPT ![h] = t],
         h = slot => /\ handler[h].at # "replied"
                     /\ t # "none" => s.at = "idle"
                     /\ s.at \in {"idle", "replied", Sends[step]}
                     /\ s.at = "replied" => Fits(Sends[step], s.reply),
         Tells(s) => Handed, s.at = "replied" => s.reply # "released",
         s.at = "ack" => transit[h] = "ack",
         h = slot /\ ToBeHad =>
           /\ s.at = "replied" /\ s.reply = "started" => entries'[TheId] # 0
           /\ s.at \in {"poll", "ack"} => s.exec = entries'[TheId] /\ ~s.acked
           /\ step = "wait" /\ s.at = "replied" =>
                /\ s.reply \notin {"acked", "unknown"}
                /\ s.reply = "exited" => result[entries'[TheId]]
           /\ step = "ack" => s.at # "replied"
  PROVE  CallInv'
<1>1. /\ handler'[h] = s /\ \A g \in Handler : g # h => handler'[g] = handler[g]
      /\ transit'[h] = t /\ \A g \in Handler : g # h => transit'[g] = transit[g]
      /\ transit' \in [Handler -> Op \cup {"none"}]
      /\ slot # "none" => slot \in Handler
  BY DEF Inv, TypeOK, CallInv, CallTypes
<1>2. CallTypes'
  BY <1>1 DEF CallInv, CallTypes
<1>3. Awaiting'
  <2>1. CASE slot = h
    BY <1>1, <2>1 DEF CallInv, Awaiting
  <2>2. CASE slot # h
    BY <1>1, <2>2 DEF CallInv, Awaiting
  <2> QED
    BY <2>1, <2>2
<1>4. Handed' <=> Handed
  BY DEF Handed
<1>5. HandedInv'
  BY <1>1, <1>4 DEF CallInv, HandedInv
<1>6. ASSUME ~lostAck, NEW g \in Handler, Acking(g)' PROVE g = slot
  <2>1. CASE g = h
    BY <1>1, <1>6, <2>1 DEF CallInv, Sound, Acking
  <2>2. CASE g # h
    BY <1>1, <1>6, <2>2 DEF CallInv, Sound, Acking
  <2> QED
    BY <2>1, <2>2
<1>7. ASSUME ~lostAck, step # "returned", ~Got("released")' PROVE ToBeHad'
  <2>1. ~Got("released") /\ ToBeHad
    BY <1>1, <1>7 DEF CallInv, Sound, Got
  <2>2. entries'[TheId] # entries[TheId] =>
          entries[TheId] = 0 /\ entries'[TheId] # 0 /\ step = "run"
    BY <2>1 DEF ToBeHad
  <2>3. CASE slot = h
    BY <1>1, <2>1, <2>2, <2>3 DEF ToBeHad, Got
  <2>4. CASE slot # h
    <3>1. \A r : Got(r)' <=> Got(r)
      BY <1>1, <2>4 DEF Got
    <3>2. step = "run" /\ slot # "none" => handler[slot].at \notin {"poll", "ack"}
      BY SendsOf DEF CallInv, Awaiting
    <3>3. slot # "none" => handler'[slot] = handler[slot]
      BY <1>1, <2>4
    <3> QED
      BY <2>1, <2>2, <3>1, <3>2, <3>3 DEF ToBeHad
  <2> QED
    BY <2>3, <2>4
<1>8. Sound'
  BY <1>6, <1>7 DEF CallInv, Sound
<1> QED
  BY <1>2, <1>3, <1>5, <1>8 DEF CallInv

\* The step a request belongs to.
LEMMA SentBy ==
  ASSUME NEW x \in Step
  PROVE  /\ Sends[x] = "start" <=> x = "run"
         /\ Sends[x] = "poll" <=> x = "wait"
         /\ Sends[x] = "kill" <=> x = "kill"
         /\ Sends[x] = "ack" <=> x \in {"ack", "ack_after_exit"}
BY SendsOf DEF Step

LEMMA AnsweredFields ==
  ASSUME NEW r \in Reply
  PROVE  /\ Answered(r) \in HandlerState /\ Answered(r).at = "replied"
         /\ Answered(r).reply = r
BY NoRequestType DEF Answered, HandlerState

\* A request is answered, and not with an outcome.
LEMMA AnswerKeeps ==
  ASSUME Inv, CallInv, NEW h \in Handler, NEW r \in Reply, r # "released", Answers(h, r),
         UNCHANGED <<step, slot, returned, lostAck, acked, delivered, result>>,
         \/ entries'[TheId] = entries[TheId]
         \/ entries[TheId] = 0 /\ entries'[TheId] # 0,
         NEW t \in {"none", transit[h]}, transit' = [transit EXCEPT ![h] = t],
         h = slot => handler[h].at # "replied" /\ t = "none" /\ Fits(Sends[step], r),
         r = "acked" => Handed,
         h = slot /\ ToBeHad =>
           /\ r = "started" => entries'[TheId] # 0
           /\ step = "wait" => r \notin {"acked", "unknown"}
           /\ step = "wait" /\ r = "exited" => result[entries'[TheId]]
           /\ step # "ack"
  PROVE  CallInv'
<1>1. PICK s \in HandlerState :
        handler' = [handler EXCEPT ![h] = s] /\ s.at = "replied" /\ s.reply = r
  BY AnsweredFields DEF Answers
<1>2. Tells(s) => Handed
  BY <1>1 DEF Tells
<1>3. h = slot => /\ handler[h].at # "replied"
                  /\ t # "none" => s.at = "idle"
                  /\ s.at \in {"idle", "replied", Sends[step]}
                  /\ s.at = "replied" => Fits(Sends[step], s.reply)
  BY <1>1
<1>4. (s.at = "replied" => s.reply # "released") /\ (s.at = "ack" => transit[h] = "ack")
  BY <1>1
<1>5. h = slot /\ ToBeHad =>
        /\ s.at = "replied" /\ s.reply = "started" => entries'[TheId] # 0
        /\ s.at \in {"poll", "ack"} => s.exec = entries'[TheId] /\ ~s.acked
        /\ step = "wait" /\ s.at = "replied" =>
             /\ s.reply \notin {"acked", "unknown"}
             /\ s.reply = "exited" => result[entries'[TheId]]
        /\ step = "ack" => s.at # "replied"
  BY <1>1
<1> QED
  BY <1>1, <1>2, <1>3, <1>4, <1>5, ServesKeep

\* An acked entry's outcome was handed out.
LEMMA AckedHanded ==
  ASSUME Inv, NEW x \in Exec, acked[x]
  PROVE  Handed
BY DEF Inv, Life, Handed

\* A request looks the call's exec up.
LEMMA LookupKeeps ==
  ASSUME Inv, CallInv, NEW h \in Handler, NEW op \in {"poll", "ack", "kill"},
         handler[h].at = "idle", entries[TheId] # 0, Begin(h, TheId, op, FALSE),
         UNCHANGED <<step, slot, returned, lostAck, acked, delivered, result, entries>>,
         transit[h] = op, transit' = [transit EXCEPT ![h] = "none"]
  PROVE  CallInv'
<1> DEFINE x == entries[TheId]
           s == [at |-> op, id |-> TheId, exec |-> x, acked |-> acked[x],
                 eof |-> FALSE, over |-> Published(x), reply |-> "none"]
<1>1. x \in Exec /\ x \in Entry /\ acked[x] \in BOOLEAN /\ Published(x) \in BOOLEAN
  BY IdAssumption, EntryExec DEF Inv, TypeOK, Published
<1>2. s \in HandlerState /\ handler' = [handler EXCEPT ![h] = s]
  BY <1>1, IdAssumption DEF HandlerState, Reply, Begin
<1>3. s.at = op /\ s.exec = x /\ s.acked = acked[x]
  OBVIOUS
<1> HIDE DEF s
<1>4. Tells(s) => Handed
  BY <1>1, <1>3, AckedHanded DEF Tells
<1>5. h = slot => Sends[step] = op
  BY HandlerAssumption, SlotAssumption DEF CallInv, Awaiting
<1>6. (s.at = "replied" => s.reply # "released") /\ (s.at = "ack" => transit[h] = "ack")
  BY <1>3
<1>7. h = slot /\ ToBeHad =>
        /\ s.at = "replied" /\ s.reply = "started" => entries'[TheId] # 0
        /\ s.at \in {"poll", "ack"} => s.exec = entries'[TheId] /\ ~s.acked
        /\ step = "wait" /\ s.at = "replied" =>
             /\ s.reply \notin {"acked", "unknown"}
             /\ s.reply = "exited" => result[entries'[TheId]]
        /\ step = "ack" => s.at # "replied"
  BY <1>1, <1>3 DEF ToBeHad
<1>8. h = slot => /\ handler[h].at # "replied"
                  /\ "none" # "none" => s.at = "idle"
                  /\ s.at \in {"idle", "replied", Sends[step]}
                  /\ s.at = "replied" => Fits(Sends[step], s.reply)
  BY <1>3, <1>5
<1> QED
  BY <1>2, <1>4, <1>6, <1>7, <1>8, ServesKeep

LEMMA ArrivesKeeps ==
  ASSUME Inv, CallInv, NEW h \in Handler, Arrives(h)
  PROVE  CallInv'
<1>1. /\ UNCHANGED <<step, slot, returned, lostAck>>
      /\ transit' = [transit EXCEPT ![h] = "none"]
      /\ handler[h].at = "idle" /\ TheId \in Id /\ step \in Step
  BY IdAssumption DEF Arrives, Start, Poll, Ack, Kill, CallInv, CallTypes
<1>2. h = slot => transit[h] = Sends[step] \/ transit[h] = "none"
  BY SlotAssumption DEF CallInv, Awaiting
<1>3. {"started", "refused", "unknown"} \subseteq Reply
  BY DEF Reply
<1>4. CASE transit[h] = "start" /\ Start(h, TheId)
  <2>1. h = slot => step = "run" /\ Sends[step] = "start"
    BY <1>1, <1>2, <1>4, SentBy
  <2>2. PICK r \in {"started", "refused"} : Answers(h, r)
    BY <1>4 DEF Start, StartKnown, StartRefused, Spawn
  <2>3. UNCHANGED <<acked, delivered, result>>
    BY <1>4 DEF Start, StartKnown, StartRefused, Spawn, entryVars
  <2>4. \/ entries'[TheId] = entries[TheId]
        \/ entries[TheId] = 0 /\ entries'[TheId] # 0
    BY <1>1, <1>4, SpawnAssumption
       DEF Start, StartKnown, StartRefused, Spawn, entryVars, Inv, TypeOK, Entry
  <2>5. CASE Answers(h, "started") /\ entries'[TheId] # 0
    BY <1>1, <1>3, <2>1, <2>3, <2>4, <2>5, AnswerKeeps DEF Fits
  <2>6. CASE Answers(h, "refused")
    BY <1>1, <1>3, <2>1, <2>3, <2>4, <2>6, AnswerKeeps DEF Fits
  <2>7. Answers(h, "refused") \/ entries'[TheId] # 0
    BY <1>1, <1>4, SpawnAssumption
       DEF Start, StartKnown, StartRefused, Spawn, entryVars, Inv, TypeOK, Entry
  <2> QED
    BY <2>2, <2>5, <2>6, <2>7
<1>5. CASE transit[h] \in {"poll", "ack", "kill"} /\ Unknown(h, TheId)
  <2>1. UNCHANGED <<acked, delivered, result, entries>> /\ Answers(h, "unknown")
        /\ entries[TheId] = 0
    BY <1>5 DEF Unknown, entryVars
  <2>2. h = slot => Fits(Sends[step], "unknown") /\ step # "run"
    BY <1>1, <1>2, <1>5, SentBy DEF Fits
  <2>3. ~(h = slot /\ ToBeHad)
    BY <2>1, <2>2 DEF ToBeHad
  <2> QED
    BY <1>1, <1>3, <2>1, <2>2, <2>3, AnswerKeeps
<1>6. CASE transit[h] = "poll" /\ PollLookup(h, TheId)
  BY <1>1, <1>6, LookupKeeps DEF PollLookup, entryVars
<1>7. CASE transit[h] = "ack" /\ AckLookup(h, TheId)
  BY <1>1, <1>7, LookupKeeps DEF AckLookup, entryVars
<1>8. CASE transit[h] = "kill" /\ KillLookup(h, TheId)
  BY <1>1, <1>8, LookupKeeps DEF KillLookup, entryVars
<1> QED
  BY <1>4, <1>5, <1>6, <1>7, <1>8 DEF Arrives, Poll, Ack, Kill

\* What a request at work says of the call that awaits it.
LEMMA AwaitedAtWork ==
  ASSUME CallInv, NEW h \in Handler, h = slot, handler[h].at \notin {"idle", "replied"}
  PROVE  handler[h].at = Sends[step] /\ transit[h] = "none"
BY SlotAssumption DEF CallInv, Awaiting

LEMMA SameTransit ==
  ASSUME CallInv, NEW h \in Handler, UNCHANGED transit
  PROVE  transit' = [transit EXCEPT ![h] = transit[h]]
BY DEF CallInv, CallTypes

LEMMA ResumesKeep ==
  ASSUME Inv, CallInv, NEW h \in Handler, PollAnswers(h) \/ AckEmpty(h) \/ KillAnswers(h),
         UNCHANGED clientVars
  PROVE  CallInv'
<1>1. /\ UNCHANGED <<step, slot, returned, lostAck, acked, delivered, result, entries>>
      /\ transit' = [transit EXCEPT ![h] = transit[h]] /\ step \in Step
  BY SameTransit DEF PollAnswers, AckEmpty, KillAnswers, clientVars, entryVars, CallInv, CallTypes
<1>2. handler[h].at \in {"poll", "ack", "kill"}
  BY DEF PollAnswers, AckEmpty, KillAnswers
<1>3. h = slot => handler[h].at = Sends[step] /\ transit[h] = "none"
  BY <1>2, AwaitedAtWork
<1>4. CASE PollAnswers(h)
  <2> DEFINE r == PollPhase(h)
  <2>1. Answers(h, r) /\ handler[h].at = "poll"
    BY <1>4 DEF PollAnswers
  <2>2. /\ r \in {"acked", "exited", "running"}
        /\ r = "acked" <=> handler[h].acked
        /\ r = "exited" => result[handler[h].exec]
    BY DEF PollPhase
  <2> HIDE DEF r
  <2>3. r \in Reply /\ r # "released"
    BY <2>2 DEF Reply
  <2>4. r = "acked" => Handed
    BY <2>1, <2>2 DEF CallInv, HandedInv, Tells
  <2>5. h = slot => step = "wait" /\ Fits(Sends[step], r)
    BY <1>1, <1>3, <2>1, <2>2, SentBy DEF Fits
  <2>6. h = slot /\ ToBeHad => handler[h].exec = entries[TheId] /\ ~handler[h].acked
    BY <2>1, SlotAssumption DEF ToBeHad
  <2>7. h = slot /\ ToBeHad =>
          /\ r = "started" => entries'[TheId] # 0
          /\ step = "wait" => r \notin {"acked", "unknown"}
          /\ step = "wait" /\ r = "exited" => result[entries'[TheId]]
          /\ step # "ack"
    BY <1>1, <2>2, <2>5, <2>6
  <2> QED
    BY <1>1, <1>2, <1>3, <2>1, <2>3, <2>4, <2>5, <2>7, AnswerKeeps
<1>5. CASE AckEmpty(h)
  <2>1. PICK r \in {"already_acked", "still_running"} : Answers(h, r)
    BY <1>5 DEF AckEmpty
  <2>2. handler[h].at = "ack" /\ ~result[handler[h].exec]
    BY <1>5 DEF AckEmpty
  <2>3. r \in Reply /\ r # "released" /\ r # "acked"
    BY DEF Reply
  <2>4. h = slot => step \in {"ack", "ack_after_exit"} /\ Fits(Sends[step], r)
    BY <1>1, <1>3, <2>2, SentBy DEF Fits
  <2>5. h = slot /\ ToBeHad => step # "ack"
    BY <2>2, SlotAssumption DEF ToBeHad
  <2> QED
    BY <1>1, <1>2, <1>3, <2>1, <2>3, <2>4, <2>5, AnswerKeeps
<1>6. CASE KillAnswers(h)
  <2>1. PICK r \in {"killed", "not_killed"} : Answers(h, r)
    BY <1>6 DEF KillAnswers
  <2>2. r \in Reply /\ r # "released" /\ r # "acked" /\ r # "started"
    BY DEF Reply
  <2>3. h = slot => step = "kill" /\ Fits(Sends[step], r)
    BY <1>1, <1>3, <1>6, SentBy DEF Fits, KillAnswers
  <2> QED
    BY <1>1, <1>2, <1>3, <2>1, <2>2, <2>3, AnswerKeeps
<1> QED
  BY <1>4, <1>5, <1>6

\* The daemon drops a request nobody awaits.
LEMMA DropsKeep ==
  ASSUME Inv, CallInv, NEW h \in Handler, slot # h, Disconnect(h), UNCHANGED clientVars
  PROVE  CallInv'
<1>1. /\ UNCHANGED <<step, slot, returned, lostAck, acked, delivered, result, entries>>
      /\ transit' = [transit EXCEPT ![h] = transit[h]]
      /\ handler' = [handler EXCEPT ![h] = NoRequest]
  BY SameTransit DEF Disconnect, clientVars, entryVars
<1>2. NoRequest \in HandlerState /\ NoRequest.at = "idle" /\ ~Tells(NoRequest)
  BY NoRequestType DEF Tells
<1> QED
  BY <1>1, <1>2, ServesKeep

\* A step of the daemon that touches no request: outcomes are published only,
\* and the call's entry stays while its outcome is to be had.
LEMMA GrowsKeep ==
  ASSUME Inv, CallInv, UNCHANGED <<step, slot, transit, returned, lostAck>>,
         UNCHANGED <<acked, delivered, handler>>,
         \A x \in Exec : result[x] => result'[x],
         ToBeHad => entries'[TheId] = entries[TheId]
  PROVE  CallInv'
<1>1. CallTypes' /\ Awaiting' /\ HandedInv'
  BY DEF CallInv, CallTypes, Awaiting, HandedInv, Handed
<1>2. \A r : Got(r)' <=> Got(r)
  BY DEF Got
<1>3. ASSUME ToBeHad, step # "returned" PROVE ToBeHad'
  <2>1. entries[TheId] # 0 /\ result[entries[TheId]] => result'[entries[TheId]]
    BY EntryExec, IdAssumption
  <2> QED
    BY <1>2, <1>3, <2>1 DEF ToBeHad
<1>4. Sound'
  BY <1>2, <1>3 DEF CallInv, Sound, Acking
<1> QED
  BY <1>1, <1>4 DEF CallInv

LEMMA PublishesKeep ==
  ASSUME Inv, CallInv, NEW x \in Exec, SetResult(x) \/ Waiter(x), UNCHANGED clientVars
  PROVE  CallInv'
<1>1. /\ UNCHANGED <<step, slot, transit, returned, lostAck, acked, delivered, handler, entries>>
      /\ result' = result \/ result' = [result EXCEPT ![x] = TRUE]
  BY DEF SetResult, Waiter, SetTerminal, CloseStdin, clientVars, entryVars
<1>2. \A y \in Exec : result[y] => result'[y]
  BY <1>1 DEF Inv, TypeOK
<1> QED
  BY <1>1, <1>2, GrowsKeep

LEMMA CollectsKeep ==
  ASSUME Inv, CallInv, CollectExpired, UNCHANGED clientVars
  PROVE  CallInv'
<1>1. UNCHANGED <<step, slot, transit, returned, lostAck, acked, delivered, handler, result>>
  BY DEF CollectExpired, clientVars
<1>2. PICK i \in Id : IsAcked(i)
  BY DEF CollectExpired
<1>3. ~ToBeHad
  BY <1>2, EntryExec DEF IsAcked, ToBeHad
<1> QED
  BY <1>1, <1>3, GrowsKeep

\* An ack takes its outcome.
LEMMA TakesKeep ==
  ASSUME Inv, CallInv, NEW h \in Handler, AckTakes(h), UNCHANGED clientVars
  PROVE  CallInv'
<1>1. UNCHANGED <<step, slot, transit, returned, lostAck, entries>>
  BY AckTakesEffect DEF clientVars
<1>2. /\ handler[h].at = "ack" /\ "released" \in Reply
      /\ handler' = [handler EXCEPT ![h] = Answered("released")]
  BY AckTakesEffect DEF AckTakes, Answers, Reply
<1>3. /\ handler'[h].at = "replied" /\ handler'[h].reply = "released"
      /\ \A g \in Handler : g # h => handler'[g] = handler[g]
      /\ slot # "none" => slot \in Handler
  BY <1>2, AnsweredFields DEF Inv, TypeOK, CallInv, CallTypes
<1>4. Handed'
  BY AckTakesEffect DEF Inv, TypeOK, Handed
<1>5. CallTypes' /\ HandedInv'
  BY <1>1, <1>4 DEF CallInv, CallTypes, HandedInv
<1>6. Awaiting'
  <2>1. CASE slot = h
    <3>1. Sends[step] = "ack" /\ transit[h] = "none"
      BY <1>2, <2>1, AwaitedAtWork
    <3> QED
      BY <1>1, <1>3, <2>1, <3>1 DEF Awaiting, Fits
  <2>2. CASE slot # h
    BY <1>1, <1>3, <2>2 DEF CallInv, Awaiting
  <2> QED
    BY <2>1, <2>2
<1>7. ASSUME ~lostAck
      PROVE  Got("released")' /\ \A g \in Handler : Acking(g)' => g = slot
  <2>1. h = slot
    BY <1>2, <1>7 DEF CallInv, Sound, Acking
  <2> QED
    BY <1>1, <1>3, <1>7, <2>1, SlotAssumption DEF Got, CallInv, Sound, Acking
<1>8. Sound'
  BY <1>1, <1>7 DEF CallInv, Sound
<1> QED
  BY <1>5, <1>6, <1>8 DEF CallInv

-----------------------------------------------------------------------------
(* The steps of the network and of the client.                             *)

LEMMA NeverArrivesKeeps ==
  ASSUME Inv, CallInv, NEW h \in Handler, NeverArrives(h)
  PROVE  CallInv'
<1>1. /\ UNCHANGED <<step, slot, returned, lostAck, entries, acked, delivered, result, handler>>
      /\ transit' = [transit EXCEPT ![h] = "none"]
  BY DEF NeverArrives, vars
<1>2. /\ transit' \in [Handler -> Op \cup {"none"}]
      /\ \A g \in Handler : transit'[g] \in {"none", transit[g]}
      /\ slot # "none" => slot \in Handler
  BY <1>1 DEF CallInv, CallTypes
<1>3. CallTypes' /\ HandedInv' /\ Awaiting'
  BY <1>1, <1>2 DEF CallInv, CallTypes, HandedInv, Handed, Awaiting
<1>4. /\ \A g \in Handler : Acking(g)' => Acking(g)
      /\ \A r : Got(r)' <=> Got(r)
  BY <1>1, <1>2 DEF Acking, Got
<1>5. ToBeHad => ToBeHad'
  BY <1>1, <1>4 DEF ToBeHad
<1>6. Sound'
  BY <1>1, <1>4, <1>5 DEF CallInv, Sound
<1> QED
  BY <1>3, <1>6 DEF CallInv

LEMMA SendKeeps ==
  ASSUME Inv, CallInv, Send
  PROVE  CallInv'
<1>1. PICK h \in Handler : /\ handler[h].at = "idle" /\ transit[h] = "none" /\ slot' = h
                           /\ transit' = [transit EXCEPT ![h] = Sends[step]]
  BY DEF Send
<1>2. /\ UNCHANGED <<step, returned, lostAck, entries, acked, delivered, result, handler>>
      /\ slot = "none" /\ Sends[step] # "none"
  BY DEF Send, vars
<1>3. /\ transit' \in [Handler -> Op \cup {"none"}] /\ transit'[h] = Sends[step]
      /\ \A g \in Handler : g # h => transit'[g] = transit[g]
  BY <1>1, <1>2, SendsType DEF CallInv, CallTypes
<1>4. CallTypes' /\ HandedInv' /\ Awaiting'
  BY <1>1, <1>2, <1>3 DEF CallInv, CallTypes, HandedInv, Handed, Awaiting
<1>5. \A r : ~Got(r) /\ ~Got(r)'
  BY <1>1, <1>2 DEF Got
<1>6. ASSUME ~lostAck, NEW g \in Handler, Acking(g)' PROVE g = slot'
  <2>1. CASE g # h
    <3>1. Acking(g)
      BY <1>2, <1>3, <1>6, <2>1 DEF Acking
    <3>2. FALSE
      BY <1>2, <1>6, <3>1, SlotAssumption DEF CallInv, Sound
    <3> QED
      BY <3>2
  <2> QED
    BY <1>1, <2>1
<1>7. ToBeHad => ToBeHad'
  BY <1>1, <1>2, <1>5 DEF ToBeHad
<1>8. Sound'
  BY <1>2, <1>5, <1>6, <1>7 DEF CallInv, Sound
<1> QED
  BY <1>4, <1>8 DEF CallInv

\* The call goes on and awaits nothing: an answer came, a request failed, or
\* the stream ended.
LEMMA TurnKeeps ==
  ASSUME Inv, CallInv, slot' = "none",
         UNCHANGED <<transit, entries, acked, delivered, result>>,
         lostAck' \in BOOLEAN, lostAck => lostAck',
         \A g \in Handler : \/ handler'[g] = handler[g]
                            \/ g = slot /\ handler'[g] = NoRequest,
         step' \in Step, step' # "returned" => returned' = NotReturned,
         returned'.kind = "result" /\ ~returned'.synthesized => Handed,
         ~lostAck' =>
           /\ \A g \in Handler : g = slot => ~Acking(g)'
           /\ step' # "returned" => \A x \in Exec : ~acked[x]
           /\ step' \notin {"run", "returned"} => entries[TheId] # 0
           /\ step' = "ack" => result[entries[TheId]]
           /\ returned'.kind \in {"result", "error"} => returned' \in {Released, Synthesized}
  PROVE  CallInv'
<1>1. ~Tells(NoRequest) /\ NoRequest.at = "idle"
  BY NoRequestType DEF Tells
<1>2. CallTypes' /\ Awaiting'
  BY DEF CallInv, CallTypes, Awaiting
<1>3. HandedInv'
  <2>1. Handed' <=> Handed
    BY DEF Handed
  <2>2. ASSUME NEW g \in Handler, Tells(handler'[g]) PROVE Handed
    BY <1>1, <2>2 DEF CallInv, HandedInv
  <2> QED
    BY <2>1, <2>2 DEF HandedInv
<1>4. ASSUME ~lostAck', NEW g \in Handler, Acking(g)' PROVE FALSE
  <2>1. CASE g = slot
    BY <1>4, <2>1
  <2>2. CASE g # slot
    BY <1>4, <2>2 DEF CallInv, CallTypes, Sound, Acking
  <2> QED
    BY <2>1, <2>2
<1>5. \A r : ~Got(r)'
  BY DEF Got
<1>6. ASSUME ~lostAck', step' # "returned" PROVE ToBeHad'
  BY <1>5, <1>6 DEF ToBeHad
<1>7. Sound'
  BY <1>4, <1>6 DEF Sound
<1> QED
  BY <1>2, <1>3, <1>7 DEF CallInv

LEMMA StreamKeeps ==
  ASSUME Inv, CallInv, StreamTurn \/ StreamDeadline
  PROVE  CallInv'
<1>1. /\ step = "stream" /\ step' \in {"ack_after_exit", "wait", "kill"}
      /\ UNCHANGED <<slot, transit, returned, lostAck, entries, acked, delivered, result, handler>>
  BY DEF StreamTurn, ExitEvent, StreamEndsEarly, StreamDeadline, GoesTo, vars
<1>2. slot = "none"
  BY <1>1, SendsOf DEF CallInv, Awaiting
<1>3. ~lostAck => ToBeHad
  BY <1>1, <1>2 DEF CallInv, Sound, Got
<1>4. step' \in Step /\ returned = NotReturned /\ lostAck \in BOOLEAN
  BY <1>1 DEF Step, CallInv, CallTypes
<1>5. returned' = NotReturned /\ NotReturned.kind = "none"
  BY <1>1, <1>4 DEF NotReturned
<1>6. ~lostAck => (\A x \in Exec : ~acked[x]) /\ entries[TheId] # 0
  BY <1>1, <1>3 DEF ToBeHad
<1>7. \A g \in Handler : g # slot
  BY <1>2, SlotAssumption
<1>8. step' # "ack" /\ step' # "returned"
  BY <1>1
<1> QED
  BY <1>1, <1>2, <1>4, <1>5, <1>6, <1>7, <1>8, TurnKeeps

\* The answer the call awaited has come.
LEMMA ReceivesKeep ==
  ASSUME Inv, CallInv, Receives, step' \in Step,
         step' # "returned" => returned' = NotReturned,
         returned'.kind = "result" /\ ~returned'.synthesized => Handed,
         Got("released") => step' = "returned",
         ~lostAck /\ (Got("released") \/ ToBeHad) =>
           /\ step' \notin {"run", "returned"} => entries[TheId] # 0
           /\ step' = "ack" => result[entries[TheId]]
           /\ returned'.kind \in {"result", "error"} => returned' \in {Released, Synthesized}
  PROVE  CallInv'
<1>1. /\ slot \in Handler /\ slot # "none" /\ handler[slot].at = "replied" /\ slot' = "none"
      /\ handler' = [handler EXCEPT ![slot] = NoRequest]
      /\ UNCHANGED <<transit, lostAck, entries, acked, delivered, result>>
  BY DEF Receives, entryVars, CallInv, CallTypes
<1>2. \A g \in Handler : handler'[g] = IF g = slot THEN NoRequest ELSE handler[g]
  BY <1>1 DEF Inv, TypeOK
<1>3. transit[slot] = "none" /\ step # "returned" /\ lostAck \in BOOLEAN
  BY <1>1, SendsOf DEF CallInv, Awaiting, CallTypes
<1>4. ASSUME NEW g \in Handler, g = slot PROVE ~Acking(g)'
  BY <1>1, <1>2, <1>3, <1>4, NoRequestType DEF Acking
<1>5. ~lostAck => Got("released") \/ ToBeHad
  BY <1>3 DEF CallInv, Sound
<1>6. ~lostAck /\ step' # "returned" => \A x \in Exec : ~acked[x]
  BY <1>5 DEF ToBeHad
<1> QED
  BY <1>1, <1>2, <1>3, <1>4, <1>5, <1>6, TurnKeeps

\* The call gives its request up.
LEMMA LosesKeep ==
  ASSUME Inv, CallInv, Loses,
         \/ /\ step' \in {"run", "wait", "kill"} /\ returned' = returned
            /\ step' = "run" <=> step = "run"
         \/ step' = "returned" /\ returned' \in {StartFailed, Synthesized}
  PROVE  CallInv'
<1>1. /\ slot \in Handler /\ slot # "none" /\ slot' = "none"
      /\ lostAck' = (lostAck \/ Sends[step] = "ack")
      /\ UNCHANGED <<transit, entries, acked, delivered, result, handler>>
  BY DEF Loses, vars, CallInv, CallTypes
<1>2. step # "returned" /\ returned = NotReturned /\ step' \in Step
  BY <1>1, SendsOf DEF CallInv, Awaiting, CallTypes, Step
<1>3. ASSUME Sends[step] # "ack", NEW g \in Handler, g = slot PROVE ~Acking(g) /\ ~Acking(g)'
  BY <1>1, <1>3 DEF CallInv, Awaiting, Acking, Fits
<1>4. ~lostAck' => ToBeHad
  BY <1>1, <1>2, <1>3 DEF CallInv, Sound, Got, Acking
<1>5. ~lostAck' =>
        /\ \A x \in Exec : ~acked[x]
        /\ step' \notin {"run", "returned"} => entries[TheId] # 0
        /\ step' # "ack"
  BY <1>2, <1>4 DEF ToBeHad
<1>6. /\ step' # "returned" => returned' = NotReturned
      /\ ~(returned'.kind = "result" /\ ~returned'.synthesized)
      /\ returned'.kind \in {"result", "error"} => returned' \in {Released, Synthesized}
  BY <1>2 DEF NotReturned, StartFailed, Synthesized
<1>7. lostAck' \in BOOLEAN /\ (lostAck => lostAck')
  BY <1>1 DEF CallInv, CallTypes
<1>8. ~lostAck' => \A g \in Handler : g = slot => ~Acking(g)'
  BY <1>1, <1>3
<1> QED
  BY <1>1, <1>2, <1>5, <1>6, <1>7, <1>8, TurnKeeps

\* What the awaited answer says of the step that sent the request.
LEMMA AnswerFits ==
  ASSUME Inv, CallInv, Receives, NEW r, Replied(r)
  PROVE  /\ Got(r) /\ Fits(Sends[step], r) /\ step \in Step
         /\ r \in {"released", "acked"} => Handed
<1>1. slot \in Handler /\ slot # "none" /\ handler[slot].at = "replied" /\ handler[slot].reply = r
  BY DEF Receives, Replied, CallInv, CallTypes
<1> QED
  BY <1>1 DEF CallInv, CallTypes, Awaiting, HandedInv, Tells, Got

\* Session::run has its answer.
LEMMA StartAnswered ==
  ASSUME Inv, CallInv, Started \/ StartRejected
  PROVE  CallInv'
<1>1. CASE Started
  <2>1. Receives /\ Replied("started") /\ step' \in {"stream", "wait"} /\ returned' = returned
    BY <1>1 DEF Started, GoesTo
  <2>2. Got("started") /\ step = "run"
    BY <2>1, AnswerFits, SentBy DEF Fits
  <2>3. ~Got("released") /\ (ToBeHad => entries[TheId] # 0)
    BY <2>2 DEF Got, ToBeHad
  <2>4. returned' = NotReturned /\ NotReturned.kind = "none" /\ step' \in Step
    BY <2>1, <2>2 DEF CallInv, CallTypes, NotReturned, Step
  <2> QED
    BY <2>1, <2>3, <2>4, ReceivesKeep
<1>2. CASE StartRejected
  BY <1>2, ReceivesKeep DEF StartRejected, Returns, StartFailed, Step
<1> QED
  BY <1>1, <1>2

LEMMA AckAnswers ==
  ASSUME Inv, CallInv, AckedAfterExit \/ AckAnswered
  PROVE  CallInv'
<1>1. Receives /\ step \in {"ack", "ack_after_exit"}
  BY DEF AckedAfterExit, AckAnswered
<1>2. CASE Replied("released")
  <2>1. step' = "returned" /\ returned' = Released
    BY <1>2 DEF AckedAfterExit, AckAnswered, Returns
  <2>2. Handed
    BY <1>1, <1>2, AnswerFits
  <2> QED
    BY <1>1, <2>1, <2>2, ReceivesKeep DEF Step
<1>3. CASE ~Replied("released") /\ step = "ack_after_exit"
  <2>1. step' = "wait" /\ returned' = returned
    BY <1>3 DEF AckedAfterExit, AckAnswered, GoesTo
  <2>2. ~Got("released") /\ (ToBeHad => entries[TheId] # 0)
    BY <1>3 DEF Got, Replied, ToBeHad
  <2>3. returned' = NotReturned /\ NotReturned.kind = "none" /\ step' \in Step
    BY <1>3, <2>1 DEF CallInv, CallTypes, NotReturned, Step
  <2> QED
    BY <1>1, <2>1, <2>2, <2>3, ReceivesKeep
<1>4. CASE ~Replied("released") /\ step = "ack"
  <2>1. step' = "returned" /\ returned' \in {Failed, Synthesized}
    BY <1>4 DEF AckedAfterExit, AckAnswered, WaitFails, Returns
  <2>2. ~Got("released") /\ ~ToBeHad
    BY <1>1, <1>4 DEF Got, Replied, Receives, ToBeHad
  <2>3. ~(returned'.kind = "result" /\ ~returned'.synthesized)
    BY <2>1 DEF Failed, Synthesized
  <2> QED
    BY <1>1, <2>1, <2>2, <2>3, ReceivesKeep DEF Step
<1> QED
  BY <1>1, <1>2, <1>3, <1>4

\* One turn of ExecHandle::wait.
LEMMA PollAnswered ==
  ASSUME Inv, CallInv, Polled
  PROVE  CallInv'
<1>1. Receives /\ step = "wait" /\ returned = NotReturned
  BY DEF Polled, CallInv, CallTypes
<1>2. NotReturned.kind = "none" /\ {"wait", "ack", "kill", "returned"} \subseteq Step
  BY DEF NotReturned, Step
<1>3. ~Got("released")
  <2>1. Got("released") => Replied("released")
    BY DEF Got, Replied
  <2>2. Got("released") => Fits("poll", "released")
    BY <1>1, <2>1, AnswerFits, SendsOf
  <2> QED
    BY <2>2 DEF Fits
<1>4. CASE Replied("exited") /\ GoesTo("ack")
  <2>1. ToBeHad => entries[TheId] # 0 /\ result[entries[TheId]]
    BY <1>1, <1>4, AnswerFits DEF ToBeHad
  <2> QED
    BY <1>1, <1>2, <1>3, <1>4, <2>1, ReceivesKeep DEF GoesTo
<1>5. CASE Replied("acked") /\ Returns(AlreadyAcked)
  <2>1. Handed /\ ~ToBeHad
    BY <1>1, <1>5, AnswerFits DEF ToBeHad
  <2> QED
    BY <1>1, <1>2, <1>3, <1>5, <2>1, ReceivesKeep DEF Returns
<1>6. CASE Replied("running") /\ IF expired THEN WaitTimesOut ELSE GoesTo("wait")
  <2>1. \/ step' \in {"wait", "kill"} /\ returned' = NotReturned
        \/ step' = "returned" /\ returned' = Synthesized
    BY <1>1, <1>6 DEF WaitTimesOut, GoesTo, Returns
  <2>2. ToBeHad => entries[TheId] # 0
    BY <1>1 DEF ToBeHad
  <2>3. Synthesized.synthesized
    BY DEF Synthesized
  <2> QED
    BY <1>1, <1>2, <1>3, <2>1, <2>2, <2>3, ReceivesKeep
<1>7. CASE Replied("unknown") /\ WaitFails
  <2>1. ~ToBeHad
    BY <1>1, <1>7, AnswerFits DEF ToBeHad
  <2>2. step' = "returned" /\ returned' \in {Failed, Synthesized}
    BY <1>7 DEF WaitFails, Returns
  <2>3. ~(returned'.kind = "result" /\ ~returned'.synthesized)
    BY <2>2 DEF Failed, Synthesized
  <2> QED
    BY <1>1, <1>2, <1>3, <2>1, <2>2, <2>3, ReceivesKeep
<1> QED
  BY <1>4, <1>5, <1>6, <1>7 DEF Polled

LEMMA KillAnsweredKeeps ==
  ASSUME Inv, CallInv, KillAnswered
  PROVE  CallInv'
<1>1. Receives /\ step = "kill" /\ step' = "wait" /\ returned' = NotReturned
  BY DEF KillAnswered, GraceWait, GoesTo, CallInv, CallTypes
<1>2. ~Got("released")
  BY DEF KillAnswered, Got, Replied
<1>3. ToBeHad => entries[TheId] # 0
  BY <1>1 DEF ToBeHad
<1>4. step' \in Step /\ NotReturned.kind = "none"
  BY <1>1 DEF Step, NotReturned
<1> QED
  BY <1>1, <1>2, <1>3, <1>4, ReceivesKeep

LEMMA LostKeeps ==
  ASSUME Inv, CallInv, StartLost \/ AckAfterExitLost \/ PollLost \/ AckLost \/ KillLost
  PROVE  CallInv'
<1>1. Loses
  BY DEF StartLost, AckAfterExitLost, PollLost, AckLost, KillLost
<1>2. \/ /\ step' \in {"run", "wait", "kill"} /\ returned' = returned
         /\ step' = "run" <=> step = "run"
      \/ step' = "returned" /\ returned' \in {StartFailed, Synthesized}
  BY DEF StartLost, AckAfterExitLost, PollLost, AckLost, KillLost, WaitTimesOut, GraceWait,
         GoesTo, Returns
<1> QED
  BY <1>1, <1>2, LosesKeep

\* Nothing the invariant speaks of changes.
LEMMA StillCall ==
  ASSUME CallInv, UNCHANGED vars, UNCHANGED <<step, slot, transit, returned, lostAck>>
  PROVE  CallInv'
<1>1. UNCHANGED <<entries, acked, delivered, result, handler>>
  BY DEF vars
<1>2. CallTypes' /\ Awaiting' /\ HandedInv'
  BY <1>1 DEF CallInv, CallTypes, Awaiting, HandedInv, Handed
<1>3. Sound'
  BY <1>1 DEF CallInv, Sound, Acking, Got, ToBeHad
<1> QED
  BY <1>2, <1>3 DEF CallInv

\* Every step of the call's world is a step of the registry, leaves it alone,
\* or is the end of an answered request.
LEMMA CompletionKeepsRegistry ==
  ASSUME Inv, [CompletionNext]_allVars, slot \in Handler \cup {"none"}
  PROVE  Inv'
<1>1. CASE Receives
  <2>1. Calm /\ UNCHANGED stdinVars /\ slot \in Handler
        /\ handler' = [handler EXCEPT ![slot] = NoRequest]
    BY <1>1 DEF Receives, Calm, entryVars, taskVars
  <2> QED
    BY <2>1, SameStdin, NoRequestType, EndsKeeps
<1>2. CASE UNCHANGED vars
  BY <1>2, NextKeeps
<1>3. CASE Daemon
  BY <1>3, NextKeeps DEF Daemon, Next, Proceeds
<1>4. CASE \E h \in Handler : (yields \/ ~AtFreeLock) /\ Arrives(h)
  BY <1>4, NextKeeps, IdAssumption DEF Arrives, Next, Request
<1>5. Client => Receives \/ UNCHANGED vars
  BY DEF Client, Send, Started, StartRejected, StartLost, StreamDeadline, AckedAfterExit,
         AckAfterExitLost, Polled, PollLost, AckAnswered, AckLost, KillAnswered, KillLost, Loses
<1>6. StreamTurn \/ DeadlinePasses => UNCHANGED vars
  BY DEF StreamTurn, ExitEvent, StreamEndsEarly, DeadlinePasses
<1>7. Network => UNCHANGED vars \/ \E h \in Handler : (yields \/ ~AtFreeLock) /\ Arrives(h)
  BY DEF Network, NeverArrives
<1> QED
  BY <1>1, <1>2, <1>3, <1>4, <1>5, <1>6, <1>7 DEF CompletionNext, allVars

LEMMA CompletionKeepsCall ==
  ASSUME Inv, CallInv, [CompletionNext]_allVars
  PROVE  CallInv'
<1>1. CASE Client
  BY <1>1, SendKeeps, StartAnswered, StreamKeeps, AckAnswers, PollAnswered, KillAnsweredKeeps,
     LostKeeps DEF Client
<1>2. CASE StreamTurn
  BY <1>2, StreamKeeps
<1>3. CASE DeadlinePasses
  BY <1>3, StillCall DEF DeadlinePasses
<1>4. CASE Daemon
  <2>1. UNCHANGED clientVars
    BY <1>4 DEF Daemon
  <2>2. ASSUME NEW h \in Handler, Resumes(h) \/ KillAnswers(h) \/ (slot # h /\ Disconnect(h))
        PROVE  CallInv'
    BY <2>1, <2>2, ResumesKeep, TakesKeep, DropsKeep DEF Resumes
  <2> QED
    BY <1>4, <2>1, <2>2, PublishesKeep, CollectsKeep DEF Daemon
<1>5. CASE Network
  BY <1>5, ArrivesKeeps, NeverArrivesKeeps DEF Network
<1>6. CASE UNCHANGED allVars
  BY <1>6, StillCall DEF allVars, clientVars
<1> QED
  BY <1>1, <1>2, <1>3, <1>4, <1>5, <1>6 DEF CompletionNext

LEMMA CompletionStarts == CompletionInit => Inv /\ CallInv
<1> SUFFICES ASSUME CompletionInit PROVE Inv /\ CallInv
  OBVIOUS
<1>1. Inv
  BY InitKeeps DEF CompletionInit
<1>2. /\ slot = "none" /\ step = "run" /\ returned = NotReturned /\ ~lostAck
      /\ \A h \in Handler : transit[h] = "none" /\ handler[h] = NoRequest
      /\ \A x \in Exec : ~acked[x]
  BY DEF CompletionInit, Init
<1>3. CallTypes /\ Awaiting
  BY <1>2 DEF CompletionInit, CallTypes, Awaiting, Step
<1>4. NotReturned.kind = "none" /\ NoRequest.at = "idle" /\ \A r : ~Got(r)
  BY <1>2, NoRequestType DEF NotReturned, Got
<1>5. HandedInv
  BY <1>2, <1>4 DEF HandedInv, Tells
<1>6. Sound
  BY <1>2, <1>4 DEF Sound, Acking, ToBeHad
<1> QED
  BY <1>1, <1>3, <1>5, <1>6 DEF CallInv

\* The registry's invariant survives the lossy network and the call, and the
\* call's own holds with it.
THEOREM CallInvariant == CompletionSpec => [](Inv /\ CallInv)
<1>1. Inv /\ CallInv /\ [CompletionNext]_allVars => (Inv /\ CallInv)'
  BY CompletionKeepsRegistry, CompletionKeepsCall DEF CallInv, CallTypes
<1> QED
  BY <1>1, CompletionStarts, PTL DEF CompletionSpec

\* A result that is not synthesized is returned only after an ack released the
\* exec's outcome, whatever the network loses or delays (drive).
THEOREM ResultsFollowAcks == CompletionSpec => []ResultFollowsAck
<1>1. CallInv => ResultFollowsAck
  BY DEF CallInv, HandedInv, Handed, ResultFollowsAck
<1> QED
  BY <1>1, CallInvariant, PTL

\* A call that has given up on no ack returns the outcome or the synthesized
\* timeout, never an error and never a bare acked phase (drive,
\* wait_and_ack_until).
THEOREM OutcomesUnlessAckLost == CompletionSpec => []OutcomeUnlessAckLost
<1>1. CallInv => OutcomeUnlessAckLost
  BY DEF CallInv, Sound, OutcomeUnlessAckLost
<1> QED
  BY <1>1, CallInvariant, PTL
=============================================================================
