------------------------ MODULE LifecycleHooksProofs ------------------------
(***************************************************************************)
(* Proofs about LifecycleHooks, for any number of deliveries and tokens,   *)
(* any cap of the log and any set of handlers.                             *)
(***************************************************************************)
EXTENDS LifecycleHooks, FiniteSetTheorems, SequenceTheorems, TLAPS

\* The token, the launch environment and the repair are set together, by a
\* run hook that has gone past its bootstrap.
BootInv ==
  /\ token = NoToken <=> launch_env = NoDelivery
  /\ repair = "none" <=> launch_env = NoDelivery
  /\ launch_env # NoDelivery =>
       /\ req[launch_env].hook = "run"
       /\ req[launch_env].token = token
       /\ pc[launch_env] \notin {"absent", "arrived", "bootstrap"}

\* What the place of a request says of it.
Placed(d) ==
  /\ pc[d] # "absent" => req[d] \in Request
  /\ pc[d] \in {"absent", "arrived"} => slot[d] = 0
  /\ pc[d] = "bootstrap" => req[d].hook = "run"
  /\ pc[d] \in {"repairing", "handler", "queued", "running"} /\ req[d].hook = "run"
       => launch_env = d
  /\ pc[d] = "repairing" => req[d].hook = "run"
  /\ pc[d] \in {"queued", "running"} => HasHandler(d)
  /\ status[d] # 0 => pc[d] = "answered"

\* What an answer says of the request.
Answered(d) ==
  pc[d] = "answered" =>
    /\ req[d].hook = "run" =>
         /\ req[d].token = Malformed => status[d] = 400
         /\ req[d].token # Malformed =>
              /\ token # NoToken
              /\ status[d] = IF req[d].token = token THEN 200 ELSE 409
    /\ HasHandler(d) /\ (req[d].hook = "run" => launch_env = d) =>
         observed[slot[d]].handler # "none"

\* The repair is over once the request that started it goes on.
Repaired(d) ==
  launch_env = d /\ pc[d] \notin {"repairing", "gone"} => repair = "over"

\* The entries of the log and the requests that own them.
Entry(d) ==
  /\ slot[d] <= Len(observed)
  /\ slot[d] # 0 =>
       /\ observed[slot[d]].hook = req[d].hook
       /\ observed[slot[d]].handler # "none" =>
            pc[d] = "answered" /\ req[d].hook \in Handled
  /\ \A e \in Delivery : slot[d] # 0 /\ slot[e] = slot[d] => e = d

RequestInv(d) == Placed(d) /\ Answered(d) /\ Repaired(d) /\ Entry(d)

\* The queue holds requests that wait, each once.
QueueInv ==
  /\ \A i \in 1..Len(waiters) : pc[waiters[i]] = "queued"
  /\ \A i, j \in 1..Len(waiters) : waiters[i] = waiters[j] => i = j

\* A live handler's request holds the lock.
LockInv == \A d \in Delivery : proc[d] = "live" => lock = d

Recorded == {d \in Delivery : pc[d] \notin {"absent", "arrived"}}

\* Every recorded request is in the log or in the count of those that are not.
CountInv ==
  /\ IsFiniteSet(Recorded)
  /\ Len(observed) + dropped = Cardinality(Recorded)
  /\ dropped > 0 => Len(observed) = HOOK_LOG_CAP

\* The inductive invariant.
Inv ==
  /\ TypeOK
  /\ BootInv
  /\ \A d \in Delivery : RequestInv(d)
  /\ QueueInv
  /\ LockInv
  /\ CountInv

-----------------------------------------------------------------------------
(* What each kind of step leaves alone.                                    *)

LEMMA RequestFields ==
  ASSUME NEW r \in Request
  PROVE  /\ r.hook \in HookName
         /\ r.token \in Token \cup {Malformed}
         /\ r.hook # "run" => r.token = Malformed
         /\ r.token # NoToken
  BY HooksAssumption DEF Request, HookName

LEMMA InitInv == Init => Inv
<1> SUFFICES ASSUME Init PROVE Inv
  OBVIOUS
<1>1. TypeOK
  BY HooksAssumption DEF Init, TypeOK, NoRequest
<1>2. BootInv /\ QueueInv /\ LockInv
  BY DEF Init, BootInv, QueueInv, LockInv
<1>3. ASSUME NEW d \in Delivery PROVE RequestInv(d)
  <2>1. pc[d] = "absent" /\ slot[d] = 0 /\ status[d] = 0 /\ Len(observed) = 0
        /\ launch_env # d
    BY HooksAssumption DEF Init
  <2> QED
    BY <2>1 DEF RequestInv, Placed, Answered, Repaired, Entry
<1>4. CountInv
  <2>1. Recorded = {}
    BY DEF Init, Recorded
  <2> QED
    BY <2>1, FS_EmptySet DEF Init, CountInv
<1> QED
  BY <1>1, <1>2, <1>3, <1>4 DEF Inv

\* A step of d that neither records nor bootstraps nor touches the log: the
\* other requests keep what they had.
LEMMA OthersKeep ==
  ASSUME Inv, NEW d \in Delivery, NEW e \in Delivery, e # d,
         req'[e] = req[e], pc'[e] = pc[e], slot'[e] = slot[e],
         status'[e] = status[e], observed' = observed, UNCHANGED slot,
         UNCHANGED <<token, launch_env, repair>>
  PROVE  RequestInv(e)'
<1>1. Placed(e)'
  BY DEF Inv, RequestInv, Placed, HasHandler
<1>2. Answered(e)'
  <2>1. HasHandler(e)' <=> HasHandler(e)
    BY DEF HasHandler
  <2>2. Answered(e)
    BY DEF Inv, RequestInv
  <2>3. observed'[slot'[e]] = observed[slot[e]]
    OBVIOUS
  <2> QED
    BY <2>1, <2>2, <2>3 DEF Answered
<1>3. Repaired(e)' /\ Entry(e)'
  BY DEF Inv, RequestInv, Repaired, Entry
<1> QED
  BY <1>1, <1>2, <1>3 DEF RequestInv

LEMMA ArriveKeeps ==
  ASSUME Inv, NEW d \in Delivery, Arrive(d)
  PROVE  Inv'
<1> USE DEF bootVars, logVars, handlerVars
<1>1. PICK r \in Request : req' = [req EXCEPT ![d] = r]
  BY DEF Arrive
<1>2. /\ pc[d] = "absent" /\ pc' = [pc EXCEPT ![d] = "arrived"]
      /\ pc'[d] = "arrived" /\ req'[d] = r
      /\ \A e \in Delivery : e # d => pc'[e] = pc[e] /\ req'[e] = req[e]
      /\ UNCHANGED <<slot, status, token, launch_env, identity, repair,
                     observed, dropped, lock, waiters, proc>>
  BY <1>1 DEF Arrive, Inv, TypeOK
<1>3. TypeOK'
  BY <1>1, <1>2 DEF Inv, TypeOK
<1>4. launch_env # d /\ slot[d] = 0 /\ status[d] = 0
  BY <1>2, HooksAssumption DEF Inv, TypeOK, BootInv, RequestInv, Placed
<1>5. BootInv'
  BY <1>2, <1>4 DEF Inv, TypeOK, BootInv
<1>6. RequestInv(d)'
  <2>1. Placed(d)' /\ Answered(d)' /\ Repaired(d)'
    BY <1>2, <1>4 DEF Placed, Answered, Repaired
  <2>2. Entry(d)'
    BY <1>2, <1>4 DEF Entry, Inv, RequestInv
  <2> QED
    BY <2>1, <2>2 DEF RequestInv
<1>7. \A e \in Delivery : e # d => RequestInv(e)'
  BY <1>2, OthersKeep
<1>8. QueueInv' /\ LockInv'
  <2>1. \A i \in 1..Len(waiters) : waiters[i] \in Delivery /\ waiters[i] # d
    BY <1>2 DEF Inv, TypeOK, QueueInv
  <2> QED
    BY <1>2, <2>1 DEF Inv, QueueInv, LockInv
<1>9. CountInv'
  <2>1. Recorded' = Recorded
    BY <1>2 DEF Recorded
  <2> QED
    BY <1>2, <2>1 DEF Inv, CountInv
<1> QED
  BY <1>3, <1>5, <1>6, <1>7, <1>8, <1>9 DEF Inv

\* A request that was recorded moves: the count stays, and so does the queue
\* if the request was not in it.
LEMMA MoveKeeps ==
  ASSUME Inv, NEW d \in Delivery,
         NEW p \in {"bootstrap", "repairing", "handler", "queued", "running",
                    "answered", "refused", "gone"},
         pc' = [pc EXCEPT ![d] = p]
  PROVE  /\ pc'[d] = p
         /\ \A e \in Delivery : e # d => pc'[e] = pc[e]
         /\ pc[d] \notin {"absent", "arrived"} => Recorded' = Recorded
         /\ pc[d] # "queued" /\ UNCHANGED waiters => QueueInv'
<1>1. /\ pc'[d] = p
      /\ \A e \in Delivery : e # d => pc'[e] = pc[e]
  BY DEF Inv, TypeOK
<1>2. pc[d] \notin {"absent", "arrived"} => Recorded' = Recorded
  BY <1>1 DEF Recorded
<1>3. ASSUME pc[d] # "queued", UNCHANGED waiters PROVE QueueInv'
  <2>1. \A i \in 1..Len(waiters) : waiters[i] \in Delivery /\ waiters[i] # d
    BY <1>3 DEF Inv, TypeOK, QueueInv
  <2> QED
    BY <1>1, <1>3, <2>1 DEF Inv, QueueInv
<1> QED
  BY <1>1, <1>2, <1>3

\* What record_hook does to the log.
LogEffect(d) ==
  /\ observed' \in Seq([hook : HookName, handler : Outcome])
  /\ Len(observed') <= HOOK_LOG_CAP /\ Len(observed) <= Len(observed')
  /\ dropped' \in Nat
  /\ Len(observed') + dropped' = Len(observed) + dropped + 1
  /\ dropped' > 0 => Len(observed') = HOOK_LOG_CAP
  /\ slot' \in [Delivery -> 0..HOOK_LOG_CAP]
  /\ \A e \in Delivery : e # d => slot'[e] = slot[e]
  /\ \A i \in 1..Len(observed) : observed'[i] = observed[i]
  /\ \/ slot'[d] = 0
     \/ /\ slot'[d] = Len(observed) + 1 /\ slot'[d] <= Len(observed')
        /\ observed'[slot'[d]] = [hook |-> req[d].hook, handler |-> "none"]

LEMMA LogHookEffect ==
  ASSUME Inv, NEW d \in Delivery, LogHook(d), pc[d] = "arrived"
  PROVE  LogEffect(d)
<1>1. /\ observed \in Seq([hook : HookName, handler : Outcome])
      /\ Len(observed) \in Nat /\ dropped \in Nat /\ Len(observed) <= HOOK_LOG_CAP
      /\ slot \in [Delivery -> 0..HOOK_LOG_CAP] /\ slot[d] = 0 /\ req[d] \in Request
      /\ HOOK_LOG_CAP \in Nat
      /\ dropped > 0 => Len(observed) = HOOK_LOG_CAP
  BY HooksAssumption DEF Inv, TypeOK, RequestInv, Placed, CountInv
<1>2. CASE Len(observed) >= HOOK_LOG_CAP
  BY <1>1, <1>2 DEF LogHook, LogEffect
<1>3. CASE ~(Len(observed) >= HOOK_LOG_CAP)
  <2> DEFINE x == [hook |-> req[d].hook, handler |-> "none"]
  <2>1. x \in [hook : HookName, handler : Outcome]
    BY <1>1, RequestFields DEF Outcome
  <2>2. observed' = Append(observed, x) /\ slot' = [slot EXCEPT ![d] = Len(observed) + 1]
        /\ dropped' = dropped
    BY <1>3 DEF LogHook
  <2> HIDE DEF x
  <2>3. /\ observed' \in Seq([hook : HookName, handler : Outcome])
        /\ Len(observed') = Len(observed) + 1
        /\ \A i \in 1..Len(observed) : observed'[i] = observed[i]
        /\ observed'[Len(observed) + 1] = x
    BY <1>1, <2>1, <2>2
  <2>4. dropped = 0
    BY <1>1, <1>3
  <2>5. slot' \in [Delivery -> 0..HOOK_LOG_CAP] /\ slot'[d] = Len(observed) + 1
        /\ \A e \in Delivery : e # d => slot'[e] = slot[e]
    BY <1>1, <1>3, <2>2
  <2>6. /\ slot'[d] = Len(observed) + 1 /\ slot'[d] <= Len(observed')
        /\ observed'[slot'[d]] = [hook |-> req[d].hook, handler |-> "none"]
    BY <1>1, <2>3, <2>5 DEF x
  <2> QED
    BY <1>1, <1>3, <2>2, <2>3, <2>4, <2>5, <2>6 DEF LogEffect
<1> QED
  BY <1>2, <1>3

\* The log grows: every request that has an entry keeps it.
LEMMA EntriesKept ==
  ASSUME Inv, NEW d \in Delivery, LogHook(d), pc[d] = "arrived",
         NEW e \in Delivery, e # d,
         req'[e] = req[e], pc'[e] = pc[e], status'[e] = status[e],
         UNCHANGED <<token, launch_env, repair>>
  PROVE  RequestInv(e)'
<1> USE DEF LogEffect
<1>0. LogEffect(d)
  BY LogHookEffect
<1>1. /\ slot[e] \in Nat /\ slot[e] <= Len(observed) /\ slot'[e] = slot[e]
      /\ Len(observed) \in Nat /\ Len(observed') \in Nat
      /\ Len(observed) <= Len(observed')
      /\ slot[e] # 0 => observed'[slot[e]] = observed[slot[e]]
  <2>1. /\ slot[e] \in Nat /\ slot[e] <= Len(observed) /\ Len(observed) \in Nat
    BY HooksAssumption DEF Inv, TypeOK, RequestInv, Entry
  <2>2. Len(observed') \in Nat
    BY <1>0
  <2> QED
    BY <1>0, <2>1, <2>2
<1>2. HasHandler(e)' <=> HasHandler(e)
  BY <1>1 DEF HasHandler
<1>3. Placed(e)'
  BY <1>1, <1>2 DEF Inv, RequestInv, Placed
<1>4. Answered(e)'
  <2>1. Answered(e) /\ (HasHandler(e) => slot[e] # 0)
    BY DEF Inv, RequestInv, HasHandler
  <2> QED
    BY <1>1, <1>2, <2>1 DEF Answered
<1>5. Repaired(e)'
  BY DEF Inv, RequestInv, Repaired
<1>6. Entry(e)'
  <2>1. slot'[d] = 0 \/ slot'[d] > Len(observed)
    BY <1>0, <1>1
  <2>2. \A f \in Delivery : slot'[e] # 0 /\ slot'[f] = slot'[e] => f = e
    <3> TAKE f \in Delivery
    <3>1. CASE f = d
      BY <1>1, <2>1, <3>1
    <3>2. CASE f # d
      BY <1>0, <1>1, <3>2 DEF Inv, RequestInv, Entry
    <3> QED
      BY <3>1, <3>2
  <2>3. /\ slot'[e] <= Len(observed')
        /\ slot'[e] # 0 =>
             /\ observed'[slot'[e]].hook = req'[e].hook
             /\ observed'[slot'[e]].handler # "none" =>
                  pc'[e] = "answered" /\ req'[e].hook \in Handled
    BY <1>1 DEF Inv, RequestInv, Entry
  <2> QED
    BY <2>2, <2>3 DEF Entry
<1> QED
  BY <1>3, <1>4, <1>5, <1>6 DEF RequestInv

LEMMA RecordHookKeeps ==
  ASSUME Inv, NEW d \in Delivery, RecordHook(d)
  PROVE  Inv'
<1> USE DEF bootVars, handlerVars, LogEffect
<1>1. /\ pc[d] = "arrived" /\ LogHook(d) /\ req' = req /\ req[d] \in Request
      /\ status[d] = 0 /\ launch_env # d
      /\ UNCHANGED <<token, launch_env, identity, repair, lock, waiters, proc>>
  BY HooksAssumption DEF RecordHook, Inv, TypeOK, RequestInv, Placed, BootInv
<1>0. LogEffect(d)
  BY <1>1, LogHookEffect
<1>2. \E p \in {"answered", "handler", "bootstrap", "refused"}, c \in {0, 200} :
        /\ pc' = [pc EXCEPT ![d] = p] /\ status' = [status EXCEPT ![d] = c]
        /\ c # 0 => p = "answered"
        /\ p = "answered" => req[d].hook \in {"ready", "validate"}
        /\ p = "handler" => req[d].hook \in {"suspend", "resume", "terminate"}
        /\ p = "bootstrap" => req[d].hook = "run"
  <2>1. status = [status EXCEPT ![d] = 0]
    BY <1>1 DEF Inv, TypeOK
  <2> QED
    BY <2>1 DEF RecordHook, Answer, Goes
<1>3. PICK p \in {"answered", "handler", "bootstrap", "refused"}, c \in {0, 200} :
        /\ pc' = [pc EXCEPT ![d] = p] /\ status' = [status EXCEPT ![d] = c]
        /\ c # 0 => p = "answered"
        /\ p = "answered" => req[d].hook \in {"ready", "validate"}
        /\ p = "handler" => req[d].hook \in {"suspend", "resume", "terminate"}
        /\ p = "bootstrap" => req[d].hook = "run"
  BY <1>2
<1>4. /\ pc'[d] = p /\ status'[d] = c
      /\ \A e \in Delivery : e # d => pc'[e] = pc[e] /\ status'[e] = status[e]
  BY <1>3 DEF Inv, TypeOK
<1>5. TypeOK'
  <2>1. pc' \in [Delivery -> {"absent", "arrived", "bootstrap", "repairing",
                              "handler", "queued", "running", "answered",
                              "refused", "gone"}]
        /\ status' \in [Delivery -> {0, 200, 400, 409}]
    BY <1>3 DEF Inv, TypeOK
  <2> QED
    BY <1>0, <1>1, <2>1 DEF Inv, TypeOK
<1>6. BootInv'
  BY <1>1, <1>4 DEF Inv, BootInv, TypeOK
<1>7. \A e \in Delivery : e # d => RequestInv(e)'
  BY <1>1, <1>4, EntriesKept
<1>8. RequestInv(d)'
  <2>1. Placed(d)' /\ Repaired(d)'
    BY <1>1, <1>3, <1>4 DEF Placed, Repaired
  <2>2. Answered(d)'
    BY <1>1, <1>3, <1>4, HooksAssumption DEF Answered, HasHandler
  <2>3. /\ slot'[d] <= Len(observed')
        /\ slot'[d] # 0 =>
             /\ observed'[slot'[d]].hook = req'[d].hook
             /\ observed'[slot'[d]].handler = "none"
    <3>1. Len(observed') \in Nat
      BY <1>0, <1>1
    <3> QED
      BY <1>0, <1>1, <3>1
  <2>4. ASSUME NEW e \in Delivery, slot'[d] # 0, slot'[e] = slot'[d] PROVE e = d
    <3>1. slot[e] \in Nat /\ slot[e] <= Len(observed) /\ Len(observed) \in Nat
      BY HooksAssumption DEF Inv, TypeOK, RequestInv, Entry
    <3> QED
      BY <1>0, <1>1, <2>4, <3>1
  <2> QED
    BY <2>1, <2>2, <2>3, <2>4 DEF RequestInv, Entry
<1>9. QueueInv' /\ LockInv'
  BY <1>1, <1>3, MoveKeeps DEF Inv, LockInv
<1>10. CountInv'
  <2>1. Recorded' = Recorded \cup {d} /\ d \notin Recorded
    BY <1>1, <1>3, <1>4 DEF Recorded
  <2>2. IsFiniteSet(Recorded') /\ Cardinality(Recorded') = Cardinality(Recorded) + 1
    BY <2>1, FS_AddElement DEF Inv, CountInv
  <2> QED
    BY <1>0, <1>1, <2>2 DEF Inv, CountInv
<1> QED
  BY <1>5, <1>6, <1>7, <1>8, <1>9, <1>10 DEF Inv

-----------------------------------------------------------------------------
(* The bootstrap.                                                          *)

\* The first well-formed delivery installs everything at once.
LEMMA InstallKeeps ==
  ASSUME Inv, NEW d \in Delivery, pc[d] = "bootstrap",
         req[d].token # Malformed, token = NoToken,
         token' = req[d].token, launch_env' = d, repair' = "running",
         Goes(d, "repairing"),
         UNCHANGED <<req, slot, identity, observed, dropped, lock, waiters, proc>>
  PROVE  Inv'
<1>1. /\ req[d] \in Request /\ req[d].hook = "run" /\ status[d] = 0
      /\ launch_env = NoDelivery /\ repair = "none"
  BY DEF Inv, BootInv, RequestInv, Placed
<1>2. /\ pc' = [pc EXCEPT ![d] = "repairing"] /\ status' = status
      /\ pc'[d] = "repairing"
      /\ \A e \in Delivery : e # d => pc'[e] = pc[e]
  BY DEF Goes, Inv, TypeOK
<1>3. req[d].token \in Token /\ req[d].token # NoToken
  BY <1>1, RequestFields
<1>4. TypeOK'
  BY <1>2, <1>3 DEF Inv, TypeOK
<1>5. BootInv'
  BY <1>1, <1>2, <1>3, HooksAssumption DEF BootInv
<1>6. RequestInv(d)'
  <2>1. Placed(d)' /\ Answered(d)' /\ Repaired(d)'
    BY <1>1, <1>2 DEF Placed, Answered, Repaired
  <2>2. Entry(d)'
    BY <1>2 DEF Inv, RequestInv, Entry
  <2> QED
    BY <2>1, <2>2 DEF RequestInv
<1>7. ASSUME NEW e \in Delivery, e # d PROVE RequestInv(e)'
  <2>1. RequestInv(e) /\ pc'[e] = pc[e] /\ e # launch_env
    BY <1>1, <1>2, <1>7, HooksAssumption DEF Inv
  <2>2. HasHandler(e)' <=> HasHandler(e)
    BY DEF HasHandler
  <2>3. Placed(e)'
    BY <1>2, <2>1, <2>2 DEF RequestInv, Placed
  <2>4. Answered(e)'
    BY <1>2, <1>7, <2>1, <2>2 DEF RequestInv, Answered
  <2>5. Repaired(e)' /\ Entry(e)'
    BY <1>2, <1>7, <2>1 DEF RequestInv, Repaired, Entry
  <2> QED
    BY <2>3, <2>4, <2>5 DEF RequestInv
<1>8. QueueInv' /\ LockInv' /\ CountInv'
  BY <1>2, MoveKeeps DEF Inv, LockInv, CountInv
<1> QED
  BY <1>4, <1>5, <1>6, <1>7, <1>8 DEF Inv

\* A request steps with the boot state and the log as they are.
QuietStep(d, p, c) ==
  /\ p \in {"handler", "queued", "running", "answered", "gone"}
  /\ c \in {0, 200, 400, 409}
  /\ pc' = [pc EXCEPT ![d] = p] /\ status' = [status EXCEPT ![d] = c]
  /\ pc[d] \notin {"absent", "arrived", "answered"}
  /\ UNCHANGED <<req, slot, token, launch_env, identity, repair, observed, dropped>>
  /\ lock' \in Delivery \cup {NoDelivery} /\ waiters' \in Seq(Delivery)
  /\ proc' \in [Delivery -> {"none", "live", "dead"}]

LEMMA QuietKeeps ==
  ASSUME Inv, NEW d \in Delivery, NEW p, NEW c, QuietStep(d, p, c),
         Placed(d)', Answered(d)', Repaired(d)', QueueInv', LockInv'
  PROVE  Inv'
<1> USE DEF QuietStep
<1>1. /\ pc'[d] = p /\ status'[d] = c
      /\ \A e \in Delivery : e # d => pc'[e] = pc[e] /\ status'[e] = status[e]
  BY DEF Inv, TypeOK
<1>2. TypeOK'
  <2>1. /\ pc' \in [Delivery -> {"absent", "arrived", "bootstrap", "repairing",
                               "handler", "queued", "running", "answered",
                              "refused", "gone"}]
        /\ status' \in [Delivery -> {0, 200, 400, 409}]
    BY DEF Inv, TypeOK
  <2> QED
    BY <2>1 DEF Inv, TypeOK
<1>3. BootInv'
  BY <1>1 DEF Inv, BootInv, TypeOK
<1>4. \A e \in Delivery : e # d => RequestInv(e)'
  BY <1>1, OthersKeep
<1>5. Entry(d)'
  <2>1. Entry(d)
    BY DEF Inv, RequestInv
  <2> QED
    BY <1>1, <2>1 DEF Entry
<1>6. CountInv'
  <2>1. Recorded' = Recorded
    BY MoveKeeps
  <2> QED
    BY <2>1 DEF Inv, CountInv
<1> QED
  BY <1>2, <1>3, <1>4, <1>5, <1>6 DEF Inv, RequestInv

LEMMA BootstrapKeeps ==
  ASSUME Inv, NEW d \in Delivery, Bootstrap(d)
  PROVE  Inv'
<1> USE DEF logVars, handlerVars
<1>1. /\ pc[d] = "bootstrap" /\ req[d] \in Request /\ req[d].hook = "run"
      /\ launch_env # d
      /\ UNCHANGED <<req, slot, identity, observed, dropped, lock, waiters, proc>>
  BY HooksAssumption DEF Bootstrap, Inv, BootInv, RequestInv, Placed
<1>2. CASE /\ req[d].token # Malformed /\ token = NoToken
           /\ token' = req[d].token /\ launch_env' = d /\ repair' = "running"
           /\ Goes(d, "repairing")
  BY <1>1, <1>2, InstallKeeps
<1>3. ASSUME NEW c \in {200, 400, 409}, Answer(d, c),
             UNCHANGED <<token, launch_env, repair>>,
             req[d].token = Malformed => c = 400,
             req[d].token # Malformed =>
               token # NoToken /\ c = IF req[d].token = token THEN 200 ELSE 409
      PROVE  Inv'
  <2>1. /\ pc' = [pc EXCEPT ![d] = "answered"] /\ status' = [status EXCEPT ![d] = c]
        /\ pc'[d] = "answered" /\ status'[d] = c
    BY <1>3 DEF Answer, Inv, TypeOK
  <2>2. Placed(d)' /\ Repaired(d)'
    BY <1>1, <1>3, <2>1 DEF Placed, Repaired
  <2>3. Answered(d)'
    BY <1>1, <1>3, <2>1 DEF Answered
  <2>4. QueueInv' /\ LockInv'
    BY <1>1, <2>1, MoveKeeps DEF Inv, LockInv
  <2>5. /\ lock' \in Delivery \cup {NoDelivery} /\ waiters' \in Seq(Delivery)
        /\ proc' \in [Delivery -> {"none", "live", "dead"}]
    BY <1>1 DEF Inv, TypeOK
  <2>6. QuietStep(d, "answered", c)
    BY <1>1, <1>3, <2>1, <2>5 DEF QuietStep
  <2> QED
    BY <2>2, <2>3, <2>4, <2>6, QuietKeeps
<1>4. CASE /\ \/ req[d].token = Malformed /\ Answer(d, 400)
              \/ req[d].token # Malformed /\ token = req[d].token /\ Answer(d, 200)
              \/ /\ req[d].token # Malformed /\ token \notin {NoToken, req[d].token}
                 /\ Answer(d, 409)
           /\ UNCHANGED <<token, launch_env, repair>>
  <2>1. CASE req[d].token = Malformed /\ Answer(d, 400)
    BY <1>3, <1>4, <2>1
  <2>2. CASE req[d].token # Malformed /\ token = req[d].token /\ Answer(d, 200)
    <3>1. token # NoToken
      BY <1>1, <2>2, RequestFields
    <3> QED
      BY <1>3, <1>4, <2>2, <3>1
  <2>3. CASE /\ req[d].token # Malformed /\ token \notin {NoToken, req[d].token}
             /\ Answer(d, 409)
    BY <1>3, <1>4, <2>3
  <2> QED
    BY <1>4, <2>1, <2>2, <2>3
<1> QED
  BY <1>2, <1>4 DEF Bootstrap

LEMMA RepairIdentityKeeps ==
  ASSUME Inv, RepairIdentity
  PROVE  Inv'
<1> USE DEF requestVars, logVars, handlerVars
<1>1. /\ repair = "running" /\ repair' = "over"
      /\ identity' \in {"skipped", "repaired", "degraded"}
      /\ UNCHANGED <<req, pc, slot, status, token, launch_env, observed, dropped,
                     lock, waiters, proc>>
  BY DEF RepairIdentity, Inv, TypeOK
<1>2. TypeOK' /\ BootInv'
  BY <1>1 DEF Inv, TypeOK, BootInv
<1>3. ASSUME NEW d \in Delivery PROVE RequestInv(d)'
  <2>1. RequestInv(d) /\ (HasHandler(d)' <=> HasHandler(d))
    BY <1>1 DEF Inv, HasHandler
  <2>2. Placed(d)' /\ Repaired(d)' /\ Entry(d)'
    BY <1>1, <2>1 DEF RequestInv, Placed, Repaired, Entry
  <2>3. Answered(d)'
    BY <1>1, <2>1 DEF RequestInv, Answered
  <2> QED
    BY <2>2, <2>3 DEF RequestInv
<1>4. QueueInv' /\ LockInv' /\ CountInv'
  <2>1. Recorded' = Recorded
    BY <1>1 DEF Recorded
  <2> QED
    BY <1>1, <2>1 DEF Inv, QueueInv, LockInv, CountInv
<1> QED
  BY <1>2, <1>3, <1>4 DEF Inv

LEMMA RepairJoinedKeeps ==
  ASSUME Inv, NEW d \in Delivery, RepairJoined(d)
  PROVE  Inv'
<1> USE DEF bootVars, logVars, handlerVars
<1>1. /\ pc[d] = "repairing" /\ repair = "over" /\ req[d].hook = "run"
      /\ req[d] \in Request /\ launch_env = d /\ status[d] = 0
      /\ UNCHANGED <<req, slot, token, launch_env, identity, repair, observed,
                     dropped, lock, waiters, proc>>
  BY DEF RepairJoined, Inv, RequestInv, Placed
<1>2. /\ pc' = [pc EXCEPT ![d] = "handler"] /\ status' = [status EXCEPT ![d] = 0]
      /\ pc'[d] = "handler" /\ status'[d] = 0
  BY <1>1 DEF RepairJoined, Goes, Inv, TypeOK
<1>3. Placed(d)' /\ Repaired(d)' /\ Answered(d)'
  BY <1>1, <1>2 DEF Placed, Repaired, Answered
<1>4. QueueInv' /\ LockInv'
  BY <1>1, <1>2, MoveKeeps DEF Inv, LockInv
<1>5. /\ lock' \in Delivery \cup {NoDelivery} /\ waiters' \in Seq(Delivery)
      /\ proc' \in [Delivery -> {"none", "live", "dead"}]
  BY <1>1 DEF Inv, TypeOK
<1>6. QuietStep(d, "handler", 0)
  BY <1>1, <1>2, <1>5 DEF QuietStep
<1> QED
  BY <1>3, <1>4, <1>6, QuietKeeps

-----------------------------------------------------------------------------
(* The handlers.                                                           *)

\* A request that is at its handler: the winner, or not a run hook.
LEMMA AtHandler ==
  ASSUME Inv, NEW d \in Delivery, pc[d] \in {"handler", "queued", "running"}
  PROVE  /\ req[d] \in Request /\ status[d] = 0
         /\ req[d].hook = "run" =>
              /\ launch_env = d /\ token = req[d].token /\ token # NoToken
              /\ req[d].token # Malformed
         /\ launch_env = d => repair = "over"
<1>1. Placed(d) /\ Repaired(d) /\ BootInv
  BY DEF Inv, RequestInv
<1>2. /\ req[d] \in Request /\ status[d] = 0
      /\ launch_env = d => repair = "over"
  BY <1>1 DEF Placed, Repaired
<1>3. ASSUME req[d].hook = "run"
      PROVE  /\ launch_env = d /\ token = req[d].token /\ token # NoToken
             /\ req[d].token # Malformed
  <2>1. launch_env = d
    BY <1>1, <1>3 DEF Placed
  <2>2. token = req[d].token /\ token # NoToken
    BY <1>1, <2>1, HooksAssumption DEF BootInv
  <2>3. token \in Token
    BY <2>2 DEF Inv, TypeOK
  <2> QED
    BY <2>1, <2>2, <2>3, HooksAssumption
<1> QED
  BY <1>2, <1>3

LEMMA HandlerSkippedKeeps ==
  ASSUME Inv, NEW d \in Delivery, HandlerSkipped(d)
  PROVE  Inv'
<1> USE DEF bootVars, logVars, handlerVars
<1>1. /\ pc[d] = "handler" /\ ~HasHandler(d)
      /\ UNCHANGED <<req, slot, token, launch_env, identity, repair, observed,
                     dropped, lock, waiters, proc>>
  BY DEF HandlerSkipped
<1>2. /\ pc' = [pc EXCEPT ![d] = "answered"] /\ status' = [status EXCEPT ![d] = 200]
      /\ pc'[d] = "answered" /\ status'[d] = 200
  BY <1>1 DEF HandlerSkipped, Answer, Inv, TypeOK
<1>3. ~HasHandler(d)'
  BY <1>1 DEF HasHandler
<1>4. Placed(d)' /\ Repaired(d)' /\ Answered(d)'
  BY <1>1, <1>2, <1>3, AtHandler DEF Placed, Repaired, Answered
<1>5. QueueInv' /\ LockInv'
  BY <1>1, <1>2, MoveKeeps DEF Inv, LockInv
<1>6. /\ lock' \in Delivery \cup {NoDelivery} /\ waiters' \in Seq(Delivery)
      /\ proc' \in [Delivery -> {"none", "live", "dead"}]
  BY <1>1 DEF Inv, TypeOK
<1>7. QuietStep(d, "answered", 200)
  BY <1>1, <1>2, <1>6 DEF QuietStep
<1> QED
  BY <1>4, <1>5, <1>7, QuietKeeps

LEMMA HandlerQueuesKeeps ==
  ASSUME Inv, NEW d \in Delivery, HandlerQueues(d)
  PROVE  Inv'
<1> USE DEF bootVars, logVars
<1>1. /\ pc[d] = "handler" /\ HasHandler(d) /\ waiters' = Append(waiters, d)
      /\ UNCHANGED <<req, slot, token, launch_env, identity, repair, observed,
                     dropped, lock, proc>>
      /\ waiters \in Seq(Delivery) /\ status[d] = 0
  BY AtHandler DEF HandlerQueues, Inv, TypeOK
<1>2. /\ pc' = [pc EXCEPT ![d] = "queued"] /\ status' = [status EXCEPT ![d] = 0]
      /\ pc'[d] = "queued" /\ status'[d] = 0
      /\ \A e \in Delivery : e # d => pc'[e] = pc[e]
  BY <1>1 DEF HandlerQueues, Goes, Inv, TypeOK
<1>3. HasHandler(d)'
  BY <1>1 DEF HasHandler
<1>4. Placed(d)' /\ Repaired(d)' /\ Answered(d)'
  BY <1>1, <1>2, <1>3, AtHandler DEF Placed, Repaired, Answered
<1>5. /\ waiters' \in Seq(Delivery) /\ Len(waiters') = Len(waiters) + 1
      /\ Len(waiters) \in Nat /\ waiters'[Len(waiters) + 1] = d
      /\ \A i \in 1..Len(waiters) : waiters'[i] = waiters[i]
  BY <1>1
<1>6. \A i \in 1..Len(waiters) : waiters[i] \in Delivery /\ waiters[i] # d
  BY <1>1 DEF Inv, QueueInv
<1>7. QueueInv'
  BY <1>2, <1>5, <1>6 DEF Inv, QueueInv
<1>8. /\ lock' \in Delivery \cup {NoDelivery} /\ LockInv'
      /\ proc' \in [Delivery -> {"none", "live", "dead"}]
  BY <1>1 DEF Inv, TypeOK, LockInv
<1>9. QuietStep(d, "queued", 0)
  BY <1>1, <1>2, <1>5, <1>8 DEF QuietStep
<1> QED
  BY <1>4, <1>7, <1>8, <1>9, QuietKeeps

LEMMA ElementType ==
  ASSUME NEW S, NEW q \in Seq(S), NEW i \in 1..Len(q)
  PROVE  q[i] \in S
  OBVIOUS

\* record_handler writes the outcome on the request's own entry.
LEMMA FinishEffect ==
  ASSUME Inv, NEW d \in Delivery, pc[d] \in {"queued", "running"},
         NEW o \in Outcome \ {"none"}, Finish(d, o)
  PROVE  /\ observed' \in Seq([hook : HookName, handler : Outcome])
         /\ Len(observed') = Len(observed)
         /\ slot[d] # 0 /\ observed'[slot[d]].handler = o
         /\ observed'[slot[d]].hook = req[d].hook
         /\ \A i \in 1..Len(observed) : i # slot[d] => observed'[i] = observed[i]
<1> DEFINE E == [hook : HookName, handler : Outcome]
<1>1. /\ observed \in Seq(E) /\ slot[d] \in 1..Len(observed) /\ Len(observed) \in Nat
      /\ observed[slot[d]].hook = req[d].hook
  BY HooksAssumption DEF Inv, TypeOK, RequestInv, Placed, Entry, HasHandler
<1>2. observed[slot[d]] \in E
  <2> HIDE DEF E
  <2> QED
    BY <1>1, ElementType
<1> DEFINE x == [observed[slot[d]] EXCEPT !.handler = o]
<1>3. x \in E /\ x.handler = o /\ x.hook = req[d].hook
  BY <1>1, <1>2
<1>4. observed' = [observed EXCEPT ![slot[d]] = x]
  BY DEF Finish
<1> HIDE DEF x, E
<1>5. /\ observed' \in Seq(E) /\ Len(observed') = Len(observed)
      /\ observed'[slot[d]] = x
      /\ \A i \in 1..Len(observed) : i # slot[d] => observed'[i] = observed[i]
  BY <1>1, <1>3, <1>4
<1> QED
  BY <1>1, <1>3, <1>5 DEF E

LEMMA FinishKeeps ==
  ASSUME Inv, NEW d \in Delivery, pc[d] \in {"queued", "running"},
         NEW o \in Outcome \ {"none"}, Finish(d, o),
         lock' \in Delivery \cup {NoDelivery}, waiters' \in Seq(Delivery),
         proc' \in [Delivery -> {"none", "live", "dead"}],
         QueueInv', LockInv'
  PROVE  Inv'
<1> USE DEF bootVars
<1>1. /\ UNCHANGED <<req, slot, dropped, token, launch_env, identity, repair>>
      /\ pc' = [pc EXCEPT ![d] = "answered"] /\ status' = [status EXCEPT ![d] = 200]
      /\ pc'[d] = "answered" /\ status'[d] = 200
      /\ \A e \in Delivery : e # d => pc'[e] = pc[e] /\ status'[e] = status[e]
  BY DEF Finish, Answer, Inv, TypeOK
<1>2. /\ observed' \in Seq([hook : HookName, handler : Outcome])
      /\ Len(observed') = Len(observed) /\ Len(observed) \in Nat
      /\ slot[d] # 0 /\ observed'[slot[d]].handler = o
      /\ observed'[slot[d]].hook = req[d].hook
      /\ \A i \in 1..Len(observed) : i # slot[d] => observed'[i] = observed[i]
  BY FinishEffect DEF Inv, TypeOK
<1>3. TypeOK'
  <2>1. /\ pc' \in [Delivery -> {"absent", "arrived", "bootstrap", "repairing",
                               "handler", "queued", "running", "answered",
                              "refused", "gone"}]
        /\ status' \in [Delivery -> {0, 200, 400, 409}]
    BY <1>1 DEF Inv, TypeOK
  <2> QED
    BY <1>1, <1>2, <2>1 DEF Inv, TypeOK
<1>4. BootInv'
  BY <1>1 DEF Inv, BootInv, TypeOK
<1>5. HasHandler(d) /\ HasHandler(d)'
  BY <1>1 DEF Inv, RequestInv, Placed, HasHandler
<1>6. RequestInv(d)'
  <2>1. Placed(d)' /\ Repaired(d)'
    BY <1>1, AtHandler DEF Placed, Repaired
  <2>2. Answered(d)'
    <3>1. o # "none"
      OBVIOUS
    <3> QED
      BY <1>1, <1>2, <3>1, AtHandler DEF Answered
  <2>3. Entry(d)'
    <3>1. Entry(d)
      BY DEF Inv, RequestInv
    <3> QED
      BY <1>1, <1>2, <1>5, <3>1 DEF Entry, HasHandler
  <2> QED
    BY <2>1, <2>2, <2>3 DEF RequestInv
<1>7. ASSUME NEW e \in Delivery, e # d PROVE RequestInv(e)'
  <2>1. /\ RequestInv(e) /\ slot[e] # slot[d]
        /\ slot[e] \in Nat /\ slot[e] <= Len(observed)
    BY <1>2, <1>7, HooksAssumption DEF Inv, TypeOK, RequestInv, Entry
  <2>2. slot[e] # 0 => observed'[slot[e]] = observed[slot[e]]
    BY <1>2, <2>1
  <2>3. HasHandler(e)' <=> HasHandler(e)
    BY <1>1 DEF HasHandler
  <2>4. Placed(e)' /\ Repaired(e)'
    BY <1>1, <1>7, <2>1, <2>3 DEF RequestInv, Placed, Repaired
  <2>5. Answered(e)'
    <3>1. HasHandler(e) => slot[e] # 0
      BY DEF HasHandler
    <3> QED
      BY <1>1, <1>7, <2>1, <2>2, <2>3, <3>1 DEF RequestInv, Answered
  <2>6. Entry(e)'
    BY <1>1, <1>2, <1>7, <2>1, <2>2 DEF RequestInv, Entry
  <2> QED
    BY <2>4, <2>5, <2>6 DEF RequestInv
<1>8. CountInv'
  <2>1. Recorded' = Recorded
    BY <1>1, MoveKeeps
  <2> QED
    BY <1>1, <1>2, <2>1 DEF Inv, CountInv
<1> QED
  BY <1>3, <1>4, <1>6, <1>7, <1>8 DEF Inv

LEMMA HandlerStartsKeeps ==
  ASSUME Inv, NEW d \in Delivery, HandlerStarts(d)
  PROVE  Inv'
<1> USE DEF bootVars, logVars
<1>1. /\ waiters \in Seq(Delivery) /\ waiters # <<>> /\ waiters[1] = d
      /\ lock = NoDelivery /\ waiters' = Tail(waiters)
      /\ proc \in [Delivery -> {"none", "live", "dead"}]
  BY DEF HandlerStarts, Inv, TypeOK
<1>2. /\ Len(waiters) \in Nat /\ Len(waiters) > 0 /\ waiters' \in Seq(Delivery)
      /\ Len(waiters') = Len(waiters) - 1
      /\ \A i \in 1..Len(waiters') : i + 1 \in 1..Len(waiters) /\ i + 1 # 1
           /\ waiters'[i] = waiters[i + 1] /\ waiters[i + 1] \in Delivery
  BY <1>1
<1>3. pc[d] = "queued" /\ HasHandler(d) /\ status[d] = 0
  <2>1. 1 \in 1..Len(waiters)
    BY <1>2
  <2>2. pc[d] = "queued"
    BY <1>1, <2>1 DEF Inv, QueueInv
  <2> QED
    BY <2>2, AtHandler DEF Inv, RequestInv, Placed
<1>4. \A i \in 1..Len(waiters') : waiters'[i] # d
  BY <1>1, <1>2 DEF Inv, QueueInv
<1>5. ASSUME \A e \in Delivery : e # d => pc'[e] = pc[e] PROVE QueueInv'
  <2>1. \A i \in 1..Len(waiters') : pc'[waiters'[i]] = "queued"
    BY <1>2, <1>4, <1>5 DEF Inv, QueueInv
  <2>2. ASSUME NEW i \in 1..Len(waiters'), NEW j \in 1..Len(waiters'),
               waiters'[i] = waiters'[j]
        PROVE  i = j
    <3>1. i + 1 = j + 1
      BY <1>2, <2>2 DEF Inv, QueueInv
    <3> QED
      BY <1>2, <3>1
  <2> QED
    BY <2>1, <2>2 DEF QueueInv
<1>6. \A e \in Delivery : proc[e] # "live"
  BY <1>1, HooksAssumption DEF Inv, LockInv
<1>7. CASE /\ lock' = d /\ proc' = [proc EXCEPT ![d] = "live"] /\ Goes(d, "running")
           /\ UNCHANGED <<req, slot>> /\ UNCHANGED bootVars /\ UNCHANGED logVars
  <2>1. /\ pc' = [pc EXCEPT ![d] = "running"] /\ status' = [status EXCEPT ![d] = 0]
        /\ pc'[d] = "running" /\ status'[d] = 0
        /\ \A e \in Delivery : e # d => pc'[e] = pc[e]
    BY <1>3, <1>7 DEF Goes, Inv, TypeOK
  <2>2. proc' \in [Delivery -> {"none", "live", "dead"}] /\ LockInv'
    BY <1>1, <1>6, <1>7 DEF LockInv
  <2>3. HasHandler(d)'
    BY <1>3, <1>7 DEF HasHandler
  <2>4. Placed(d)' /\ Repaired(d)' /\ Answered(d)'
    BY <1>3, <1>7, <2>1, <2>3, AtHandler DEF Placed, Repaired, Answered
  <2>5. QuietStep(d, "running", 0)
    BY <1>2, <1>3, <1>7, <2>1, <2>2 DEF QuietStep
  <2> QED
    BY <1>5, <2>1, <2>2, <2>4, <2>5, QuietKeeps
<1>8. CASE Finish(d, "failed") /\ UNCHANGED <<lock, proc>>
  <2>1. \A e \in Delivery : e # d => pc'[e] = pc[e]
    BY <1>8 DEF Finish, Answer, Inv, TypeOK
  <2>2. "failed" \in Outcome \ {"none"}
    BY DEF Outcome
  <2>3. /\ lock' \in Delivery \cup {NoDelivery} /\ LockInv'
        /\ proc' \in [Delivery -> {"none", "live", "dead"}]
    BY <1>8 DEF Inv, TypeOK, LockInv
  <2> QED
    BY <1>2, <1>3, <1>5, <1>8, <2>1, <2>2, <2>3, FinishKeeps
<1> QED
  BY <1>7, <1>8 DEF HandlerStarts

LEMMA HandlerOverKeeps ==
  ASSUME Inv, NEW d \in Delivery, HandlerEnds(d) \/ HandlerTimesOut(d)
  PROVE  Inv'
<1>1. PICK o \in {"ran", "timed_out"} :
        /\ pc[d] = "running" /\ lock = d /\ proc' = [proc EXCEPT ![d] = "dead"]
        /\ lock' = NoDelivery /\ Finish(d, o) /\ waiters' = waiters
  BY DEF HandlerEnds, HandlerTimesOut
<1>2. o \in Outcome \ {"none"}
  BY DEF Outcome
<1>3. /\ proc' \in [Delivery -> {"none", "live", "dead"}]
      /\ waiters' \in Seq(Delivery)
  BY <1>1 DEF Inv, TypeOK
<1>4. LockInv'
  BY <1>1 DEF Inv, TypeOK, LockInv
<1>5. QueueInv'
  <2>1. pc' = [pc EXCEPT ![d] = "answered"]
    BY <1>1 DEF Finish, Answer
  <2> QED
    BY <1>1, <2>1, MoveKeeps
<1> QED
  BY <1>1, <1>2, <1>3, <1>4, <1>5, FinishKeeps

\* A queue without one of its waiters.
LEMMA WithoutEffect ==
  ASSUME NEW q \in Seq(Delivery), NEW d \in Delivery,
         \A i, j \in 1..Len(q) : q[i] = q[j] => i = j
  PROVE  /\ Without(q, d) \in Seq(Delivery)
         /\ \A i \in 1..Len(Without(q, d)) :
              /\ Without(q, d)[i] # d
              /\ \E k \in 1..Len(q) : Without(q, d)[i] = q[k]
         /\ \A i, j \in 1..Len(Without(q, d)) :
              Without(q, d)[i] = Without(q, d)[j] => i = j
<1>1. DOMAIN q = 1..Len(q) /\ Len(q) \in Nat
  OBVIOUS
<1>2. CASE ~\E i \in DOMAIN q : q[i] = d
  <2>1. Without(q, d) = q
    BY <1>2 DEF Without
  <2> QED
    BY <1>1, <1>2, <2>1
<1>3. CASE \E i \in DOMAIN q : q[i] = d
  <2> DEFINE at == CHOOSE i \in DOMAIN q : q[i] = d
             r == Without(q, d)
  <2>1. at \in 1..Len(q) /\ q[at] = d
    BY <1>1, <1>3
  <2>2. r = SubSeq(q, 1, at - 1) \o SubSeq(q, at + 1, Len(q))
    BY <1>3 DEF Without, RemoveAt
  <2> HIDE DEF at, r
  <2>3. /\ r \in Seq(Delivery) /\ Len(r) = Len(q) - 1
        /\ \A i \in 1..Len(r) : r[i] = IF i < at THEN q[i] ELSE q[i + 1]
    <3> DEFINE a == SubSeq(q, 1, at - 1)
               b == SubSeq(q, at + 1, Len(q))
    <3>1. /\ at \in Int /\ Len(q) \in Int /\ 1 <= at /\ at <= Len(q)
          /\ \A i \in 1..Len(q) : q[i] \in Delivery
      BY <1>1, <2>1
    <3>2. /\ a \in Seq(Delivery) /\ Len(a) = at - 1
          /\ \A i \in 1..(at - 1) : a[i] = q[i]
      <4>1. 1 \in Int /\ at - 1 \in Int /\ \A i \in 1..(at - 1) : q[i] \in Delivery
        BY <3>1
      <4>2. /\ a \in Seq(Delivery) /\ Len(a) = IF 1 <= at - 1 THEN at - 1 - 1 + 1 ELSE 0
            /\ \A i \in 1..(at - 1 - 1 + 1) : a[i] = q[1 + i - 1]
        BY <4>1, SubSeqProperties
      <4> HIDE DEF a
      <4> QED
        BY <3>1, <4>2
    <3>3. /\ b \in Seq(Delivery) /\ Len(b) = Len(q) - at
          /\ \A i \in 1..(Len(q) - at) : b[i] = q[at + i]
      <4>1. at + 1 \in Int /\ \A i \in (at + 1)..Len(q) : q[i] \in Delivery
        BY <3>1
      <4>2. /\ b \in Seq(Delivery)
            /\ Len(b) = IF at + 1 <= Len(q) THEN Len(q) - (at + 1) + 1 ELSE 0
            /\ \A i \in 1..(Len(q) - (at + 1) + 1) : b[i] = q[at + 1 + i - 1]
        BY <3>1, <4>1, SubSeqProperties
      <4> HIDE DEF b
      <4> QED
        BY <3>1, <4>2
    <3>4. r = a \o b
      BY <2>2
    <3> HIDE DEF a, b
    <3>5. /\ r \in Seq(Delivery) /\ Len(r) = Len(a) + Len(b)
          /\ \A i \in 1..(Len(a) + Len(b)) :
               r[i] = IF i <= Len(a) THEN a[i] ELSE b[i - Len(a)]
      BY <3>2, <3>3, <3>4, ConcatProperties
    <3>6. Len(r) = Len(q) - 1
      BY <3>1, <3>2, <3>3, <3>5
    <3>7. ASSUME NEW i \in 1..Len(r) PROVE r[i] = IF i < at THEN q[i] ELSE q[i + 1]
      <4>1. CASE i < at
        BY <3>1, <3>2, <3>3, <3>5, <4>1
      <4>2. CASE ~(i < at)
        <5>1. i - Len(a) \in 1..(Len(q) - at) /\ at + (i - Len(a)) = i + 1
          BY <3>1, <3>2, <3>6, <4>2
        <5>2. r[i] = b[i - Len(a)]
          BY <3>1, <3>2, <3>5, <4>2
        <5> QED
          BY <3>3, <4>2, <5>1, <5>2
      <4> QED
        BY <4>1, <4>2
    <3> QED
      BY <3>5, <3>6, <3>7
  <2> DEFINE k(i) == IF i < at THEN i ELSE i + 1
  <2>4. \A i \in 1..Len(r) : k(i) \in 1..Len(q) /\ k(i) # at /\ r[i] = q[k(i)]
    BY <1>1, <2>1, <2>3
  <2>5. \A i, j \in 1..Len(r) : k(i) = k(j) => i = j
    BY <1>1, <2>1, <2>3
  <2> HIDE DEF k
  <2>6. \A i \in 1..Len(r) : r[i] # d /\ \E n \in 1..Len(q) : r[i] = q[n]
    BY <2>1, <2>4
  <2>7. \A i, j \in 1..Len(r) : r[i] = r[j] => i = j
    BY <2>4, <2>5
  <2> QED
    BY <2>3, <2>6, <2>7 DEF r
<1> QED
  BY <1>2, <1>3

LEMMA HangUpKeeps ==
  ASSUME Inv, NEW d \in Delivery, HangUp(d)
  PROVE  Inv'
<1> USE DEF bootVars, logVars
<1>1. /\ pc[d] \in {"repairing", "queued", "running"} /\ status[d] = 0
      /\ req[d] \in Request /\ waiters \in Seq(Delivery)
      /\ lock' = IF lock = d THEN NoDelivery ELSE lock
      /\ waiters' = Without(waiters, d)
      /\ proc' = [proc EXCEPT ![d] = IF proc[d] = "live" THEN "dead" ELSE proc[d]]
      /\ UNCHANGED <<req, slot, token, launch_env, identity, repair, observed, dropped>>
  BY DEF HangUp, Inv, TypeOK, RequestInv, Placed
<1>2. /\ pc' = [pc EXCEPT ![d] = "gone"] /\ status' = [status EXCEPT ![d] = 0]
      /\ pc'[d] = "gone" /\ status'[d] = 0
      /\ \A e \in Delivery : e # d => pc'[e] = pc[e]
  BY <1>1 DEF HangUp, Goes, Inv, TypeOK
<1>3. /\ waiters' \in Seq(Delivery)
      /\ \A i \in 1..Len(waiters') :
           waiters'[i] # d /\ \E k \in 1..Len(waiters) : waiters'[i] = waiters[k]
      /\ \A i, j \in 1..Len(waiters') : waiters'[i] = waiters'[j] => i = j
  BY <1>1, WithoutEffect DEF Inv, QueueInv
<1>4. QueueInv'
  <2>1. ASSUME NEW i \in 1..Len(waiters') PROVE pc'[waiters'[i]] = "queued"
    <3>1. PICK k \in 1..Len(waiters) : waiters'[i] = waiters[k]
      BY <1>3
    <3>2. waiters[k] \in Delivery /\ pc[waiters[k]] = "queued"
      BY <1>1, ElementType DEF Inv, QueueInv
    <3> QED
      BY <1>2, <1>3, <3>1, <3>2
  <2> QED
    BY <1>3, <2>1 DEF QueueInv
<1>5. /\ proc' \in [Delivery -> {"none", "live", "dead"}]
      /\ lock' \in Delivery \cup {NoDelivery}
  BY <1>1 DEF Inv, TypeOK
<1>6. LockInv'
  BY <1>1 DEF Inv, TypeOK, LockInv
<1>7. Placed(d)' /\ Repaired(d)' /\ Answered(d)'
  BY <1>1, <1>2 DEF Placed, Repaired, Answered, Inv, RequestInv
<1>8. QuietStep(d, "gone", 0)
  BY <1>1, <1>2, <1>3, <1>5 DEF QuietStep
<1> QED
  BY <1>4, <1>6, <1>7, <1>8, QuietKeeps

LEMMA StutterKeeps == Inv /\ UNCHANGED vars => Inv'
<1> SUFFICES ASSUME Inv, UNCHANGED vars PROVE Inv'
  OBVIOUS
<1> USE DEF vars
<1>1. TypeOK' /\ BootInv'
  BY DEF Inv, TypeOK, BootInv
<1>2. ASSUME NEW d \in Delivery PROVE RequestInv(d)'
  <2>1. RequestInv(d) /\ (HasHandler(d)' <=> HasHandler(d))
    BY DEF Inv, HasHandler
  <2>2. Placed(d)' /\ Repaired(d)' /\ Entry(d)'
    BY <2>1 DEF RequestInv, Placed, Repaired, Entry
  <2>3. Answered(d)'
    BY <2>1 DEF RequestInv, Answered
  <2> QED
    BY <2>2, <2>3 DEF RequestInv
<1>3. QueueInv' /\ LockInv' /\ CountInv'
  BY DEF Inv, QueueInv, LockInv, CountInv, Recorded
<1> QED
  BY <1>1, <1>2, <1>3 DEF Inv

LEMMA NextInv == Inv /\ [Next]_vars => Inv'
<1> SUFFICES ASSUME Inv, [Next]_vars PROVE Inv'
  OBVIOUS
<1>1. CASE RepairIdentity
  BY <1>1, RepairIdentityKeeps
<1>2. ASSUME NEW d \in Delivery, Arrive(d) PROVE Inv'
  BY <1>2, ArriveKeeps
<1>3. ASSUME NEW d \in Delivery, Serve(d) PROVE Inv'
  BY <1>3, RecordHookKeeps, BootstrapKeeps, RepairJoinedKeeps, HandlerSkippedKeeps,
     HandlerQueuesKeeps, HandlerStartsKeeps DEF Serve
<1>4. ASSUME NEW d \in Delivery, HandlerEnds(d) \/ HandlerTimesOut(d) PROVE Inv'
  BY <1>4, HandlerOverKeeps
<1>5. ASSUME NEW d \in Delivery, HangUp(d) PROVE Inv'
  BY <1>5, HangUpKeeps
<1>6. CASE UNCHANGED vars
  BY <1>6, StutterKeeps
<1> QED
  BY <1>1, <1>2, <1>3, <1>4, <1>5, <1>6 DEF Next

\* The inductive invariant of the hooks: the boot state, each request, the
\* queue of the lock and the log stay consistent with each other (routes.rs,
\* state.rs, hook_handlers.rs).
THEOREM HooksInvariant == Spec => []Inv
<1>1. Init => Inv
  BY InitInv
<1>2. Inv /\ [Next]_vars => Inv'
  BY NextInv
<1> QED
  BY <1>1, <1>2, PTL DEF Spec

\* The variables keep their types: the log never exceeds HOOK_LOG_CAP
\* (record_hook).
THEOREM TypeCorrect == Spec => []TypeOK
<1>1. Inv => TypeOK
  BY DEF Inv
<1> QED
  BY <1>1, HooksInvariant, PTL

\* One delivery wins the bootstrap, and every answer agrees with it
\* (bootstrap_with_identity).
THEOREM OneWinner == Spec => []WinnerTakesAll
<1>1. Inv => WinnerTakesAll
  <2> SUFFICES ASSUME Inv PROVE WinnerTakesAll
    OBVIOUS
  <2>1. /\ token = NoToken <=> launch_env = NoDelivery
        /\ token # NoToken => token = req[launch_env].token
    BY DEF Inv, BootInv
  <2>2. ASSUME NEW d \in Delivery, pc[d] = "answered", req[d].hook = "run"
        PROVE  status[d] = IF req[d].token = Malformed THEN 400
                           ELSE IF req[d].token = token THEN 200 ELSE 409
    BY <2>2 DEF Inv, RequestInv, Answered
  <2> QED
    BY <2>1, <2>2 DEF WinnerTakesAll
<1> QED
  BY <1>1, HooksInvariant, PTL

\* The log is the first invocations and a count of the rest, each entry its
\* own request's (record_hook, record_handler).
THEOREM LogExact == Spec => []LogIsExact
<1>1. Inv => LogIsExact
  <2> SUFFICES ASSUME Inv PROVE LogIsExact
    OBVIOUS
  <2> DEFINE kept == {d \in Recorded : slot[d] # 0}
  <2>1. /\ Len(observed) + dropped = Cardinality(Recorded)
        /\ dropped > 0 => Len(observed) = HOOK_LOG_CAP
    BY DEF Inv, CountInv
  <2>2. \A d, e \in kept : d # e => slot[d] # slot[e]
    BY DEF Inv, RequestInv, Entry, Recorded
  <2>3. \A d \in kept :
          /\ observed[slot[d]].hook = req[d].hook
          /\ observed[slot[d]].handler # "none" =>
               pc[d] = "answered" /\ req[d].hook \in Handled
    BY DEF Inv, RequestInv, Entry, Recorded
  <2> QED
    BY <2>1, <2>2, <2>3 DEF LogIsExact, Recorded
<1> QED
  BY <1>1, HooksInvariant, PTL

\* A hook is answered after the repair it started and the handler it ran
\* (run_hook, hook_handlers::run).
THEOREM AnsweredLast == Spec => []AnsweredAfterWork
<1>1. Inv => AnsweredAfterWork
  BY DEF Inv, RequestInv, Answered, Repaired, AnsweredAfterWork
<1> QED
  BY <1>1, HooksInvariant, PTL

\* Request d has a handler process, or an outcome, to show for itself.
Shows(d) == proc[d] # "none" \/ (slot[d] # 0 /\ observed[slot[d]].handler # "none")

\* A run hook that has is the winner's, on a guest whose repair is over.
OnceInv ==
  \A d \in Delivery : Shows(d) =>
    /\ pc[d] \notin {"absent", "arrived"}
    /\ req[d].hook = "run" => launch_env = d /\ repair = "over"

\* Who has booted the VM, and that the repair is over, is settled for good.
LEMMA BootStays ==
  ASSUME Inv, [Next]_vars
  PROVE  /\ launch_env # NoDelivery => launch_env' = launch_env
         /\ repair = "over" => repair' = "over"
<1> USE DEF bootVars, logVars, handlerVars, requestVars
<1>1. CASE RepairIdentity
  BY <1>1 DEF RepairIdentity
<1>2. ASSUME NEW d \in Delivery, Bootstrap(d)
      PROVE  UNCHANGED <<launch_env, repair>> \/ (launch_env = NoDelivery /\ repair = "none")
  BY <1>2 DEF Bootstrap, Inv, BootInv
<1>3. ASSUME NEW d \in Delivery,
             Arrive(d) \/ RecordHook(d) \/ RepairJoined(d) \/ HandlerSkipped(d)
               \/ HandlerQueues(d) \/ HandlerStarts(d) \/ HandlerEnds(d)
               \/ HandlerTimesOut(d) \/ HangUp(d)
      PROVE  UNCHANGED bootVars
  BY <1>3 DEF Arrive, RecordHook, RepairJoined, HandlerSkipped, HandlerQueues,
              HandlerStarts, HandlerEnds, HandlerTimesOut, HangUp, Finish
<1>4. CASE UNCHANGED vars
  BY <1>4 DEF vars
<1> QED
  BY <1>1, <1>2, <1>3, <1>4 DEF Next, Serve

\* A step of e shows nothing new of another request, and of its own only when it
\* waits for the handler or runs it.
LEMMA ShowsStep ==
  ASSUME Inv, NEW d \in Delivery, [Next]_vars
  PROVE  /\ pc[d] # "absent" => req'[d] = req[d] /\ pc'[d] # "absent"
         /\ pc[d] \notin {"absent", "arrived"} => pc'[d] # "arrived"
         /\ Shows(d)' => Shows(d) \/ pc[d] \in {"queued", "running"}
<1> USE DEF bootVars, logVars, handlerVars, requestVars
<1> DEFINE Goal == /\ pc[d] # "absent" => req'[d] = req[d] /\ pc'[d] # "absent"
                   /\ pc[d] \notin {"absent", "arrived"} => pc'[d] # "arrived"
                   /\ Shows(d)' => Shows(d) \/ pc[d] \in {"queued", "running"}
<1>1. /\ pc \in [Delivery -> {"absent", "arrived", "bootstrap", "repairing", "handler",
                             "queued", "running", "answered", "refused", "gone"}]
      /\ proc \in [Delivery -> {"none", "live", "dead"}]
      /\ slot \in [Delivery -> 0..HOOK_LOG_CAP]
      /\ req \in [Delivery -> Request \cup {NoRequest}]
      /\ observed \in Seq([hook : HookName, handler : Outcome])
      /\ slot[d] \in Nat /\ slot[d] <= Len(observed)
  BY HooksAssumption DEF Inv, TypeOK, RequestInv, Entry
<1>2. CASE RepairIdentity \/ UNCHANGED vars
  BY <1>2 DEF RepairIdentity, vars, Shows
<1>3. ASSUME NEW e \in Delivery, Arrive(e) PROVE Goal
  BY <1>1, <1>3 DEF Arrive, Shows
<1>4. ASSUME NEW e \in Delivery, RecordHook(e) PROVE Goal
  <2>1. /\ pc[e] = "arrived" /\ req' = req /\ proc' = proc
        /\ \E p \in {"answered", "handler", "bootstrap", "refused"} :
             pc' = [pc EXCEPT ![e] = p]
    BY <1>4 DEF RecordHook, Answer, Goes
  <2>2. \/ observed' = observed /\ slot' = slot
        \/ /\ observed' = Append(observed, [hook |-> req[e].hook, handler |-> "none"])
           /\ slot' = [slot EXCEPT ![e] = Len(observed) + 1]
    BY <1>4 DEF RecordHook, LogHook
  <2>3. ASSUME slot'[d] # 0, observed'[slot'[d]].handler # "none"
        PROVE  slot[d] # 0 /\ observed[slot[d]].handler # "none"
    <3>1. CASE observed' = observed /\ slot' = slot
      BY <2>3, <3>1
    <3>2. CASE /\ observed' = Append(observed, [hook |-> req[e].hook, handler |-> "none"])
               /\ slot' = [slot EXCEPT ![e] = Len(observed) + 1]
      <4>1. d # e
        BY <1>1, <2>3, <3>2
      <4> QED
        BY <1>1, <2>3, <3>2, <4>1
    <3> QED
      BY <2>2, <3>1, <3>2
  <2> QED
    BY <1>1, <2>1, <2>3 DEF Shows
<1>5. ASSUME NEW e \in Delivery,
             Bootstrap(e) \/ RepairJoined(e) \/ HandlerSkipped(e) \/ HandlerQueues(e)
      PROVE  Goal
  BY <1>1, <1>5
  DEF Bootstrap, RepairJoined, HandlerSkipped, HandlerQueues, Answer, Goes, Shows
<1>6. ASSUME NEW e \in Delivery, HandlerStarts(e) \/ HandlerEnds(e) \/ HandlerTimesOut(e)
      PROVE  Goal
  <2>1. pc[e] \in {"queued", "running"} /\ slot[e] # 0
    <3>1. HandlerStarts(e) => pc[e] = "queued"
      BY DEF HandlerStarts, Inv, TypeOK, QueueInv
    <3>2. pc[e] \in {"queued", "running"}
      BY <1>6, <3>1 DEF HandlerEnds, HandlerTimesOut
    <3> QED
      BY <3>2 DEF Inv, RequestInv, Placed, HasHandler
  <2>2. /\ req' = req /\ slot' = slot
        /\ \E p \in {"running", "answered"} : pc' = [pc EXCEPT ![e] = p]
        /\ proc' = proc \/ \E p \in {"live", "dead"} : proc' = [proc EXCEPT ![e] = p]
        /\ observed' = observed
             \/ \E o \in Outcome : observed' = [observed EXCEPT ![slot[e]].handler = o]
    BY <1>6 DEF HandlerStarts, HandlerEnds, HandlerTimesOut, Finish, Answer, Goes, Outcome
  <2>3. CASE d = e
    BY <1>1, <2>1, <2>2, <2>3
  <2>4. CASE d # e
    <3>1. slot[d] # 0 => slot[d] # slot[e] /\ observed'[slot[d]] = observed[slot[d]]
      BY <1>1, <2>1, <2>2, <2>4 DEF Inv, RequestInv, Entry
    <3> QED
      BY <1>1, <2>2, <2>4, <3>1 DEF Shows
  <2> QED
    BY <2>3, <2>4
<1>7. ASSUME NEW e \in Delivery, HangUp(e) PROVE Goal
  BY <1>1, <1>7 DEF HangUp, Goes, Shows
<1> QED
  BY <1>2, <1>3, <1>4, <1>5, <1>6, <1>7 DEF Next, Serve

\* Only the winning delivery's run handler ever starts or has an outcome, and on a
\* guest whose repair is over (bootstrap_with_identity, run_hook).
THEOREM RunsOnce == Spec => []RunHandlerRunsOnce
<1>1. Init => OnceInv
  BY DEF Init, OnceInv, Shows
<1>2. Inv /\ OnceInv /\ [Next]_vars => OnceInv'
  <2> SUFFICES ASSUME Inv, OnceInv, [Next]_vars, NEW d \in Delivery, Shows(d)'
               PROVE  /\ pc'[d] \notin {"absent", "arrived"}
                      /\ req'[d].hook = "run" => launch_env' = d /\ repair' = "over"
    BY DEF OnceInv
  <2>1. /\ pc[d] \notin {"absent", "arrived"}
        /\ req[d].hook = "run" => launch_env = d /\ repair = "over"
    <3>1. CASE Shows(d)
      BY <3>1 DEF OnceInv
    <3>2. CASE pc[d] \in {"queued", "running"}
      BY <3>2 DEF Inv, RequestInv, Placed, Repaired
    <3> QED
      BY <3>1, <3>2, ShowsStep
  <2> QED
    BY <2>1, ShowsStep, BootStays, HooksAssumption
<1>3. OnceInv => RunHandlerRunsOnce
  BY DEF OnceInv, Shows, RunHandlerRunsOnce
<1> QED
  BY <1>1, <1>2, <1>3, HooksInvariant, PTL DEF Spec

\* Two handlers never run at once, hang-ups included (handler_lock).
THEOREM HandlersExclude == Spec => []OneHandlerAtATime
<1>1. Inv => OneHandlerAtATime
  BY DEF Inv, LockInv, OneHandlerAtATime
<1> QED
  BY <1>1, HooksInvariant, PTL
=============================================================================
