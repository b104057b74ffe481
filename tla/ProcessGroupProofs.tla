------------------------- MODULE ProcessGroupProofs -------------------------
(***************************************************************************)
(* Proofs about ProcessGroup, for every number of processes, every set of  *)
(* kill requests and every choice of options.                              *)
(***************************************************************************)
EXTENDS ProcessGroup, TLAPS

LEMMA LeaderType == Leader \in Proc
  BY ProcsAssumption DEF Leader, Proc

LEMMA TerminateType ==
  ASSUME NEW M \in SUBSET Proc
  PROVE  /\ Terminate(M) \in Escalation
         /\ Terminate(M).listed = {}
         /\ Terminate(M).termed = Live(M)
         /\ Terminate(M).at \in {"over", "check"}
         /\ Terminate(M).at = "over" => M = {}
  BY DEF Terminate, NoEscalation, Escalation, Live

LEMMA ReadType ==
  ASSUME TypeOK, NEW p \in Proc
  PROVE  ClassOf(p) \in Class /\ <<p, ClassOf(p)>> \in Proc \X Class
  BY DEF ClassOf, Class

LEMMA NotObservedType == NotObserved \in Observation
  BY DEF NotObserved, Observation

(***************************************************************************)
(* The type invariant.                                                     *)
(***************************************************************************)

LEMMA TypeInit == Init => TypeOK
<1> SUFFICES ASSUME Init PROVE TypeOK
  OBVIOUS
<1>1. NoEscalation \in Escalation /\ NoEscalation.listed = {} /\ NoEscalation.termed = {}
  BY DEF NoEscalation, Escalation
<1>2. 0 \in 0..MaxProcs
  BY ProcsAssumption
<1> QED
  BY <1>1, <1>2, NotObservedType DEF Init, TypeOK, Step

\* What a step of a process does to the types.
LEMMA ProcessesType == TypeOK /\ Processes => TypeOK'
<1> SUFFICES ASSUME TypeOK, Processes PROVE TypeOK'
  OBVIOUS
<1>1. ASSUME NEW p \in Proc, NEW c \in Proc, Fork(p, c) PROVE TypeOK'
  <2>1. p \in 0..MaxProcs
    BY ProcsAssumption DEF Proc
  <2>2. /\ state' \in [Proc -> {"unborn", "live", "zombie", "gone"}]
        /\ member' \in [Proc -> BOOLEAN]
        /\ parent' \in [Proc -> 0..MaxProcs]
        /\ \A q \in Proc : state[q] # "unborn" => state'[q] # "unborn"
    BY <1>1, <2>1 DEF Fork, TypeOK
  <2>3. \A a \in Agent : \A q \in esc[a].listed \cup esc[a].termed : q \in Proc
    BY DEF TypeOK, Escalation
  <2> QED
    BY <1>1, <2>2, <2>3 DEF Fork, TypeOK
<1>2. ASSUME NEW p \in Proc, Leave(p) PROVE TypeOK'
  BY <1>2 DEF Leave, TypeOK
<1>3. ASSUME NEW p \in Proc, Exit(p) PROVE TypeOK'
  <2>1. /\ state' \in [Proc -> {"unborn", "live", "zombie", "gone"}]
        /\ \A q \in Proc : state[q] # "unborn" => state'[q] # "unborn"
    BY <1>3 DEF Exit, TypeOK
  <2>2. parent' \in [Proc -> 0..MaxProcs]
    BY <1>3, ProcsAssumption DEF Exit, TypeOK
  <2>3. \A a \in Agent : \A q \in esc[a].listed \cup esc[a].termed : q \in Proc
    BY DEF TypeOK, Escalation
  <2> QED
    BY <1>3, <2>1, <2>2, <2>3 DEF Exit, TypeOK
<1>4. ASSUME NEW p \in Proc, ReapedByParent(p) PROVE TypeOK'
  <2>1. /\ state' \in [Proc -> {"unborn", "live", "zombie", "gone"}]
        /\ \A q \in Proc : state[q] # "unborn" => state'[q] # "unborn"
    BY <1>4 DEF ReapedByParent, TypeOK
  <2>2. \A a \in Agent : \A q \in esc[a].listed \cup esc[a].termed : q \in Proc
    BY DEF TypeOK, Escalation
  <2> QED
    BY <1>4, <2>1, <2>2 DEF ReapedByParent, TypeOK
<1> QED
  BY <1>1, <1>2, <1>3, <1>4 DEF Processes

\* An action that replaces one escalation by another of the right type.
LEMMA EscalationReplaced ==
  ASSUME TypeOK, NEW a \in Agent, NEW e \in Escalation,
         esc' = [esc EXCEPT ![a] = e],
         \A p \in e.listed \cup e.termed : state[p] # "unborn",
         UNCHANGED <<procVars, unreadable, options>>,
         killed' \subseteq Proc, waiter' \in Step, observed' \in Observation
  PROVE  TypeOK'
<1>1. esc' \in [Agent -> Escalation]
  BY DEF TypeOK
<1>2. \A b \in Agent : \A p \in esc'[b].listed \cup esc'[b].termed : state[p] # "unborn"
  BY DEF TypeOK
<1> QED
  BY <1>1, <1>2 DEF TypeOK, procVars

LEMMA EscalateType ==
  ASSUME TypeOK, NEW a \in Agent,
         Escalate(a) \/ (a \in Killer /\ (Kill(a) \/ KillDropped(a)))
  PROVE  TypeOK'
<1> DEFINE u == esc[a]
<1>1. /\ u \in Escalation
      /\ killed \subseteq Proc /\ waiter \in Step /\ observed \in Observation
      /\ \A p \in u.listed \cup u.termed : state[p] # "unborn"
  BY DEF TypeOK
<1>2. /\ Members \in SUBSET Proc /\ LiveMembers \in SUBSET Proc
      /\ \A p \in Members : state[p] # "unborn"
      /\ \A p \in LiveMembers : state[p] # "unborn"
  BY DEF Members, Exists, Live, LiveMembers
<1>3. CASE Probe(a)
  <2> DEFINE e == [u EXCEPT !.at = IF Members = {} THEN "over" ELSE "walk", !.listed = Members]
  <2>1. e \in Escalation /\ e.listed = Members /\ e.termed = u.termed
    BY <1>1, <1>2 DEF Escalation
  <2>2. esc' = [esc EXCEPT ![a] = e]
    BY <1>3 DEF Probe
  <2> HIDE DEF e
  <2> QED
    BY <1>1, <1>2, <1>3, <2>1, <2>2, EscalationReplaced DEF Probe
<1>4. CASE ListFails(a)
  <2> DEFINE e == [u EXCEPT !.at = "over"]
  <2>1. e \in Escalation /\ e.listed = u.listed /\ e.termed = u.termed
    BY <1>1 DEF Escalation
  <2>2. esc' = [esc EXCEPT ![a] = e]
    BY <1>4 DEF ListFails
  <2> HIDE DEF e
  <2> QED
    BY <1>1, <1>4, <2>1, <2>2, EscalationReplaced DEF ListFails
<1>5. CASE WalkEnds(a)
  <2> DEFINE e == [u EXCEPT !.at = IF u.saw THEN "check" ELSE "over", !.saw = FALSE]
  <2>1. e \in Escalation /\ e.listed = u.listed /\ e.termed = u.termed
    BY <1>1 DEF Escalation
  <2>2. esc' = [esc EXCEPT ![a] = e]
    BY <1>5 DEF WalkEnds
  <2> HIDE DEF e
  <2> QED
    BY <1>1, <1>5, <2>1, <2>2, EscalationReplaced DEF WalkEnds
<1>6. CASE GraceExpires(a)
  <2> DEFINE e == [u EXCEPT !.at = "over"]
  <2>1. e \in Escalation /\ e.listed = u.listed /\ e.termed = u.termed
    BY <1>1 DEF Escalation
  <2>2. esc' = [esc EXCEPT ![a] = e] /\ killed' \subseteq Proc
    BY <1>1, <1>2, <1>6 DEF GraceExpires
  <2> HIDE DEF e
  <2> QED
    BY <1>1, <1>6, <2>1, <2>2, EscalationReplaced DEF GraceExpires
<1>7. ASSUME NEW p \in Proc, ReadStat(a, p) PROVE TypeOK'
  <2>1. PICK read \in BOOLEAN :
          esc' = [esc EXCEPT ![a].listed = @ \ {p}, ![a].saw = @ \/ (read /\ p \in LiveMembers)]
    BY <1>7 DEF ReadStat
  <2> DEFINE b == u.saw \/ (read /\ p \in LiveMembers)
             e == [u EXCEPT !.listed = @ \ {p}, !.saw = b]
  <2>2. b \in BOOLEAN
    OBVIOUS
  <2>3. esc' = [esc EXCEPT ![a] = e]
    BY <2>1
  <2> HIDE DEF b
  <2>4. e \in Escalation /\ e.listed \subseteq u.listed /\ e.termed = u.termed
    BY <1>1, <2>2 DEF Escalation
  <2> HIDE DEF e
  <2> QED
    BY <1>1, <1>7, <2>3, <2>4, EscalationReplaced DEF ReadStat
<1>8. CASE Kill(a)
  <2> DEFINE e == Terminate(Members)
  <2>1. e \in Escalation /\ e.listed = {} /\ e.termed = LiveMembers
    BY <1>2, TerminateType DEF LiveMembers
  <2>2. esc' = [esc EXCEPT ![a] = e]
    BY <1>8 DEF Kill
  <2> HIDE DEF e
  <2> QED
    BY <1>1, <1>2, <1>8, <2>1, <2>2, EscalationReplaced DEF Kill
<1>9. CASE KillDropped(a)
  <2> DEFINE e == [u EXCEPT !.at = "dropped", !.listed = {}, !.saw = FALSE]
  <2>1. e \in Escalation /\ e.listed = {} /\ e.termed = u.termed
    BY <1>1 DEF Escalation
  <2>2. esc' = [esc EXCEPT ![a] = e]
    BY <1>9 DEF KillDropped
  <2> HIDE DEF e
  <2> QED
    BY <1>1, <1>9, <2>1, <2>2, EscalationReplaced DEF KillDropped
<1> QED
  BY <1>3, <1>4, <1>5, <1>6, <1>7, <1>8, <1>9 DEF Escalate

LEMMA WaiterType == TypeOK /\ Waiter => TypeOK'
<1> SUFFICES ASSUME TypeOK, Waiter PROVE TypeOK'
  OBVIOUS
<1>1. LeaderReaped => /\ state' \in [Proc -> {"unborn", "live", "zombie", "gone"}]
                      /\ \A q \in Proc : state[q] # "unborn" => state'[q] # "unborn"
  BY LeaderType DEF LeaderReaped, TypeOK
<1>2. \A a \in Agent : \A q \in esc[a].listed \cup esc[a].termed : q \in Proc
  BY DEF TypeOK, Escalation
<1>3. "waiter" \in Agent
  BY DEF Agent
<1>4. /\ Members \in SUBSET Proc
      /\ Live(Members) \in SUBSET Proc
      /\ \A p \in Live(Members) : state[p] # "unborn"
  BY DEF Members, Exists, Live
<1>5. CASE ChildWaited
  <2>1. UNCHANGED <<member, parent, killed, unreadable, options, observed, esc>>
    BY <1>5 DEF ChildWaited, LeaderReaped
  <2>2. waiter' \in Step /\ LeaderReaped
    BY <1>5 DEF ChildWaited, Step
  <2> QED
    BY <1>1, <1>2, <2>1, <2>2 DEF TypeOK
<1>6. CASE ChildWaitedReap
  <2> DEFINE M == Members \ {Leader}
  <2>1. /\ M \in SUBSET Proc
        /\ \A p \in Live(M) : p \in Proc /\ state[p] # "unborn"
    BY <1>4 DEF Live
  <2>2. /\ Terminate(M) \in Escalation
        /\ Terminate(M).listed = {}
        /\ Terminate(M).termed = Live(M)
    BY <2>1, TerminateType
  <2>3. esc' = [esc EXCEPT !["waiter"] = Terminate(M)]
    BY <1>6 DEF ChildWaitedReap
  <2> HIDE DEF M
  <2>4. esc' \in [Agent -> Escalation]
    BY <2>2, <2>3 DEF TypeOK
  <2>5. \A a \in Agent : \A q \in esc'[a].listed \cup esc'[a].termed : state'[q] # "unborn"
    <3> SUFFICES ASSUME NEW a \in Agent, NEW q \in esc'[a].listed \cup esc'[a].termed
                 PROVE  state'[q] # "unborn"
      OBVIOUS
    <3>1. q \in Proc /\ state[q] # "unborn"
      BY <1>2, <2>1, <2>2, <2>3 DEF TypeOK
    <3> QED
      BY <1>1, <1>6, <3>1 DEF ChildWaitedReap
  <2> QED
    BY <1>1, <1>6, <2>4, <2>5 DEF ChildWaitedReap, LeaderReaped, TypeOK, Step
<1>7. CASE Deadline
  <2> DEFINE e == Terminate(Members)
  <2>1. e \in Escalation /\ e.listed = {} /\ e.termed = Live(Members)
    BY <1>4, TerminateType
  <2>2. /\ esc' = [esc EXCEPT !["waiter"] = e]
        /\ waiter' \in Step /\ killed' \subseteq Proc /\ observed' \in Observation
    BY <1>7 DEF Deadline, Step, TypeOK
  <2> HIDE DEF e
  <2> QED
    BY <1>3, <1>4, <1>7, <2>1, <2>2, EscalationReplaced DEF Deadline
<1>8. CASE Escalated
  <2>1. waiter' \in Step
    BY <1>8 DEF Escalated, Step
  <2> QED
    BY <1>8, <2>1 DEF Escalated, TypeOK, procVars
<1>9. CASE AwaitChild
  <2>1. UNCHANGED <<member, parent, killed, unreadable, options, observed, esc>>
    BY <1>9 DEF AwaitChild, LeaderReaped
  <2>2. waiter' \in Step /\ LeaderReaped
    BY <1>9 DEF AwaitChild, Step
  <2> QED
    BY <1>1, <1>2, <2>1, <2>2 DEF TypeOK
<1>10. CASE LingerEnds
  BY <1>10 DEF LingerEnds, TypeOK, Step, procVars
<1> QED
  BY <1>5, <1>6, <1>7, <1>8, <1>9, <1>10 DEF Waiter

LEMMA ObserverType == TypeOK /\ Observer => TypeOK'
<1> SUFFICES ASSUME TypeOK, Observer PROVE TypeOK'
  OBVIOUS
<1>1. observed \in Observation /\ Exists \in SUBSET Proc
  BY DEF TypeOK, Exists
<1>2. observed' \in Observation
  <2>1. CASE ListFirst
    BY <1>1, <2>1 DEF ListFirst, NotObserved, Observation
  <2>2. CASE ListSecond
    BY <1>1, <2>2 DEF ListSecond, Observation
  <2>3. CASE Inconclusive \/ ObservedBusy \/ PowersOff \/ PoweroffFails
    BY <2>3, NotObservedType DEF Inconclusive, ObservedBusy, PowersOff, PoweroffFails
  <2>4. ASSUME NEW p \in Proc, ReadFirst(p) PROVE observed' \in Observation
    BY <1>1, <2>4, ReadType DEF ReadFirst, Observation
  <2>5. ASSUME NEW p \in Proc, ReadSecond(p) PROVE observed' \in Observation
    BY <1>1, <2>5, ReadType DEF ReadSecond, Observation
  <2> QED
    BY <2>1, <2>2, <2>3, <2>4, <2>5 DEF Observer
<1>3. waiter' \in Step
  BY DEF Observer, ListFirst, ListSecond, Inconclusive, ObservedBusy, PowersOff, PoweroffFails,
         ReadFirst, ReadSecond, TypeOK, Step
<1>4. UNCHANGED <<procVars, killed, unreadable, options, esc>>
  BY DEF Observer, ListFirst, ListSecond, Inconclusive, ObservedBusy, PowersOff, PoweroffFails,
         ReadFirst, ReadSecond
<1> QED
  BY <1>2, <1>3, <1>4 DEF TypeOK, procVars

LEMMA TypeStep == TypeOK /\ [Next]_vars => TypeOK'
<1> SUFFICES ASSUME TypeOK, [Next]_vars PROVE TypeOK'
  OBVIOUS
<1>1. CASE UNCHANGED vars
  BY <1>1 DEF vars, procVars, TypeOK
<1>2. CASE Processes
  BY <1>2, ProcessesType
<1>3. CASE Waiter
  BY <1>3, WaiterType
<1>4. CASE Observer
  BY <1>4, ObserverType
<1>5. ASSUME NEW a \in Agent, Escalate(a) PROVE TypeOK'
  BY <1>5, EscalateType
<1>6. ASSUME NEW a \in Killer, Kill(a) \/ KillDropped(a) PROVE TypeOK'
  BY <1>6, EscalateType DEF Agent
<1> QED
  BY <1>1, <1>2, <1>3, <1>4, <1>5, <1>6 DEF Next, Daemon

\* TypeOK holds in every reachable state: nothing that was never born is
\* signalled or listed (escalate_blind, snapshot).
THEOREM TypeCorrect == Spec => []TypeOK
  BY TypeInit, TypeStep, PTL DEF Spec

(***************************************************************************)
(* The group only loses members, except by the fork of one of them.        *)
(***************************************************************************)

\* What any step leaves true of the members: nobody comes back, an empty
\* group stays empty, and a SIGKILL stays pending while its target lives.
MembersOnlyLeave ==
  /\ \A p \in Proc : state[p] # "unborn" =>
       state'[p] # "unborn" /\ (p \in LiveMembers' => p \in LiveMembers)
  /\ LiveMembers = {} => LiveMembers' = {}
  /\ \A p \in killed : p \in LiveMembers' => p \in killed'
  /\ unreadable' = unreadable

LEMMA ProcessesLeave == TypeOK /\ Processes => MembersOnlyLeave
<1> SUFFICES ASSUME TypeOK, Processes PROVE MembersOnlyLeave
  OBVIOUS
<1> USE DEF MembersOnlyLeave, LiveMembers, Live, Members, Exists
<1>1. ASSUME NEW p \in Proc, NEW c \in Proc, Fork(p, c) PROVE MembersOnlyLeave
  BY <1>1 DEF Fork, TypeOK
<1>2. ASSUME NEW p \in Proc, Leave(p) PROVE MembersOnlyLeave
  BY <1>2 DEF Leave, TypeOK
<1>3. ASSUME NEW p \in Proc, Exit(p) PROVE MembersOnlyLeave
  BY <1>3 DEF Exit, TypeOK
<1>4. ASSUME NEW p \in Proc, ReapedByParent(p) PROVE MembersOnlyLeave
  BY <1>4 DEF ReapedByParent, TypeOK
<1> QED
  BY <1>1, <1>2, <1>3, <1>4 DEF Processes

LEMMA ReapLeaves == TypeOK /\ LeaderReaped => MembersOnlyLeave
  BY LeaderType DEF LeaderReaped, MembersOnlyLeave, LiveMembers, Live, Members, Exists, TypeOK

\* A step of the daemon that reaps nobody.
LEMMA IdleLeaves ==
  TypeOK /\ UNCHANGED <<procVars, unreadable>> /\ killed \subseteq killed' => MembersOnlyLeave
  BY DEF procVars, MembersOnlyLeave, LiveMembers, Live, Members, Exists, TypeOK

LEMMA EscalateIdle ==
  ASSUME NEW a \in Agent, Escalate(a) \/ Kill(a) \/ KillDropped(a)
  PROVE  /\ UNCHANGED <<procVars, unreadable, waiter, observed>>
         /\ killed \subseteq killed'
         /\ \E e : esc' = [esc EXCEPT ![a] = e]
  BY DEF Escalate, Probe, ListFails, ReadStat, WalkEnds, GraceExpires, Kill, KillDropped

LEMMA ObserverIdle == Observer => UNCHANGED <<procVars, killed, unreadable, options, esc>>
  BY DEF Observer, ListFirst, ListSecond, Inconclusive, ObservedBusy, PowersOff, PoweroffFails,
         ReadFirst, ReadSecond

LEMMA StepLeaves == TypeOK /\ [Next]_vars => MembersOnlyLeave
<1> SUFFICES ASSUME TypeOK, [Next]_vars PROVE MembersOnlyLeave
  OBVIOUS
<1>1. CASE UNCHANGED vars
  BY <1>1, IdleLeaves DEF vars
<1>2. CASE Processes
  BY <1>2, ProcessesLeave
<1>3. CASE Waiter
  <2>1. CASE ChildWaited \/ ChildWaitedReap \/ AwaitChild
    BY <2>1, ReapLeaves DEF ChildWaited, ChildWaitedReap, AwaitChild
  <2>2. CASE Deadline \/ Escalated \/ LingerEnds
    BY <2>2, IdleLeaves DEF Deadline, Escalated, LingerEnds
  <2> QED
    BY <1>3, <2>1, <2>2 DEF Waiter
<1>4. CASE Observer
  BY <1>4, ObserverIdle, IdleLeaves
<1>5. ASSUME NEW a \in Agent, Escalate(a) PROVE MembersOnlyLeave
  BY <1>5, EscalateIdle, IdleLeaves
<1>6. ASSUME NEW a \in Killer, Kill(a) \/ KillDropped(a) PROVE MembersOnlyLeave
  BY <1>6, EscalateIdle, IdleLeaves DEF Agent
<1> QED
  BY <1>1, <1>2, <1>3, <1>4, <1>5, <1>6 DEF Next, Daemon

(***************************************************************************)
(* The escalations.                                                        *)
(***************************************************************************)

\* An escalation a step does not touch keeps its invariant.
LEMMA EscalationKept ==
  ASSUME TypeOK, MembersOnlyLeave, NEW a \in Agent, EscalationInv(a), esc'[a] = esc[a]
  PROVE  EscalationInv(a)'
<1>1. \A p \in esc[a].termed : p \in Proc /\ state[p] # "unborn"
  BY DEF TypeOK, Escalation
<1> QED
  BY <1>1 DEF EscalationInv, Settled, MembersOnlyLeave

LEMMA EscalationStepped ==
  ASSUME TypeOK, NEW a \in Agent, EscalationInv(a),
         Escalate(a) \/ Kill(a) \/ KillDropped(a)
  PROVE  EscalationInv(a)'
<1>1. esc[a] \in Escalation /\ esc \in [Agent -> Escalation]
  BY DEF TypeOK
<1>2. UNCHANGED procVars /\ LiveMembers' = LiveMembers /\ Members' = Members
  BY EscalateIdle DEF LiveMembers, Live, Members, Exists, procVars
<1>3. CASE Probe(a)
  <2>1. esc'[a].termed = esc[a].termed /\ esc'[a].listed = Members
    BY <1>1, <1>3 DEF Probe, Escalation
  <2>2. esc'[a].at = "over" => Members = {}
    BY <1>1, <1>3 DEF Probe, Escalation
  <2>3. LiveMembers \subseteq Members
    BY DEF LiveMembers, Live
  <2> QED
    BY <1>2, <2>1, <2>2, <2>3 DEF EscalationInv, Settled
<1>4. CASE ListFails(a)
  BY <1>4 DEF ListFails, EscalationInv
<1>5. CASE WalkEnds(a)
  <2>1. /\ esc'[a].termed = esc[a].termed
        /\ esc'[a].at # "walk"
        /\ esc'[a].at = "over" => ~esc[a].saw
        /\ esc[a].listed = {}
        /\ esc[a].at = "walk"
        /\ killed' = killed /\ unreadable' = unreadable
    BY <1>1, <1>5 DEF WalkEnds, Escalation
  <2> QED
    BY <1>2, <2>1 DEF EscalationInv, Settled
<1>6. CASE GraceExpires(a)
  <2>1. esc'[a].at = "over" /\ LiveMembers \subseteq killed'
    BY <1>1, <1>6 DEF GraceExpires, Escalation
  <2> QED
    BY <1>2, <2>1 DEF EscalationInv, Settled
<1>7. ASSUME NEW p \in Proc, ReadStat(a, p) PROVE EscalationInv(a)'
  <2> SUFFICES ASSUME ~unreadable PROVE EscalationInv(a)'
    BY <1>7 DEF ReadStat, EscalationInv
  <2>1. esc' = [esc EXCEPT ![a].listed = @ \ {p}, ![a].saw = @ \/ (TRUE /\ p \in LiveMembers)]
    BY <1>7 DEF ReadStat
  <2>2. /\ esc'[a].termed = esc[a].termed
        /\ esc'[a].listed = esc[a].listed \ {p}
        /\ esc'[a].at = esc[a].at
    BY <1>1, <2>1 DEF Escalation
  <2>3. esc'[a].saw <=> esc[a].saw \/ p \in LiveMembers
    BY <1>1, <2>1 DEF Escalation
  <2>4. esc[a].at = "walk" /\ killed' = killed
    BY <1>7 DEF ReadStat
  <2> QED
    BY <1>2, <2>2, <2>3, <2>4 DEF EscalationInv, Settled
<1>8. CASE Kill(a)
  <2>1. esc'[a] = Terminate(Members)
    BY <1>1, <1>8 DEF Kill
  <2>2. Members \in SUBSET Proc
    BY DEF Members, Exists
  <2>3. /\ esc'[a].at \in {"over", "check"}
        /\ esc'[a].at = "over" => Members = {}
    BY <2>1, <2>2, TerminateType
  <2> QED
    BY <1>2, <2>3 DEF EscalationInv, Settled, LiveMembers, Live
<1>9. CASE KillDropped(a)
  <2>1. esc'[a].at = "dropped"
    BY <1>1, <1>9 DEF KillDropped, Escalation
  <2> QED
    BY <2>1 DEF EscalationInv
<1> QED
  BY <1>3, <1>4, <1>5, <1>6, <1>7, <1>8, <1>9 DEF Escalate

\* The waiter's SIGTERM, after a deadline or a wait.
LEMMA EscalationBegun ==
  ASSUME TypeOK, NEW M \in SUBSET Proc, LiveMembers' \subseteq M,
         esc' = [esc EXCEPT !["waiter"] = Terminate(M)]
  PROVE  EscalationInv("waiter")'
<1>1. esc'["waiter"] = Terminate(M)
  BY DEF TypeOK, Agent
<1>2. /\ esc'["waiter"].at \in {"over", "check"}
      /\ esc'["waiter"].at = "over" => M = {}
  BY <1>1, TerminateType
<1> QED
  BY <1>2 DEF EscalationInv, Settled

LEMMA EscalationsStep ==
  ASSUME TypeOK, [Next]_vars, \A a \in Agent : EscalationInv(a)
  PROVE  \A a \in Agent : EscalationInv(a)'
<1> SUFFICES ASSUME NEW a \in Agent PROVE EscalationInv(a)'
  OBVIOUS
<1>1. MembersOnlyLeave
  BY StepLeaves
<1>2. CASE esc'[a] = esc[a]
  BY <1>1, <1>2, EscalationKept
<1>3. ASSUME NEW b \in Agent, Escalate(b) \/ Kill(b) \/ KillDropped(b) PROVE EscalationInv(a)'
  <2>1. CASE b = a
    BY <1>3, <2>1, EscalationStepped
  <2>2. CASE b # a
    <3>1. esc'[a] = esc[a]
      BY <1>3, <2>2, EscalateIdle DEF TypeOK
    <3> QED
      BY <1>2, <3>1
  <2> QED
    BY <2>1, <2>2
<1>4. CASE Deadline
  <2>1. CASE a = "waiter"
    <3>1. LiveMembers' \subseteq Members /\ Members \in SUBSET Proc
      BY <1>4 DEF Deadline, procVars, LiveMembers, Live, Members, Exists
    <3> QED
      BY <1>4, <2>1, <3>1, EscalationBegun DEF Deadline
  <2>2. CASE a # "waiter"
    <3>1. esc'[a] = esc[a]
      BY <1>4, <2>2 DEF Deadline, TypeOK
    <3> QED
      BY <1>2, <3>1
  <2> QED
    BY <2>1, <2>2
<1>5. CASE ChildWaitedReap
  <2>1. CASE a = "waiter"
    <3>1. LiveMembers' \subseteq Members \ {Leader} /\ Members \ {Leader} \in SUBSET Proc
      BY <1>5, LeaderType
      DEF ChildWaitedReap, LeaderReaped, LiveMembers, Live, Members, Exists, TypeOK
    <3> QED
      BY <1>5, <2>1, <3>1, EscalationBegun DEF ChildWaitedReap
  <2>2. CASE a # "waiter"
    <3>1. esc'[a] = esc[a]
      BY <1>5, <2>2 DEF ChildWaitedReap, TypeOK
    <3> QED
      BY <1>2, <3>1
  <2> QED
    BY <2>1, <2>2
<1>6. CASE UNCHANGED esc
  BY <1>2, <1>6
<1>7. CASE UNCHANGED vars
  BY <1>6, <1>7 DEF vars
<1>8. CASE Processes
  BY <1>6, <1>8 DEF Processes, Fork, Leave, Exit, ReapedByParent
<1>9. CASE Observer
  BY <1>6, <1>9, ObserverIdle
<1>10. CASE Waiter
  BY <1>4, <1>5, <1>6, <1>10 DEF Waiter, ChildWaited, Escalated, AwaitChild, LingerEnds
<1> QED
  BY <1>3, <1>7, <1>8, <1>9, <1>10 DEF Next, Daemon, Agent

(***************************************************************************)
(* The observation.                                                        *)
(***************************************************************************)

\* A step that does not touch the observation keeps its invariant.
LEMMA ObservationKept ==
  ASSUME TypeOK, MembersOnlyLeave, ObservationInv, UNCHANGED observed,
         observed.walk # "none" => waiter' = "observe"
  PROVE  ObservationInv'
<1>1. observed.walk # "none" => ReadOutside'
  <2>1. \A s \in observed.first : s[1] \in Proc
    BY DEF TypeOK, Observation
  <2> QED
    BY <2>1 DEF ObservationInv, ReadOutside, MembersOnlyLeave
<1>2. observed.walk = "second" => LiveMembers' = {} \/ \E p \in Proc : Witness(p)'
  BY DEF ObservationInv, MembersOnlyLeave, Witness
<1> QED
  BY <1>1, <1>2 DEF ObservationInv

LEMMA ObservationStepped ==
  ASSUME TypeOK, ObservationInv, Observer
  PROVE  ObservationInv' /\ (waiter' = "poweroff" => waiter = "poweroff" \/ LiveMembers' = {})
<1>1. UNCHANGED procVars /\ LiveMembers' = LiveMembers /\ Exists' = Exists
  BY ObserverIdle DEF LiveMembers, Live, Members, Exists, procVars
<1>2. observed \in Observation
  BY DEF TypeOK
<1>3. CASE Inconclusive \/ ObservedBusy \/ PoweroffFails
  BY <1>3 DEF Inconclusive, ObservedBusy, PoweroffFails, NotObserved, ObservationInv
<1>4. CASE ListFirst
  <2>1. observed'.walk = "first" /\ observed'.first = {} /\ waiter' = waiter /\ waiter = "observe"
    BY <1>4 DEF ListFirst, NotObserved
  <2> QED
    BY <2>1 DEF ObservationInv, ReadOutside
<1>5. ASSUME NEW p \in Proc, ReadFirst(p)
      PROVE  ObservationInv' /\ (waiter' = "poweroff" => waiter = "poweroff")
  <2>1. /\ observed'.walk = "first" /\ observed.walk = "first"
        /\ observed'.first = observed.first \cup {<<p, ClassOf(p)>>}
        /\ waiter' = waiter
        /\ p \in Exists
    BY <1>2, <1>5 DEF ReadFirst, Observation
  <2>2. state[p] # "unborn" /\ (ClassOf(p) # "group" => p \notin LiveMembers)
    BY <2>1 DEF Exists, ClassOf, LiveMembers, Live, Members
  <2> QED
    BY <1>1, <2>1, <2>2 DEF ObservationInv, ReadOutside, procVars
<1>6. CASE ListSecond
  <2>1. /\ observed'.walk = "second" /\ observed.walk = "first"
        /\ observed'.first = observed.first /\ observed'.listed = Exists
        /\ waiter' = waiter
    BY <1>2, <1>6 DEF ListSecond, Observation
  <2>2. ASSUME NEW p \in LiveMembers PROVE Witness(p)'
    <3>1. p \in Exists
      BY DEF LiveMembers, Live, Members
    <3>2. \A c \in Class : <<p, c>> \in observed.first => c = "group"
      BY <2>1 DEF ObservationInv, ReadOutside
    <3> QED
      BY <2>1, <3>1, <3>2 DEF Witness
  <2>3. LiveMembers \subseteq Proc
    BY DEF LiveMembers, Live, Members, Exists
  <2>4. ReadOutside' /\ waiter = "observe"
    BY <1>1, <2>1 DEF ObservationInv, ReadOutside, procVars
  <2> QED
    BY <1>1, <2>1, <2>2, <2>3, <2>4 DEF ObservationInv
<1>7. ASSUME NEW p \in Proc, ReadSecond(p)
      PROVE  ObservationInv' /\ (waiter' = "poweroff" => waiter = "poweroff")
  <2>1. /\ observed'.walk = "second" /\ observed.walk = "second"
        /\ observed'.first = observed.first
        /\ observed'.listed = observed.listed \ {p}
        /\ observed'.second = observed.second \cup {<<p, ClassOf(p)>>}
        /\ waiter' = waiter
    BY <1>2, <1>7 DEF ReadSecond, Observation
  <2>2. ASSUME NEW q \in Proc, Witness(q) PROVE Witness(q)'
    BY <2>1, <2>2, ReadType DEF Witness
  <2>3. ReadOutside' /\ waiter = "observe"
    BY <1>1, <2>1 DEF ObservationInv, ReadOutside, procVars
  <2> QED
    BY <1>1, <2>1, <2>2, <2>3 DEF ObservationInv
<1>8. CASE PowersOff
  <2>1. /\ observed.walk = "second" /\ observed.listed = {}
        /\ observed.first = observed.second
        /\ \A s \in observed.first : s[2] # "group"
    BY <1>8 DEF PowersOff, GroupEmpty
  <2>2. ASSUME NEW p \in Proc, Witness(p) PROVE FALSE
    <3>1. PICK c \in Class : <<p, c>> \in observed.second
      BY <2>1, <2>2 DEF Witness
    <3>2. c = "group"
      BY <2>1, <2>2, <3>1 DEF Witness
    <3>3. <<p, c>>[2] # "group"
      BY <2>1, <3>1
    <3> QED
      BY <3>2, <3>3
  <2>3. LiveMembers = {}
    BY <2>1, <2>2 DEF ObservationInv
  <2> QED
    BY <1>1, <1>8, <2>3 DEF PowersOff, NotObserved, ObservationInv
<1> QED
  BY <1>3, <1>4, <1>5, <1>6, <1>7, <1>8 DEF Observer, Inconclusive, ObservedBusy, PoweroffFails,
     ListFirst, ListSecond

LEMMA ObservationStep ==
  ASSUME TypeOK, [Next]_vars, ObservationInv, PoweroffAfterGroup
  PROVE  ObservationInv' /\ PoweroffAfterGroup'
<1>1. MembersOnlyLeave
  BY StepLeaves
<1>2. ASSUME UNCHANGED observed, waiter # waiter' => waiter # "observe" /\ waiter' # "poweroff"
      PROVE  ObservationInv' /\ PoweroffAfterGroup'
  <2>1. ObservationInv'
    BY <1>1, <1>2, ObservationKept DEF ObservationInv
  <2> QED
    BY <1>1, <1>2, <2>1 DEF PoweroffAfterGroup, MembersOnlyLeave
<1>3. CASE UNCHANGED vars
  BY <1>2, <1>3 DEF vars
<1>4. CASE Processes
  BY <1>2, <1>4 DEF Processes, Fork, Leave, Exit, ReapedByParent
<1>5. CASE Waiter
  BY <1>2, <1>5 DEF Waiter, ChildWaited, ChildWaitedReap, LeaderReaped, Deadline, Escalated,
                    AwaitChild, LingerEnds
<1>6. CASE Observer
  BY <1>1, <1>6, ObservationStepped DEF PoweroffAfterGroup, MembersOnlyLeave
<1>7. ASSUME NEW a \in Agent, Escalate(a) \/ Kill(a) \/ KillDropped(a)
      PROVE  ObservationInv' /\ PoweroffAfterGroup'
  BY <1>2, <1>7, EscalateIdle
<1> QED
  BY <1>3, <1>4, <1>5, <1>6, <1>7 DEF Next, Daemon, Agent

(***************************************************************************)
(* The theorems.                                                           *)
(***************************************************************************)

\* The inductive invariant: where every escalation and the observation stand
\* relative to the members that are alive (escalate_blind, snapshots_empty).
THEOREM GroupInvariant == Spec => [](TypeOK /\ GroupInv)
<1>1. Init => TypeOK /\ GroupInv
  <2> SUFFICES ASSUME Init PROVE TypeOK /\ GroupInv
    OBVIOUS
  <2>1. \A a \in Agent : EscalationInv(a)
    BY DEF Init, EscalationInv, NoEscalation
  <2>2. ObservationInv /\ PoweroffAfterGroup
    BY DEF Init, ObservationInv, NotObserved, PoweroffAfterGroup
  <2> QED
    BY <2>1, <2>2, TypeInit DEF GroupInv
<1>2. TypeOK /\ GroupInv /\ [Next]_vars => (TypeOK /\ GroupInv)'
  BY TypeStep, EscalationsStep, ObservationStep DEF GroupInv
<1> QED
  BY <1>1, <1>2, PTL DEF Spec

\* However many processes fork, exit, leave and are reaped while /proc is
\* read, and whatever kills run beside it, the guest is powered off only when
\* the group has no live member (Poweroff::after_group_exit, AGENTD-25).
THEOREM PoweroffIsLast == Spec => []PoweroffAfterGroup
<1>1. GroupInv => PoweroffAfterGroup
  BY DEF GroupInv
<1> QED
  BY <1>1, GroupInvariant, PTL

\* An escalation that is over has settled everybody its SIGTERM went to, if
\* /proc could be read (escalate_blind, group_has_live_members).
THEOREM EscalationSettles == Spec => []SignalledAreSettled
<1>1. GroupInv => SignalledAreSettled
  BY DEF GroupInv, EscalationInv, SignalledAreSettled
<1> QED
  BY <1>1, GroupInvariant, PTL

============================================================================
