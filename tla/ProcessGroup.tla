---------------------------- MODULE ProcessGroup ----------------------------
(***************************************************************************)
(* The process group of one exec and what the daemon does to it: the       *)
(* SIGTERM-then-SIGKILL escalation of the kill route, of the timeout and   *)
(* of the reap (escalate_blind, group_has_live_members), the waiter that   *)
(* reaps the leader (super_wait) and the observation of the group that     *)
(* precedes a guest power-off (Poweroff::after_group_exit).                *)
(*                                                                         *)
(* The processes run concurrently with the daemon: every system call the   *)
(* daemon makes is a step of its own, and a walk over /proc is a listing   *)
(* followed by one read per listed process.  The daemon is PID 1 and reaps *)
(* only the leader, so an orphan that dies stays a zombie.  A process is   *)
(* never born twice: the reuse of a pid is not modelled.                   *)
(***************************************************************************)
EXTENDS Naturals

CONSTANTS
  MaxProcs, \* bound: processes of the exec in all
  TimedProcs, \* bound: processes of an exec that has a timeout
  Options,  \* the options the exec may be started with
  Killer    \* requests to /v1/exec/{id}/kill

ASSUME ProcsAssumption == MaxProcs \in Nat \ {0} /\ TimedProcs \in Nat
ASSUME OptionsAssumption ==
  Options \subseteq [timeout : BOOLEAN, reap : BOOLEAN, poweroff : BOOLEAN]
ASSUME KillerAssumption == "waiter" \notin Killer

VARIABLES
  state,     \* state[p]: a zombie has exited in all its threads
  member,    \* member[p]: p belongs to the group
  parent,    \* parent[p]: who would reap p, 0 for the daemon
  killed,    \* living processes that were sent SIGKILL
  unreadable, \* reads of /proc may fail, say for want of file descriptors
  options,   \* timeout_sec, reap_group_on_exit and poweroff_on_exit
  waiter,    \* where the waiter task is
  esc,       \* esc[a]: the escalation a runs
  observed   \* the observation of the group before a power-off

procVars == <<state, member, parent>>
vars == <<procVars, killed, unreadable, options, waiter, esc, observed>>

\* Processes in the order of their births; the first is the daemon's direct
\* child, whose pid names the group.
Proc   == 1..MaxProcs
Leader == 1

Agent == Killer \cup {"waiter"}

Step   == {"wait", "timeout", "await", "reap", "linger", "observe", "poweroff", "failed", "done"}

\* at: what the escalation does next.  listed: the pids of the current walk
\* still to be read.  saw: the walk met a live member.  signaled: its answer.
\* termed: the live members its SIGTERM went to.
Escalation == [at : {"none", "check", "walk", "over", "dropped"}, listed : SUBSET Proc, saw : BOOLEAN,
               signaled : BOOLEAN, termed : SUBSET Proc]

\* Two walks of /proc: the pids still to be read, and per walk what was read.
Class == {"group", "other", "dead"}
Observation == [walk : {"none", "first", "second"}, listed : SUBSET Proc,
                first : SUBSET (Proc \X Class), second : SUBSET (Proc \X Class)]

Exists      == {p \in Proc : state[p] \in {"live", "zombie"}}
Members     == {p \in Exists : member[p]}
Live(S)     == {p \in S : state[p] = "live"}
LiveMembers == Live(Members)

----------------------------------------------------------------------------
(* The processes.                                                          *)

Fork(p, c) ==
  /\ state[p] = "live" /\ p \notin killed
  /\ state[c] = "unborn" /\ \A q \in 1..(c - 1) : state[q] # "unborn"
  /\ options.timeout => c <= TimedProcs
  /\ state' = [state EXCEPT ![c] = "live"]
  /\ member' = [member EXCEPT ![c] = member[p]]
  /\ parent' = [parent EXCEPT ![c] = p]
  /\ UNCHANGED <<killed, unreadable, options, waiter, esc, observed>>

\* setsid, which the leader of a group is refused.
Leave(p) ==
  /\ p # Leader
  /\ p \in LiveMembers /\ p \notin killed
  /\ member' = [member EXCEPT ![p] = FALSE]
  /\ UNCHANGED <<state, parent, killed, unreadable, options, waiter, esc, observed>>

\* By itself, or by a signal it does not handle; its children become the
\* daemon's.
Exit(p) ==
  /\ state[p] = "live"
  /\ state' = [state EXCEPT ![p] = "zombie"]
  /\ parent' = [q \in Proc |-> IF parent[q] = p THEN 0 ELSE parent[q]]
  /\ killed' = killed \ {p}
  /\ UNCHANGED <<member, unreadable, options, waiter, esc, observed>>

ReapedByParent(p) ==
  /\ state[p] = "zombie" /\ parent[p] # 0
  /\ state' = [state EXCEPT ![p] = "gone"]
  /\ UNCHANGED <<member, parent, killed, unreadable, options, waiter, esc, observed>>

----------------------------------------------------------------------------
(* escalate_blind.                                                         *)

NoEscalation == [at |-> "none", listed |-> {}, saw |-> FALSE, signaled |-> FALSE, termed |-> {}]

\* signal_group(SIGTERM) to a group with the members M: killpg succeeds while
\* there is one, be it a zombie; without one the escalation is over at once.
Terminate(M) ==
  [NoEscalation EXCEPT !.at = IF M = {} THEN "over" ELSE "check",
                       !.signaled = M # {}, !.termed = Live(M)]

\* group_has_live_members: killpg(0), and the listing of /proc.  Processes of
\* other groups never join this one: reading them is left out of the walk.
Probe(a) ==
  /\ esc[a].at = "check"
  /\ esc' = [esc EXCEPT ![a].at = IF Members = {} THEN "over" ELSE "walk",
                        ![a].listed = Members]
  /\ UNCHANGED <<procVars, killed, unreadable, options, waiter, observed>>

\* /proc cannot be listed: pids_in_groups answers as if nothing was alive.
ListFails(a) ==
  /\ unreadable
  /\ esc[a].at = "check" /\ Members # {}
  /\ esc' = [esc EXCEPT ![a].at = "over"]
  /\ UNCHANGED <<procVars, killed, unreadable, options, waiter, observed>>

\* Mutant of ReadStat: the last process read decides.
ReadStatLast(a, p) ==
  /\ esc[a].at = "walk" /\ p \in esc[a].listed
  /\ esc' = [esc EXCEPT ![a].listed = @ \ {p}, ![a].saw = p \in LiveMembers]
  /\ UNCHANGED <<procVars, killed, unreadable, options, waiter, observed>>

\* pids_in_groups reads one stat; a process that is gone, or whose stat cannot
\* be read, is passed over.
ReadStat(a, p) ==
  /\ esc[a].at = "walk" /\ p \in esc[a].listed
  /\ \E read \in {TRUE} \cup (IF unreadable THEN {FALSE} ELSE {}) :
       esc' = [esc EXCEPT ![a].listed = @ \ {p}, ![a].saw = @ \/ (read /\ p \in LiveMembers)]
  /\ UNCHANGED <<procVars, killed, unreadable, options, waiter, observed>>

WalkEnds(a) ==
  /\ esc[a].at = "walk" /\ esc[a].listed = {}
  /\ esc' = [esc EXCEPT ![a].at = IF esc[a].saw THEN "check" ELSE "over",
                        ![a].saw = FALSE]
  /\ UNCHANGED <<procVars, killed, unreadable, options, waiter, observed>>

\* Mutant of GraceExpires: no SIGKILL.
GraceExpiresUnkilled(a) ==
  /\ esc[a].at = "check"
  /\ esc' = [esc EXCEPT ![a].at = "over"]
  /\ UNCHANGED <<procVars, killed, unreadable, options, waiter, observed>>

\* The grace is over: SIGKILL to the group.
GraceExpires(a) ==
  /\ esc[a].at = "check"
  /\ killed' = killed \cup LiveMembers
  /\ esc' = [esc EXCEPT ![a].at = "over"]
  /\ UNCHANGED <<procVars, unreadable, options, waiter, observed>>

Escalate(a) == \/ Probe(a) \/ ListFails(a) \/ WalkEnds(a) \/ GraceExpires(a)
               \/ \E p \in Proc : ReadStat(a, p)

\* POST /v1/exec/{id}/kill.  A client that goes away takes the handler, and
\* the rest of the escalation, with it.
Kill(a) ==
  /\ esc[a].at = "none"
  /\ esc' = [esc EXCEPT ![a] = Terminate(Members)]
  /\ UNCHANGED <<procVars, killed, unreadable, options, waiter, observed>>

KillDropped(a) ==
  /\ esc[a].at \in {"check", "walk"}
  /\ esc' = [esc EXCEPT ![a].at = "dropped", ![a].listed = {}, ![a].saw = FALSE]
  /\ UNCHANGED <<procVars, killed, unreadable, options, waiter, observed>>

----------------------------------------------------------------------------
(* super_wait and the waiter task.                                         *)

\* wait() returned the leader's status.
LeaderReaped ==
  /\ state[Leader] = "zombie"
  /\ state' = [state EXCEPT ![Leader] = "gone"]
  /\ UNCHANGED <<member, parent, killed, unreadable, options, observed>>

ChildWaited ==
  /\ waiter = "wait"
  /\ ~options.reap
  /\ waiter' = "linger"
  /\ LeaderReaped
  /\ UNCHANGED esc

\* With the reap flag the SIGTERM of the escalation follows the wait.
ChildWaitedReap ==
  /\ waiter = "wait"
  /\ options.reap
  /\ waiter' = "reap"
  /\ LeaderReaped
  /\ esc' = [esc EXCEPT !["waiter"] = Terminate(Members \ {Leader})]

Deadline ==
  /\ waiter = "wait"
  /\ options.timeout
  /\ waiter' = "timeout"
  /\ esc' = [esc EXCEPT !["waiter"] = Terminate(Members)]
  /\ UNCHANGED <<procVars, killed, unreadable, options, observed>>

Escalated ==
  /\ esc["waiter"].at = "over"
  /\ \/ waiter = "timeout" /\ waiter' = "await"
     \/ waiter = "reap" /\ waiter' = "linger"
  /\ UNCHANGED <<procVars, killed, unreadable, options, esc, observed>>

AwaitChild ==
  /\ waiter = "await"
  /\ waiter' = "linger"
  /\ LeaderReaped
  /\ UNCHANGED esc

\* Both pipes are at EOF or the linger deadline passed; the outcome is out.
LingerEnds ==
  /\ waiter = "linger"
  /\ waiter' = IF options.poweroff THEN "observe" ELSE "done"
  /\ UNCHANGED <<procVars, killed, unreadable, options, esc, observed>>

----------------------------------------------------------------------------
(* Poweroff::after_group_exit.                                             *)

NotObserved == [walk |-> "none", listed |-> {}, first |-> {}, second |-> {}]

\* live_group of a stat record.
ClassOf(p) ==
  IF state[p] = "zombie" THEN "dead" ELSE IF member[p] THEN "group" ELSE "other"

ListFirst ==
  /\ waiter = "observe" /\ observed.walk = "none"
  /\ observed' = [NotObserved EXCEPT !.walk = "first", !.listed = Exists]
  /\ UNCHANGED <<procVars, killed, unreadable, options, waiter, esc>>

ReadFirst(p) ==
  /\ observed.walk = "first" /\ p \in observed.listed \cap Exists
  /\ observed' = [observed EXCEPT !.listed = @ \ {p}, !.first = @ \cup {<<p, ClassOf(p)>>}]
  /\ UNCHANGED <<procVars, killed, unreadable, options, waiter, esc>>

ListSecond ==
  /\ observed.walk = "first" /\ observed.listed = {}
  /\ observed' = [observed EXCEPT !.walk = "second", !.listed = Exists]
  /\ UNCHANGED <<procVars, killed, unreadable, options, waiter, esc>>

ReadSecond(p) ==
  /\ observed.walk = "second" /\ p \in observed.listed \cap Exists
  /\ observed' = [observed EXCEPT !.listed = @ \ {p}, !.second = @ \cup {<<p, ClassOf(p)>>}]
  /\ UNCHANGED <<procVars, killed, unreadable, options, waiter, esc>>

\* A listed process is gone before it is read: the snapshot is inconclusive
\* and the observation starts over.
Inconclusive ==
  /\ observed.walk # "none"
  /\ \E p \in observed.listed : p \notin Exists
  /\ observed' = NotObserved
  /\ UNCHANGED <<procVars, killed, unreadable, options, waiter, esc>>

\* Mutant of GroupEmpty: one snapshot is enough.
GroupEmptyOnce == \A s \in observed.first : s[2] # "group"

\* snapshots_empty.
GroupEmpty ==
  /\ observed.first = observed.second
  /\ \A s \in observed.first : s[2] # "group"

ObservedBusy ==
  /\ observed.walk = "second" /\ observed.listed = {}
  /\ ~GroupEmpty
  /\ observed' = NotObserved
  /\ UNCHANGED <<procVars, killed, unreadable, options, waiter, esc>>

PowersOff ==
  /\ waiter = "observe"
  /\ observed.walk = "second" /\ observed.listed = {}
  /\ GroupEmpty
  /\ waiter' = "poweroff"
  /\ observed' = NotObserved
  /\ UNCHANGED <<procVars, killed, unreadable, options, esc>>

\* An unreadable or malformed record, a missing privilege, a failed reboot.
PoweroffFails ==
  /\ waiter = "observe" /\ observed.walk # "none"
  /\ waiter' = "failed"
  /\ observed' = NotObserved
  /\ UNCHANGED <<procVars, killed, unreadable, options, esc>>

----------------------------------------------------------------------------
Init ==
  /\ state = [p \in Proc |-> IF p = Leader THEN "live" ELSE "unborn"]
  /\ member = [p \in Proc |-> p = Leader]
  /\ parent = [p \in Proc |-> 0]
  /\ killed = {}
  /\ unreadable \in BOOLEAN
  /\ options \in Options
  /\ waiter = "wait"
  /\ esc = [a \in Agent |-> NoEscalation]
  /\ observed = NotObserved

Processes ==
  \/ \E p, c \in Proc : Fork(p, c)
  \/ \E p \in Proc : Leave(p) \/ Exit(p) \/ ReapedByParent(p)

Waiter ==
  \/ ChildWaited \/ ChildWaitedReap \/ Deadline \/ Escalated \/ AwaitChild \/ LingerEnds

Observer ==
  \/ ListFirst \/ ListSecond \/ Inconclusive \/ ObservedBusy \/ PowersOff \/ PoweroffFails
  \/ \E p \in Proc : ReadFirst(p) \/ ReadSecond(p)

Daemon ==
  \/ \E a \in Agent : Escalate(a)
  \/ \E a \in Killer : Kill(a) \/ KillDropped(a)
  \/ Waiter
  \/ Observer

\* Nothing stops what still runs when the power-off is requested.
Next == Processes \/ Daemon

Spec == Init /\ [][Next]_vars

\* The daemon's tasks run, its sleeps end, a grace is over in the end, and a
\* process that was sent SIGKILL dies.
Fairness ==
  /\ WF_vars(Escalate("waiter")) /\ SF_vars(GraceExpires("waiter"))
  /\ WF_vars(Waiter)
  /\ \A p \in Proc : WF_vars(p \in killed /\ Exit(p))

FairSpec == Spec /\ Fairness

----------------------------------------------------------------------------
(* Properties.                                                             *)

\* The type invariant: in particular only pids of processes that were born are
\* ever listed or signalled (escalate_blind, snapshot).
TypeOK ==
  /\ state \in [Proc -> {"unborn", "live", "zombie", "gone"}]
  /\ member \in [Proc -> BOOLEAN]
  /\ parent \in [Proc -> 0..MaxProcs]
  /\ killed \subseteq Proc
  /\ unreadable \in BOOLEAN
  /\ options \in Options
  /\ waiter \in Step
  /\ esc \in [Agent -> Escalation]
  /\ observed \in Observation
  /\ \A a \in Agent : \A p \in esc[a].listed \cup esc[a].termed : state[p] # "unborn"

\* The guest is powered off only when no live process is left in the group,
\* however its members fork, exit, leave and are reaped while /proc is read:
\* "Absence is inconclusive, never proof of exit" (snapshot, snapshots_empty,
\* AGENTD-25).
PoweroffAfterGroup == waiter = "poweroff" => LiveMembers = {}

\* When an escalation is over, every process its SIGTERM went to has died,
\* has left the group or was sent SIGKILL, unless /proc could not be read
\* (escalate_blind, group_has_live_members).
Settled(a) == \A p \in esc[a].termed : p \in LiveMembers => p \in killed

SignalledAreSettled == unreadable \/ \A a \in Agent : esc[a].at = "over" => Settled(a)

\* A timed-out exec comes to its outcome even if its leader ignores SIGTERM:
\* "the group has been signalled, so the wait above will now complete"
\* (super_wait), unless /proc could not be read.
TimedOutExecEnds ==
  waiter = "timeout" /\ ~unreadable ~> waiter \in {"observe", "poweroff", "failed", "done"}

\* The reap leaves nobody of the group alive who was not sent SIGKILL: it
\* signals the group "so nothing the command left behind outlives it"
\* (StartRequest::reap_group_on_exit).
ReapLeavesNothing ==
  options.reap /\ ~unreadable /\ waiter \in {"linger", "observe", "done"}
    => LiveMembers \subseteq killed

----------------------------------------------------------------------------
(* The inductive invariant behind SignalledAreSettled and                  *)
(* PoweroffAfterGroup.                                                     *)

\* During a walk a signalled process that still lives in the group is one to
\* be read, or one was read alive.
EscalationInv(a) ==
  ~unreadable =>
    /\ esc[a].at = "walk" =>
         \A p \in esc[a].termed :
           p \in LiveMembers => p \in killed \/ p \in esc[a].listed \/ esc[a].saw
    /\ esc[a].at = "over" => Settled(a)

\* Who was read outside the group or dead is no member any more.
ReadOutside ==
  \A s \in observed.first : state[s[1]] # "unborn" /\ (s[2] # "group" => s[1] \notin LiveMembers)

\* Somebody the second walk meets was in the group when it began.
Witness(p) ==
  /\ p \in observed.listed \/ \E c \in Class : <<p, c>> \in observed.second
  /\ \A c \in Class : <<p, c>> \in observed.first => c = "group"

ObservationInv ==
  /\ observed.walk # "none" => waiter = "observe" /\ ReadOutside
  /\ observed.walk = "second" => LiveMembers = {} \/ \E p \in Proc : Witness(p)

GroupInv ==
  /\ \A a \in Agent : EscalationInv(a)
  /\ ObservationInv
  /\ PoweroffAfterGroup

============================================================================
