--------------------------- MODULE ExecLifecycle ---------------------------
(***************************************************************************)
(* What the exec registry promises its callers: an exec id goes from       *)
(* running to exited to acked, in that order; the outcome of an exec is    *)
(* handed out exactly once, by the step that acks it; and only an acked    *)
(* exec is ever forgotten.  ExecRegistry implements this specification.    *)
(***************************************************************************)
EXTENDS Naturals

CONSTANTS Id,         \* caller-minted exec ids
          MaxSpawns   \* bound: execs started in all

VARIABLES
  current,   \* current[i]: the number of the exec registered under i, or 0
  phase,     \* phase[i]: its phase
  started,   \* execs started so far
  handed     \* handed[x]: how often the outcome of exec x was handed out

lifecycle == <<current, phase, started, handed>>

Phase == {"absent", "running", "exited", "acked"}

Init ==
  /\ current = [i \in Id |-> 0]
  /\ phase = [i \in Id |-> "absent"]
  /\ started = 0
  /\ handed = [x \in 1..MaxSpawns |-> 0]

Begin(i) ==
  /\ phase[i] = "absent"
  /\ started < MaxSpawns
  /\ started' = started + 1
  /\ current' = [current EXCEPT ![i] = started + 1]
  /\ phase' = [phase EXCEPT ![i] = "running"]
  /\ UNCHANGED handed

End(i) ==
  /\ phase[i] = "running"
  /\ phase' = [phase EXCEPT ![i] = "exited"]
  /\ UNCHANGED <<current, started, handed>>

HandOut(i) ==
  /\ phase[i] = "exited"
  /\ handed[current[i]] = 0
  /\ phase' = [phase EXCEPT ![i] = "acked"]
  /\ handed' = [handed EXCEPT ![current[i]] = 1]
  /\ UNCHANGED <<current, started>>

Forget(S) ==
  /\ \A i \in S : phase[i] = "acked"
  /\ current' = [i \in Id |-> IF i \in S THEN 0 ELSE current[i]]
  /\ phase' = [i \in Id |-> IF i \in S THEN "absent" ELSE phase[i]]
  /\ UNCHANGED <<started, handed>>

Next ==
  \/ \E i \in Id : Begin(i) \/ End(i) \/ HandOut(i)
  \/ \E S \in SUBSET Id : Forget(S)

Spec == Init /\ [][Next]_lifecycle

============================================================================
