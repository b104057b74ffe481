--------------------------- MODULE MCProcessGroup ---------------------------
(* Model-checking instances of ProcessGroup: one kill request beside the   *)
(* waiter, and the options an exec of each run may have.                   *)
EXTENDS ProcessGroup

CONSTANT k1

OneKiller == {k1}

\* An exec without a timeout that reaps its group or powers the guest off.
ReapOrPoweroff == {[timeout |-> FALSE, reap |-> TRUE,  poweroff |-> FALSE],
                   [timeout |-> FALSE, reap |-> FALSE, poweroff |-> TRUE]}

\* Execs with a timeout, with the reap flag and without.
Timeouts == [timeout : {TRUE}, reap : BOOLEAN, poweroff : {FALSE}]

AnyOptions == ReapOrPoweroff \cup Timeouts
============================================================================
