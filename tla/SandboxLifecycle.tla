-------------------------- MODULE SandboxLifecycle --------------------------
(***************************************************************************)
(* What a Sandbox handle promises about four of the five variables of the  *)
(* client state model (verify/spec/core.symspec.json): which lifecycle it  *)
(* may report after which, and that the agent token is installed at most   *)
(* once.  The fifth, image_exists, belongs to the image half of a handle,  *)
(* which EnsureImage stands for.  Sandbox implements this specification    *)
(* for every handle.                                                       *)
(***************************************************************************)
EXTENDS Naturals

VARIABLES
  vm_state,         \* the lifecycle the handle reports
  token_installed,  \* the run hook is known to have delivered the token
  was_terminated,   \* the VM was ended, or this client asked for its end
  bootstrap_count   \* bootstraps the handle has counted

lifecycleVars == <<vm_state, token_installed, was_terminated, bootstrap_count>>

Lifecycle == {"PENDING", "RUNNING", "SUSPENDING", "SUSPENDED",
              "TERMINATING", "TERMINATED"}

Init ==
  /\ vm_state = "PENDING"
  /\ token_installed = FALSE
  /\ was_terminated = FALSE
  /\ bootstrap_count = 0

\* STATE-2: the platform reports that the run hook succeeded.
HookSucceeded ==
  /\ vm_state = "PENDING" /\ bootstrap_count = 0 /\ ~was_terminated
  /\ vm_state' = "RUNNING"
  /\ token_installed' = TRUE
  /\ bootstrap_count' = bootstrap_count + 1
  /\ UNCHANGED was_terminated

\* STATE-4, STATE-6 and STATE-7, and the idle suspend a resume discovers.
Move(from, to) ==
  /\ vm_state = from /\ ~was_terminated
  /\ vm_state' = to
  /\ UNCHANGED <<token_installed, was_terminated, bootstrap_count>>

\* STATE-9, and every way the handle learns that the VM ended: the VM is
\* recorded as terminated, and nothing takes that back.
Ended(to) ==
  /\ vm_state' = to
  /\ was_terminated' = TRUE
  /\ UNCHANGED <<token_installed, bootstrap_count>>

\* A handle made around a VM another process launched starts from the state
\* the service reports, with the bootstrap counted and never repeated.
Adopted(s) ==
  /\ Init
  /\ vm_state' = s
  /\ token_installed' = (s \in {"RUNNING", "SUSPENDING", "SUSPENDED"})
  /\ was_terminated' = (s \in {"TERMINATING", "TERMINATED"})
  /\ bootstrap_count' = IF s = "PENDING" THEN 0 ELSE 1

Next ==
  \/ HookSucceeded
  \/ Move("RUNNING", "SUSPENDING")
  \/ Move("SUSPENDING", "SUSPENDED")
  \/ Move("RUNNING", "SUSPENDED")
  \/ Move("SUSPENDED", "RUNNING")
  \/ \E to \in {"TERMINATING", "TERMINATED"} : Ended(to)
  \/ \E s \in Lifecycle : Adopted(s)

Spec == Init /\ [][Next]_lifecycleVars

=============================================================================
