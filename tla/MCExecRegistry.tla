--------------------------- MODULE MCExecRegistry ---------------------------
(* Model-checking instance of ExecRegistry: one id that is used twice, so   *)
(* that handlers of a collected exec meet its successor.                   *)
EXTENDS ExecRegistry

CONSTANTS i1, h1, h2

OneId       == {i1}
TwoHandlers == {h1, h2}
============================================================================
