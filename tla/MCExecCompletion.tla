-------------------------- MODULE MCExecCompletion --------------------------
(* Model-checking instance of ExecCompletion: one call, one exec, and room *)
(* for the request the client awaits beside one it gave up on.             *)
EXTENDS ExecCompletion

CONSTANTS h1, h2

OneId       == {TheId}
TwoHandlers == {h1, h2}
============================================================================
