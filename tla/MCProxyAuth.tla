---------------------------- MODULE MCProxyAuth ----------------------------
(* Callers of one session and its clones, on the agent port and on one of  *)
(* a workload.                                                             *)
EXTENDS ProxyAuth

CONSTANTS c1, c2, agent, web
TwoCallers == {c1, c2}
TwoPorts == {agent, web}
=============================================================================
