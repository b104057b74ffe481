----------------------------- MODULE MCSandbox -----------------------------
(* Two handles on one VM: a launcher, and an adopter or a second launcher   *)
(* with the same client token.                                              *)
EXTENDS Sandbox, TLC

CONSTANTS h1, h2, v1

TwoHandles == {h1, h2}
OneVm == {v1}
HandlesAlike == Permutations(TwoHandles)
============================================================================
