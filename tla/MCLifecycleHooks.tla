------------------------- MODULE MCLifecycleHooks -------------------------
(* Three hook requests and two tokens: a winner, its replay and a rival, or *)
(* handlers of three hooks that meet at the lock.                           *)
EXTENDS LifecycleHooks, TLC

CONSTANTS d1, d2, d3, t1, t2

ThreeDeliveries == {d1, d2, d3}
TwoTokens == {t1, t2}
Alike == Permutations(ThreeDeliveries) \cup Permutations(TwoTokens)
===========================================================================
