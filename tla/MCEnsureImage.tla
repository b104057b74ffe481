--------------------------- MODULE MCEnsureImage ---------------------------
(* A call that reuses what it can and one that forces a rebuild.            *)
EXTENDS EnsureImage

CONSTANTS c1, f1

TwoCallers == {c1, f1}
OneForced == {f1}
============================================================================
