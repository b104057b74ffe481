---------------------------- MODULE MCRunLedger ----------------------------
(* One creating command of either kind in a state directory, a terminate   *)
(* and a prune.                                                            *)
EXTENDS RunLedger
=============================================================================
