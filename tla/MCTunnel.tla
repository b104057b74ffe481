------------------------------ MODULE MCTunnel ------------------------------
(***************************************************************************)
(* One tunnel whose applications write a chunk or two each, over sockets   *)
(* and a path that hold one.                                               *)
(***************************************************************************)
EXTENDS Tunnel

CONSTANTS LocalBytes, GuestBytes

MCBytes == [s \in Side |-> IF s = "client" THEN LocalBytes ELSE GuestBytes]
=============================================================================
