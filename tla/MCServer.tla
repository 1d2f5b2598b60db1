------------------------------ MODULE MCServer ------------------------------
(***************************************************************************)
(* Two requests that share one connection, one user, keys for two uploads, *)
(* and waits of 1 and 2.                                                   *)
(***************************************************************************)
EXTENDS Server, TLC

CONSTANTS u1, p1, p2, k1, k2
=============================================================================
