----------------------------- MODULE MCSessions -----------------------------
(***************************************************************************)
(* One browser with two requests at a time, two users.                     *)
(***************************************************************************)
EXTENDS Sessions, TLC

CONSTANTS b1, r1, r2, t1, t2, t3, f1, f2, u1, u2

Symmetry ==
  Permutations(Requests) \cup Permutations(Tokens) \cup Permutations(Csrf)
    \cup Permutations(Users)
=============================================================================
