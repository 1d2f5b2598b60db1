--------------------------- MODULE MCRateLimiter ----------------------------
(***************************************************************************)
(* Two admissions per window, and two requests at a time, which may wait   *)
(* for the mutex as long as a window lasts; time for three windows.        *)
(***************************************************************************)
EXTENDS RateLimiter, TLC

CONSTANTS a1, a2, p1, p2
Symmetry == Permutations(Requests)
=============================================================================
