---------------------------- MODULE MCBoardTree -----------------------------
(***************************************************************************)
(* Two boards of two default columns each, or one with columns added: four *)
(* columns in all, two cards, two creating requests and one reader.        *)
(***************************************************************************)
EXTENDS BoardTree, TLC

CONSTANTS c1, c2, c3, k1, k2, k3, k4, b1, b2, p1, p2, r1

MCMinInt4 == -1
MCDestPositions == -1 .. 2
Symmetry ==
  Permutations(Cards) \cup Permutations(Columns) \cup Permutations(Requests)
    \cup Permutations(Boards)
=============================================================================
