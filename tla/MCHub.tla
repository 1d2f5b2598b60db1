------------------------------- MODULE MCHub --------------------------------
(***************************************************************************)
(* Two broadcasters and two channels over two boards, buffers of two       *)
(* events, two events of a broadcaster to a board.                         *)
(***************************************************************************)
EXTENDS HubLedger, TLC

CONSTANTS bd1, bd2, ch1, ch2, g1, g2

MCBodies == [by : Broadcasters, n : 1 .. MaxEvents]
Symmetry ==
  Permutations(Boards) \cup Permutations(Channels) \cup Permutations(Broadcasters)
=============================================================================
