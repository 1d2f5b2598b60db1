---------------------------- MODULE MCBoardStore ----------------------------
(***************************************************************************)
(* Two requests over one board of two columns.                             *)
(***************************************************************************)
EXTENDS BoardStore, TLC

CONSTANTS c1, c2, c3, r1, r2, todo, done, board

MCMinInt4 == -1
MCBoardOf == [column \in Columns |-> board]
=============================================================================
