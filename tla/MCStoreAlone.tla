---------------------------- MODULE MCStoreAlone ----------------------------
(***************************************************************************)
(* Two requests over one board of two columns and two cards.               *)
(***************************************************************************)
EXTENDS StoreAlone, TLC

CONSTANTS c1, c2, r1, r2, todo, done, board

MCMinInt4 == -1
MCBoardOf == [column \in Columns |-> board]
=============================================================================
