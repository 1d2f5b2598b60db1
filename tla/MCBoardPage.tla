---------------------------- MODULE MCBoardPage -----------------------------
(***************************************************************************)
(* One board of two columns with two cards, of which one is created, and a *)
(* single change; two requests, one page, and a buffer of four events as   *)
(* in the code.                                                            *)
(***************************************************************************)
EXTENDS BoardPage, TLC

CONSTANTS bd, ch1, c1, c2, r1, r2

MCBoardOf == [c \in Cards |-> bd]
MCBodies ==
  {Body("card-created", c, k) : c \in Cards, k \in 1 .. MaxColumns}
    \cup {Body(action, c, NoColumn) :
            action \in {"card-updated", "card-moved", "card-deleted"}, c \in Cards}
    \cup {Body("column-created", NoCard, NoColumn)}
=============================================================================
