----------------------------- MODULE MCRealtime -----------------------------
(***************************************************************************)
(* Two boards of one column each: to one belongs a card that is created,   *)
(* edited, moved or deleted in three commits, and a column can be added.   *)
(* Two requests, and one page of either board that may stop reading its    *)
(* frames at any time.                                                     *)
(***************************************************************************)
EXTENDS Realtime, TLC

CONSTANTS bd, be, ch1, c1, r1, r2

MCBoardOf == [c \in Cards |-> bd]
MCBodies ==
  {Body("card-created", c, k) : c \in Cards, k \in 1 .. MaxColumns}
    \cup {Body(action, c, NoColumn) :
            action \in {"card-updated", "card-moved", "card-deleted"}, c \in Cards}
    \cup {Body("column-created", NoCard, NoColumn)}
=============================================================================
