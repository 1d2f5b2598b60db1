----------------------------- MODULE LiveBoard ------------------------------
(***************************************************************************)
(* What an open page of a board may rely on, whatever happens between a    *)
(* committed change and the page: what it shows of a card's title and      *)
(* description is a version the database has had, and with time only goes  *)
(* on to later ones, until the card is gone; and it shows only cards of    *)
(* its board.  How much is shown, when, and in which column is left open.  *)
(* Realtime implements this module.                                        *)
(***************************************************************************)
EXTENDS Naturals

CONSTANTS Boards, Cards, BoardOf, Channels, NewCards, MaxEdits, NoBoard

VARIABLES
  db,      \* committed version of each card
  tab,     \* the board of each page, NoBoard for those that are closed
  shown    \* the version a page shows of each card

boardVars == <<db, tab, shown>>

Absent  == 0
Deleted == MaxEdits + 2

Init ==
  /\ db = [c \in Cards |-> IF c \in NewCards THEN Absent ELSE 1]
  /\ tab = [ch \in Channels |-> NoBoard]
  /\ shown = [ch \in Channels |-> [c \in Cards |-> Absent]]

\* A card changes, and a deleted one does not.
Change(c) ==
  /\ db[c] # Deleted
  /\ \E v \in db[c] + 1 .. Deleted : db' = [db EXCEPT ![c] = v]
  /\ UNCHANGED <<tab, shown>>

\* A page opens, with some cards of the board as they are: a card can get into a column
\* that is added between the two statements of GetBoard.
Open(ch, b, some) ==
  /\ tab[ch] = NoBoard
  /\ \A c \in some : BoardOf[c] = b
  /\ tab' = [tab EXCEPT ![ch] = b]
  /\ shown' = [shown EXCEPT ![ch] = [c \in Cards |-> IF c \in some THEN db[c] ELSE Absent]]
  /\ UNCHANGED db

\* Some cards of the page's board are shown anew, as they are or as they were by the
\* time their frame was written, but no earlier than they were shown before.
Show(ch) ==
  \E new \in [Cards -> 0 .. Deleted] :
    /\ \A c \in Cards : new[c] # shown[ch][c] =>
         BoardOf[c] = tab[ch] /\ new[c] \in shown[ch][c] .. db[c]
    /\ shown' = [shown EXCEPT ![ch] = new]
    /\ UNCHANGED <<db, tab>>

Close(ch) ==
  /\ tab' = [tab EXCEPT ![ch] = NoBoard]
  /\ shown' = [shown EXCEPT ![ch] = [c \in Cards |-> Absent]]
  /\ UNCHANGED db

Next ==
  \/ \E c \in Cards : Change(c)
  \/ \E ch \in Channels :
       \/ \E b \in Boards, some \in SUBSET Cards : Open(ch, b, some)
       \/ Show(ch)
       \/ Close(ch)

Spec == Init /\ [][Next]_boardVars
=============================================================================
