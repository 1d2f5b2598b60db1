---------------------------- MODULE SerialBoard -----------------------------
(***************************************************************************)
(* What the board repository promises: every operation on the cards of a   *)
(* board is one step.  BoardStore is the same repository statement by      *)
(* statement; it implements this module when one request runs at a time.   *)
(***************************************************************************)
EXTENDS CardRows, FiniteSets

CONSTANT DestPositions   \* positions a move may ask for

ASSUME DestInRange == DestPositions \subseteq Int4

VARIABLE cards           \* the committed rows

TypeOK == cards \in [Cards -> Row]

Init == cards \in Arrangements

\* CreateCard: a fresh id, after every card of its column.
CreateCard(c, column) ==
  /\ cards[c] = UnbornRow
  /\ \E p \in Int4 :
       /\ IsNextPos(cards, column, p)
       /\ cards' = [cards EXCEPT ![c] = [col |-> column, pos |-> p]]

\* MoveCard: out of the source column, a gap in the destination, into the gap.
MoveCard(c, to) ==
  /\ Exists(cards[c])
  /\ MoveFits(cards, c, to)
  /\ cards' = Moved(cards, c, to)

\* DeleteCard removes the row and leaves every other row alone.
DeleteCard(c) ==
  /\ Exists(cards[c])
  /\ cards' = [cards EXCEPT ![c] = GoneRow]

\* Moving or deleting an id without a row answers ErrNotFound.
NotFound(c) == ~Exists(cards[c]) /\ UNCHANGED cards

Targets == [col : Columns, pos : DestPositions]

Next == \E c \in Cards :
  \/ \E column \in Columns : CreateCard(c, column)
  \/ \E to \in Targets : MoveCard(c, to)
  \/ DeleteCard(c)
  \/ NotFound(c)

Spec == Init /\ [][Next]_cards

\* The cards other than c of a column, and how many of them are
\* above the position asked for.
OthersIn(rows, c, column) == {x \in Cards \ {c} : rows[x].col = column}
OthersBefore(rows, c, to) ==
  Cardinality({x \in OthersIn(rows, c, to.col) : rows[x].pos < to.pos})

\* An index board.js can send: Sortable's newIndex in the list the card is
\* dropped on, which holds the other cards of that column.
IsDropIndex(rows, c, to) ==
  to.pos \in 0 .. Cardinality(OthersIn(rows, c, to.col))

\* Only what the page itself sends: moves to an index the user sees.
PageNext == \E c \in Cards :
  \/ \E column \in Columns : CreateCard(c, column)
  \/ \E to \in Targets : IsDropIndex(cards, c, to) /\ MoveCard(c, to)
  \/ DeleteCard(c)

PageSpec == Init /\ [][PageNext]_cards
-----------------------------------------------------------------------------
\* Two cards never share a place in a column, so the position alone orders a
\* column, whatever positions were asked for and whatever was deleted.
UniquePositions == Unique(cards)

\* Creating a card, or dropping one at an index the column has, opens no hole
\* in a table that has none: the two shifts of MoveCard cancel out.
HolesOnlyFromDeletes ==
  [][\A c \in Cards :
       /\ Dense(cards)
       /\ \/ \E column \in Columns : CreateCard(c, column)
          \/ \E to \in Targets : IsDropIndex(cards, c, to) /\ MoveCard(c, to)
       => Dense(cards')]_cards

\* An operation on one card never swaps two others, or drags one of them to
\* another column: of two cards that stay in a column, the first stays first.
OthersKeepOrder ==
  [][\E c \in Cards : \A x, y \in Cards \ {c} :
       /\ cards'[x].col = cards[x].col
       /\ cards[x].col = cards[y].col /\ cards[x].pos < cards[y].pos
            => cards'[x].pos < cards'[y].pos]_cards

\* A card dropped at index n of a column ends up with n other cards above it.
DropIndexHonoured ==
  [][\A c \in Cards : \A to \in Targets :
       IsDropIndex(cards, c, to) /\ MoveCard(c, to)
         => OthersBefore(cards', c, to) = to.pos]_cards

\* The same, for a table nobody has deleted a card from.
DropIndexHonouredWhenDense ==
  [][\A c \in Cards : \A to \in Targets :
       Dense(cards) /\ IsDropIndex(cards, c, to) /\ MoveCard(c, to)
         => OthersBefore(cards', c, to) = to.pos]_cards
=============================================================================
