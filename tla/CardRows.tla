------------------------------ MODULE CardRows ------------------------------
(***************************************************************************)
(* The rows of the `cards` table as far as ordering is concerned, and the  *)
(* three UPDATE statements of Repo.MoveCard as operators on rows.          *)
(*                                                                         *)
(* Titles, descriptions and timestamps are abstracted: only the column and *)
(* the position decide where a card is shown.  GetBoard and GetColumn      *)
(* order by (position, created_at).                                        *)
(***************************************************************************)
EXTENDS Integers

CONSTANTS
  Cards,     \* card ids (uuids: an id is never used for a second card)
  Columns,   \* ids of the columns that exist (nothing deletes a column)
  Unborn,    \* marks an id no card has been inserted under yet
  Gone,      \* marks an id whose card was deleted
  MinInt4,   \* smallest and largest value of cards.position, an int4
  MaxInt4

ASSUME Markers == Unborn # Gone /\ {Unborn, Gone} \cap Columns = {}
ASSUME Int4Range == MinInt4 \in Int /\ MaxInt4 \in Nat /\ MinInt4 <= 0

Int4 == MinInt4 .. MaxInt4

Row == [col : Columns \cup {Unborn, Gone}, pos : Int4]

UnbornRow == [col |-> Unborn, pos |-> 0]
GoneRow   == [col |-> Gone, pos |-> 0]

Exists(r) == r.col \in Columns

(***************************************************************************)
(* The WHERE clauses and SET expressions of MoveCard.                      *)
(***************************************************************************)
\* Variant: step 1 without its condition on the column.
AfterSourceAnyColumn(r, from) == Exists(r) /\ r.pos > from.pos

\* Step 1: column_id = srcColumnID AND position > srcPos
AfterSource(r, from) == r.col = from.col /\ r.pos > from.pos

\* Variant: step 2 leaves the card at the destination where it is.
FromGapExclusive(r, to) == r.col = to.col /\ r.pos > to.pos

\* Step 2: column_id = destColumnID AND position >= destPos
FromGap(r, to) == r.col = to.col /\ r.pos >= to.pos

Lowered(r) == [r EXCEPT !.pos = @ - 1]
Raised(r)  == [r EXCEPT !.pos = @ + 1]

\* Variant: a position that wraps or grows instead of failing.
RaiseNeverOverflows(r) == FALSE

\* position is int4: Postgres rejects the statement when the sum leaves the range.
RaiseOverflows(r) == r.pos = MaxInt4

(***************************************************************************)
(* A whole MoveCard on a table nobody else touches.                        *)
(***************************************************************************)
\* Variant: step 1 is left out, and the card leaves a hole behind.
TakeOutNothing(rows, from) == rows

TakeOut(rows, from) ==
  [x \in Cards |-> IF AfterSource(rows[x], from) THEN Lowered(rows[x]) ELSE rows[x]]

MakeGap(rows, to) ==
  [x \in Cards |-> IF FromGap(rows[x], to) THEN Raised(rows[x]) ELSE rows[x]]

\* Variant: the gap is made before the card is taken out.
MovedGapFirst(rows, c, to) ==
  [TakeOut(MakeGap(rows, to), rows[c]) EXCEPT ![c] = to]

Moved(rows, c, to) ==
  [MakeGap(TakeOut(rows, rows[c]), to) EXCEPT ![c] = to]

\* Step 2 also raises the card being moved when it is in its own way, so even
\* a row about to be overwritten can make the statement fail.
MoveFits(rows, c, to) ==
  \A x \in Cards :
    LET r == TakeOut(rows, rows[c])[x] IN FromGap(r, to) => ~RaiseOverflows(r)

\* COALESCE(MAX(position), -1) + 1 over the cards of a column.
IsNextPos(rows, column, p) ==
  LET inColumn == {x \in Cards : rows[x].col = column}
  IN  \/ inColumn = {} /\ p = 0
      \/ /\ \E x \in inColumn : p = rows[x].pos + 1
         /\ \A x \in inColumn : rows[x].pos < p

(***************************************************************************)
(* What a table of cards should look like.                                 *)
(***************************************************************************)
\* No two cards of a column have the same position.
Unique(rows) ==
  \A x, y \in Cards :
    Exists(rows[x]) /\ rows[x] = rows[y] => x = y

\* The cards of a column sit at 0, 1, 2, ... with none skipped.
Dense(rows) ==
  /\ Unique(rows)
  /\ \A x \in Cards : Exists(rows[x]) =>
       /\ rows[x].pos >= 0
       /\ rows[x].pos > 0 =>
            \E y \in Cards : rows[y] = [rows[x] EXCEPT !.pos = @ - 1]

\* What creates and moves, one at a time, can make of an empty table.
Arrangements == {rows \in [Cards -> Row] :
  /\ Dense(rows)
  /\ \A x \in Cards : Exists(rows[x]) \/ rows[x] = UnbornRow}
=============================================================================
