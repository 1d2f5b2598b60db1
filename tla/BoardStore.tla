----------------------------- MODULE BoardStore -----------------------------
(***************************************************************************)
(* The board repository on Postgres at READ COMMITTED, the isolation level *)
(* of BeginTx with empty options, statement by statement.                  *)
(*                                                                         *)
(* A request is an HTTP handler that calls the repository.  MoveCard runs  *)
(* in a transaction: it locks its card, takes the rows after it and the    *)
(* rows in its way one at a time, places the card, touches the board and   *)
(* commits.  CreateCard and DeleteCard run statement by statement with no  *)
(* transaction around them.                                                *)
(*                                                                         *)
(* An UPDATE picks its rows in the snapshot its statement starts with.     *)
(* For each it waits until no other transaction holds the row, evaluates   *)
(* the WHERE clause again on the version it then finds, and holds the row  *)
(* until the transaction ends whether that version matched or not.         *)
(***************************************************************************)
EXTENDS CardRows, FiniteSets

CONSTANTS
  Requests,       \* requests being served at the same time
  NoTx,           \* marks a row no transaction holds
  NoCard,         \* the card of a request that is not being served
  BoardOf,        \* the board of each column
  DestPositions,  \* positions a move may ask for
  NoColumn        \* a column_id that names no column

ASSUME StoreConstants ==
  /\ NoTx \notin Requests
  /\ NoCard \notin Cards
  /\ DestPositions \subseteq Int4
  /\ NoColumn \notin Columns \cup {Unborn, Gone}

VARIABLES
  cards,   \* the committed rows
  draft,   \* the newest version of each row, committed or not
  lock,    \* the transaction that holds each row
  req      \* where each request is, and its local variables

vars == <<cards, draft, lock, req>>

\* Places of a request: of MoveCard once its SELECT has returned, and all.
MovePlaces == {"selected", "takeout", "gap", "touch", "commit"}
Places == MovePlaces \cup {"idle", "select", "nextpos", "insert", "delete"}

Request ==
  [at   : Places,
   card : Cards \cup {NoCard},
   from : Row,                                              \* srcColumnID, srcPos
   to   : [col : Columns \cup {NoColumn}, pos : Int4],      \* the destination
   todo : SUBSET Cards]              \* rows the running UPDATE still has to visit

TypeOK ==
  /\ cards \in [Cards -> Row]
  /\ draft \in [Cards -> Row]
  /\ lock \in [Cards -> Requests \cup {NoTx}]
  /\ req \in [Requests -> Request]

Targets == [col : Columns \cup {NoColumn}, pos : DestPositions]

At(p, place) == req[p].at = place
InMove(p) == req[p].at \in MovePlaces

\* What a statement of p sees: its own uncommitted rows over the committed ones.
View(p) == [x \in Cards |-> IF lock[x] = p THEN draft[x] ELSE cards[x]]

HoldsOrFree(p, x) == lock[x] \in {p, NoTx}
Holders(p, S) == {lock[x] : x \in S} \ {p, NoTx}

Idle == [at   |-> "idle",
         card |-> NoCard,
         from |-> UnbornRow,
         to   |-> [col |-> NoColumn, pos |-> 0],
         todo |-> {}]

Init ==
  /\ cards \in Arrangements
  /\ draft = cards
  /\ lock = [x \in Cards |-> NoTx]
  /\ req = [p \in Requests |-> Idle]

Answer(p) == req' = [req EXCEPT ![p] = Idle]
-----------------------------------------------------------------------------
(***************************************************************************)
(* MoveCard                                                                *)
(***************************************************************************)
\* handleCardMove: the card must have a board; column and position are taken
\* from the form as they are.
AskMove(p) ==
  /\ At(p, "idle")
  /\ \E c \in Cards, to \in Targets :
       /\ Exists(cards[c])
       /\ req' = [req EXCEPT ![p] = [Idle EXCEPT !.at = "select", !.card = c, !.to = to]]
  /\ UNCHANGED <<cards, draft, lock>>

\* Variant: the SELECT does not lock the row.
SelectUnlocked(p) ==
  LET c == req[p].card
  IN  /\ At(p, "select")
      /\ IF Exists(cards[c])
           THEN req' = [req EXCEPT ![p].at = "selected", ![p].from = cards[c]]
           ELSE Answer(p)
      /\ UNCHANGED <<cards, draft, lock>>

\* SELECT ... FOR UPDATE waits for the row, then reads its newest version.
SelectForUpdate(p) ==
  LET c == req[p].card
  IN  /\ At(p, "select")
      /\ lock[c] = NoTx
      /\ IF Exists(cards[c])
           THEN /\ lock' = [lock EXCEPT ![c] = p]
                /\ req' = [req EXCEPT ![p].at = "selected", ![p].from = cards[c]]
           ELSE Answer(p) /\ UNCHANGED lock
      /\ UNCHANGED <<cards, draft>>

\* The transaction ends and nothing it wrote remains.
Rollback(p) ==
  /\ draft' = [x \in Cards |-> IF lock[x] = p THEN cards[x] ELSE draft[x]]
  /\ lock' = [x \in Cards |-> IF lock[x] = p THEN NoTx ELSE lock[x]]
  /\ Answer(p)
  /\ UNCHANGED cards

\* Variant: an early return without the deferred Rollback.
ColumnUnknownKeepsTx(p) ==
  /\ At(p, "selected")
  /\ req[p].to.col \notin Columns
  /\ Answer(p)
  /\ UNCHANGED <<cards, draft, lock>>

\* SELECT board_id FROM columns finds no such column.
ColumnUnknown(p) ==
  /\ At(p, "selected")
  /\ req[p].to.col \notin Columns
  /\ Rollback(p)

\* Variant: the destination column is not looked up.
StartTakeOutUnchecked(p) ==
  /\ At(p, "selected")
  /\ req' = [req EXCEPT ![p].at = "takeout",
       ![p].todo = {x \in Cards : AfterSource(View(p)[x], req[p].from)}]
  /\ UNCHANGED <<cards, draft, lock>>

\* Step 1 starts (the column is known): its snapshot decides which rows it visits.
StartTakeOut(p) ==
  /\ At(p, "selected")
  /\ req[p].to.col \in Columns
  /\ req' = [req EXCEPT ![p].at = "takeout",
       ![p].todo = {x \in Cards : AfterSource(View(p)[x], req[p].from)}]
  /\ UNCHANGED <<cards, draft, lock>>

\* Variant: the UPDATE runs on the pool, not on the transaction.
VisitOutsideTx(p, x, matches, new) ==
  LET r == View(p)[x]
      row == IF matches THEN new ELSE r
  IN  /\ HoldsOrFree(p, x)
      /\ cards' = [cards EXCEPT ![x] = row]
      /\ draft' = [draft EXCEPT ![x] = row]
      /\ req' = [req EXCEPT ![p].todo = @ \ {x}]
      /\ UNCHANGED lock

\* An UPDATE visits row x: it holds the row from here on, unless the row is
\* gone, and writes the new version if the row still matches.
Visit(p, x, matches, new) ==
  LET r == View(p)[x]
  IN  /\ HoldsOrFree(p, x)
      /\ lock' = [lock EXCEPT ![x] = IF Exists(r) THEN p ELSE @]
      /\ draft' = [draft EXCEPT ![x] = IF matches THEN new ELSE r]
      /\ req' = [req EXCEPT ![p].todo = @ \ {x}]
      /\ UNCHANGED cards

\* Variant: the rows read first are lowered without looking at them again.
TakeOutRowBlindly(p) ==
  /\ At(p, "takeout")
  /\ \E x \in req[p].todo : Visit(p, x, TRUE, Lowered(View(p)[x]))

TakeOutRow(p) ==
  /\ At(p, "takeout")
  /\ \E x \in req[p].todo :
       LET r == View(p)[x] IN Visit(p, x, AfterSource(r, req[p].from), Lowered(r))

StartGap(p) ==
  /\ At(p, "takeout")
  /\ req[p].todo = {}
  /\ req' = [req EXCEPT ![p].at = "gap",
       ![p].todo = {x \in Cards : FromGap(View(p)[x], req[p].to)}]
  /\ UNCHANGED <<cards, draft, lock>>

GapRow(p) ==
  /\ At(p, "gap")
  /\ \E x \in req[p].todo :
       LET r == View(p)[x]
       IN  /\ FromGap(r, req[p].to) => ~RaiseOverflows(r)
           /\ Visit(p, x, FromGap(r, req[p].to), Raised(r))

\* integer out of range: the statement fails and the transaction with it.
GapOverflow(p) ==
  /\ At(p, "gap")
  /\ \E x \in req[p].todo :
       /\ HoldsOrFree(p, x)
       /\ FromGap(View(p)[x], req[p].to) /\ RaiseOverflows(View(p)[x])
  /\ Rollback(p)

\* Variant: step 3 sets the column and forgets the position.
PlaceInColumnOnly(p) ==
  /\ At(p, "gap")
  /\ req[p].todo = {}
  /\ draft' = [draft EXCEPT ![req[p].card].col = req[p].to.col]
  /\ req' = [req EXCEPT ![p].at = "touch"]
  /\ UNCHANGED <<cards, lock>>

\* Step 3: the card's row is held since the SELECT, so this never waits.
Place(p) ==
  /\ At(p, "gap")
  /\ req[p].todo = {}
  /\ draft' = [draft EXCEPT ![req[p].card] = req[p].to]
  /\ req' = [req EXCEPT ![p].at = "touch"]
  /\ UNCHANGED <<cards, lock>>

\* UPDATE boards SET updated_at: waits for another move on the same board.
BoardTouchers(p) ==
  {q \in Requests \ {p} : At(q, "commit") /\ BoardOf[req[q].to.col] = BoardOf[req[p].to.col]}

TouchBoard(p) ==
  /\ At(p, "touch")
  /\ BoardTouchers(p) = {}
  /\ req' = [req EXCEPT ![p].at = "commit"]
  /\ UNCHANGED <<cards, draft, lock>>

Commit(p) ==
  /\ At(p, "commit")
  /\ cards' = View(p)
  /\ lock' = [x \in Cards |-> IF lock[x] = p THEN NoTx ELSE lock[x]]
  /\ Answer(p)
  /\ UNCHANGED draft
-----------------------------------------------------------------------------
(***************************************************************************)
(* CreateCard: two statements, no transaction.                             *)
(***************************************************************************)
\* gen_random_uuid: an id nothing else has; it is fixed here and used in Insert.
Unused(c) == cards[c] = UnbornRow /\ \A q \in Requests : ~At(q, "idle") => req[q].card # c

AskCreate(p) ==
  /\ At(p, "idle")
  /\ \E c \in Cards, column \in Columns :
       /\ Unused(c)
       /\ req' = [req EXCEPT ![p] =
            [Idle EXCEPT !.at = "nextpos", !.card = c, !.to.col = column]]
  /\ UNCHANGED <<cards, draft, lock>>

\* SELECT COALESCE(MAX(position), -1) + 1
ReadNextPos(p) ==
  /\ At(p, "nextpos")
  /\ \E pos \in Int4 :
       /\ IsNextPos(cards, req[p].to.col, pos)
       /\ req' = [req EXCEPT ![p].at = "insert", ![p].to.pos = pos]
  /\ UNCHANGED <<cards, draft, lock>>

\* The sum is out of int4's range: the statement fails.
NextPosOverflow(p) ==
  /\ At(p, "nextpos")
  /\ \E x \in Cards : cards[x] = [req[p].to EXCEPT !.pos = MaxInt4]
  /\ Answer(p)
  /\ UNCHANGED <<cards, draft, lock>>

Insert(p) ==
  LET c == req[p].card
  IN  /\ At(p, "insert")
      /\ cards' = [cards EXCEPT ![c] = req[p].to]
      /\ draft' = [draft EXCEPT ![c] = req[p].to]
      /\ Answer(p)
      /\ UNCHANGED lock
-----------------------------------------------------------------------------
(***************************************************************************)
(* DeleteCard: one statement, after the handler has looked the card up.    *)
(***************************************************************************)
AskDelete(p) ==
  /\ At(p, "idle")
  /\ \E c \in Cards :
       /\ Exists(cards[c])
       /\ req' = [req EXCEPT ![p] = [Idle EXCEPT !.at = "delete", !.card = c]]
  /\ UNCHANGED <<cards, draft, lock>>

\* Variant: the row is deleted while a move holds it.
DeleteHeldRow(p) ==
  LET c == req[p].card
  IN  /\ At(p, "delete")
      /\ cards' = [cards EXCEPT ![c] = GoneRow]
      /\ draft' = [draft EXCEPT ![c] = GoneRow]
      /\ Answer(p)
      /\ UNCHANGED lock

\* Waits for the row; a row that is gone by then is ErrNotFound.
DeleteRow(p) ==
  LET c == req[p].card
  IN  /\ At(p, "delete")
      /\ lock[c] = NoTx
      /\ cards' = [cards EXCEPT ![c] = GoneRow]
      /\ draft' = [draft EXCEPT ![c] = GoneRow]
      /\ Answer(p)
      /\ UNCHANGED lock

\* A request for an id without a row is answered 404 at once.
AskNotFound(p) ==
  /\ At(p, "idle")
  /\ \E c \in Cards : ~Exists(cards[c])
  /\ UNCHANGED vars
-----------------------------------------------------------------------------
\* The client goes away: the request's context is cancelled, the statement it
\* is in fails, and the deferred Rollback runs.
Cancel(p) == ~At(p, "idle") /\ Rollback(p)

\* Rows or boards p waits for, when it cannot go on at all.
WaitsFor(p) ==
  CASE At(p, "select") \/ At(p, "delete") -> Holders(p, {req[p].card})
    [] req[p].at \in {"takeout", "gap"} ->
         IF \E x \in req[p].todo : HoldsOrFree(p, x) THEN {} ELSE Holders(p, req[p].todo)
    [] At(p, "touch") -> BoardTouchers(p)
    [] OTHER -> {}

InCycle(p) ==
  \E S \in SUBSET Requests :
    p \in S /\ \A q \in S : WaitsFor(q) # {} /\ WaitsFor(q) \subseteq S

\* Postgres' deadlock detector fails one of the statements in the cycle.
DeadlockVictim(p) == InCycle(p) /\ Rollback(p)

Ask(p) == AskMove(p) \/ AskCreate(p) \/ AskDelete(p) \/ AskNotFound(p)

MoveStep(p) ==
  \/ SelectForUpdate(p) \/ ColumnUnknown(p) \/ StartTakeOut(p) \/ TakeOutRow(p)
  \/ StartGap(p) \/ GapRow(p) \/ GapOverflow(p) \/ Place(p) \/ TouchBoard(p) \/ Commit(p)

Step(p) ==
  MoveStep(p) \/ ReadNextPos(p) \/ NextPosOverflow(p) \/ Insert(p) \/ DeleteRow(p)

Next == \E p \in Requests : Ask(p) \/ Step(p) \/ Cancel(p) \/ DeadlockVictim(p)

Spec == Init /\ [][Next]_vars

\* Every statement that can run does, in the end: a row lock is granted in the
\* order it was asked for, so a request is not overtaken for ever, and the
\* deadlock detector runs.  Nobody has to ask for anything, or to give up.
Fairness ==
  /\ \A p \in Requests : SF_vars(Step(p))
  /\ WF_vars(\E p \in Requests : DeadlockVictim(p))

\* Only moves, each to an index of the column the user saw when dropping.
AskedByPage(p) ==
  LET others == {x \in Cards \ {req[p].card} : cards[x].col = req[p].to.col}
  IN  req[p].to.pos \in 0 .. Cardinality(others)

MovesNext == \E p \in Requests : (AskMove(p) /\ AskedByPage(p)') \/ MoveStep(p)

MovesSpec == Init /\ [][MovesNext]_vars
-----------------------------------------------------------------------------
(***************************************************************************)
(* What holds whatever runs at the same time                               *)
(***************************************************************************)
\* The place a move took its card from, read in its first statement, is still
\* where the card is when the move commits: nobody else moves or deletes it.
FreshSource ==
  \A p \in Requests : InMove(p) =>
    /\ lock[req[p].card] = p
    /\ cards[req[p].card] = req[p].from

\* A finished or failed request leaves no row held and no draft behind.
NothingLeftBehind ==
  \A x \in Cards :
    /\ lock[x] # NoTx => InMove(lock[x])
    /\ lock[x] = NoTx => draft[x] = cards[x]

\* Positions stay at 0 or above when only such positions are asked for: a row
\* that left the source column while the UPDATE waited for it is not lowered.
NoNegativePositions == \A x \in Cards : cards[x].pos >= 0

\* A change of the table is the work of one request: its card is created, goes
\* where it was asked to or is deleted; any other card is one it held, and
\* shifts by one place in its column.
OnlyNeighboursShift ==
  [][\E p \in Requests : \A x \in Cards : cards'[x] # cards[x] =>
       IF x = req[p].card
         THEN cards'[x] \in {req[p].to, GoneRow}
         ELSE /\ lock[x] = p
              /\ cards'[x].col = cards[x].col
              /\ cards'[x].pos - cards[x].pos \in {-1, 1}]_vars

\* A card deleted while a move is shifting its neighbours does not come back
\* when the move commits.
DeletedStaysDeleted ==
  [][\A x \in Cards : cards[x] = GoneRow => cards'[x] = GoneRow]_vars

\* Every request is answered: two moves that hold each other's rows included.
EveryRequestAnswered ==
  \A p \in Requests : ~At(p, "idle") ~> At(p, "idle")
-----------------------------------------------------------------------------
(***************************************************************************)
(* Why it holds                                                            *)
(***************************************************************************)
\* Only existing rows are held: nobody inserts or deletes a held row.
HeldRowsExist == \A x \in Cards : lock[x] # NoTx => Exists(cards[x])

\* Every busy request has a card; past the lookup of its column, a column too.
RequestsAreFormed ==
  \A p \in Requests :
    /\ ~At(p, "idle") => req[p].card \in Cards
    /\ req[p].at \in Places \ {"idle", "select", "selected", "delete"}
         => req[p].to.col \in Columns

\* The id a card is created under is nobody else's.
Creating(p) == req[p].at \in {"nextpos", "insert"}
FreshIds ==
  \A p \in Requests : Creating(p) =>
    /\ cards[req[p].card] = UnbornRow
    /\ \A q \in Requests \ {p} : Creating(q) => req[q].card # req[p].card

\* The id a card is deleted under has been inserted: nobody is creating it.
KnownIds == \A p \in Requests : At(p, "delete") => cards[req[p].card] # UnbornRow

\* How far the draft of a held row can be from the committed row at each place
\* of the move that holds it.
Shift(x) == draft[x].pos - cards[x].pos
DraftOf(x, p) ==
  IF x = req[p].card /\ req[p].at \in {"touch", "commit"}
    THEN draft[x] = req[p].to
    ELSE /\ draft[x].col = cards[x].col
         /\ Shift(x) \in -1 .. 1
         /\ At(p, "selected") => Shift(x) = 0
         /\ At(p, "takeout") => Shift(x) <= 0 /\ (x \in req[p].todo => Shift(x) = 0)
         /\ At(p, "gap") /\ x \in req[p].todo => Shift(x) <= 0
DraftsAreShifts == \A x \in Cards, p \in Requests : lock[x] = p => DraftOf(x, p)

\* The inductive invariant: each part is needed for another one, and FreshSource
\* and the form of the drafts make a commit the shift it should be.
IInv ==
  /\ TypeOK
  /\ RequestsAreFormed
  /\ NothingLeftBehind
  /\ HeldRowsExist
  /\ FreshSource
  /\ FreshIds
  /\ KnownIds
  /\ DraftsAreShifts

\* NoNegativePositions, of everything a committed position can come from.
NoNegativeSources ==
  /\ \A x \in Cards : cards[x].pos >= 0 /\ draft[x].pos >= 0
  /\ \A p \in Requests : req[p].from.pos >= 0 /\ req[p].to.pos >= 0
-----------------------------------------------------------------------------
\* No two cards of a column share a position (each has a place of its own in
\* the column once moves have returned).
UniquePositions == Unique(cards)
=============================================================================
