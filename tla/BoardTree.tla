----------------------------- MODULE BoardTree ------------------------------
(***************************************************************************)
(* Boards, their columns and the tree GetBoard puts together, around the   *)
(* card operations of SerialBoard, each of which commits as one step.      *)
(*                                                                         *)
(* CreateBoard inserts a board and its default columns in a transaction.   *)
(* CreateColumn reads a maximum and inserts, without one.  GetBoard reads  *)
(* the columns of a board and then, in another statement, the cards of     *)
(* those columns; GetColumn does so for one column.                        *)
(***************************************************************************)
EXTENDS SerialBoard, Sequences

CONSTANTS
  Boards,      \* board ids
  NoBoard,     \* the board of a column id not inserted yet
  Defaults,    \* columns a new board has (3 in the code)
  Requests,    \* requests that create boards and columns
  Readers      \* requests that read a tree

ASSUME TreeConstants == NoBoard \notin Boards /\ Defaults \in Nat \ {0}

VARIABLES
  boards,    \* committed boards
  columns,   \* committed columns
  job,       \* where each creating request is
  page       \* where each reading request is

treeVars == <<cards, boards, columns, job, page>>

NoColumnRow == [board |-> NoBoard, pos |-> 0]

Job ==
  [at    : {"idle", "board", "max", "insert"},
   board : Boards \cup {NoBoard},
   made  : Seq(Columns),            \* default columns inserted so far
   pos   : Nat,
   seen  : SUBSET Columns]          \* history: the columns the maximum is of
NoJob == [at |-> "idle", board |-> NoBoard, made |-> <<>>, pos |-> 0, seen |-> {}]

Page ==
  [at     : {"idle", "listed", "read"},
   cols   : SUBSET Columns,         \* colIndex
   tree   : SUBSET (Cards \X Columns),
   stayed : SUBSET Cards]           \* history: cards in those columns ever since
NoPage == [at |-> "idle", cols |-> {}, tree |-> {}, stayed |-> {}]

TreeTypeOK ==
  /\ TypeOK
  /\ boards \in SUBSET Boards
  /\ columns \in [Columns -> [board : Boards \cup {NoBoard}, pos : Nat]]
  /\ job \in [Requests -> Job]
  /\ \A p \in Requests : Len(job[p].made) <= Defaults
  /\ page \in [Readers -> Page]

TreeInit ==
  /\ cards = [x \in Cards |-> UnbornRow]
  /\ boards = {}
  /\ columns = [k \in Columns |-> NoColumnRow]
  /\ job = [p \in Requests |-> NoJob]
  /\ page = [r \in Readers |-> NoPage]

ColumnsOf(b) == {k \in Columns : columns[k].board = b}
CardsIn(cols) == {x \in Cards : cards[x].col \in cols}
Made(p) == {job[p].made[i] : i \in 1 .. Len(job[p].made)}

\* gen_random_uuid: ids of columns nothing has.
UnusedColumns == ColumnsOf(NoBoard) \ UNION {Made(p) : p \in Requests}
-----------------------------------------------------------------------------
(***************************************************************************)
(* CreateBoard: nothing is visible before the commit.                      *)
(***************************************************************************)
BeginBoard(p) ==
  /\ job[p].at = "idle"
  /\ \E b \in Boards \ boards :
       /\ \A q \in Requests : job[q].board # b
       /\ job' = [job EXCEPT ![p].at = "board", ![p].board = b]
  /\ UNCHANGED <<cards, boards, columns, page>>

\* Variant: the columns are inserted on the pool, not on the transaction.
InsertDefaultOutsideTx(p) ==
  /\ job[p].at = "board" /\ Len(job[p].made) < Defaults
  /\ \E k \in UnusedColumns :
       /\ job' = [job EXCEPT ![p].made = Append(@, k)]
       /\ columns' = [columns EXCEPT
            ![k] = [board |-> job[p].board, pos |-> Len(job[p].made)]]
  /\ UNCHANGED <<cards, boards, page>>

InsertDefault(p) ==
  /\ job[p].at = "board" /\ Len(job[p].made) < Defaults
  /\ \E k \in UnusedColumns : job' = [job EXCEPT ![p].made = Append(@, k)]
  /\ UNCHANGED <<cards, boards, columns, page>>

CommitBoard(p) ==
  /\ job[p].at = "board" /\ Len(job[p].made) = Defaults
  /\ boards' = boards \cup {job[p].board}
  /\ \E index \in [Made(p) -> 1 .. Defaults] :
       /\ \A k \in Made(p) : job[p].made[index[k]] = k
       /\ columns' = [k \in Columns |->
            IF k \in Made(p) THEN [board |-> job[p].board, pos |-> index[k] - 1]
                             ELSE columns[k]]
  /\ job' = [job EXCEPT ![p] = NoJob]
  /\ UNCHANGED <<cards, page>>

(***************************************************************************)
(* CreateColumn: two statements, no transaction.                           *)
(***************************************************************************)
AskColumn(p) ==
  /\ job[p].at = "idle"
  /\ \E b \in boards : job' = [job EXCEPT ![p].at = "max", ![p].board = b]
  /\ UNCHANGED <<cards, boards, columns, page>>

\* Variant: the position of some column, not the last.
ReadAnyPosition(p) ==
  /\ job[p].at = "max"
  /\ \E k \in ColumnsOf(job[p].board) :
       job' = [job EXCEPT ![p].at = "insert", ![p].pos = columns[k].pos + 1,
                          ![p].seen = ColumnsOf(job[p].board)]
  /\ UNCHANGED <<cards, boards, columns, page>>

\* SELECT COALESCE(MAX(position), -1) + 1; a board has a column.
ReadMax(p) ==
  /\ job[p].at = "max"
  /\ \E k \in ColumnsOf(job[p].board) :
       /\ \A x \in ColumnsOf(job[p].board) : columns[x].pos <= columns[k].pos
       /\ job' = [job EXCEPT ![p].at = "insert", ![p].pos = columns[k].pos + 1,
                             ![p].seen = ColumnsOf(job[p].board)]
  /\ UNCHANGED <<cards, boards, columns, page>>

InsertColumn(p) ==
  /\ job[p].at = "insert"
  /\ \E k \in UnusedColumns :
       columns' = [columns EXCEPT ![k] = [board |-> job[p].board, pos |-> job[p].pos]]
  /\ job' = [job EXCEPT ![p] = NoJob]
  /\ UNCHANGED <<cards, boards, page>>

\* A statement fails or the client goes away: the request ends, and the
\* transaction it may be in is rolled back.
Cut(p) ==
  /\ job[p].at # "idle"
  /\ job' = [job EXCEPT ![p] = NoJob]
  /\ UNCHANGED <<cards, boards, columns, page>>
-----------------------------------------------------------------------------
(***************************************************************************)
(* GetBoard and GetColumn.                                                 *)
(***************************************************************************)
ListColumns(r) ==
  /\ page[r].at = "idle"
  /\ \E cols \in {ColumnsOf(b) : b \in boards} \cup {{k} : k \in Columns \ ColumnsOf(NoBoard)} :
       page' = [page EXCEPT ![r] =
         [at |-> "listed", cols |-> cols, tree |-> {}, stayed |-> CardsIn(cols)]]
  /\ UNCHANGED <<cards, boards, columns, job>>

\* Variant: a statement for each column.
ReadCardsByColumn(r) ==
  /\ page[r].at = "listed"
  /\ \E k \in page[r].cols :
       page' = [page EXCEPT ![r].at = IF page[r].cols = {k} THEN "read" ELSE "listed",
                            ![r].cols = @ \ {k},
                            ![r].tree = @ \cup {<<x, k>> : x \in CardsIn({k})}]
  /\ UNCHANGED <<cards, boards, columns, job>>

\* WHERE column_id = ANY($1): the cards of all columns in one snapshot.
ReadCards(r) ==
  /\ page[r].at = "listed"
  /\ page' = [page EXCEPT ![r].at = "read",
       ![r].tree = {<<x, cards[x].col>> : x \in CardsIn(page[r].cols)}]
  /\ UNCHANGED <<cards, boards, columns, job>>

\* The tree is rendered, or the request fails.
EndRead(r) ==
  /\ page[r].at # "idle"
  /\ page' = [page EXCEPT ![r] = NoPage]
  /\ UNCHANGED <<cards, boards, columns, job>>
-----------------------------------------------------------------------------
\* The operations of SerialBoard, on columns that have been inserted.
Born(k) == columns[k].board # NoBoard

CardChange ==
  /\ \E c \in Cards :
       \/ \E k \in Columns : Born(k) /\ CreateCard(c, k)
       \/ \E to \in Targets : Born(to.col) /\ MoveCard(c, to)
       \/ DeleteCard(c)
  /\ page' = [r \in Readers |-> IF page[r].at = "listed"
       THEN [page[r] EXCEPT !.stayed = {x \in @ : cards'[x].col = cards[x].col}]
       ELSE page[r]]
  /\ UNCHANGED <<boards, columns, job>>

TreeNext ==
  \/ CardChange
  \/ \E p \in Requests :
       \/ BeginBoard(p) \/ InsertDefault(p) \/ CommitBoard(p)
       \/ AskColumn(p) \/ ReadMax(p) \/ InsertColumn(p) \/ Cut(p)
  \/ \E r \in Readers : ListColumns(r) \/ ReadCards(r) \/ EndRead(r)

TreeSpec == TreeInit /\ [][TreeNext]_treeVars
-----------------------------------------------------------------------------
Positions(b) == {columns[k].pos : k \in ColumnsOf(b)}

\* A board is there with all of its default columns or not at all, and the
\* positions of its columns skip none, whichever creations overlapped or failed:
\* two columns may share a position, but none is out of reach of the next one.
BoardsAreWhole ==
  \A b \in Boards :
    IF b \in boards
      THEN Defaults - 1 \in Positions(b) /\ \A q \in Positions(b) : 0 .. q \subseteq Positions(b)
      ELSE ColumnsOf(b) = {}

\* A column goes after every column its request found on the board: only a
\* creation that overlapped can put one beside it or behind it.
LaterColumnsFollow ==
  [][\A p \in Requests, k \in Columns :
       job[p].at = "insert" /\ job'[p].at = "idle" /\ columns'[k] # columns[k]
         => \A x \in job[p].seen : columns[x].pos < columns'[k].pos]_treeVars

\* A tree shows no card twice, and shows each card that stayed in its column
\* while it was read: the two reads may only miss what changed between them.
TreeIsConsistent ==
  \A r \in Readers : page[r].at = "read" =>
    /\ \A s, t \in page[r].tree : s[1] = t[1] => s = t
    /\ \A x \in page[r].stayed : \E t \in page[r].tree : t[1] = x

\* What a creating request holds: the columns of a board nobody sees, nobody
\* else inserts and nobody else adds to; a position all lower ones of which are
\* taken, after the columns that were there when it was read.
JobIsSound(p) ==
  LET j == job[p] IN
  /\ j.at # "board" => j.made = <<>>
  /\ j.at = "board" =>
       /\ j.board \in Boards \ boards
       /\ \A m, n \in 1 .. Len(j.made) : j.made[m] = j.made[n] => m = n
       /\ Made(p) \subseteq ColumnsOf(NoBoard)
       /\ \A q \in Requests \ {p} : job[q].board # j.board /\ Made(q) \cap Made(p) = {}
  /\ j.at \in {"max", "insert"} => j.board \in boards
  /\ j.at = "insert" =>
       /\ 0 .. j.pos - 1 \subseteq Positions(j.board)
       /\ \A x \in j.seen : columns[x].board = j.board /\ columns[x].pos < j.pos

\* What a reading request holds: cards that are where they were.
PageIsSound(r) ==
  page[r].at = "listed" => page[r].stayed \subseteq CardsIn(page[r].cols)

\* The inductive invariant of BoardTree_proofs.
TreeIInv ==
  /\ TreeTypeOK /\ BoardsAreWhole /\ TreeIsConsistent
  /\ \A k \in Columns : columns[k].board \in boards \cup {NoBoard}
  /\ \A p \in Requests : JobIsSound(p)
  /\ \A r \in Readers : PageIsSound(r)
=============================================================================
