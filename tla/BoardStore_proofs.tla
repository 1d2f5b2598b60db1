-------------------------- MODULE BoardStore_proofs -------------------------
(***************************************************************************)
(* The inductive invariant of BoardStore, for any number of requests,      *)
(* cards, columns and boards, and what follows from it.                    *)
(***************************************************************************)
EXTENDS StoreAlone, TLAPS

LEMMA PosInt == ASSUME NEW r \in Row PROVE r.pos \in Int
  BY Int4Range DEF Row, Int4

LEMMA RowEqual ==
  ASSUME NEW r \in Row, NEW s \in Row, r.col = s.col, r.pos = s.pos
  PROVE  r = s
  BY DEF Row

LEMMA SpecialRows ==
  /\ UnbornRow \in Row /\ GoneRow \in Row
  /\ ~Exists(UnbornRow) /\ ~Exists(GoneRow) /\ UnbornRow # GoneRow
  BY Int4Range, Markers DEF UnbornRow, GoneRow, Row, Int4, Exists

LEMMA IdleType == Idle \in Request /\ Idle.at = "idle"
  <1>1. 0 \in Int4
    BY Int4Range DEF Int4
  <1> QED
    BY <1>1, SpecialRows DEF Idle, Request, Places

\* Lowering a row above another one stays in range, and shifts it by one.
LEMMA LoweredRow ==
  ASSUME NEW r \in Row, NEW from \in Row, AfterSource(r, from)
  PROVE  Lowered(r) \in Row /\ Lowered(r).col = r.col /\ Lowered(r).pos = r.pos - 1
  <1>1. r.pos - 1 \in MinInt4 .. MaxInt4
    <2>1. r.pos \in MinInt4 .. MaxInt4 /\ from.pos \in MinInt4 .. MaxInt4
      BY DEF Row, Int4
    <2> QED
      BY <2>1, Int4Range DEF AfterSource
  <1> QED
    BY <1>1 DEF Lowered, Row, Int4

\* Raising a row that is not at the end of int4 does too.
LEMMA RaisedRow ==
  ASSUME NEW r \in Row, ~RaiseOverflows(r)
  PROVE  Raised(r) \in Row /\ Raised(r).col = r.col /\ Raised(r).pos = r.pos + 1
  <1>1. r.pos + 1 \in MinInt4 .. MaxInt4
    <2>1. r.pos \in MinInt4 .. MaxInt4
      BY DEF Row, Int4
    <2> QED
      BY <2>1, Int4Range DEF RaiseOverflows
  <1> QED
    BY <1>1 DEF Raised, Row, Int4

\* A destination whose column exists is a row.
LEMMA DestinationRow ==
  ASSUME NEW to \in [col : Columns \cup {NoColumn}, pos : Int4], to.col \in Columns
  PROVE  to \in Row /\ Exists(to)
  BY DEF Row, Exists

\* What a step of p must show: the other requests' records and held rows are
\* left alone, free rows have no draft, and p's own rows are as they should be.
LEMMA StepInv ==
  ASSUME IInv, NEW p \in Requests,
         \A q \in Requests \ {p} : req'[q] = req[q],
         \A x \in Cards, q \in Requests \ {p} : lock'[x] = q <=> lock[x] = q,
         \A x \in Cards, q \in Requests \ {p} :
           lock[x] = q => cards'[x] = cards[x] /\ draft'[x] = draft[x],
         TypeOK', RequestsAreFormed', FreshIds',
         \A x \in Cards : cards[x] # UnbornRow => cards'[x] # UnbornRow,
         InMove(p)' \/ (At(p, "delete")' => cards'[req'[p].card] # UnbornRow),
         \A x \in Cards : lock'[x] = NoTx => draft'[x] = cards'[x],
         \A x \in Cards : lock'[x] = p => InMove(p)' /\ Exists(cards'[x]) /\ DraftOf(x, p)',
         InMove(p)' => /\ lock'[req'[p].card] = p
                       /\ cards'[req'[p].card] = req'[p].from
  PROVE  IInv'
  <1> USE DEF IInv
  <1>1. ASSUME NEW x \in Cards, NEW q \in Requests \ {p}, lock'[x] = q
        PROVE  InMove(q)' /\ Exists(cards'[x]) /\ DraftOf(x, q)'
    <2>1. lock[x] = q /\ lock[x] # NoTx
      BY <1>1, StoreConstants
    <2>2. InMove(q) /\ Exists(cards[x]) /\ DraftOf(x, q)
      BY <2>1 DEF NothingLeftBehind, HeldRowsExist, DraftsAreShifts
    <2> QED
      BY <2>1, <2>2 DEF InMove, DraftOf, Shift, At
  <1>2. ASSUME NEW q \in Requests \ {p}, InMove(q)'
        PROVE  lock'[req'[q].card] = q /\ cards'[req'[q].card] = req'[q].from
    <2>1. InMove(q)
      BY <1>2 DEF InMove
    <2>2. /\ req[q].card \in Cards
          /\ lock[req[q].card] = q /\ cards[req[q].card] = req[q].from
      BY <2>1 DEF RequestsAreFormed, FreshSource, InMove, MovePlaces, At
    <2> QED
      BY <2>2
  <1>3. \A x \in Cards : lock'[x] \in Requests \cup {NoTx}
    BY DEF TypeOK
  <1>4. NothingLeftBehind'
    <2>1. ASSUME NEW x \in Cards, lock'[x] # NoTx PROVE InMove(lock[x])'
      <3>1. PICK q \in Requests : lock'[x] = q
        BY <1>3, <2>1
      <3>2. InMove(q)'
        BY <1>1, <3>1
      <3> QED
        BY <3>1, <3>2 DEF InMove
    <2> QED
      BY <2>1 DEF NothingLeftBehind
  <1>5. HeldRowsExist'
    BY <1>1, <1>3 DEF HeldRowsExist
  <1>6. FreshSource'
    BY <1>2 DEF FreshSource
  <1>7. DraftsAreShifts'
    BY <1>1 DEF DraftsAreShifts
  <1>8. KnownIds'
    BY DEF KnownIds, RequestsAreFormed, InMove, MovePlaces, At
  <1> QED
    BY <1>4, <1>5, <1>6, <1>7, <1>8
-----------------------------------------------------------------------------
LEMMA InitInv == Init => IInv
  <1> SUFFICES ASSUME Init PROVE IInv
    OBVIOUS
  <1>1. \A p \in Requests : req[p].at = "idle" /\ req[p] \in Request
    BY IdleType DEF Init
  <1>2. TypeOK
    BY IdleType DEF TypeOK, Init, Arrangements
  <1>3. RequestsAreFormed /\ FreshIds /\ KnownIds /\ FreshSource
    BY <1>1 DEF RequestsAreFormed, FreshIds, KnownIds, FreshSource, InMove, MovePlaces, Creating, At
  <1>4. NothingLeftBehind /\ HeldRowsExist /\ DraftsAreShifts
    BY StoreConstants DEF Init, NothingLeftBehind, HeldRowsExist, DraftsAreShifts
  <1> QED
    BY <1>2, <1>3, <1>4 DEF IInv

\* A request asks for something: only its own record changes, to one that holds
\* no row yet.
LEMMA AskInv ==
  ASSUME IInv, NEW p \in Requests, AskMove(p) \/ AskCreate(p) \/ AskDelete(p)
  PROVE  IInv'
  <1> USE DEF IInv
  <1>1. At(p, "idle") /\ UNCHANGED <<cards, draft, lock>>
    BY DEF AskMove, AskCreate, AskDelete
  <1>2. PICK r \in Request :
          /\ req' = [req EXCEPT ![p] = r]
          /\ r.at \in {"select", "nextpos", "delete"}
          /\ r.card \in Cards
          /\ r.at = "nextpos" => r.to.col \in Columns /\ Unused(r.card)
          /\ r.at = "delete" => Exists(cards[r.card])
    <2>0. 0 \in Int4
      BY Int4Range DEF Int4
    <2>1. CASE AskMove(p)
      <3>1. PICK c \in Cards, to \in Targets :
              req' = [req EXCEPT ![p] = [Idle EXCEPT !.at = "select", !.card = c, !.to = to]]
        BY <2>1 DEF AskMove
      <3>2. [Idle EXCEPT !.at = "select", !.card = c, !.to = to] \in Request
        BY IdleType, StoreConstants DEF Request, Targets, Places
      <3> QED
        BY <3>1, <3>2 DEF Idle
    <2>2. CASE AskCreate(p)
      <3>1. PICK c \in Cards, column \in Columns :
              /\ Unused(c)
              /\ req' = [req EXCEPT ![p] =
                   [Idle EXCEPT !.at = "nextpos", !.card = c, !.to.col = column]]
        BY <2>2 DEF AskCreate
      <3>2. [Idle EXCEPT !.at = "nextpos", !.card = c, !.to.col = column] \in Request
        BY <2>0, SpecialRows DEF Request, Places, Idle
      <3> QED
        BY <3>1, <3>2 DEF Idle
    <2>3. CASE AskDelete(p)
      <3>1. PICK c \in Cards :
              /\ Exists(cards[c])
              /\ req' = [req EXCEPT ![p] = [Idle EXCEPT !.at = "delete", !.card = c]]
        BY <2>3 DEF AskDelete
      <3>2. [Idle EXCEPT !.at = "delete", !.card = c] \in Request
        BY IdleType DEF Request, Places
      <3> QED
        BY <3>1, <3>2 DEF Idle
    <2> QED
      BY <2>1, <2>2, <2>3
  <1>3. req'[p] = r /\ \A q \in Requests \ {p} : req'[q] = req[q]
    BY <1>2 DEF TypeOK
  <1>4. \A x \in Cards : lock[x] # p
    BY <1>1, StoreConstants DEF NothingLeftBehind, InMove, MovePlaces, At
  <1>5. TypeOK'
    BY <1>1, <1>2 DEF TypeOK
  <1>6. RequestsAreFormed'
    BY <1>2, <1>3 DEF RequestsAreFormed, At, Places
  <1>9. FreshIds'
    <2>1. Creating(p)' => cards[r.card] = UnbornRow /\ \A q \in Requests \ {p} : Creating(q) => req[q].card # r.card
      BY <1>2, <1>3 DEF Creating, Unused, At
    <2> QED
      BY <1>1, <1>3, <2>1 DEF FreshIds, Creating
  <1> QED
    BY <1>1, <1>2, <1>3, <1>4, <1>5, <1>6, <1>9, StepInv, SpecialRows
    DEF NothingLeftBehind, InMove, MovePlaces, At
-----------------------------------------------------------------------------
\* A request that reads: CreateCard's first statement.
LEMMA ReadInv ==
  ASSUME IInv, NEW p \in Requests, ReadNextPos(p)
  PROVE  IInv'
  <1> USE DEF IInv
  <1>1. At(p, "nextpos") /\ UNCHANGED <<cards, draft, lock>>
    BY DEF ReadNextPos
  <1>2. PICK pos \in Int4 : req' = [req EXCEPT ![p].at = "insert", ![p].to.pos = pos]
    BY DEF ReadNextPos
  <1>3. req[p] \in Request
    BY DEF TypeOK
  <1>4. /\ \A q \in Requests \ {p} : req'[q] = req[q]
        /\ req'[p].at = "insert" /\ req'[p].card = req[p].card
        /\ req'[p].to.col = req[p].to.col
    BY <1>2, <1>3 DEF TypeOK, Request
  <1>5. TypeOK'
    <2>1. [req[p] EXCEPT !.at = "insert", !.to.pos = pos] \in Request
      BY <1>3 DEF Request, Places
    <2>2. req' = [req EXCEPT ![p] = [req[p] EXCEPT !.at = "insert", !.to.pos = pos]]
      BY <1>2, <1>3 DEF TypeOK
    <2> QED
      BY <1>1, <2>1, <2>2 DEF TypeOK
  <1>6. RequestsAreFormed'
    BY <1>1, <1>4 DEF RequestsAreFormed, At, Places
  <1>7. \A x \in Cards : lock[x] # p
    BY <1>1, StoreConstants DEF NothingLeftBehind, InMove, MovePlaces, At
  <1>8. FreshIds'
    BY <1>1, <1>4 DEF FreshIds, Creating, At
  <1> QED
    BY <1>1, <1>4, <1>5, <1>6, <1>7, <1>8, StepInv
    DEF NothingLeftBehind, InMove, MovePlaces, At

\* The first statement of a move: the row is held from here on.
LEMMA SelectInv ==
  ASSUME IInv, NEW p \in Requests, SelectForUpdate(p)
  PROVE  IInv'
  <1> USE DEF IInv
  <1> DEFINE c == req[p].card
  <1>1. /\ At(p, "select") /\ UNCHANGED <<cards, draft>> /\ lock[c] = NoTx
        /\ req[p] \in Request /\ c \in Cards
    BY DEF SelectForUpdate, TypeOK, RequestsAreFormed, At
  <1>2. \A x \in Cards : lock[x] # p
    BY <1>1, StoreConstants DEF NothingLeftBehind, InMove, MovePlaces, At
  <1>3. CASE Exists(cards[c])
    <2>1. /\ lock' = [lock EXCEPT ![c] = p]
          /\ req' = [req EXCEPT ![p].at = "selected", ![p].from = cards[c]]
      BY <1>3 DEF SelectForUpdate
    <2>2. /\ \A q \in Requests \ {p} : req'[q] = req[q]
          /\ req'[p].at = "selected" /\ req'[p].card = c /\ req'[p].from = cards[c]
          /\ req'[p].to = req[p].to
      BY <1>1, <2>1 DEF TypeOK, Request
    <2>3. TypeOK'
      <3>1. [req[p] EXCEPT !.at = "selected", !.from = cards[c]] \in Request
        BY <1>1 DEF Request, Places, MovePlaces, TypeOK
      <3>2. req' = [req EXCEPT ![p] = [req[p] EXCEPT !.at = "selected", !.from = cards[c]]]
        BY <1>1, <2>1 DEF TypeOK
      <3> QED
        BY <1>1, <2>1, <3>1, <3>2 DEF TypeOK
    <2>4. RequestsAreFormed'
      BY <1>1, <2>2 DEF RequestsAreFormed, At, Places
    <2>5. /\ lock'[c] = p
          /\ \A x \in Cards \ {c} : lock'[x] = lock[x]
      BY <1>1, <2>1 DEF TypeOK
    <2>6. DraftOf(c, p)'
      <3>1. draft[c] = cards[c] /\ cards[c].pos \in Int
        BY <1>1, PosInt DEF NothingLeftBehind, TypeOK
      <3> QED
        BY <1>1, <2>2, <3>1 DEF DraftOf, Shift, At
    <2>7. FreshIds'
      BY <1>1, <2>2 DEF FreshIds, Creating
    <2>8. InMove(p)'
      BY <2>2 DEF InMove, MovePlaces
    <2> QED
      BY <1>1, <1>2, <1>3, <2>2, <2>3, <2>4, <2>5, <2>6, <2>7, <2>8, StepInv, StoreConstants
      DEF NothingLeftBehind, At
  <1>4. CASE ~Exists(cards[c])
    <2>1. Answer(p) /\ UNCHANGED lock
      BY <1>4 DEF SelectForUpdate
    <2>2. /\ \A q \in Requests \ {p} : req'[q] = req[q]
          /\ req'[p] = Idle /\ req' \in [Requests -> Request]
      BY <2>1, IdleType DEF TypeOK, Answer
    <2>3. TypeOK'
      BY <1>1, <2>1, <2>2 DEF TypeOK
    <2>4. RequestsAreFormed' /\ FreshIds'
      BY <1>1, <2>2, IdleType DEF RequestsAreFormed, At, FreshIds, Creating
    <2>5. ~InMove(p)' /\ ~At(p, "delete")'
      BY <2>2, IdleType DEF InMove, MovePlaces, At
    <2> QED
      BY <1>1, <1>2, <2>1, <2>2, <2>3, <2>4, <2>5, StepInv DEF NothingLeftBehind
  <1> QED
    BY <1>3, <1>4

\* A request is answered: an idle record is always in order.
LEMMA AnswerFacts ==
  ASSUME IInv, NEW p \in Requests, Answer(p)
  PROVE  /\ \A q \in Requests \ {p} : req'[q] = req[q]
         /\ req' \in [Requests -> Request]
         /\ req'[p] = Idle /\ ~InMove(p)' /\ ~Creating(p)' /\ At(p, "idle")'
         /\ ~At(p, "delete")' /\ RequestsAreFormed'
  <1>1. /\ \A q \in Requests \ {p} : req'[q] = req[q]
        /\ req'[p] = Idle /\ req' \in [Requests -> Request]
    BY IdleType DEF IInv, TypeOK, Answer
  <1>2. ~InMove(p)' /\ ~Creating(p)' /\ At(p, "idle")' /\ ~At(p, "delete")'
    BY <1>1, IdleType DEF InMove, MovePlaces, Creating, At
  <1>3. RequestsAreFormed'
    BY <1>1, IdleType DEF IInv, RequestsAreFormed, At
  <1> QED
    BY <1>1, <1>2, <1>3

\* The transaction ends without a trace, wherever the move was.
LEMMA RollbackInv ==
  ASSUME IInv, NEW p \in Requests, Rollback(p)
  PROVE  IInv'
  <1> USE DEF IInv
  <1>1. /\ Answer(p) /\ UNCHANGED cards
        /\ draft' = [x \in Cards |-> IF lock[x] = p THEN cards[x] ELSE draft[x]]
        /\ lock' = [x \in Cards |-> IF lock[x] = p THEN NoTx ELSE lock[x]]
    BY DEF Rollback
  <1>2. TypeOK'
    BY <1>1, AnswerFacts DEF TypeOK
  <1>3. FreshIds'
    BY <1>1, AnswerFacts DEF FreshIds, Creating
  <1>4. \A x \in Cards : lock'[x] # p
    BY <1>1, StoreConstants
  <1>5. \A x \in Cards : lock'[x] = NoTx => draft'[x] = cards'[x]
    BY <1>1 DEF NothingLeftBehind
  <1>6. \A x \in Cards, q \in Requests \ {p} : lock'[x] = q <=> lock[x] = q
    BY <1>1, StoreConstants
  <1>7. \A x \in Cards, q \in Requests \ {p} :
          lock[x] = q => cards'[x] = cards[x] /\ draft'[x] = draft[x]
    BY <1>1
  <1> QED
    BY <1>1, <1>2, <1>3, <1>4, <1>5, <1>6, <1>7, AnswerFacts, StepInv

\* Between two UPDATEs: the next one takes its snapshot, or the board is touched.
LEMMA BetweenInv ==
  ASSUME IInv, NEW p \in Requests, StartTakeOut(p) \/ StartGap(p) \/ TouchBoard(p)
  PROVE  IInv'
  <1> USE DEF IInv
  <1>1. /\ UNCHANGED <<cards, draft, lock>>
        /\ req[p] \in Request /\ InMove(p)
    BY DEF StartTakeOut, StartGap, TouchBoard, TypeOK, InMove, MovePlaces, At
  <1>2. PICK place \in {"takeout", "gap", "commit"}, todo \in SUBSET Cards :
          /\ req' = [req EXCEPT ![p].at = place, ![p].todo = todo]
          /\ place = "takeout" => At(p, "selected") /\ req[p].to.col \in Columns
          /\ place = "gap" => At(p, "takeout") /\ req[p].todo = {}
          /\ place = "commit" => At(p, "touch")
    <2>1. CASE StartTakeOut(p)
      <3> DEFINE todo == {x \in Cards : AfterSource(View(p)[x], req[p].from)}
      <3>1. todo \in SUBSET Cards
        OBVIOUS
      <3> QED
        BY <2>1, <3>1 DEF StartTakeOut
    <2>2. CASE StartGap(p)
      <3> DEFINE todo == {x \in Cards : FromGap(View(p)[x], req[p].to)}
      <3>1. todo \in SUBSET Cards
        OBVIOUS
      <3> QED
        BY <2>2, <3>1 DEF StartGap
    <2>3. CASE TouchBoard(p)
      <3>1. req' = [req EXCEPT ![p] = [req[p] EXCEPT !.at = "commit"]]
        BY <2>3 DEF TouchBoard
      <3>2. [req[p] EXCEPT !.at = "commit"] = [req[p] EXCEPT !.at = "commit", !.todo = req[p].todo]
        BY <1>1 DEF Request
      <3>3. req[p].todo \in SUBSET Cards
        BY <1>1 DEF Request
      <3>4. req' = [req EXCEPT ![p] = [req[p] EXCEPT !.at = "commit", !.todo = req[p].todo]]
        BY <3>1, <3>2
      <3>5. req' = [req EXCEPT ![p].at = "commit", ![p].todo = req[p].todo]
        BY <1>1, <3>4 DEF TypeOK
      <3> HIDE DEF IInv
      <3> QED
        BY <2>3, <3>3, <3>5 DEF TouchBoard
    <2> QED
      BY <2>1, <2>2, <2>3
  <1>3. /\ \A q \in Requests \ {p} : req'[q] = req[q]
        /\ req'[p].at = place /\ req'[p].card = req[p].card /\ req'[p].from = req[p].from
        /\ req'[p].to = req[p].to
    BY <1>1, <1>2 DEF TypeOK, Request
  <1>4. TypeOK'
    <2>1. [req[p] EXCEPT !.at = place, !.todo = todo] \in Request
      BY <1>1, <1>2 DEF Request, Places, MovePlaces
    <2>2. req' = [req EXCEPT ![p] = [req[p] EXCEPT !.at = place, !.todo = todo]]
      BY <1>1, <1>2 DEF TypeOK
    <2> QED
      BY <1>1, <2>1, <2>2 DEF TypeOK
  <1>5. RequestsAreFormed'
    BY <1>2, <1>3 DEF RequestsAreFormed, At, Places, MovePlaces
  <1>6. FreshIds'
    BY <1>1, <1>3 DEF FreshIds, Creating
  <1>7. InMove(p)'
    BY <1>3 DEF InMove, MovePlaces
  <1>8. ASSUME NEW x \in Cards, lock[x] = p PROVE DraftOf(x, p)' /\ Exists(cards[x])
    <2>1. DraftOf(x, p) /\ Exists(cards[x])
      BY <1>8, StoreConstants DEF DraftsAreShifts, HeldRowsExist
    <2>2. CASE place = "takeout"
      BY <1>1, <1>2, <1>3, <2>1, <2>2 DEF DraftOf, Shift, At
    <2>3. CASE place = "gap"
      BY <1>1, <1>2, <1>3, <2>1, <2>3 DEF DraftOf, Shift, At
    <2>4. CASE place = "commit"
      BY <1>1, <1>2, <1>3, <2>1, <2>4 DEF DraftOf, Shift, At
    <2> QED
      BY <2>1, <2>2, <2>3, <2>4
  <1>9. lock[req[p].card] = p /\ cards[req[p].card] = req[p].from
    BY <1>1 DEF FreshSource
  <1> QED
    BY <1>1, <1>3, <1>4, <1>5, <1>6, <1>7, <1>8, <1>9, StepInv DEF NothingLeftBehind

\* What a request sees of a row it may visit: a well-typed row, the committed
\* one if the row is free; and it exists if the request already holds it.
LEMMA ViewFacts ==
  ASSUME IInv, NEW p \in Requests, InMove(p), NEW x \in Cards
  PROVE  /\ View(p)[x] \in Row
         /\ lock[x] = p => View(p)[x] = draft[x]
         /\ lock[x] # p => View(p)[x] = cards[x]
         /\ lock[x] = p /\ req[p].at \in {"selected", "takeout", "gap"} => Exists(View(p)[x])
  <1>1. /\ View(p)[x] \in Row
        /\ lock[x] = p => View(p)[x] = draft[x]
        /\ lock[x] # p => View(p)[x] = cards[x]
    BY DEF IInv, TypeOK, View
  <1>2. ASSUME lock[x] = p, req[p].at \in {"selected", "takeout", "gap"}
        PROVE  Exists(draft[x])
    <2>1. DraftOf(x, p) /\ Exists(cards[x])
      BY <1>2, StoreConstants DEF IInv, DraftsAreShifts, HeldRowsExist
    <2> QED
      BY <1>2, <2>1 DEF DraftOf, Exists
  <1> QED
    BY <1>1, <1>2

\* A running UPDATE visits a row: step 1 lowers it or leaves it, step 2 raises
\* it or leaves it.
LEMMA VisitInv ==
  ASSUME IInv, NEW p \in Requests, NEW x \in req[p].todo,
         NEW matches \in BOOLEAN, NEW new, NEW by \in {-1, 1},
         \/ At(p, "takeout") /\ by = -1
         \/ At(p, "gap") /\ by = 1,
         matches => /\ Exists(View(p)[x])
                    /\ new \in Row /\ new.col = View(p)[x].col
                    /\ new.pos = View(p)[x].pos + by,
         Visit(p, x, matches, new)
  PROVE  IInv'
  <1> USE DEF IInv
  <1> DEFINE r == View(p)[x]
  <1>1. req[p] \in Request /\ x \in Cards /\ InMove(p)
    BY DEF TypeOK, Request, InMove, MovePlaces, At
  <1>2. /\ lock[x] \in {p, NoTx}
        /\ lock' = [lock EXCEPT ![x] = IF Exists(r) THEN p ELSE @]
        /\ draft' = [draft EXCEPT ![x] = IF matches THEN new ELSE r]
        /\ req' = [req EXCEPT ![p].todo = @ \ {x}]
        /\ cards' = cards
    BY DEF Visit, HoldsOrFree
  <1>3. /\ \A q \in Requests \ {p} : req'[q] = req[q]
        /\ req'[p].at = req[p].at /\ req'[p].card = req[p].card
        /\ req'[p].from = req[p].from /\ req'[p].to = req[p].to
        /\ req'[p].todo = req[p].todo \ {x}
    BY <1>1, <1>2 DEF TypeOK, Request
  <1>4. /\ r \in Row
        /\ lock[x] = p => r = draft[x] /\ Exists(r)
        /\ lock[x] # p => r = cards[x]
    BY <1>1, ViewFacts DEF At
  <1>5. TypeOK'
    <2>1. [req[p] EXCEPT !.todo = @ \ {x}] \in Request
      BY <1>1 DEF Request
    <2>2. req' = [req EXCEPT ![p] = [req[p] EXCEPT !.todo = @ \ {x}]]
      BY <1>1, <1>2 DEF TypeOK
    <2>3. req' \in [Requests -> Request]
      BY <2>1, <2>2 DEF TypeOK
    <2> HIDE DEF r
    <2>4. draft' \in [Cards -> Row]
      BY <1>2, <1>4 DEF TypeOK
    <2>5. lock' \in [Cards -> Requests \cup {NoTx}]
      BY <1>2 DEF TypeOK
    <2> QED
      BY <1>2, <2>3, <2>4, <2>5 DEF TypeOK
  <1>6. RequestsAreFormed'
    BY <1>3 DEF RequestsAreFormed, At
  <1>7. FreshIds'
    BY <1>2, <1>3 DEF FreshIds, Creating
  <1>8. InMove(p)'
    BY <1>1, <1>3 DEF InMove
  <1> HIDE DEF r
  <1>9. /\ \A y \in Cards \ {x} : lock'[y] = lock[y] /\ draft'[y] = draft[y]
        /\ lock'[x] = IF Exists(r) THEN p ELSE lock[x]
        /\ draft'[x] = IF matches THEN new ELSE r
    BY <1>1, <1>2 DEF TypeOK
  <1>10. ASSUME NEW y \in Cards, lock'[y] = NoTx PROVE draft'[y] = cards'[y]
    <2>1. CASE y = x
      <3>1. ~Exists(r) /\ lock[x] # p
        BY <1>9, <1>4, <1>10, <2>1, StoreConstants
      <3>2. ~matches
        BY <3>1 DEF r
      <3> QED
        BY <1>2, <1>4, <1>9, <2>1, <3>1, <3>2
    <2>2. CASE y # x
      BY <1>2, <1>9, <1>10, <2>2 DEF NothingLeftBehind
    <2> QED
      BY <2>1, <2>2
  <1>11. ASSUME NEW y \in Cards, lock'[y] = p
         PROVE  Exists(cards'[y]) /\ DraftOf(y, p)'
    <2>1. CASE y # x
      <3>1. Exists(cards[y]) /\ DraftOf(y, p)
        BY <1>9, <1>11, <2>1, StoreConstants DEF HeldRowsExist, DraftsAreShifts
      <3> QED
        BY <1>2, <1>3, <1>9, <2>1, <3>1 DEF DraftOf, Shift, At
    <2>2. CASE y = x
      <3>1. Exists(cards[x])
        BY <1>4, <1>9, <1>11, <2>2, StoreConstants DEF HeldRowsExist
      <3>2. /\ r.col = cards[x].col
            /\ r.pos \in Int /\ cards[x].pos \in Int
            /\ At(p, "takeout") => r.pos - cards[x].pos = 0
            /\ At(p, "gap") => r.pos - cards[x].pos \in -1 .. 0
        <4>1. r.pos \in Int /\ cards[x].pos \in Int
          BY <1>1, <1>4, PosInt DEF TypeOK
        <4>2. CASE lock[x] = p
          <5>1. DraftOf(x, p)
            BY <1>1, <4>2 DEF DraftsAreShifts
          <5> QED
            BY <1>4, <4>1, <4>2, <5>1 DEF DraftOf, Shift, At
        <4>3. CASE lock[x] # p
          BY <1>4, <4>1, <4>3
        <4> QED
          BY <4>1, <4>2, <4>3
      <3>3. /\ draft'[x].col = cards[x].col
            /\ draft'[x].pos - cards[x].pos =
                 (r.pos - cards[x].pos) + IF matches THEN by ELSE 0
        BY <1>9, <3>2 DEF r
      <3> QED
        BY <1>2, <1>3, <2>2, <3>1, <3>2, <3>3 DEF DraftOf, Shift, At
    <2> QED
      BY <2>1, <2>2
  <1>12. lock'[req'[p].card] = p /\ cards'[req'[p].card] = req'[p].from
    <2>1. /\ lock[req[p].card] = p /\ cards[req[p].card] = req[p].from
          /\ req[p].card \in Cards
      BY <1>1 DEF FreshSource, RequestsAreFormed, InMove, MovePlaces, At
    <2> QED
      BY <1>2, <1>3, <1>9, <2>1
  <1>13. \A y \in Cards, q \in Requests \ {p} :
            /\ lock'[y] = q <=> lock[y] = q
            /\ lock[y] = q => draft'[y] = draft[y]
    BY <1>2, <1>9, StoreConstants
  <1> QED
    BY <1>2, <1>3, <1>5, <1>6, <1>7, <1>8, <1>10, <1>11, <1>12, <1>13, StepInv

LEMMA TakeOutRowInv ==
  ASSUME IInv, NEW p \in Requests, TakeOutRow(p)
  PROVE  IInv'
  <1>1. PICK x \in req[p].todo :
          Visit(p, x, AfterSource(View(p)[x], req[p].from), Lowered(View(p)[x]))
    BY DEF TakeOutRow
  <1> DEFINE r == View(p)[x]
             matches == AfterSource(r, req[p].from)
  <1>2. At(p, "takeout") /\ InMove(p) /\ x \in Cards /\ req[p].from \in Row
    BY DEF TakeOutRow, InMove, MovePlaces, At, IInv, TypeOK, Request
  <1>3. matches => Exists(r)
    <2>1. /\ lock[req[p].card] = p /\ cards[req[p].card] = req[p].from
          /\ req[p].card \in Cards
      BY <1>2 DEF IInv, FreshSource, RequestsAreFormed, InMove, MovePlaces, At
    <2>2. Exists(req[p].from)
      BY <2>1, StoreConstants DEF IInv, HeldRowsExist
    <2> QED
      BY <2>2 DEF AfterSource, Exists
  <1>4. matches => /\ Lowered(r) \in Row /\ Lowered(r).col = r.col
                   /\ Lowered(r).pos = r.pos + (-1)
    <2>1. r \in Row /\ r.pos \in Int
      BY <1>2, ViewFacts, PosInt
    <2> HIDE DEF r
    <2> QED
      BY <1>2, <2>1, LoweredRow
  <1>5. matches \in BOOLEAN
    BY DEF AfterSource
  <1> HIDE DEF matches
  <1>6. Visit(p, x, matches, Lowered(r))
    BY <1>1 DEF matches
  <1> QED
    BY <1>2, <1>3, <1>4, <1>5, <1>6, VisitInv

LEMMA GapRowInv ==
  ASSUME IInv, NEW p \in Requests, GapRow(p)
  PROVE  IInv'
  <1>1. PICK x \in req[p].todo :
          /\ FromGap(View(p)[x], req[p].to) => ~RaiseOverflows(View(p)[x])
          /\ Visit(p, x, FromGap(View(p)[x], req[p].to), Raised(View(p)[x]))
    BY DEF GapRow
  <1> DEFINE r == View(p)[x]
             matches == FromGap(r, req[p].to)
  <1>2. At(p, "gap") /\ InMove(p) /\ x \in Cards /\ req[p].to.col \in Columns
    BY DEF GapRow, InMove, MovePlaces, Places, At, IInv, TypeOK, Request, RequestsAreFormed
  <1>3. matches => Exists(r)
    BY <1>2 DEF FromGap, Exists
  <1>4. matches => /\ Raised(r) \in Row /\ Raised(r).col = r.col
                   /\ Raised(r).pos = r.pos + 1
    <2>1. r \in Row
      BY <1>2, ViewFacts
    <2> HIDE DEF r
    <2> QED
      BY <1>1, <2>1, RaisedRow DEF r
  <1>5. matches \in BOOLEAN
    BY DEF FromGap
  <1> HIDE DEF matches
  <1>6. Visit(p, x, matches, Raised(r))
    BY <1>1 DEF matches
  <1> QED
    BY <1>2, <1>3, <1>4, <1>5, <1>6, VisitInv

\* Step 3 writes the destination into the row held since the first statement.
LEMMA PlaceInv ==
  ASSUME IInv, NEW p \in Requests, Place(p)
  PROVE  IInv'
  <1> USE DEF IInv
  <1> DEFINE c == req[p].card
             to == req[p].to
  <1>1. /\ At(p, "gap") /\ UNCHANGED <<cards, lock>>
        /\ draft' = [draft EXCEPT ![c] = to]
        /\ req' = [req EXCEPT ![p].at = "touch"]
    BY DEF Place
  <1>2. /\ req[p] \in Request /\ c \in Cards /\ to \in Row /\ Exists(to)
        /\ lock[c] = p /\ cards[c] = req[p].from
    <2>1. req[p] \in Request /\ InMove(p) /\ c \in Cards /\ to.col \in Columns
      BY <1>1 DEF TypeOK, RequestsAreFormed, InMove, MovePlaces, Places, At
    <2>2. to \in [col : Columns \cup {NoColumn}, pos : Int4]
      BY <2>1 DEF Request
    <2> QED
      BY <2>1, <2>2, DestinationRow DEF FreshSource
  <1>3. /\ \A q \in Requests \ {p} : req'[q] = req[q]
        /\ req'[p].at = "touch" /\ req'[p].card = c /\ req'[p].from = req[p].from
        /\ req'[p].to = to
    BY <1>1, <1>2 DEF TypeOK, Request
  <1>4. TypeOK'
    <2>1. [req[p] EXCEPT !.at = "touch"] \in Request
      BY <1>2 DEF Request, Places, MovePlaces
    <2> QED
      BY <1>1, <1>2, <2>1 DEF TypeOK
  <1>5. RequestsAreFormed'
    BY <1>1, <1>2, <1>3 DEF RequestsAreFormed, At, Exists
  <1>6. FreshIds'
    BY <1>1, <1>3 DEF FreshIds, Creating
  <1>7. InMove(p)'
    BY <1>3 DEF InMove, MovePlaces
  <1> HIDE DEF c, to
  <1>8. ASSUME NEW x \in Cards, lock[x] = p
        PROVE  Exists(cards[x]) /\ DraftOf(x, p)'
    <2>1. Exists(cards[x]) /\ DraftOf(x, p)
      BY <1>8, StoreConstants DEF HeldRowsExist, DraftsAreShifts
    <2>2. CASE x = c
      BY <1>1, <1>2, <1>3, <2>1, <2>2 DEF DraftOf, TypeOK
    <2>3. CASE x # c
      <3>1. draft'[x] = draft[x]
        BY <1>1, <2>3 DEF TypeOK
      <3> QED
        BY <1>1, <1>3, <2>1, <2>3, <3>1 DEF DraftOf, Shift, At
    <2> QED
      BY <2>1, <2>2, <2>3
  <1>9. \A x \in Cards \ {c} : draft'[x] = draft[x]
    BY <1>1 DEF TypeOK
  <1> QED
    BY <1>1, <1>2, <1>3, <1>4, <1>5, <1>6, <1>7, <1>8, <1>9, StepInv, StoreConstants
    DEF NothingLeftBehind

\* The drafts of a move become the committed rows, all at once.
LEMMA CommitInv ==
  ASSUME IInv, NEW p \in Requests, Commit(p)
  PROVE  IInv'
  <1> USE DEF IInv
  <1>1. /\ At(p, "commit") /\ Answer(p) /\ UNCHANGED draft
        /\ cards' = [x \in Cards |-> IF lock[x] = p THEN draft[x] ELSE cards[x]]
        /\ lock' = [x \in Cards |-> IF lock[x] = p THEN NoTx ELSE lock[x]]
    BY DEF Commit, View
  <1>2. TypeOK'
    BY <1>1, AnswerFacts DEF TypeOK
  <1>3. FreshIds'
    <2>1. ASSUME NEW q \in Requests, Creating(q)
          PROVE  req[q].card \in Cards /\ lock[req[q].card] = NoTx
      <3>1. cards[req[q].card] = UnbornRow /\ req[q].card \in Cards
        BY <2>1 DEF FreshIds, RequestsAreFormed, Creating, At
      <3> QED
        BY <3>1, SpecialRows DEF HeldRowsExist
    <2> QED
      BY <1>1, <2>1, AnswerFacts, StoreConstants DEF FreshIds, Creating
  <1>4. \A x \in Cards : lock'[x] # p
    BY <1>1, StoreConstants
  <1>5. \A x \in Cards : lock'[x] = NoTx => draft'[x] = cards'[x]
    BY <1>1 DEF NothingLeftBehind
  <1>6. \A x \in Cards, q \in Requests \ {p} : lock'[x] = q <=> lock[x] = q
    BY <1>1, StoreConstants
  <1>7. \A x \in Cards, q \in Requests \ {p} :
          lock[x] = q => cards'[x] = cards[x] /\ draft'[x] = draft[x]
    BY <1>1
  <1>8. ASSUME NEW x \in Cards, cards[x] # UnbornRow PROVE cards'[x] # UnbornRow
    <2>1. CASE lock[x] = p
      <3>1. DraftOf(x, p) /\ Exists(cards[x])
        BY <2>1, StoreConstants DEF HeldRowsExist, DraftsAreShifts
      <3>2. req[p].to.col \in Columns
        BY <1>1 DEF RequestsAreFormed, At, Places, MovePlaces
      <3>3. Exists(draft[x])
        BY <3>1, <3>2 DEF DraftOf, Exists
      <3> QED
        BY <1>1, <2>1, <3>3, SpecialRows
    <2>2. CASE lock[x] # p
      BY <1>1, <1>8, <2>2
    <2> QED
      BY <2>1, <2>2
  <1> QED
    BY <1>1, <1>2, <1>3, <1>4, <1>5, <1>6, <1>7, <1>8, AnswerFacts, StepInv

\* A statement outside a transaction writes one row nobody holds: an insert under
\* an id of its own, or a delete of a free row.
LEMMA WriteFreeRow ==
  ASSUME IInv, NEW p \in Requests, NEW c \in Cards, NEW row \in Row,
         row # UnbornRow, ~InMove(p), lock[c] = NoTx,
         \A q \in Requests \ {p} : Creating(q) => req[q].card # c,
         cards' = [cards EXCEPT ![c] = row],
         draft' = [draft EXCEPT ![c] = row],
         Answer(p), UNCHANGED lock
  PROVE  IInv'
  <1> USE DEF IInv
  <1>1. \A x \in Cards : lock[x] # p
    BY StoreConstants DEF NothingLeftBehind
  <1>2. /\ cards'[c] = row /\ draft'[c] = row
        /\ \A x \in Cards \ {c} : cards'[x] = cards[x] /\ draft'[x] = draft[x]
    BY DEF TypeOK
  <1>3. TypeOK'
    BY AnswerFacts DEF TypeOK
  <1>4. FreshIds'
    <2>1. \A q \in Requests \ {p} : Creating(q) => req[q].card \in Cards \ {c}
      BY DEF RequestsAreFormed, Creating, At
    <2> QED
      BY <1>2, <2>1, AnswerFacts DEF FreshIds, Creating
  <1>5. \A x \in Cards : lock'[x] = NoTx => draft'[x] = cards'[x]
    BY <1>2 DEF NothingLeftBehind
  <1>6. \A x \in Cards, q \in Requests \ {p} :
          lock[x] = q => cards'[x] = cards[x] /\ draft'[x] = draft[x]
    BY <1>2, StoreConstants
  <1> QED
    BY <1>1, <1>3, <1>4, <1>5, <1>6, AnswerFacts, StepInv

LEMMA InsertInv ==
  ASSUME IInv, NEW p \in Requests, Insert(p)
  PROVE  IInv'
  <1> DEFINE c == req[p].card
  <1>1. At(p, "insert") /\ c \in Cards /\ cards[c] = UnbornRow
        /\ req[p].to \in Row /\ Exists(req[p].to)
    <2>1. At(p, "insert") /\ req[p] \in Request
      BY DEF Insert, IInv, TypeOK
    <2>2. c \in Cards /\ cards[c] = UnbornRow /\ req[p].to.col \in Columns
      BY <2>1 DEF IInv, FreshIds, Creating, RequestsAreFormed, Places, At
    <2>3. req[p].to \in [col : Columns \cup {NoColumn}, pos : Int4]
      BY <2>1 DEF Request
    <2> QED
      BY <2>1, <2>2, <2>3, DestinationRow
  <1>2. lock[c] = NoTx
    BY <1>1, SpecialRows DEF IInv, HeldRowsExist
  <1>3. ~InMove(p) /\ \A q \in Requests \ {p} : Creating(q) => req[q].card # c
    BY <1>1 DEF IInv, FreshIds, Creating, InMove, MovePlaces, At
  <1> QED
    BY <1>1, <1>2, <1>3, SpecialRows, WriteFreeRow DEF Insert

LEMMA DeleteRowInv ==
  ASSUME IInv, NEW p \in Requests, DeleteRow(p)
  PROVE  IInv'
  <1> DEFINE c == req[p].card
  <1>1. At(p, "delete") /\ c \in Cards /\ lock[c] = NoTx /\ cards[c] # UnbornRow
    BY DEF DeleteRow, IInv, RequestsAreFormed, KnownIds, At
  <1>2. ~InMove(p)
    BY <1>1 DEF InMove, MovePlaces, At
  <1>3. \A q \in Requests \ {p} : Creating(q) => req[q].card # c
    BY <1>1 DEF IInv, FreshIds
  <1> QED
    BY <1>1, <1>2, <1>3, SpecialRows, WriteFreeRow DEF DeleteRow
-----------------------------------------------------------------------------
LEMMA NextInv == IInv /\ [Next]_vars => IInv'
  <1> SUFFICES ASSUME IInv, [Next]_vars PROVE IInv'
    OBVIOUS
  <1>1. CASE UNCHANGED vars
    BY <1>1 DEF vars, IInv, TypeOK, RequestsAreFormed, NothingLeftBehind, HeldRowsExist,
       FreshSource, FreshIds, KnownIds, Creating, DraftsAreShifts, DraftOf, Shift, InMove, At
  <1>2. ASSUME NEW p \in Requests, Ask(p) PROVE IInv'
    <2>1. CASE AskMove(p) \/ AskCreate(p) \/ AskDelete(p)
      BY <2>1, AskInv
    <2>2. CASE AskNotFound(p)
      <3>1. UNCHANGED vars
        BY <2>2 DEF AskNotFound
      <3> QED
        BY <1>1, <3>1
    <2> QED
      BY <1>2, <2>1, <2>2 DEF Ask
  <1>3. ASSUME NEW p \in Requests, Rollback(p) PROVE IInv'
    BY <1>3, RollbackInv
  <1>4. ASSUME NEW p \in Requests, MoveStep(p) PROVE IInv'
    <2>1. CASE ColumnUnknown(p) \/ GapOverflow(p)
      BY <1>3, <2>1 DEF ColumnUnknown, GapOverflow
    <2>2. CASE StartTakeOut(p) \/ StartGap(p) \/ TouchBoard(p)
      BY <2>2, BetweenInv
    <2> QED
      BY <1>4, <2>1, <2>2, SelectInv, TakeOutRowInv, GapRowInv, PlaceInv, CommitInv
      DEF MoveStep
  <1>5. ASSUME NEW p \in Requests, NextPosOverflow(p) PROVE IInv'
    <2>1. At(p, "nextpos") /\ Answer(p) /\ UNCHANGED <<cards, draft, lock>>
      BY <1>5 DEF NextPosOverflow
    <2>2. \A x \in Cards : lock[x] # p
      BY <2>1, StoreConstants DEF IInv, NothingLeftBehind, InMove, MovePlaces, At
    <2>3. TypeOK' /\ FreshIds'
      BY <2>1, AnswerFacts DEF IInv, TypeOK, FreshIds, Creating
    <2> QED
      BY <2>1, <2>2, <2>3, AnswerFacts, StepInv DEF IInv, NothingLeftBehind
  <1>6. ASSUME NEW p \in Requests, Step(p) PROVE IInv'
    BY <1>4, <1>5, <1>6, ReadInv, InsertInv, DeleteRowInv DEF Step
  <1> QED
    BY <1>1, <1>2, <1>3, <1>6 DEF Next, Cancel, DeadlockVictim

\* The inductive invariant holds in every state, whatever runs at the same time.
THEOREM InvariantAlways == Spec => []IInv
  BY InitInv, NextInv, PTL DEF Spec

\* Every variable keeps its type: no statement of MoveCard writes a position that
\* is out of int4's range, or a column that does not exist.
THEOREM TypeCorrect == Spec => []TypeOK
  <1>1. IInv => TypeOK
    BY DEF IInv
  <1> QED
    BY <1>1, InvariantAlways, PTL

\* The column and position MoveCard reads in its first statement are still the
\* card's when it commits.
THEOREM SourceStaysFresh == Spec => []FreshSource
  <1>1. IInv => FreshSource
    BY DEF IInv
  <1> QED
    BY <1>1, InvariantAlways, PTL

\* Whichever way a request ends, it leaves no row held and no uncommitted row.
THEOREM NothingStaysBehind == Spec => []NothingLeftBehind
  <1>1. IInv => NothingLeftBehind
    BY DEF IInv
  <1> QED
    BY <1>1, InvariantAlways, PTL
-----------------------------------------------------------------------------
\* The committed rows change in three actions only.
LEMMA TableWriters ==
  ASSUME IInv, Next, cards' # cards
  PROVE  \E p \in Requests : Commit(p) \/ Insert(p) \/ DeleteRow(p)
  BY DEF Next, Ask, AskMove, AskCreate, AskDelete, AskNotFound, vars, Step, MoveStep,
     SelectForUpdate, ColumnUnknown, StartTakeOut, TakeOutRow, StartGap, GapRow, GapOverflow,
     Visit, Place, TouchBoard, ReadNextPos, NextPosOverflow, Cancel, DeadlockVictim, Rollback

\* A row that a commit changes was held, and its draft is the destination or the
\* committed row shifted by one.
LEMMA CommitShifts ==
  ASSUME IInv, NEW p \in Requests, Commit(p), NEW x \in Cards, cards'[x] # cards[x]
  PROVE  /\ lock[x] = p /\ Exists(cards[x])
         /\ x = req[p].card => cards'[x] = req[p].to
         /\ x # req[p].card => /\ cards'[x].col = cards[x].col
                               /\ cards'[x].pos - cards[x].pos \in {-1, 1}
  <1>1. At(p, "commit") /\ cards'[x] = IF lock[x] = p THEN draft[x] ELSE cards[x]
    BY DEF Commit, View
  <1>2. lock[x] = p /\ cards'[x] = draft[x] /\ draft[x] # cards[x]
    BY <1>1
  <1>3. DraftOf(x, p) /\ Exists(cards[x])
    BY <1>2, StoreConstants DEF IInv, DraftsAreShifts, HeldRowsExist
  <1>4. CASE x = req[p].card
    BY <1>1, <1>2, <1>3, <1>4 DEF DraftOf, At
  <1>5. CASE x # req[p].card
    <2>1. draft[x].col = cards[x].col /\ draft[x].pos - cards[x].pos \in -1 .. 1
      BY <1>3, <1>5 DEF DraftOf, Shift
    <2>2. draft[x] \in Row /\ cards[x] \in Row
      BY DEF IInv, TypeOK
    <2>3. draft[x].pos \in Int /\ cards[x].pos \in Int
      BY <2>2, PosInt
    <2>4. draft[x].pos # cards[x].pos
      BY <1>2, <2>1, <2>2, RowEqual
    <2> QED
      BY <1>2, <1>3, <1>5, <2>1, <2>3, <2>4
  <1> QED
    BY <1>2, <1>3, <1>4, <1>5

\* A change of the table is one request's: its own card goes where it was asked to
\* or is deleted, and any other card is one the move held and shifts by one place.
THEOREM OnlyNeighboursMove == Spec => OnlyNeighboursShift
  <1> DEFINE Change ==
        \E p \in Requests : \A x \in Cards : cards'[x] # cards[x] =>
          IF x = req[p].card
            THEN cards'[x] \in {req[p].to, GoneRow}
            ELSE /\ lock[x] = p
                 /\ cards'[x].col = cards[x].col
                 /\ cards'[x].pos - cards[x].pos \in {-1, 1}
  <1>1. ASSUME IInv, Next, cards' # cards PROVE Change
    <2>1. PICK p \in Requests : Commit(p) \/ Insert(p) \/ DeleteRow(p)
      BY <1>1, TableWriters
    <2>2. CASE Commit(p)
      BY <1>1, <2>2, CommitShifts
    <2>3. CASE Insert(p) \/ DeleteRow(p)
      BY <1>1, <2>3 DEF Insert, DeleteRow, IInv, TypeOK
    <2> QED
      BY <2>1, <2>2, <2>3
  <1>2. ASSUME IInv, Next, cards' = cards, vars' # vars PROVE Change
    BY <1>2 DEF Next
  <1>3. IInv /\ [Next]_vars => [Change]_vars
    BY <1>1, <1>2 DEF vars
  <1> QED
    BY <1>3, InvariantAlways, PTL DEF Spec, OnlyNeighboursShift

\* A card deleted while a move shifts its neighbours does not come back when the
\* move commits.
THEOREM DeletedForEver == Spec => DeletedStaysDeleted
  <1> DEFINE Dead == \A x \in Cards : cards[x] = GoneRow => cards'[x] = GoneRow
  <1>1. ASSUME IInv, Next PROVE Dead
    <2>1. CASE cards' = cards
      BY <2>1
    <2>2. CASE cards' # cards
      <3>1. PICK p \in Requests : Commit(p) \/ Insert(p) \/ DeleteRow(p)
        BY <1>1, <2>2, TableWriters
      <3>2. CASE Commit(p)
        BY <1>1, <3>2, CommitShifts, SpecialRows
      <3>3. CASE Insert(p)
        <4>1. cards[req[p].card] = UnbornRow /\ req[p].card \in Cards
          BY <1>1, <3>3 DEF Insert, IInv, FreshIds, Creating, RequestsAreFormed, At
        <4> QED
          BY <1>1, <3>3, <4>1, SpecialRows DEF Insert, IInv, TypeOK
      <3>4. CASE DeleteRow(p)
        BY <1>1, <3>4 DEF DeleteRow, IInv, TypeOK
      <3> QED
        BY <3>1, <3>2, <3>3, <3>4
    <2> QED
      BY <2>1, <2>2
  <1>2. IInv /\ [Next]_vars => [Dead]_vars
    BY <1>1
  <1> QED
    BY <1>2, InvariantAlways, PTL DEF Spec, DeletedStaysDeleted
-----------------------------------------------------------------------------
\* Step 1 lowers a row only if it is still after the source when it is written;
\* that is why a position never goes below 0.
LEMMA NonNegativeInit == Init => NoNegativeSources
  <1> SUFFICES ASSUME Init PROVE NoNegativeSources
    OBVIOUS
  <1>1. \A p \in Requests : req[p] = Idle
    BY DEF Init
  <1>2. Idle.from.pos = 0 /\ Idle.to.pos = 0
    BY DEF Idle, UnbornRow
  <1>3. draft = cards /\ cards \in Arrangements
    BY DEF Init
  <1>4. ASSUME NEW x \in Cards PROVE cards[x].pos >= 0
    <2>1. Exists(cards[x]) => cards[x].pos >= 0
      BY <1>3, <1>4 DEF Arrangements, Dense
    <2>2. Exists(cards[x]) \/ cards[x] = UnbornRow
      BY <1>3, <1>4 DEF Arrangements
    <2> QED
      BY <2>1, <2>2 DEF UnbornRow
  <1> QED
    BY <1>1, <1>2, <1>3, <1>4 DEF NoNegativeSources

LEMMA NonNegativeVisit ==
  ASSUME IInv, NoNegativeSources, NEW p \in Requests, InMove(p), NEW x \in req[p].todo,
         NEW matches \in BOOLEAN, NEW new,
         matches => new.pos >= 0,
         Visit(p, x, matches, new)
  PROVE  NoNegativeSources'
  <1>1. req[p] \in Request /\ x \in Cards
    BY DEF IInv, TypeOK, Request
  <1>2. View(p)[x].pos >= 0
    BY <1>1 DEF View, NoNegativeSources
  <1>3. \A y \in Cards : draft'[y].pos >= 0
    BY <1>1, <1>2 DEF Visit, IInv, TypeOK, NoNegativeSources
  <1>4. \A q \in Requests : req'[q].from = req[q].from /\ req'[q].to = req[q].to
    BY <1>1 DEF Visit, IInv, TypeOK, Request
  <1> QED
    BY <1>3, <1>4 DEF Visit, NoNegativeSources

LEMMA NonNegativeAnswer ==
  ASSUME IInv, NoNegativeSources, NEW p \in Requests, Answer(p)
  PROVE  \A q \in Requests : req'[q].from.pos >= 0 /\ req'[q].to.pos >= 0
  <1>1. Idle.from.pos = 0 /\ Idle.to.pos = 0
    BY DEF Idle, UnbornRow
  <1> QED
    BY <1>1, AnswerFacts DEF NoNegativeSources

LEMMA NonNegativeNext ==
  ASSUME DestPositions \subseteq Nat, IInv, NoNegativeSources, [Next]_vars
  PROVE  NoNegativeSources'
  <1> USE DEF NoNegativeSources
  <1>1. CASE UNCHANGED vars
    BY <1>1 DEF vars
  <1>2. ASSUME NEW p \in Requests, Ask(p) PROVE NoNegativeSources'
    <2>0. Idle.from.pos = 0 /\ Idle.to.pos = 0
      BY DEF Idle, UnbornRow
    <2>1. CASE AskMove(p)
      <3>1. PICK c \in Cards, to \in Targets :
              req' = [req EXCEPT ![p] = [Idle EXCEPT !.at = "select", !.card = c, !.to = to]]
        BY <2>1 DEF AskMove
      <3>2. to.pos \in Nat
        BY DEF Targets
      <3>3. \A q \in Requests : /\ req'[q].from \in {req[q].from, Idle.from}
                                /\ req'[q].to \in {req[q].to, to}
        BY <3>1 DEF IInv, TypeOK, Idle
      <3>4. UNCHANGED <<cards, draft>>
        BY <2>1 DEF AskMove
      <3> QED
        BY <2>0, <3>2, <3>3, <3>4
    <2>2. CASE AskCreate(p)
      BY <2>0, <2>2 DEF AskCreate, IInv, TypeOK, Idle
    <2>3. CASE AskDelete(p)
      BY <2>0, <2>3 DEF AskDelete, IInv, TypeOK, Idle
    <2>4. CASE AskNotFound(p)
      BY <2>4 DEF AskNotFound, vars
    <2> QED
      BY <1>2, <2>1, <2>2, <2>3, <2>4 DEF Ask
  <1>3. ASSUME NEW p \in Requests, Rollback(p) PROVE NoNegativeSources'
    BY <1>3, NonNegativeAnswer DEF Rollback
  <1>4. ASSUME NEW p \in Requests, MoveStep(p) PROVE NoNegativeSources'
    <2>0. req[p] \in Request
      BY DEF IInv, TypeOK
    <2>1. CASE SelectForUpdate(p)
      <3>1. CASE Exists(cards[req[p].card])
        <4>1. req[p].card \in Cards
          BY <2>1 DEF SelectForUpdate, IInv, RequestsAreFormed, At
        <4>2. \A q \in Requests : /\ req'[q].from.pos \in {req[q].from.pos, cards[req[p].card].pos}
                                  /\ req'[q].to = req[q].to
          BY <2>0, <2>1, <3>1 DEF SelectForUpdate, IInv, TypeOK, Request
        <4> QED
          BY <2>1, <4>1, <4>2 DEF SelectForUpdate
      <3>2. CASE ~Exists(cards[req[p].card])
        BY <2>1, <3>2, NonNegativeAnswer DEF SelectForUpdate
      <3> QED
        BY <3>1, <3>2
    <2>2. CASE ColumnUnknown(p) \/ GapOverflow(p)
      BY <1>3, <2>2 DEF ColumnUnknown, GapOverflow
    <2>3. CASE StartTakeOut(p) \/ StartGap(p) \/ TouchBoard(p)
      <3>1. UNCHANGED <<cards, draft>>
        BY <2>3 DEF StartTakeOut, StartGap, TouchBoard
      <3>2. req \in [Requests -> Request]
        BY DEF IInv, TypeOK
      <3>3. \E at, todo : req' = [req EXCEPT ![p].at = at, ![p].todo = todo]
                        \/ req' = [req EXCEPT ![p].at = at]
        BY <2>3 DEF StartTakeOut, StartGap, TouchBoard
      <3>4. \A q \in Requests : req'[q].from = req[q].from /\ req'[q].to = req[q].to
        BY <3>2, <3>3 DEF Request
      <3> QED
        BY <3>1, <3>4
    <2>4. CASE TakeOutRow(p)
      <3>1. PICK x \in req[p].todo :
              Visit(p, x, AfterSource(View(p)[x], req[p].from), Lowered(View(p)[x]))
        BY <2>4 DEF TakeOutRow
      <3> DEFINE r == View(p)[x]
                 matches == AfterSource(r, req[p].from)
      <3>2. x \in Cards /\ req[p].from \in Row /\ InMove(p)
        BY <2>0, <2>4 DEF Request, TakeOutRow, InMove, MovePlaces, At
      <3>3. r \in Row
        BY <3>2, ViewFacts
      <3>4. matches => Lowered(r).pos >= 0
        <4>1. r.pos \in Int /\ req[p].from.pos \in Int
          BY <3>2, <3>3, PosInt
        <4>2. ASSUME matches PROVE r.pos > req[p].from.pos
          BY <4>2 DEF AfterSource
        <4> HIDE DEF r
        <4>3. matches => Lowered(r).pos = r.pos - 1
          BY <3>2, <3>3, LoweredRow
        <4> HIDE DEF matches
        <4> QED
          BY <4>1, <4>2, <4>3
      <3>5. matches \in BOOLEAN
        BY DEF AfterSource
      <3> HIDE DEF matches
      <3>6. Visit(p, x, matches, Lowered(r))
        BY <3>1 DEF matches
      <3> QED
        BY <3>2, <3>4, <3>5, <3>6, NonNegativeVisit
    <2>5. CASE GapRow(p)
      <3>1. PICK x \in req[p].todo :
              /\ FromGap(View(p)[x], req[p].to) => ~RaiseOverflows(View(p)[x])
              /\ Visit(p, x, FromGap(View(p)[x], req[p].to), Raised(View(p)[x]))
        BY <2>5 DEF GapRow
      <3> DEFINE r == View(p)[x]
                 matches == FromGap(r, req[p].to)
      <3>2. x \in Cards /\ InMove(p)
        BY <2>0, <2>5 DEF Request, GapRow, InMove, MovePlaces, At
      <3>3. r \in Row /\ r.pos >= 0
        BY <3>2, ViewFacts
      <3>4. matches => Raised(r).pos >= 0
        <4>1. r.pos \in Int
          BY <3>3, PosInt
        <4> HIDE DEF r
        <4>2. matches => Raised(r).pos = r.pos + 1
          BY <3>1, <3>3, RaisedRow DEF r
        <4> HIDE DEF matches
        <4> QED
          BY <3>3, <4>1, <4>2
      <3>5. matches \in BOOLEAN
        BY DEF FromGap
      <3> HIDE DEF matches
      <3>6. Visit(p, x, matches, Raised(r))
        BY <3>1 DEF matches
      <3> QED
        BY <3>2, <3>4, <3>5, <3>6, NonNegativeVisit
    <2>6. CASE Place(p)
      <3>1. \A q \in Requests : req'[q].from = req[q].from /\ req'[q].to = req[q].to
        BY <2>0, <2>6 DEF Place, IInv, TypeOK, Request
      <3>2. \A x \in Cards : draft'[x].pos >= 0
        BY <2>6 DEF Place, IInv, TypeOK
      <3> QED
        BY <2>6, <3>1, <3>2 DEF Place
    <2>7. CASE Commit(p)
      <3>1. \A x \in Cards : cards'[x].pos >= 0
        BY <2>7 DEF Commit, View
      <3> QED
        BY <2>7, <3>1, NonNegativeAnswer DEF Commit
    <2> QED
      BY <1>4, <2>1, <2>2, <2>3, <2>4, <2>5, <2>6, <2>7 DEF MoveStep
  <1>5. ASSUME NEW p \in Requests, ReadNextPos(p) PROVE NoNegativeSources'
    <2>1. PICK pos \in Int4 :
            /\ IsNextPos(cards, req[p].to.col, pos)
            /\ req' = [req EXCEPT ![p].at = "insert", ![p].to.pos = pos]
      BY <1>5 DEF ReadNextPos
    <2>2. pos >= 0
      <3>1. CASE pos = 0
        BY <3>1
      <3>2. CASE \E x \in Cards : pos = cards[x].pos + 1
        <4>1. PICK x \in Cards : pos = cards[x].pos + 1
          BY <3>2
        <4>2. cards[x].pos \in Int /\ cards[x].pos >= 0
          BY PosInt DEF IInv, TypeOK
        <4> QED
          BY <4>1, <4>2
      <3> QED
        BY <2>1, <3>1, <3>2 DEF IsNextPos
    <2>3. req[p] \in Request
      BY DEF IInv, TypeOK
    <2>4. \A q \in Requests : /\ req'[q].from = req[q].from
                              /\ req'[q].to.pos \in {req[q].to.pos, pos}
      BY <2>1, <2>3 DEF IInv, TypeOK, Request
    <2>5. UNCHANGED <<cards, draft>>
      BY <1>5 DEF ReadNextPos
    <2> QED
      BY <2>2, <2>4, <2>5
  <1>6. ASSUME NEW p \in Requests, NextPosOverflow(p) PROVE NoNegativeSources'
    BY <1>6, NonNegativeAnswer DEF NextPosOverflow
  <1>7. ASSUME NEW p \in Requests, Insert(p) \/ DeleteRow(p) PROVE NoNegativeSources'
    <2>1. Answer(p)
      BY <1>7 DEF Insert, DeleteRow
    <2>2. PICK row \in {req[p].to, GoneRow} :
            /\ cards' = [cards EXCEPT ![req[p].card] = row]
            /\ draft' = [draft EXCEPT ![req[p].card] = row]
      BY <1>7 DEF Insert, DeleteRow
    <2>3. row.pos >= 0
      BY DEF GoneRow
    <2> QED
      BY <2>1, <2>2, <2>3, NonNegativeAnswer DEF IInv, TypeOK
  <1> QED
    BY <1>1, <1>2, <1>3, <1>4, <1>5, <1>6, <1>7 DEF Next, Step, Cancel, DeadlockVictim

\* Positions never go below 0 as long as no move asks for a negative one: a row that
\* left the source column while step 1 waited for it is not lowered.
THEOREM PositionsStayNonNegative ==
  ASSUME DestPositions \subseteq Nat
  PROVE  Spec => []NoNegativePositions
  <1>1. IInv /\ NoNegativeSources /\ [Next]_vars => NoNegativeSources'
    BY NonNegativeNext
  <1>2. NoNegativeSources => NoNegativePositions
    BY DEF NoNegativeSources, NoNegativePositions
  <1> QED
    BY <1>1, <1>2, NonNegativeInit, InvariantAlways, PTL DEF Spec
-----------------------------------------------------------------------------
(***************************************************************************)
(* A request that has the table to itself                                  *)
(***************************************************************************)
\* Nobody else holds a row, so it sees what it wrote and what is committed.
LEMMA AloneFacts ==
  ASSUME AloneIInv, NEW p \in alone
  PROVE  /\ p \in Requests /\ IInv /\ DoneSoFar(p) /\ ~At(p, "idle")
         /\ \A q \in Requests \ {p} : At(q, "idle")
         /\ \A x \in Cards : lock[x] \in {p, NoTx}
  <1>1. /\ p \in Requests /\ IInv /\ DoneSoFar(p) /\ ~At(p, "idle")
        /\ \A q \in Requests \ {p} : At(q, "idle")
    BY DEF AloneIInv
  <1>2. ASSUME NEW x \in Cards, lock[x] # NoTx PROVE lock[x] = p
    <2>1. lock[x] \in Requests /\ InMove(lock[x])
      BY <1>1, <1>2 DEF IInv, TypeOK, NothingLeftBehind
    <2> QED
      BY <1>1, <2>1 DEF InMove, MovePlaces, At
  <1> QED
    BY <1>1, <1>2

\* A row it visits becomes what its UPDATE makes of it, and no other one changes.
LEMMA AloneVisit ==
  ASSUME AloneIInv, NEW p \in alone, InMove(p), NEW x \in req[p].todo,
         Exists(View(p)[x]), NEW matches, matches = TRUE, NEW new, Visit(p, x, matches, new)
  PROVE  /\ UNCHANGED cards /\ (View(p)[x])' = new
         /\ \A y \in Cards \ {x} : (View(p)[y])' = View(p)[y]
         /\ req'[p].at = req[p].at /\ req'[p].todo = req[p].todo \ {x}
         /\ req'[p].from = req[p].from /\ req'[p].to = req[p].to
  <1>1. p \in Requests /\ IInv /\ x \in Cards
    BY AloneFacts DEF IInv, TypeOK, Request
  <1>2. /\ req' = [req EXCEPT ![p].todo = @ \ {x}] /\ UNCHANGED cards
        /\ lock' = [lock EXCEPT ![x] = p] /\ draft' = [draft EXCEPT ![x] = new]
    BY DEF Visit
  <1>3. /\ req'[p].at = req[p].at /\ req'[p].todo = req[p].todo \ {x}
        /\ req'[p].from = req[p].from /\ req'[p].to = req[p].to
    BY <1>1, <1>2 DEF IInv, TypeOK, Request
  <1>4. \A y \in Cards \ {x} : (View(p)[y])' = View(p)[y]
    <2>1. \A y \in Cards \ {x} : lock'[y] = lock[y] /\ draft'[y] = draft[y] /\ cards'[y] = cards[y]
      BY <1>1, <1>2 DEF IInv, TypeOK
    <2> QED
      BY <2>1 DEF View
  <1>5. (View(p)[x])' = new
    <2>1. lock'[x] = p /\ draft'[x] = new
      BY <1>1, <1>2 DEF IInv, TypeOK
    <2> QED
      BY <1>1, <2>1 DEF View
  <1> QED
    BY <1>2, <1>3, <1>4, <1>5

\* Step 1, one row at a time, amounts to TakeOut.
LEMMA AloneTakesOut ==
  ASSUME AloneIInv, NEW p \in alone, StartTakeOut(p) \/ TakeOutRow(p)
  PROVE  DoneSoFar(p)'
  <1>1. p \in Requests /\ IInv /\ DoneSoFar(p)
    BY AloneFacts
  <1>2. CASE StartTakeOut(p)
    <2> DEFINE todo == {x \in Cards : AfterSource(View(p)[x], req[p].from)}
    <2>1. /\ req' = [req EXCEPT ![p].at = "takeout", ![p].todo = todo]
          /\ UNCHANGED <<cards, draft, lock>> /\ At(p, "selected")
      BY <1>2 DEF StartTakeOut
    <2>2. /\ req'[p].at = "takeout" /\ req'[p].from = req[p].from /\ req'[p].to = req[p].to
          /\ req'[p].todo = todo
      <3> HIDE DEF todo
      <3> QED
        BY <1>1, <2>1 DEF IInv, TypeOK, Request
    <2>3. ASSUME NEW x \in Cards PROVE View(p)[x] = cards[x]
      <3>1. CASE lock[x] = p
        <4>1. draft[x].col = cards[x].col /\ draft[x].pos - cards[x].pos = 0
          BY <1>1, <2>1, <3>1 DEF IInv, DraftsAreShifts, DraftOf, Shift, At
        <4>2. draft[x] \in Row /\ cards[x] \in Row
          BY <1>1 DEF IInv, TypeOK
        <4>3. draft[x] = cards[x]
          BY <4>1, <4>2, PosInt, RowEqual
        <4> QED
          BY <3>1, <4>3 DEF View
      <3>2. CASE lock[x] # p
        BY <3>2 DEF View
      <3> QED
        BY <3>1, <3>2
    <2>4. \A x \in Cards : (View(p)[x])' = cards[x]
      BY <2>1, <2>3 DEF View
    <2>5. req[p].to.pos \in DestPositions
      BY <1>1, <2>1 DEF DoneSoFar, InMove, MovePlaces, At
    <2> QED
      BY <2>1, <2>2, <2>3, <2>4, <2>5 DEF DoneSoFar, At, TakeOut
  <1>3. CASE TakeOutRow(p)
    <2>1. PICK x \in req[p].todo :
            Visit(p, x, AfterSource(View(p)[x], req[p].from), Lowered(View(p)[x]))
      BY <1>3 DEF TakeOutRow
    <2>2. At(p, "takeout") /\ InMove(p) /\ x \in Cards
      BY <1>1, <1>3 DEF TakeOutRow, InMove, MovePlaces, At, IInv, TypeOK, Request
    <2>3. View(p)[x] = cards[x] /\ AfterSource(cards[x], req[p].from)
      BY <1>1, <2>2 DEF DoneSoFar
    <2>4. Exists(cards[x])
      <3>1. /\ lock[req[p].card] = p /\ cards[req[p].card] = req[p].from
            /\ req[p].card \in Cards
        BY <1>1, <2>2 DEF IInv, FreshSource, RequestsAreFormed, InMove, MovePlaces, At
      <3>2. Exists(req[p].from)
        BY <1>1, <3>1, StoreConstants DEF IInv, HeldRowsExist
      <3> QED
        BY <2>3, <3>2 DEF AfterSource, Exists
    <2> DEFINE matches == AfterSource(View(p)[x], req[p].from)
    <2>5. matches = TRUE /\ Exists(View(p)[x])
      BY <2>3, <2>4 DEF AfterSource
    <2>6. /\ UNCHANGED cards
          /\ (View(p)[x])' = Lowered(cards[x])
          /\ \A y \in Cards \ {x} : (View(p)[y])' = View(p)[y]
          /\ req'[p].at = req[p].at /\ req'[p].todo = req[p].todo \ {x}
          /\ req'[p].from = req[p].from /\ req'[p].to = req[p].to
      <3> HIDE DEF matches
      <3>1. Visit(p, x, matches, Lowered(View(p)[x]))
        BY <2>1 DEF matches
      <3>2. /\ UNCHANGED cards /\ (View(p)[x])' = Lowered(View(p)[x])
            /\ \A y \in Cards \ {x} : (View(p)[y])' = View(p)[y]
            /\ req'[p].at = req[p].at /\ req'[p].todo = req[p].todo \ {x}
            /\ req'[p].from = req[p].from /\ req'[p].to = req[p].to
        BY <2>2, <2>5, <3>1, AloneVisit
      <3> QED
        BY <2>3, <3>2
    <2>7. TakeOut(cards, req[p].from)[x] = Lowered(cards[x])
      BY <2>2, <2>3 DEF TakeOut
    <2>8. ASSUME NEW y \in Cards
          PROVE  IF y \in req'[p].todo
                   THEN (View(p)[y])' = cards[y] /\ AfterSource(cards[y], req[p].from)
                   ELSE (View(p)[y])' = TakeOut(cards, req[p].from)[y]
      <3>1. CASE y = x
        BY <2>6, <2>7, <3>1
      <3>2. CASE y # x
        BY <1>1, <2>2, <2>6, <3>2 DEF DoneSoFar
      <3> QED
        BY <3>1, <3>2
    <2>9. req[p].to.pos \in DestPositions
      BY <1>1, <2>2 DEF DoneSoFar
    <2> QED
      BY <2>2, <2>6, <2>8, <2>9 DEF DoneSoFar, At
  <1> QED
    BY <1>2, <1>3

\* Step 2 amounts to MakeGap of that, and no position leaves int4.
LEMMA AloneMakesGap ==
  ASSUME AloneIInv, NEW p \in alone, StartGap(p) \/ GapRow(p)
  PROVE  DoneSoFar(p)'
  <1>1. p \in Requests /\ IInv /\ DoneSoFar(p)
    BY AloneFacts
  <1> DEFINE taken == TakeOut(cards, req[p].from)
             made == MakeGap(taken, req[p].to)
  <1>2. CASE StartGap(p)
    <2> DEFINE todo == {x \in Cards : FromGap(View(p)[x], req[p].to)}
    <2>1. /\ req' = [req EXCEPT ![p].at = "gap", ![p].todo = todo]
          /\ UNCHANGED <<cards, draft, lock>> /\ At(p, "takeout") /\ req[p].todo = {}
      BY <1>2 DEF StartGap
    <2>2. /\ req'[p].at = "gap" /\ req'[p].from = req[p].from /\ req'[p].to = req[p].to
          /\ req'[p].todo = todo
      <3> HIDE DEF todo
      <3> QED
        BY <1>1, <2>1 DEF IInv, TypeOK, Request
    <2>3. \A x \in Cards : View(p)[x] = taken[x]
      BY <1>1, <2>1 DEF DoneSoFar
    <2>4. \A x \in Cards : (View(p)[x])' = taken[x]
      BY <2>1, <2>3 DEF View
    <2>5. req[p].to.pos \in DestPositions
      BY <1>1, <2>1 DEF DoneSoFar, InMove, MovePlaces, At
    <2>6. \A x \in Cards : made[x] = IF FromGap(taken[x], req[p].to) THEN Raised(taken[x]) ELSE taken[x]
      BY DEF MakeGap
    <2> HIDE DEF taken, made
    <2>7. \A x \in Cards :
           IF x \in req'[p].todo
             THEN (View(p)[x])' = taken[x] /\ FromGap(taken[x], req[p].to)
             ELSE /\ (View(p)[x])' = made[x]
                  /\ FromGap(taken[x], req[p].to) => ~RaiseOverflows(taken[x])
      BY <2>2, <2>3, <2>4, <2>6
    <2> QED
      BY <2>1, <2>2, <2>5, <2>7 DEF DoneSoFar, At, taken, made
  <1>3. CASE GapRow(p)
    <2>1. PICK x \in req[p].todo :
            /\ FromGap(View(p)[x], req[p].to) => ~RaiseOverflows(View(p)[x])
            /\ Visit(p, x, FromGap(View(p)[x], req[p].to), Raised(View(p)[x]))
      BY <1>3 DEF GapRow
    <2>2. At(p, "gap") /\ InMove(p) /\ x \in Cards /\ req[p].to.col \in Columns
      BY <1>1, <1>3
      DEF GapRow, InMove, MovePlaces, Places, At, IInv, TypeOK, Request, RequestsAreFormed
    <2>3. View(p)[x] = taken[x] /\ FromGap(taken[x], req[p].to)
      BY <1>1, <2>2 DEF DoneSoFar
    <2>4. made[x] = Raised(taken[x])
      BY <2>2, <2>3 DEF MakeGap
    <2> HIDE DEF taken, made
    <2>5. Exists(taken[x])
      BY <2>2, <2>3 DEF FromGap, Exists
    <2> DEFINE matches == FromGap(View(p)[x], req[p].to)
    <2>6. /\ matches = TRUE /\ Exists(View(p)[x])
          /\ FromGap(taken[x], req[p].to) => ~RaiseOverflows(taken[x])
      BY <2>1, <2>3, <2>5 DEF FromGap
    <2>7. /\ UNCHANGED cards
          /\ (View(p)[x])' = Raised(taken[x])
          /\ \A y \in Cards \ {x} : (View(p)[y])' = View(p)[y]
          /\ req'[p].at = req[p].at /\ req'[p].todo = req[p].todo \ {x}
          /\ req'[p].from = req[p].from /\ req'[p].to = req[p].to
      <3> HIDE DEF matches
      <3>1. Visit(p, x, matches, Raised(View(p)[x]))
        BY <2>1 DEF matches
      <3>2. /\ UNCHANGED cards /\ (View(p)[x])' = Raised(View(p)[x])
            /\ \A y \in Cards \ {x} : (View(p)[y])' = View(p)[y]
            /\ req'[p].at = req[p].at /\ req'[p].todo = req[p].todo \ {x}
            /\ req'[p].from = req[p].from /\ req'[p].to = req[p].to
        BY <2>2, <2>6, <3>1, AloneVisit
      <3> QED
        BY <2>3, <3>2
    <2>8. ASSUME NEW y \in Cards
          PROVE  IF y \in req'[p].todo
                   THEN (View(p)[y])' = taken[y] /\ FromGap(taken[y], req[p].to)
                   ELSE /\ (View(p)[y])' = made[y]
                        /\ FromGap(taken[y], req[p].to) => ~RaiseOverflows(taken[y])
      <3>1. CASE y = x
        BY <2>4, <2>6, <2>7, <3>1
      <3>2. CASE y # x
        <4>1. IF y \in req[p].todo
                THEN View(p)[y] = taken[y] /\ FromGap(taken[y], req[p].to)
                ELSE View(p)[y] = made[y] /\ (FromGap(taken[y], req[p].to) => ~RaiseOverflows(taken[y]))
          BY <1>1, <2>2 DEF DoneSoFar, taken, made
        <4> QED
          BY <2>7, <3>2, <4>1
      <3> QED
        BY <3>1, <3>2
    <2>9. req[p].to.pos \in DestPositions
      BY <1>1, <2>2 DEF DoneSoFar
    <2> QED
      BY <2>2, <2>7, <2>8, <2>9 DEF DoneSoFar, At, taken, made
  <1> QED
    BY <1>2, <1>3

LEMMA OneChanged ==
  ASSUME NEW S, NEW f, f = [x \in S |-> f[x]], NEW c, NEW v
  PROVE  [f EXCEPT ![c] = v] = [x \in S |-> IF x = c THEN v ELSE f[x]]
  <1>1. DOMAIN f = S
    OBVIOUS
  <1>2. [f EXCEPT ![c] = v] = [x \in DOMAIN f |-> IF x = c THEN v ELSE f[x]]
    OBVIOUS
  <1> QED
    BY <1>1, <1>2

\* Step 3 is the rest of Moved.
LEMMA AlonePlaces ==
  ASSUME AloneIInv, NEW p \in alone, Place(p)
  PROVE  DoneSoFar(p)'
  <1> DEFINE c == req[p].card
             to == req[p].to
             taken == TakeOut(cards, req[p].from)
             made == MakeGap(taken, to)
  <1>1. /\ p \in Requests /\ IInv /\ DoneSoFar(p)
        /\ At(p, "gap") /\ req[p].todo = {} /\ InMove(p)
    BY AloneFacts DEF Place, At, InMove, MovePlaces
  <1>2. c \in Cards /\ lock[c] = p /\ cards[c] = req[p].from
    BY <1>1 DEF IInv, RequestsAreFormed, FreshSource, At
  <1>3. /\ draft' = [draft EXCEPT ![c] = to] /\ UNCHANGED <<cards, lock>>
        /\ req'[p].at = "touch" /\ req'[p].card = c /\ req'[p].from = req[p].from
        /\ req'[p].to = to
    BY <1>1 DEF Place, IInv, TypeOK, Request
  <1>4. to.pos \in DestPositions
    BY <1>1 DEF DoneSoFar
  <1>5. made = [x \in Cards |-> made[x]]
    BY DEF MakeGap
  <1>6. Moved(cards, c, to) = [made EXCEPT ![c] = to]
    BY <1>2 DEF Moved
  <1> HIDE DEF made
  <1>7. \A x \in Cards : View(p)[x] = made[x]
    <2> HIDE DEF taken, to
    <2>1. ASSUME NEW x \in Cards
          PROVE  IF x \in req[p].todo
                   THEN View(p)[x] = taken[x] /\ FromGap(taken[x], to)
                   ELSE View(p)[x] = made[x] /\ (FromGap(taken[x], to) => ~RaiseOverflows(taken[x]))
      BY <1>1 DEF DoneSoFar, taken, made, to
    <2>2. \A x \in Cards : x \notin req[p].todo
      BY <1>1
    <2> QED
      BY <2>1, <2>2, Zenon
  <1>8. \A x \in Cards : FromGap(taken[x], to) => ~RaiseOverflows(taken[x])
    <2> HIDE DEF taken
    <2> QED
      BY <1>1 DEF DoneSoFar, taken
  <1>9. MoveFits(cards, c, to)
    BY <1>2, <1>8 DEF MoveFits
  <1>10. View(p)' = Moved(cards, c, to)
    <2>1. View(p)' = [x \in Cards |-> IF lock[x] = p THEN draft'[x] ELSE cards[x]]
      BY <1>3 DEF View
    <2>2. ASSUME NEW x \in Cards
          PROVE  (IF lock[x] = p THEN draft'[x] ELSE cards[x]) = IF x = c THEN to ELSE made[x]
      <3>1. CASE x = c
        BY <1>1, <1>2, <1>3, <3>1 DEF IInv, TypeOK
      <3>2. CASE x # c
        BY <1>1, <1>3, <1>7, <3>2 DEF IInv, TypeOK, View
      <3> QED
        BY <3>1, <3>2
    <2>3. Moved(cards, c, to) = [x \in Cards |-> IF x = c THEN to ELSE made[x]]
      <3> HIDE DEF c, to
      <3>1. [made EXCEPT ![c] = to] = [x \in Cards |-> IF x = c THEN to ELSE made[x]]
        BY <1>5, OneChanged, Zenon
      <3> QED
        BY <1>6, <3>1, Zenon
    <2> QED
      BY <2>1, <2>2, <2>3
  <1> QED
    BY <1>3, <1>4, <1>9, <1>10 DEF DoneSoFar, At

\* Any other step of the request goes on with what it has done, or answers.
LEMMA AloneGoesOn ==
  ASSUME AloneIInv, NEW p \in alone, Step(p), ~At(p, "idle")'
  PROVE  DoneSoFar(p)'
  <1>1. p \in Requests /\ IInv /\ DoneSoFar(p)
    BY AloneFacts
  <1>2. ~Answer(p)
    BY <1>1, AnswerFacts
  <1>3. \/ SelectForUpdate(p) \/ StartTakeOut(p) \/ TakeOutRow(p) \/ StartGap(p) \/ GapRow(p)
        \/ Place(p) \/ TouchBoard(p) \/ ReadNextPos(p)
    BY <1>2
    DEF Step, MoveStep, ColumnUnknown, GapOverflow, Rollback, Commit, NextPosOverflow,
        Insert, DeleteRow
  <1>4. CASE SelectForUpdate(p)
    <2>1. At(p, "select") /\ req'[p].at = "selected" /\ req'[p].to = req[p].to
      BY <1>1, <1>2, <1>4 DEF SelectForUpdate, IInv, TypeOK, Request
    <2> QED
      BY <1>1, <2>1 DEF DoneSoFar, At
  <1>5. CASE TouchBoard(p)
    <2>1. /\ At(p, "touch") /\ UNCHANGED <<cards, draft, lock>>
          /\ req'[p].at = "commit" /\ req'[p].to = req[p].to /\ req'[p].card = req[p].card
      BY <1>1, <1>5 DEF TouchBoard, IInv, TypeOK, Request
    <2>2. View(p)' = View(p)
      BY <2>1 DEF View
    <2> QED
      BY <1>1, <2>1, <2>2 DEF DoneSoFar, At, InMove, MovePlaces
  <1>6. CASE ReadNextPos(p)
    <2>1. PICK pos \in Int4 :
            /\ IsNextPos(cards, req[p].to.col, pos) /\ UNCHANGED cards
            /\ req' = [req EXCEPT ![p].at = "insert", ![p].to.pos = pos]
      BY <1>6 DEF ReadNextPos
    <2>2. req'[p].at = "insert" /\ req'[p].to.col = req[p].to.col /\ req'[p].to.pos = pos
      BY <1>1, <2>1 DEF IInv, TypeOK, Request
    <2> QED
      BY <2>1, <2>2 DEF DoneSoFar, At, InMove, MovePlaces
  <1> QED
    BY <1>3, <1>4, <1>5, <1>6, AloneTakesOut, AloneMakesGap, AlonePlaces

\* A request is alone from the moment it is asked.
LEMMA AloneStarts ==
  ASSUME IInv, NEW p \in Requests, At(p, "idle"), Ask(p), ~At(p, "idle")'
  PROVE  DoneSoFar(p)'
  <1>1. CASE AskMove(p)
    <2>1. req'[p].at = "select" /\ req'[p].to.pos \in DestPositions
      BY <1>1 DEF AskMove, IInv, TypeOK, Idle, Targets
    <2> QED
      BY <2>1 DEF DoneSoFar, At, InMove, MovePlaces
  <1>2. CASE AskCreate(p)
    <2>1. req'[p].at = "nextpos"
      BY <1>2 DEF AskCreate, IInv, TypeOK, Idle
    <2> QED
      BY <2>1 DEF DoneSoFar, At, InMove, MovePlaces
  <1>3. CASE AskDelete(p)
    <2>1. req'[p].at = "delete" /\ Exists(cards[req'[p].card]) /\ UNCHANGED cards
      BY <1>3 DEF AskDelete, IInv, TypeOK, Idle
    <2> QED
      BY <2>1 DEF DoneSoFar, At, InMove, MovePlaces
  <1>4. ~AskNotFound(p)
    BY DEF AskNotFound, vars, At
  <1> QED
    BY <1>1, <1>2, <1>3, <1>4 DEF Ask

\* A step changes the record of one request.
LEMMA OneRequestSteps ==
  ASSUME IInv, NEW p \in Requests, Ask(p) \/ Step(p) \/ Cancel(p) \/ DeadlockVictim(p),
         NEW q \in Requests \ {p}
  PROVE  req'[q] = req[q]
  <1> USE DEF IInv, TypeOK
  <1>1. CASE Ask(p)
    <2>1. CASE AskMove(p)
      BY <2>1 DEF AskMove
    <2>2. CASE AskCreate(p)
      BY <2>2 DEF AskCreate
    <2>3. CASE AskDelete(p)
      BY <2>3 DEF AskDelete
    <2>4. CASE AskNotFound(p)
      BY <2>4 DEF AskNotFound, vars
    <2> QED
      BY <1>1, <2>1, <2>2, <2>3, <2>4 DEF Ask
  <1>2. CASE Answer(p)
    BY <1>2 DEF Answer
  <1>3. CASE SelectForUpdate(p) \/ StartTakeOut(p) \/ StartGap(p) \/ Place(p) \/ TouchBoard(p)
    BY <1>2, <1>3 DEF SelectForUpdate, StartTakeOut, StartGap, Place, TouchBoard
  <1>4. CASE TakeOutRow(p) \/ GapRow(p) \/ ReadNextPos(p)
    BY <1>4 DEF TakeOutRow, GapRow, Visit, ReadNextPos
  <1> QED
    BY <1>1, <1>2, <1>3, <1>4
    DEF Step, MoveStep, ColumnUnknown, GapOverflow, Commit, NextPosOverflow, Insert, DeleteRow,
        Cancel, DeadlockVictim, Rollback

LEMMA AloneNextInv == AloneIInv /\ [AloneNext]_aloneVars => AloneIInv'
  <1> SUFFICES ASSUME AloneIInv, [AloneNext]_aloneVars PROVE AloneIInv'
    OBVIOUS
  <1>1. IInv /\ IInv'
    BY NextInv DEF AloneIInv, AloneNext, aloneVars
  <1>2. CASE UNCHANGED aloneVars
    <2>1. UNCHANGED <<cards, draft, lock, req, alone>>
      BY <1>2 DEF aloneVars, vars
    <2>2. ASSUME NEW p \in Requests, DoneSoFar(p) PROVE DoneSoFar(p)'
      BY <2>1, <2>2 DEF DoneSoFar, At, InMove, View
    <2> QED
      BY <1>1, <2>1, <2>2 DEF AloneIInv, At
  <1>3. CASE AloneNext
    <2>1. ASSUME NEW p \in alone'
          PROVE  /\ p \in Requests /\ ~At(p, "idle")'
                 /\ (At(p, "idle") \/ p \in alone)
                 /\ \A q \in Requests \ {p} : At(q, "idle")'
      BY <1>3, <2>1 DEF AloneNext
    <2>2. PICK p \in Requests : Ask(p) \/ Step(p) \/ Cancel(p) \/ DeadlockVictim(p)
      BY <1>3 DEF AloneNext, Next
    <2>3. ASSUME NEW q \in Requests \ {p} PROVE At(q, "idle")' <=> At(q, "idle")
      BY <1>1, <2>2, OneRequestSteps DEF At
    <2>4. ASSUME NEW q \in alone' PROVE DoneSoFar(q)'
      <3>1. CASE q = p
        <4>1. p \in Requests /\ ~At(p, "idle")'
          BY <2>1, <2>4, <3>1
        <4>2. ~Cancel(p) /\ ~DeadlockVictim(p)
          BY <1>1, <4>1, AnswerFacts DEF Cancel, DeadlockVictim, Rollback
        <4>3. CASE At(p, "idle")
          <5>1. ~Step(p)
            BY <4>3
            DEF Step, MoveStep, SelectForUpdate, ColumnUnknown, StartTakeOut, TakeOutRow,
                StartGap, GapRow, GapOverflow, Place, TouchBoard, Commit, ReadNextPos,
                NextPosOverflow, Insert, DeleteRow, At
          <5> QED
            BY <1>1, <2>2, <3>1, <4>1, <4>2, <4>3, <5>1, AloneStarts
        <4>4. CASE ~At(p, "idle")
          <5>1. ~Ask(p)
            BY <4>4, Zenon DEF Ask, AskMove, AskCreate, AskDelete, AskNotFound
          <5>2. p \in alone
            BY <2>1, <2>4, <3>1, <4>4
          <5> QED
            BY <2>2, <3>1, <4>1, <4>2, <5>1, <5>2, AloneGoesOn
        <4> QED
          BY <4>3, <4>4
      <3>2. CASE q # p
        <4>1. q \in Requests /\ q \in alone /\ ~At(q, "idle")
          BY <2>1, <2>3, <2>4, <3>2
        <4>2. At(p, "idle") /\ At(p, "idle")'
          BY <2>1, <2>4, <3>2, <4>1, AloneFacts
        <4>3. UNCHANGED vars
          <5>1. ~Step(p) /\ ~Cancel(p)
            BY <4>2
            DEF Step, MoveStep, SelectForUpdate, ColumnUnknown, StartTakeOut, TakeOutRow,
                StartGap, GapRow, GapOverflow, Place, TouchBoard, Commit, ReadNextPos,
                NextPosOverflow, Insert, DeleteRow, At, Cancel
          <5>2. CASE DeadlockVictim(p)
            <6>1. WaitsFor(p) # {}
              BY <5>2 DEF DeadlockVictim, InCycle
            <6> QED
              BY <4>2, <6>1 DEF WaitsFor, At
          <5>3. CASE Ask(p)
            <6>1. ASSUME AskMove(p) PROVE req'[p].at = "select"
              BY <1>1, <6>1 DEF AskMove, IInv, TypeOK, Idle
            <6>2. ASSUME AskCreate(p) PROVE req'[p].at = "nextpos"
              BY <1>1, <6>2 DEF AskCreate, IInv, TypeOK, Idle
            <6>3. ASSUME AskDelete(p) PROVE req'[p].at = "delete"
              BY <1>1, <6>3 DEF AskDelete, IInv, TypeOK, Idle
            <6> QED
              BY <4>2, <5>3, <6>1, <6>2, <6>3 DEF Ask, AskNotFound, At
          <5> QED
            BY <2>2, <5>1, <5>2, <5>3
        <4>4. DoneSoFar(q)
          BY <4>1, AloneFacts
        <4> QED
          BY <4>3, <4>4 DEF vars, DoneSoFar, At, InMove, View
      <3> QED
        BY <3>1, <3>2
    <2> QED
      BY <1>1, <2>1, <2>4 DEF AloneIInv
  <1> QED
    BY <1>2, <1>3

\* What a request has done of its operation at each place, if no other one overlapped
\* it: this is what lets its statements, one after another, add up to one operation.
THEOREM AloneInvariant == AloneSpec => []AloneIInv
  <1>1. AloneInit => AloneIInv
    BY InitInv DEF AloneInit, AloneIInv
  <1> QED
    BY <1>1, AloneNextInv, PTL DEF AloneSpec

\* SerialBoard's MoveCard is made of the same operators on rows.
LEMMA SameOperators ==
  ASSUME NEW rows, NEW c, NEW to
  PROVE  /\ Serial!Moved(rows, c, to) = Moved(rows, c, to)
         /\ Serial!MoveFits(rows, c, to) <=> MoveFits(rows, c, to)
  <1> DEFINE from == rows[c]
             theirs == Serial!TakeOut(rows, from)
             taken == TakeOut(rows, from)
  <1>1. theirs = taken
    BY DEF Serial!TakeOut, TakeOut, Serial!AfterSource, AfterSource, Serial!Lowered, Lowered
  <1>2. Serial!MakeGap(taken, to) = MakeGap(taken, to)
    <2> HIDE DEF taken
    <2> QED
      BY DEF Serial!MakeGap, MakeGap, Serial!FromGap, FromGap, Serial!Raised, Raised
  <1>3. Serial!Moved(rows, c, to) = Moved(rows, c, to)
    BY <1>1, <1>2, Zenon DEF Serial!Moved, Moved
  <1>4. Serial!MoveFits(rows, c, to) <=> MoveFits(rows, c, to)
    <2>1. /\ Serial!MoveFits(rows, c, to) <=>
               \A x \in Cards : FromGap(theirs[x], to) => ~RaiseOverflows(theirs[x])
          /\ MoveFits(rows, c, to) <=>
               \A x \in Cards : FromGap(taken[x], to) => ~RaiseOverflows(taken[x])
      BY DEF Serial!MoveFits, MoveFits, Serial!FromGap, FromGap, Serial!RaiseOverflows,
         RaiseOverflows
    <2> HIDE DEF theirs, taken
    <2> QED
      BY <1>1, <2>1
  <1> QED
    BY <1>3, <1>4

\* The table changes when such a request commits, inserts or deletes, and then by
\* the whole operation.
LEMMA AloneWrites ==
  ASSUME AloneIInv, NEW p \in alone, Commit(p) \/ Insert(p) \/ DeleteRow(p)
  PROVE  Serial!Next
  <1> DEFINE c == req[p].card
             to == req[p].to
  <1>1. p \in Requests /\ IInv /\ DoneSoFar(p) /\ c \in Cards
    BY AloneFacts DEF IInv, RequestsAreFormed
  <1>2. CASE Commit(p)
    <2>1. At(p, "commit") /\ InMove(p) /\ cards' = View(p)
      BY <1>2 DEF Commit, At, InMove, MovePlaces
    <2>2. Exists(cards[c])
      BY <1>1, <2>1, StoreConstants DEF IInv, FreshSource, HeldRowsExist
    <2>3. to \in [col : Columns, pos : DestPositions]
      <3>1. to \in [col : Columns \cup {NoColumn}, pos : Int4] /\ to.col \in Columns
        BY <1>1, <2>1 DEF IInv, TypeOK, Request, RequestsAreFormed, Places, MovePlaces, At
      <3>2. to.pos \in DestPositions
        BY <1>1, <2>1 DEF DoneSoFar
      <3> QED
        BY <3>1, <3>2
    <2>4. cards' = Moved(cards, c, to) /\ MoveFits(cards, c, to)
      BY <1>1, <2>1 DEF DoneSoFar, At
    <2>5. Serial!MoveCard(c, to)
      <3> HIDE DEF c, to
      <3> QED
        BY <2>2, <2>4, SameOperators DEF Serial!MoveCard, Serial!Exists, Exists
    <2> QED
      BY <1>1, <2>3, <2>5 DEF Serial!Next, Serial!Targets
  <1>3. CASE Insert(p)
    <2>1. At(p, "insert") /\ cards' = [cards EXCEPT ![c] = to]
      BY <1>3 DEF Insert
    <2>2. cards[c] = UnbornRow
      BY <1>1, <2>1 DEF IInv, FreshIds, Creating, At
    <2>3. to = [col |-> to.col, pos |-> to.pos] /\ to.col \in Columns /\ to.pos \in Int4
      BY <1>1, <2>1 DEF IInv, TypeOK, Request, RequestsAreFormed, Places, MovePlaces, At
    <2>4. IsNextPos(cards, to.col, to.pos)
      BY <1>1, <2>1 DEF DoneSoFar
    <2>5. Serial!CreateCard(c, to.col)
      BY <2>1, <2>2, <2>3, <2>4
      DEF Serial!CreateCard, Serial!UnbornRow, Serial!IsNextPos, Serial!Int4, UnbornRow,
          IsNextPos, Int4
    <2> QED
      BY <1>1, <2>3, <2>5 DEF Serial!Next
  <1>4. CASE DeleteRow(p)
    <2>1. Serial!DeleteCard(c)
      BY <1>1, <1>4
      DEF DeleteRow, DoneSoFar, At, Exists, GoneRow, Serial!DeleteCard, Serial!Exists,
          Serial!GoneRow
    <2> QED
      BY <1>1, <2>1 DEF Serial!Next
  <1> QED
    BY <1>2, <1>3, <1>4

\* A request that had the table to itself since it was asked amounts to one operation
\* of SerialBoard, whatever ran before it: BoardStore implements SerialBoard whenever
\* requests do not overlap.
THEOREM AloneAmountsToSerial == AloneSpec => AloneIsSerial
  <1>1. AloneIInv /\ [AloneNext]_aloneVars => [alone # {} => [Serial!Next]_cards]_aloneVars
    <2> SUFFICES ASSUME AloneIInv, AloneNext, alone # {}, cards' # cards PROVE Serial!Next
      BY DEF aloneVars, vars
    <2>1. PICK p \in alone : TRUE
      OBVIOUS
    <2>2. PICK q \in Requests : Commit(q) \/ Insert(q) \/ DeleteRow(q)
      BY TableWriters DEF AloneIInv, AloneNext
    <2>3. ~At(q, "idle")
      BY <2>2 DEF Commit, Insert, DeleteRow, At
    <2>4. q = p
      BY <2>3, AloneFacts
    <2> QED
      BY <2>2, <2>4, AloneWrites
  <1> QED
    BY <1>1, AloneInvariant, PTL DEF AloneSpec, AloneIsSerial
=============================================================================
