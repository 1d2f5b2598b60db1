----------------------------- MODULE StoreAlone -----------------------------
(***************************************************************************)
(* BoardStore with a record of the requests that have had the table to     *)
(* themselves since they were asked, to say that such a request amounts to *)
(* one operation of SerialBoard, whatever ran before it.                   *)
(***************************************************************************)
EXTENDS BoardStore

VARIABLE alone    \* history: busy requests that no other one has overlapped

aloneVars == <<vars, alone>>

AloneInit == Init /\ alone = {}

AloneNext ==
  /\ Next
  /\ alone' = {p \in Requests :
       /\ At(p, "idle") \/ p \in alone
       /\ ~At(p, "idle")'
       /\ \A q \in Requests \ {p} : At(q, "idle")'}

AloneSpec == AloneInit /\ [][AloneNext]_aloneVars

FairAloneSpec == AloneSpec /\ Fairness
-----------------------------------------------------------------------------
Serial == INSTANCE SerialBoard
            WITH cards <- cards, Cards <- Cards, Columns <- Columns,
                 DestPositions <- DestPositions

\* What a request that ran alone commits is what SerialBoard says of its
\* operation, in one step: no state between two of its statements is committed,
\* and nothing a request before it left behind shows.
AloneIsSerial == [][alone # {} => [Serial!Next]_cards]_aloneVars
-----------------------------------------------------------------------------
(***************************************************************************)
(* Why it holds                                                            *)
(***************************************************************************)
\* What request p, which has the table to itself, has done of its operation at each
\* place: the rows its UPDATE has visited are those of the finished statement, and
\* those it still has to visit are as the statement before left them.
DoneSoFar(p) ==
  LET q == req[p]
      taken == TakeOut(cards, q.from)
      made == MakeGap(taken, q.to)
  IN  /\ At(p, "select") \/ InMove(p) => q.to.pos \in DestPositions
      /\ At(p, "delete") => Exists(cards[q.card])
      /\ At(p, "insert") => IsNextPos(cards, q.to.col, q.to.pos)
      /\ At(p, "takeout") => \A x \in Cards :
           IF x \in q.todo THEN View(p)[x] = cards[x] /\ AfterSource(cards[x], q.from)
                           ELSE View(p)[x] = taken[x]
      /\ At(p, "gap") => \A x \in Cards :
           IF x \in q.todo
             THEN View(p)[x] = taken[x] /\ FromGap(taken[x], q.to)
             ELSE View(p)[x] = made[x] /\ (FromGap(taken[x], q.to) => ~RaiseOverflows(taken[x]))
      /\ q.at \in {"touch", "commit"} =>
           View(p) = Moved(cards, q.card, q.to) /\ MoveFits(cards, q.card, q.to)

AloneIInv ==
  /\ IInv
  /\ \A p \in alone :
       /\ p \in Requests /\ ~At(p, "idle")
       /\ \A q \in Requests \ {p} : At(q, "idle")
       /\ DoneSoFar(p)
=============================================================================
