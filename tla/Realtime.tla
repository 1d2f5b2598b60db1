------------------------------ MODULE Realtime ------------------------------
(***************************************************************************)
(* From a committed change to the frames an open page receives: the board  *)
(* service commits and then, in a second step that may fail, runs          *)
(* pg_notify; the listener, when its connection is up, hands each          *)
(* notification to the hub; the SSE handler of each page takes its events  *)
(* out of its channel, reads what the database holds by then and writes it *)
(* to a connection that may break before the page has it.                  *)
(*                                                                         *)
(* The content of a card (title and description) is its number of          *)
(* committed versions: 0 before it is created, the last number once it is  *)
(* deleted.  Its place is its column; columns of a board are numbered by   *)
(* age.  What a page knows of a card is the version it last rendered, in   *)
(* the page itself or in a frame: few frames tell a place, and what        *)
(* becomes of those is BoardPage's.  LiveBoard says what a reader of the   *)
(* board may rely on.                                                      *)
(***************************************************************************)
EXTENDS Hub

CONSTANTS
  Cards,
  BoardOf,       \* the board of each card
  Requests,      \* requests that change cards at the same time
  NewCards,      \* bound: cards that are created and edited; the others exist and
                 \* are only moved and deleted
  MaxEdits,      \* bound: edits of one card
  MaxChanges,    \* bound: commits
  FirstColumns,  \* columns of a new board (3 in the code)
  MaxColumns,    \* bound: columns of a board
  SocketBuffer,  \* frames between the read of the database and the page, the one
                 \* whose write waits included
  NoCard,        \* the card of a notification about a column
  Listener       \* the one broadcaster

Nothing == [action |-> "none"]
NoColumn == 0

Absent  == 0
Created == 1
Deleted == MaxEdits + 2
Live(v) == v \notin {Absent, Deleted}

\* What a notification says.  Only that of a creation is asked for its column.
Body(action, card, column) == [action |-> action, card |-> card, column |-> column]

ASSUME RealtimeConstants ==
  /\ Broadcasters = {Listener}
  /\ BoardOf \in [Cards -> Boards]
  /\ MaxEdits \in Nat /\ MaxChanges \in Nat /\ SocketBuffer \in Nat \ {0}
  /\ MaxColumns \in Nat /\ FirstColumns \in 1 .. MaxColumns
  /\ NoCard \notin Cards
  /\ Bodies = {Body("card-created", c, k) : c \in Cards, k \in 1 .. MaxColumns}
                \cup {Body(action, c, NoColumn) :
                         action \in {"card-updated", "card-moved", "card-deleted"}, c \in Cards}
                \cup {Body("column-created", NoCard, NoColumn)}

VARIABLES
  db,         \* committed version of each card
  at,         \* column of each card
  columns,    \* number of columns of each board
  changes,    \* commits so far
  call,       \* the notification each request still owes
  listening,  \* the listener's connection is up
  queue,      \* notifications sent on that connection and not yet broadcast
  tab,        \* the board a page shows, NoBoard when it is closed
  view,       \* the version of each card the page of a channel has been told
  read,       \* the GetBoard under way for a page or for its stream
  hand,       \* the event its SSE handler is rendering
  wire,       \* frames that were written and have not arrived
  missed      \* history: pages that something about their board may have passed by

dbVars == <<db, at, columns, changes>>
pageVars == <<tab, view>>
streamVars == <<read, hand, wire>>
rtVars == <<hubVars, dbVars, call, listening, queue, pageVars, streamVars, missed>>
serverVars == <<dbVars, call, listening, queue>>

Versions == 0 .. Deleted

\* GetBoard between its two statements: the columns it has found are the oldest.
NoRead == [board |-> NoBoard, found |-> 0]
Reads == [board : Boards, found : 1 .. MaxColumns]

\* A frame, with Absent and NoColumn where it says nothing of a card.
Frames ==
  [name : {"card-updated", "column-updated", "card-deleted", "board-replaced"},
   texts : [Cards -> Versions], columns : [Cards -> 0 .. MaxColumns]]

RealtimeTypeOK ==
  /\ HubTypeOK
  /\ db \in [Cards -> Versions]
  /\ at \in [Cards -> 0 .. MaxColumns]
  /\ columns \in [Boards -> 1 .. MaxColumns]
  /\ changes \in 0 .. MaxChanges
  /\ call \in [Requests -> Event \cup {Nothing}]
  /\ listening \in BOOLEAN
  /\ queue \in Seq(Event)
  /\ tab \in [Channels -> Boards \cup {NoBoard}]
  /\ view \in [Channels -> [Cards -> Versions]]
  /\ read \in [Channels -> Reads \cup {NoRead}]
  /\ hand \in [Channels -> Event \cup {NoEvent}]
  /\ wire \in [Channels -> Seq(Frames)]
  /\ missed \in SUBSET Channels

Unseen == [c \in Cards |-> Absent]

Init ==
  /\ HubInit
  /\ db = [c \in Cards |-> IF c \in NewCards THEN Absent ELSE Created]
  /\ \E k \in [Cards -> 1 .. FirstColumns] :
       at = [c \in Cards |-> IF c \in NewCards THEN NoColumn ELSE k[c]]
  /\ columns = [b \in Boards |-> FirstColumns]
  /\ changes = 0
  /\ call = [r \in Requests |-> Nothing]
  /\ listening = FALSE
  /\ queue = <<>>
  /\ tab = [ch \in Channels |-> NoBoard]
  /\ view = [ch \in Channels |-> Unseen]
  /\ read = [ch \in Channels |-> NoRead]
  /\ hand = [ch \in Channels |-> NoEvent]
  /\ wire = [ch \in Channels |-> <<>>]
  /\ missed = {}

\* The pages that show a board; a page's stream is open when it is subscribed.
Viewers(b) == {ch \in Channels : tab[ch] = b}
-----------------------------------------------------------------------------
(***************************************************************************)
(* The service: commit, then notify.                                       *)
(***************************************************************************)
Owe(r, b, body) ==
  /\ call[r] = Nothing
  /\ changes < MaxChanges /\ changes' = changes + 1
  /\ call' = [call EXCEPT ![r] = [board |-> b, body |-> body]]
  /\ UNCHANGED <<hubVars, listening, queue, pageVars, streamVars, missed>>

CreateCard(r, c) ==
  /\ db[c] = Absent
  /\ \E k \in 1 .. columns[BoardOf[c]] :
       /\ at' = [at EXCEPT ![c] = k]
       /\ Owe(r, BoardOf[c], Body("card-created", c, k))
  /\ db' = [db EXCEPT ![c] = Created]
  /\ UNCHANGED columns

UpdateCard(r, c) ==
  /\ c \in NewCards
  /\ Live(db[c]) /\ db[c] + 1 < Deleted
  /\ Owe(r, BoardOf[c], Body("card-updated", c, NoColumn))
  /\ db' = [db EXCEPT ![c] = @ + 1]
  /\ UNCHANGED <<at, columns>>

\* To any column of the board, its own included.
MoveCard(r, c) ==
  /\ Live(db[c])
  /\ \E k \in 1 .. columns[BoardOf[c]] : at' = [at EXCEPT ![c] = k]
  /\ Owe(r, BoardOf[c], Body("card-moved", c, NoColumn))
  /\ UNCHANGED <<db, columns>>

DeleteCard(r, c) ==
  /\ Live(db[c])
  /\ Owe(r, BoardOf[c], Body("card-deleted", c, NoColumn))
  /\ db' = [db EXCEPT ![c] = Deleted]
  /\ UNCHANGED <<at, columns>>

\* CreateColumn: no card changes, but the board is to be shown again.
AddColumn(r, b) ==
  /\ columns[b] < MaxColumns
  /\ columns' = [columns EXCEPT ![b] = @ + 1]
  /\ Owe(r, b, Body("column-created", NoCard, NoColumn))
  /\ UNCHANGED <<db, at>>

\* pg_notify reaches the sessions that LISTEN at that moment.
Notify(r) ==
  /\ call[r] # Nothing
  /\ call' = [call EXCEPT ![r] = Nothing]
  /\ IF listening
       THEN queue' = Append(queue, call[r]) /\ UNCHANGED missed
       ELSE missed' = missed \cup Viewers(call[r].board) /\ UNCHANGED queue
  /\ UNCHANGED <<hubVars, dbVars, listening, pageVars, streamVars>>

\* UpdateCard looks the board up after its UPDATE: a card deleted in between
\* makes it return the error and notify nobody.
BoardLookupFails(r) ==
  /\ call[r] # Nothing
  /\ call[r].body.action = "card-updated"
  /\ db[call[r].body.card] = Deleted
  /\ call' = [call EXCEPT ![r] = Nothing]
  /\ UNCHANGED <<hubVars, dbVars, listening, queue, pageVars, streamVars, missed>>

\* No connection, a cancelled request or a crash: notify fails soft.
NotifyFails(r) ==
  /\ call[r] # Nothing
  /\ call' = [call EXCEPT ![r] = Nothing]
  /\ missed' = missed \cup Viewers(call[r].board)
  /\ UNCHANGED <<hubVars, dbVars, listening, queue, pageVars, streamVars>>
-----------------------------------------------------------------------------
(***************************************************************************)
(* The listener.                                                           *)
(***************************************************************************)
\* runOnce connects and runs LISTEN, after the last connection's are handled.
Listen ==
  /\ ~listening /\ queue = <<>> /\ Idle(Listener)
  /\ listening' = TRUE
  /\ UNCHANGED <<hubVars, dbVars, call, queue, pageVars, streamVars, missed>>

\* The connection breaks: what had not been read from it is lost.
Disconnect ==
  /\ listening
  /\ listening' = FALSE
  /\ \E k \in 0 .. Len(queue) :
       /\ queue' = SubSeq(queue, 1, k)
       /\ missed' = missed \cup UNION {Viewers(queue[i].board) : i \in k + 1 .. Len(queue)}
  /\ UNCHANGED <<hubVars, dbVars, call, pageVars, streamVars>>

\* WaitForNotification returns, and Broadcast copies the room.
Broadcast ==
  /\ queue # <<>>
  /\ StartBroadcast(Listener, Head(queue).board, Head(queue).body)
  /\ missed' = missed \cup {ch \in Viewers(Head(queue).board) : ~Subscribed(ch)}
  /\ queue' = Tail(queue)
  /\ UNCHANGED <<dbVars, call, listening, pageVars, streamVars>>

SendTo(ch) ==
  /\ Send(Listener, ch)
  /\ missed' = IF Len(buf[ch]) = Capacity THEN missed \cup {ch} ELSE missed
  /\ UNCHANGED <<serverVars, pageVars, streamVars>>
-----------------------------------------------------------------------------
(***************************************************************************)
(* GetBoard reads the columns of a board and then, in a second statement,  *)
(* the cards of those columns.                                             *)
(***************************************************************************)
ListColumns(ch, b) == read' = [read EXCEPT ![ch] = [board |-> b, found |-> columns[b]]]

OnBoard(b, columnsRead) ==
  {c \in Cards : BoardOf[c] = b /\ Live(db[c]) /\ at[c] \in columnsRead}

Found(ch) == OnBoard(read[ch].board, 1 .. read[ch].found)
-----------------------------------------------------------------------------
(***************************************************************************)
(* A page and its stream.                                                  *)
(***************************************************************************)
\* handleBoardView; a request that fails or is given up is made again.
BeginLoad(ch) ==
  /\ tab[ch] = NoBoard
  /\ Collected(ch)
  /\ \E b \in Boards : ListColumns(ch, b)
  /\ UNCHANGED <<hubVars, serverVars, pageVars, hand, wire, missed>>

\* The page renders the cards found.  A card that is not among them is rightly not
\* there, or has got into a column that is newer than the list of columns.
Load(ch) ==
  LET b == read[ch].board
      hidden == {c \in Cards : BoardOf[c] = b /\ Live(db[c])} \ Found(ch)
  IN  /\ tab[ch] = NoBoard /\ read[ch] # NoRead
      /\ tab' = [tab EXCEPT ![ch] = b]
      /\ view' = [view EXCEPT ![ch] =
           [c \in Cards |-> IF BoardOf[c] = b /\ c \notin hidden THEN db[c] ELSE Absent]]
      /\ read' = [read EXCEPT ![ch] = NoRead]
      /\ missed' = IF hidden = {} THEN missed \ {ch} ELSE missed \cup {ch}
      /\ UNCHANGED <<hubVars, serverVars, hand, wire>>

\* The page opens the EventSource of its board, again after each time it breaks.
OpenStream(ch) ==
  /\ tab[ch] # NoBoard
  /\ Subscribe(ch, tab[ch])
  /\ UNCHANGED <<serverVars, pageVars, streamVars, missed>>

InFlight(ch) ==
  \/ ch \in cast[Listener].to \/ buf[ch] # <<>>
  \/ hand[ch] # NoEvent \/ wire[ch] # <<>>

Closed(ch) ==
  /\ tab' = [tab EXCEPT ![ch] = NoBoard]
  /\ view' = [view EXCEPT ![ch] = Unseen]
  /\ missed' = missed \ {ch}

\* The stream ends, and what of it has not arrived is lost.  The page stays and will
\* open it again, which sends nothing again; or it is closed.
CloseStream(ch) ==
  /\ Cancel(ch)
  /\ read' = [read EXCEPT ![ch] = NoRead]
  /\ hand' = [hand EXCEPT ![ch] = NoEvent]
  /\ wire' = [wire EXCEPT ![ch] = <<>>]
  /\ \/ /\ missed' = IF InFlight(ch) THEN missed \cup {ch} ELSE missed
        /\ UNCHANGED pageVars
     \/ Closed(ch)
  /\ UNCHANGED serverVars

\* A page without a stream is left.
LeavePage(ch) ==
  /\ tab[ch] # NoBoard /\ ~Subscribed(ch)
  /\ Closed(ch)
  /\ UNCHANGED <<hubVars, serverVars, streamVars>>

TakeEvent(ch) ==
  /\ hand[ch] = NoEvent
  /\ Receive(ch)
  /\ hand' = [hand EXCEPT ![ch] = Head(buf[ch])]
  /\ UNCHANGED <<serverVars, pageVars, read, wire, missed>>

IsAbout(ch, actions) == hand[ch] # NoEvent /\ hand[ch].body.action \in actions

\* A column-created event: the handler calls GetBoard.
BeginRender(ch) ==
  /\ IsAbout(ch, {"column-created"})
  /\ read[ch] = NoRead
  /\ ListColumns(ch, hand[ch].board)
  /\ UNCHANGED <<hubVars, serverVars, pageVars, hand, wire, missed>>

CardFrame(name, c, v) ==
  [name |-> name,
   texts |-> [x \in Cards |-> IF x = c THEN v ELSE Absent],
   columns |-> [x \in Cards |-> NoColumn]]

ListFrame(name, S) ==
  [name |-> name,
   texts |-> [x \in Cards |-> IF x \in S THEN db[x] ELSE Absent],
   columns |-> [x \in Cards |-> IF x \in S THEN at[x] ELSE NoColumn]]

\* Variant: the frame of a deletion does not say whose.
DeletionWithoutId(c) == CardFrame("card-deleted", c, Absent)

DeletionFrame(c) == CardFrame("card-deleted", c, Deleted)

\* Variant: a card as it was when it was created.
FrameOfTheEvent(ch) ==
  LET e == hand[ch]
  IN  CardFrame("card-updated", e.body.card,
                IF e.body.action = "card-deleted" THEN Deleted ELSE Created)

\* What writeEvent renders, reading the database again.  CardView has a title and a
\* description: the frame of a moved card does not say where it is.  ColumnFragment has
\* the cards of the column, BoardFragment those GetBoard finds.
Frame(ch) ==
  LET e == hand[ch]
      c == e.body.card
  IN  CASE e.body.action \in {"card-updated", "card-moved"} ->
             CardFrame("card-updated", c, db[c])
        [] e.body.action = "card-created" ->
             ListFrame("column-updated", OnBoard(e.board, {e.body.column}))
        [] e.body.action = "card-deleted" -> DeletionFrame(c)
        [] e.body.action = "column-created" -> ListFrame("board-replaced", Found(ch))

\* The card of an update or a move is deleted by then, and nothing is written.
IsGone(ch) ==
  IsAbout(ch, {"card-updated", "card-moved"}) /\ ~Live(db[hand[ch].body.card])

\* A write waits for space in the socket, as long as the page does not read.
WriteEvent(ch) ==
  /\ hand[ch] # NoEvent
  /\ IsAbout(ch, {"column-created"}) => read[ch] # NoRead
  /\ hand' = [hand EXCEPT ![ch] = NoEvent]
  /\ read' = [read EXCEPT ![ch] = NoRead]
  /\ IF IsGone(ch)
       THEN UNCHANGED wire
       ELSE /\ Len(wire[ch]) < SocketBuffer
            /\ wire' = [wire EXCEPT ![ch] = Append(@, Frame(ch))]
  /\ UNCHANGED <<hubVars, serverVars, pageVars, missed>>

\* Any failure to read the card, the column or the board is taken for "it is gone":
\* no frame, and the stream goes on.
ReadFails(ch) ==
  /\ hand[ch] # NoEvent /\ ~IsAbout(ch, {"card-deleted"})
  /\ hand' = [hand EXCEPT ![ch] = NoEvent]
  /\ read' = [read EXCEPT ![ch] = NoRead]
  /\ missed' = missed \cup {ch}
  /\ UNCHANGED <<hubVars, serverVars, pageVars, wire>>

ReceiveFrame(ch) ==
  /\ wire[ch] # <<>>
  /\ wire' = [wire EXCEPT ![ch] = Tail(@)]
  /\ LET texts == Head(wire[ch]).texts
     IN  view' = [view EXCEPT ![ch] =
                    [c \in Cards |-> IF texts[c] = Absent THEN @[c] ELSE texts[c]]]
  /\ UNCHANGED <<hubVars, serverVars, tab, read, hand, missed>>
-----------------------------------------------------------------------------
Change(r) ==
  \/ \E c \in Cards : CreateCard(r, c) \/ UpdateCard(r, c) \/ MoveCard(r, c) \/ DeleteCard(r, c)
  \/ \E b \in Boards : AddColumn(r, b)
Finish(r) == Notify(r) \/ BoardLookupFails(r) \/ NotifyFails(r)
Forward == Broadcast \/ \E ch \in Channels : SendTo(ch)
Stream(ch) == TakeEvent(ch) \/ BeginRender(ch) \/ WriteEvent(ch) \/ ReceiveFrame(ch)
Page(ch) ==
  BeginLoad(ch) \/ Load(ch) \/ OpenStream(ch) \/ CloseStream(ch) \/ LeavePage(ch)

Next ==
  \/ \E r \in Requests : Change(r) \/ Finish(r)
  \/ Listen \/ Disconnect \/ Forward
  \/ \E ch \in Channels : Page(ch) \/ Stream(ch) \/ ReadFails(ch)

\* A request that committed goes on to notify; the listener goes on reading and
\* reconnects.
Fairness ==
  /\ \A r \in Requests : WF_rtVars(Finish(r))
  /\ WF_rtVars(Listen) /\ WF_rtVars(Forward)

RealtimeSpec == Init /\ [][Next]_rtVars /\ Fairness

\* The browser goes on reading its stream: the handler goes on writing it.
KeepsReading(ch) == WF_rtVars(Stream(ch))
-----------------------------------------------------------------------------
\* An event goes to the board of its card, and that of a deletion is of a card that
\* is gone for good: requests notify after their commit, and no other writes it back.
Told(e) ==
  /\ e.body.card # NoCard => BoardOf[e.body.card] = e.board
  /\ e.body.action = "card-deleted" => db[e.body.card] = Deleted

\* So it is of every event, wherever it is on its way.
EventsAreTrue ==
  /\ \A r \in Requests : call[r] # Nothing => Told(call[r])
  /\ \A i \in 1 .. Len(queue) : Told(queue[i])
  /\ \A g \in Broadcasters : cast[g].to # {} => Told(cast[g].ev)
  /\ \A ch \in Channels : \A i \in 1 .. Len(buf[ch]) : Told(buf[ch][i])
  /\ \A ch \in Channels : hand[ch] # NoEvent => Told(hand[ch])

\* The stream of a page is that of its board, and ends with what its handler holds
\* and what it has written.
StreamsFollowPages ==
  \A ch \in Channels :
    /\ Subscribed(ch) => sub[ch] = tab[ch]
    /\ hand[ch] # NoEvent => Subscribed(ch) /\ hand[ch].board = sub[ch]
    /\ wire[ch] # <<>> => Subscribed(ch)
    /\ tab[ch] # NoBoard /\ read[ch] # NoRead =>
         IsAbout(ch, {"column-created"}) /\ read[ch].board = tab[ch]

\* The versions of a card on their way to a page, oldest first, begin with what the page
\* has been told and end with the database: none of them takes the card back.
FramesGoForward ==
  \A ch \in Channels, c \in Cards :
    /\ view[ch][c] <= db[c]
    /\ \A i \in 1 .. Len(wire[ch]) :
         LET v == wire[ch][i].texts[c]
         IN  v # Absent =>
               /\ BoardOf[c] = tab[ch]
               /\ view[ch][c] <= v /\ v <= db[c]
               /\ \A j \in i + 1 .. Len(wire[ch]) :
                    wire[ch][j].texts[c] # Absent => v <= wire[ch][j].texts[c]

\* The frame of the event is sure to hold c, as the database has it by then.  That of a
\* creation is the card's column: the card may have left it.
Tells(e, c) ==
  /\ e.body.card = c
  /\ \/ e.body.action = "card-created" /\ Live(db[c]) /\ at[c] = e.body.column
     \/ e.body.action \in {"card-updated", "card-moved"} /\ Live(db[c])
     \/ e.body.action = "card-deleted" /\ db[c] = Deleted

\* Such an event is owed by a request, or is between the service and the handler, or
\* such a frame is between the handler and the page.
OnItsWay(ch, c) ==
  \/ \E r \in Requests : call[r] # Nothing /\ Tells(call[r], c)
  \/ \E i \in 1 .. Len(queue) : Tells(queue[i], c)
  \/ /\ Subscribed(ch)
     /\ \/ ch \in cast[Listener].to /\ Tells(cast[Listener].ev, c)
        \/ \E i \in 1 .. Len(buf[ch]) : Tells(buf[ch][i], c)
        \/ hand[ch] # NoEvent /\ Tells(hand[ch], c)
        \/ \E i \in 1 .. Len(wire[ch]) : wire[ch][i].texts[c] = db[c]

\* Whenever a page shows the title and the description of a card of its board, or its
\* absence, differently from the database, what tells it is still on its way, or the
\* page is in missed.  Of a card's place no such thing is said: frames do not tell it.
BehindOnlyIfMissed ==
  \A ch \in Channels \ missed, c \in Cards :
    tab[ch] = BoardOf[c] /\ view[ch][c] # db[c] => OnItsWay(ch, c)

\* The inductive invariant of Realtime_proofs, that of the hub included.
RealtimeIInv ==
  /\ RealtimeTypeOK /\ CastsAreFormed /\ RoomsAreSubscribers /\ Isolation
  /\ EventsAreTrue /\ StreamsFollowPages /\ FramesGoForward /\ BehindOnlyIfMissed

\* In whatever order requests notify, and however late frames arrive: what a page
\* shows of a card's title and description has been in the database, and never goes
\* back to an earlier version or brings a deleted card back, because the handler
\* renders the card it reads, not the card the event was about.  Nor is a page ever
\* told a card of another board.
Shown == INSTANCE LiveBoard WITH shown <- view
ImplementsLiveBoard == Shown!Spec

\* A page whose stream stays open and that nothing passed by shows every card of the
\* board, wherever on the board, with its title and description in the end.  missed
\* lists all that can pass a page by.
ConvergesUnlessMissed ==
  \A ch \in Channels :
    KeepsReading(ch) /\ <>[](Subscribed(ch) /\ ch \notin missed)
      => <>[](\A c \in Cards : BoardOf[c] = sub[ch] => view[ch][c] = db[c])

\* The hub never waits for a page: a broadcast ends although some page does not
\* read its frames.
BroadcastEnds == ~Idle(Listener) ~> Idle(Listener)
=============================================================================
