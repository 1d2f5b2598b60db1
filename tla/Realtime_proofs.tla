-------------------------- MODULE Realtime_proofs ---------------------------
(***************************************************************************)
(* Proofs about Realtime: its invariant, which takes that of the hub over  *)
(* from Hub_proofs, and that it implements LiveBoard.                      *)
(***************************************************************************)
EXTENDS Realtime, Hub_proofs

CardActions == {"card-created", "card-updated", "card-moved", "card-deleted"}

\* What an event says.
LEMMA EventFields ==
  ASSUME NEW e \in Event
  PROVE  /\ e.board \in Boards /\ e.body \in Bodies
         /\ \/ e.body.action \in CardActions /\ e.body.card \in Cards
            \/ e.body.action = "column-created" /\ e.body.card = NoCard
         /\ e = [board |-> e.board, body |-> e.body]
  <1>1. e.board \in Boards /\ e.body \in Bodies /\ e = [board |-> e.board, body |-> e.body]
    BY DEF Event
  <1>2. \/ \E c \in Cards, k \in 1 .. MaxColumns : e.body = Body("card-created", c, k)
        \/ \E action \in {"card-updated", "card-moved", "card-deleted"}, c \in Cards :
             e.body = Body(action, c, NoColumn)
        \/ e.body = Body("column-created", NoCard, NoColumn)
    BY <1>1, RealtimeConstants
  <1>3. CASE \E c \in Cards, k \in 1 .. MaxColumns : e.body = Body("card-created", c, k)
    <2>1. PICK c \in Cards, k \in 1 .. MaxColumns : e.body = Body("card-created", c, k) BY <1>3
    <2>2. e.body.action = "card-created" /\ e.body.card = c BY <2>1 DEF Body
    <2> QED BY <1>1, <2>2 DEF CardActions
  <1>4. CASE \E action \in {"card-updated", "card-moved", "card-deleted"}, c \in Cards :
               e.body = Body(action, c, NoColumn)
    <2>1. PICK action \in {"card-updated", "card-moved", "card-deleted"}, c \in Cards :
            e.body = Body(action, c, NoColumn)
      BY <1>4
    <2>2. e.body.action = action /\ e.body.card = c BY <2>1 DEF Body
    <2> QED BY <1>1, <2>2 DEF CardActions
  <1>5. CASE e.body = Body("column-created", NoCard, NoColumn)
    <2>1. e.body.action = "column-created" /\ e.body.card = NoCard BY <1>5 DEF Body
    <2> QED BY <1>1, <2>1
  <1> QED BY <1>2, <1>3, <1>4, <1>5

LEMMA CardEvent ==
  ASSUME NEW c \in Cards, NEW action \in {"card-updated", "card-moved", "card-deleted"}
  PROVE  [board |-> BoardOf[c], body |-> Body(action, c, NoColumn)] \in Event
  <1>1. Body(action, c, NoColumn) \in Bodies BY RealtimeConstants
  <1> QED BY <1>1, RealtimeConstants DEF Event

LEMMA CreationEvent ==
  ASSUME NEW c \in Cards, NEW k \in 1 .. MaxColumns
  PROVE  [board |-> BoardOf[c], body |-> Body("card-created", c, k)] \in Event
  <1>1. Body("card-created", c, k) \in Bodies BY RealtimeConstants
  <1> QED BY <1>1, RealtimeConstants DEF Event

LEMMA ColumnEvent ==
  ASSUME NEW b \in Boards
  PROVE  [board |-> b, body |-> Body("column-created", NoCard, NoColumn)] \in Event
  <1>1. Body("column-created", NoCard, NoColumn) \in Bodies BY RealtimeConstants
  <1> QED BY <1>1 DEF Event
-----------------------------------------------------------------------------
\* RealtimeIInv, the hub apart.
DbTypes ==
  /\ db \in [Cards -> Versions]
  /\ at \in [Cards -> 0 .. MaxColumns]
  /\ columns \in [Boards -> 1 .. MaxColumns]
  /\ changes \in 0 .. MaxChanges

Types ==
  /\ DbTypes
  /\ call \in [Requests -> Event \cup {Nothing}]
  /\ listening \in BOOLEAN
  /\ queue \in Seq(Event)
  /\ tab \in [Channels -> Boards \cup {NoBoard}]
  /\ view \in [Channels -> [Cards -> Versions]]
  /\ read \in [Channels -> Reads \cup {NoRead}]
  /\ hand \in [Channels -> Event \cup {NoEvent}]
  /\ wire \in [Channels -> Seq(Frames)]
  /\ missed \in SUBSET Channels

Rest == Types /\ EventsAreTrue

LEMMA InvIsParts ==
  RealtimeIInv <=>
    /\ HubIInv /\ Rest /\ StreamsFollowPages /\ FramesGoForward /\ BehindOnlyIfMissed
  BY DEF RealtimeIInv, RealtimeTypeOK, HubIInv, Rest, Types, DbTypes

LEMMA VersionNumbers ==
  /\ Versions = 0 .. Deleted /\ Deleted \in Nat
  /\ Absent \in Versions /\ Created \in Versions /\ Deleted \in Versions
  /\ Absent = 0 /\ Created = 1 /\ Created < Deleted
  BY RealtimeConstants DEF Versions, Absent, Created, Deleted
-----------------------------------------------------------------------------
FrameNames == {"card-updated", "column-updated", "card-deleted", "board-replaced"}

LEMMA CardFrameIs ==
  ASSUME NEW name \in FrameNames, NEW c \in Cards, NEW v \in Versions
  PROVE  /\ CardFrame(name, c, v) \in Frames
         /\ \A x \in Cards :
              CardFrame(name, c, v).texts[x] = IF x = c THEN v ELSE Absent
  <1> DEFINE texts == [x \in Cards |-> IF x = c THEN v ELSE Absent]
             places == [x \in Cards |-> NoColumn]
  <1>1. texts \in [Cards -> Versions] BY VersionNumbers
  <1>2. places \in [Cards -> 0 .. MaxColumns]
    BY RealtimeConstants DEF NoColumn
  <1>3. CardFrame(name, c, v) = [name |-> name, texts |-> texts, columns |-> places]
    BY DEF CardFrame
  <1>4. \A x \in Cards : texts[x] = IF x = c THEN v ELSE Absent OBVIOUS
  <1> HIDE DEF texts, places
  <1> QED BY <1>1, <1>2, <1>3, <1>4 DEF Frames, FrameNames

LEMMA ListFrameIs ==
  ASSUME DbTypes, NEW name \in FrameNames, NEW S
  PROVE  /\ ListFrame(name, S) \in Frames
         /\ \A x \in Cards : ListFrame(name, S).texts[x] = IF x \in S THEN db[x] ELSE Absent
  <1> DEFINE texts == [x \in Cards |-> IF x \in S THEN db[x] ELSE Absent]
             places == [x \in Cards |-> IF x \in S THEN at[x] ELSE NoColumn]
  <1>1. texts \in [Cards -> Versions] BY VersionNumbers DEF DbTypes
  <1>2. places \in [Cards -> 0 .. MaxColumns]
    BY RealtimeConstants DEF NoColumn, DbTypes
  <1>3. ListFrame(name, S) = [name |-> name, texts |-> texts, columns |-> places]
    BY DEF ListFrame
  <1>4. \A x \in Cards : texts[x] = IF x \in S THEN db[x] ELSE Absent OBVIOUS
  <1> HIDE DEF texts, places
  <1> QED BY <1>1, <1>2, <1>3, <1>4 DEF Frames, FrameNames

\* A frame tells cards of the event's board, as the database has them; that of an event
\* that is sure to tell a card does.
LEMMA FramesAreTrue ==
  ASSUME DbTypes, NEW ch \in Channels, hand[ch] \in Event, Told(hand[ch]),
         hand[ch].body.action = "column-created" => read[ch].board = hand[ch].board
  PROVE  /\ Frame(ch) \in Frames
         /\ \A x \in Cards : Frame(ch).texts[x] # Absent =>
              Frame(ch).texts[x] = db[x] /\ BoardOf[x] = hand[ch].board
         /\ \A x \in Cards : Tells(hand[ch], x) => Frame(ch).texts[x] = db[x]
  <1> DEFINE e == hand[ch]
             c == e.body.card
             f == Frame(ch)
  <1>1. \/ e.body.action \in CardActions /\ c \in Cards
        \/ e.body.action = "column-created" /\ c = NoCard
    BY EventFields
  <1>2. c \in Cards => BoardOf[c] = e.board /\ db[c] \in Versions
    BY RealtimeConstants DEF Told, DbTypes
  <1>3. CASE e.body.action \in {"card-updated", "card-moved"}
    <2>1. f = CardFrame("card-updated", c, db[c]) BY <1>3 DEF Frame
    <2>2. c \in Cards BY <1>1, <1>3 DEF CardActions
    <2>3. /\ f \in Frames
          /\ \A x \in Cards : f.texts[x] = IF x = c THEN db[c] ELSE Absent
      BY <1>2, <2>1, <2>2, CardFrameIs DEF FrameNames
    <2> HIDE DEF f
    <2>4. \A x \in Cards : Tells(e, x) => x = c BY DEF Tells
    <2>5. \A x \in Cards : f.texts[x] # Absent => f.texts[x] = db[x] /\ BoardOf[x] = e.board
      BY <1>2, <2>3
    <2>6. \A x \in Cards : Tells(e, x) => f.texts[x] = db[x] BY <2>3, <2>4
    <2> QED BY <2>3, <2>5, <2>6 DEF f
  <1>4. CASE e.body.action = "card-deleted"
    <2>1. f = CardFrame("card-deleted", c, Deleted) BY <1>4 DEF Frame, DeletionFrame
    <2>2. c \in Cards /\ db[c] = Deleted
      BY <1>1, <1>4, RealtimeConstants DEF Told, CardActions
    <2>3. /\ f \in Frames
          /\ \A x \in Cards : f.texts[x] = IF x = c THEN Deleted ELSE Absent
      BY <2>1, <2>2, CardFrameIs, VersionNumbers DEF FrameNames
    <2> HIDE DEF f
    <2>4. \A x \in Cards : Tells(e, x) => x = c BY DEF Tells
    <2>5. \A x \in Cards : f.texts[x] # Absent => f.texts[x] = db[x] /\ BoardOf[x] = e.board
      BY <1>2, <2>2, <2>3
    <2>6. \A x \in Cards : Tells(e, x) => f.texts[x] = db[x] BY <2>2, <2>3, <2>4
    <2> QED BY <2>3, <2>5, <2>6 DEF f
  <1>5. CASE e.body.action = "card-created"
    <2> DEFINE S == OnBoard(e.board, {e.body.column})
    <2>1. f = ListFrame("column-updated", S) BY <1>5 DEF Frame
    <2>2. /\ f \in Frames
          /\ \A x \in Cards : f.texts[x] = IF x \in S THEN db[x] ELSE Absent
      BY <2>1, ListFrameIs DEF FrameNames
    <2>3. \A x \in Cards : x \in S => BoardOf[x] = e.board BY DEF OnBoard
    <2>4. \A x \in Cards : Tells(e, x) => x \in S
      BY <1>2, <1>5 DEF Tells, OnBoard
    <2> HIDE DEF f, S
    <2>5. \A x \in Cards : f.texts[x] # Absent => f.texts[x] = db[x] /\ BoardOf[x] = e.board
      BY <2>2, <2>3
    <2>6. \A x \in Cards : Tells(e, x) => f.texts[x] = db[x] BY <2>2, <2>4
    <2> QED BY <2>2, <2>5, <2>6 DEF f
  <1>6. CASE e.body.action = "column-created"
    <2> DEFINE S == Found(ch)
    <2>1. f = ListFrame("board-replaced", S) BY <1>6 DEF Frame
    <2>2. /\ f \in Frames
          /\ \A x \in Cards : f.texts[x] = IF x \in S THEN db[x] ELSE Absent
      BY <2>1, ListFrameIs DEF FrameNames
    <2>3. \A x \in Cards : x \in S => BoardOf[x] = e.board BY <1>6 DEF Found, OnBoard
    <2>4. \A x \in Cards : ~Tells(e, x) BY <1>6 DEF Tells
    <2> HIDE DEF f, S
    <2>5. \A x \in Cards : f.texts[x] # Absent => f.texts[x] = db[x] /\ BoardOf[x] = e.board
      BY <2>2, <2>3
    <2> QED BY <2>2, <2>4, <2>5 DEF f
  <1> QED BY <1>1, <1>3, <1>4, <1>5, <1>6 DEF CardActions
-----------------------------------------------------------------------------
\* Every step is one of the hub or leaves it alone.
LEMMA HubSteps == Types /\ [Next]_rtVars => [HubNext]_hubVars
  <1> SUFFICES ASSUME Types, Next PROVE HubNext \/ UNCHANGED hubVars
    BY DEF rtVars
  <1>1. ASSUME NEW r \in Requests, Change(r) \/ Finish(r) PROVE UNCHANGED hubVars
    BY <1>1 DEF Change, Finish, CreateCard, UpdateCard, MoveCard, DeleteCard, Owe, AddColumn,
                Notify, BoardLookupFails, NotifyFails
  <1>2. CASE Listen \/ Disconnect
    BY <1>2 DEF Listen, Disconnect
  <1>3. CASE Broadcast
    <2>1. Head(queue) \in Event BY <1>3 DEF Broadcast, Types
    <2>2. Head(queue).board \in Boards /\ Head(queue).body \in Bodies BY <2>1, EventFields
    <2>3. Listener \in Broadcasters BY RealtimeConstants
    <2> QED BY <1>3, <2>2, <2>3 DEF Broadcast, HubNext, Broadcasting
  <1>4. ASSUME NEW ch \in Channels, SendTo(ch) PROVE HubNext
    BY <1>4, RealtimeConstants DEF SendTo, HubNext, Broadcasting
  <1>5. ASSUME NEW ch \in Channels, Page(ch) \/ Stream(ch) \/ ReadFails(ch)
        PROVE  HubNext \/ UNCHANGED hubVars
    <2>1. CASE OpenStream(ch)
      <3>1. tab[ch] \in Boards /\ Subscribe(ch, tab[ch]) BY <2>1 DEF OpenStream, Types
      <3> QED BY <3>1 DEF HubNext, Subscribing
    <2>2. CASE CloseStream(ch) \/ TakeEvent(ch)
      BY <2>2 DEF CloseStream, TakeEvent, HubNext, Subscribing
    <2>3. CASE BeginLoad(ch) \/ Load(ch) \/ LeavePage(ch) \/ BeginRender(ch) \/ WriteEvent(ch)
                 \/ ReceiveFrame(ch) \/ ReadFails(ch)
      BY <2>3 DEF BeginLoad, Load, LeavePage, BeginRender, WriteEvent, ReceiveFrame, ReadFails
    <2> QED BY <1>5, <2>1, <2>2, <2>3 DEF Page, Stream
  <1> QED BY <1>1, <1>2, <1>3, <1>4, <1>5 DEF Next, Forward

\* Wherever there is an event, it is one.
LEMMA EventsOnTheWay ==
  ASSUME HubIInv, Types
  PROVE  /\ \A r \in Requests : call[r] # Nothing => call[r] \in Event
         /\ \A i \in 1 .. Len(queue) : queue[i] \in Event
         /\ \A g \in Broadcasters : cast[g].to # {} => cast[g].ev \in Event
         /\ \A ch \in Channels : \A i \in 1 .. Len(buf[ch]) : buf[ch][i] \in Event
         /\ \A ch \in Channels : hand[ch] # NoEvent => hand[ch] \in Event
  <1>1. \A ch \in Channels : buf[ch] \in Seq(Event) BY DEF HubIInv, HubTypeOK
  <1>2. \A ch \in Channels : \A i \in 1 .. Len(buf[ch]) : buf[ch][i] \in Event
    BY <1>1
  <1> QED BY <1>2 DEF HubIInv, CastsAreFormed, Types
-----------------------------------------------------------------------------
\* What a commit to one card is, whoever makes it: it owes the event that tells the card.
LEMMA CommitIs ==
  ASSUME Types, NEW r \in Requests, NEW c \in Cards, NEW e \in Event, NEW v \in Versions,
         Owe(r, e.board, e.body), e.body.card = c, e.board = BoardOf[c],
         db[c] # Deleted, v >= db[c], db' = [db EXCEPT ![c] = v],
         at' \in [Cards -> 0 .. MaxColumns],
         \A x \in Cards \ {c} : at'[x] = at[x],
         UNCHANGED columns,
         \/ e.body.action = "card-created" /\ Live(v) /\ at'[c] = e.body.column
         \/ e.body.action \in {"card-updated", "card-moved"} /\ Live(v)
         \/ e.body.action = "card-deleted" /\ v = Deleted
  PROVE  /\ call[r] = Nothing /\ call' = [call EXCEPT ![r] = e]
         /\ DbTypes' /\ Told(e)'
         /\ UNCHANGED <<hubVars, listening, queue, pageVars, streamVars, missed>>
         /\ \A x \in Cards :
              /\ db'[x] >= db[x] /\ (db[x] = Deleted => db'[x] = Deleted)
              /\ (db'[x] = db[x] /\ at'[x] = at[x]) \/ Tells(e, x)'
         /\ \/ UNCHANGED db
            \/ \E x \in Cards : /\ db[x] # Deleted
                                /\ \E w \in db[x] + 1 .. Deleted : db' = [db EXCEPT ![x] = w]
  <1>1. /\ call[r] = Nothing /\ changes' = changes + 1 /\ changes < MaxChanges
        /\ call' = [call EXCEPT ![r] = [board |-> e.board, body |-> e.body]]
        /\ UNCHANGED <<hubVars, listening, queue, pageVars, streamVars, missed>>
    BY DEF Owe
  <1>2. call' = [call EXCEPT ![r] = e] BY <1>1, EventFields
  <1>3. db \in [Cards -> Versions] BY DEF Types, DbTypes
  <1>4. db'[c] = v /\ \A x \in Cards \ {c} : db'[x] = db[x] BY <1>3
  <1>5. DbTypes'
    <2>1. db' \in [Cards -> Versions] BY <1>3
    <2>2. changes' \in 0 .. MaxChanges BY <1>1, RealtimeConstants DEF Types, DbTypes
    <2> QED BY <2>1, <2>2 DEF Types, DbTypes
  <1>6. e.body.action = "card-deleted" => v = Deleted BY DEF Live
  <1>7. Told(e)' BY <1>4, <1>6 DEF Told
  <1>8. Tells(e, c)' BY <1>4 DEF Tells
  <1>9. \A x \in Cards :
          /\ db'[x] >= db[x] /\ (db[x] = Deleted => db'[x] = Deleted)
          /\ (db'[x] = db[x] /\ at'[x] = at[x]) \/ Tells(e, x)'
    <2>1. \A x \in Cards : db[x] \in Nat BY <1>3, VersionNumbers
    <2> QED BY <1>4, <1>8, <2>1
  <1>10. CASE v = db[c] BY <1>1, <1>2, <1>3, <1>5, <1>7, <1>9, <1>10
  <1>11. CASE v # db[c]
    <2>1. v \in db[c] + 1 .. Deleted BY <1>3, <1>11, VersionNumbers
    <2> QED BY <1>1, <1>2, <1>5, <1>7, <1>9, <2>1
  <1> QED BY <1>10, <1>11

LEMMA ChangeIs ==
  ASSUME Types, NEW r \in Requests, Change(r)
  PROVE  \E e \in Event :
           /\ call[r] = Nothing /\ call' = [call EXCEPT ![r] = e]
           /\ DbTypes' /\ Told(e)'
           /\ UNCHANGED <<hubVars, listening, queue, pageVars, streamVars, missed>>
           /\ \A x \in Cards :
                /\ db'[x] >= db[x] /\ (db[x] = Deleted => db'[x] = Deleted)
                /\ (db'[x] = db[x] /\ at'[x] = at[x]) \/ Tells(e, x)'
           /\ \/ UNCHANGED db
              \/ \E x \in Cards : /\ db[x] # Deleted
                                  /\ \E w \in db[x] + 1 .. Deleted : db' = [db EXCEPT ![x] = w]
  <1>1. /\ \A c \in Cards : db[c] \in 0 .. Deleted
        /\ at \in [Cards -> 0 .. MaxColumns] /\ columns \in [Boards -> 1 .. MaxColumns]
        /\ \A c \in Cards : BoardOf[c] \in Boards
        /\ db \in [Cards -> Versions]
    BY RealtimeConstants, VersionNumbers DEF Types, DbTypes
  <1>2. \A c \in Cards : \A k \in 1 .. columns[BoardOf[c]] :
          k \in 1 .. MaxColumns /\ [at EXCEPT ![c] = k] \in [Cards -> 0 .. MaxColumns]
    BY <1>1, RealtimeConstants
  <1>3. ASSUME NEW c \in Cards, CreateCard(r, c)
        PROVE  \E e \in Event : e.body.card = c /\ \E v \in Versions :
                 /\ Owe(r, e.board, e.body) /\ e.board = BoardOf[c] /\ db[c] # Deleted
                 /\ v >= db[c] /\ db' = [db EXCEPT ![c] = v]
                 /\ at' \in [Cards -> 0 .. MaxColumns] /\ UNCHANGED columns
                 /\ \A x \in Cards \ {c} : at'[x] = at[x]
                 /\ e.body.action = "card-created" /\ Live(v) /\ at'[c] = e.body.column
    <2>1. PICK k \in 1 .. columns[BoardOf[c]] :
            /\ at' = [at EXCEPT ![c] = k]
            /\ Owe(r, BoardOf[c], Body("card-created", c, k))
      BY <1>3 DEF CreateCard
    <2> DEFINE e == [board |-> BoardOf[c], body |-> Body("card-created", c, k)]
    <2>2. /\ e \in Event /\ e.board = BoardOf[c] /\ e.body = Body("card-created", c, k)
          /\ e.body.action = "card-created" /\ e.body.card = c /\ e.body.column = k
      BY <1>2, CreationEvent DEF Body
    <2>3. Live(Created) /\ Created >= db[c] /\ db[c] # Deleted
      BY <1>3, VersionNumbers DEF CreateCard, Live
    <2>4. db' = [db EXCEPT ![c] = Created] /\ UNCHANGED columns BY <1>3 DEF CreateCard
    <2>5. /\ at' \in [Cards -> 0 .. MaxColumns] /\ at'[c] = k
          /\ \A x \in Cards \ {c} : at'[x] = at[x]
      BY <1>1, <1>2, <2>1
    <2>6. Owe(r, e.board, e.body) BY <2>1, <2>2
    <2> HIDE DEF e
    <2>7. Created \in Versions BY VersionNumbers
    <2>8. e.body.card = c BY <2>2
    <2>9. /\ Owe(r, e.board, e.body) /\ e.board = BoardOf[c] /\ db[c] # Deleted
          /\ Created >= db[c] /\ db' = [db EXCEPT ![c] = Created]
          /\ at' \in [Cards -> 0 .. MaxColumns] /\ UNCHANGED columns
          /\ \A x \in Cards \ {c} : at'[x] = at[x]
          /\ e.body.action = "card-created" /\ Live(Created) /\ at'[c] = e.body.column
      BY <2>2, <2>3, <2>4, <2>5, <2>6
    <2> QED BY <2>2, <2>7, <2>8, <2>9
  <1>4. ASSUME NEW c \in Cards, UpdateCard(r, c) \/ MoveCard(r, c) \/ DeleteCard(r, c)
        PROVE  \E e \in Event : e.body.card = c /\ \E v \in Versions :
                 /\ Owe(r, e.board, e.body) /\ e.board = BoardOf[c] /\ db[c] # Deleted
                 /\ v >= db[c] /\ db' = [db EXCEPT ![c] = v]
                 /\ at' \in [Cards -> 0 .. MaxColumns] /\ UNCHANGED columns
                 /\ \A x \in Cards \ {c} : at'[x] = at[x]
                 /\ \/ e.body.action \in {"card-updated", "card-moved"} /\ Live(v)
                    \/ e.body.action = "card-deleted" /\ v = Deleted
    <2>1. PICK action \in {"card-updated", "card-moved", "card-deleted"}, v \in Versions :
            /\ Owe(r, BoardOf[c], Body(action, c, NoColumn))
            /\ v >= db[c] /\ db' = [db EXCEPT ![c] = v]
            /\ IF action = "card-deleted" THEN v = Deleted ELSE Live(v)
      <3>1. CASE UpdateCard(r, c)
        <4>1. db[c] + 1 \in Versions /\ Live(db[c] + 1) /\ db[c] + 1 >= db[c]
          BY <1>1, <3>1, VersionNumbers DEF UpdateCard, Live
        <4> QED BY <3>1, <4>1 DEF UpdateCard
      <3>2. CASE MoveCard(r, c)
        <4>1. db[c] \in Versions /\ db[c] >= db[c] /\ db = [db EXCEPT ![c] = db[c]]
          BY <1>1, VersionNumbers
        <4> QED BY <3>2, <4>1 DEF MoveCard
      <3>3. CASE DeleteCard(r, c)
        <4>1. Deleted \in Versions /\ Deleted >= db[c] BY <1>1, VersionNumbers
        <4> QED BY <3>3, <4>1 DEF DeleteCard
      <3> QED BY <1>4, <3>1, <3>2, <3>3
    <2> DEFINE e == [board |-> BoardOf[c], body |-> Body(action, c, NoColumn)]
    <2>2. /\ e \in Event /\ e.board = BoardOf[c] /\ e.body = Body(action, c, NoColumn)
          /\ e.body.action = action /\ e.body.card = c
      BY CardEvent DEF Body
    <2>3. db[c] # Deleted /\ UNCHANGED columns
      BY <1>4 DEF UpdateCard, MoveCard, DeleteCard, Live
    <2>4. UNCHANGED at \/ \E k \in 1 .. columns[BoardOf[c]] : at' = [at EXCEPT ![c] = k]
      BY <1>4 DEF UpdateCard, MoveCard, DeleteCard
    <2>5. at' \in [Cards -> 0 .. MaxColumns] /\ \A x \in Cards \ {c} : at'[x] = at[x]
      BY <1>1, <1>2, <2>4
    <2>6. Owe(r, e.board, e.body) BY <2>1, <2>2
    <2> HIDE DEF e
    <2>7. e.body.card = c BY <2>2
    <2>8. /\ Owe(r, e.board, e.body) /\ e.board = BoardOf[c] /\ db[c] # Deleted
          /\ v >= db[c] /\ db' = [db EXCEPT ![c] = v]
          /\ at' \in [Cards -> 0 .. MaxColumns] /\ UNCHANGED columns
          /\ \A x \in Cards \ {c} : at'[x] = at[x]
          /\ \/ e.body.action \in {"card-updated", "card-moved"} /\ Live(v)
             \/ e.body.action = "card-deleted" /\ v = Deleted
      BY <2>1, <2>2, <2>3, <2>5, <2>6
    <2> QED BY <2>2, <2>7, <2>8
  <1>5. ASSUME NEW b \in Boards, AddColumn(r, b)
        PROVE  \E e \in Event :
                 /\ call[r] = Nothing /\ call' = [call EXCEPT ![r] = e]
                 /\ DbTypes' /\ Told(e)' /\ UNCHANGED <<db, at>>
                 /\ UNCHANGED <<hubVars, listening, queue, pageVars, streamVars, missed>>
    <2> DEFINE e == [board |-> b, body |-> Body("column-created", NoCard, NoColumn)]
    <2>1. e \in Event BY ColumnEvent
    <2>2. /\ call[r] = Nothing /\ changes' = changes + 1 /\ changes < MaxChanges
          /\ call' = [call EXCEPT ![r] = e]
          /\ UNCHANGED <<hubVars, listening, queue, pageVars, streamVars, missed>>
          /\ UNCHANGED <<db, at>>
          /\ columns[b] < MaxColumns /\ columns' = [columns EXCEPT ![b] = @ + 1]
      BY <1>5 DEF AddColumn, Owe
    <2>3. e.body.card = NoCard /\ e.body.action = "column-created" BY DEF Body
    <2> HIDE DEF e
    <2>4. Told(e)' BY <2>3 DEF Told
    <2>5. changes' \in 0 .. MaxChanges BY <2>2, RealtimeConstants DEF Types, DbTypes
    <2>6. columns' \in [Boards -> 1 .. MaxColumns] BY <1>1, <2>2, RealtimeConstants
    <2>7. DbTypes' BY <2>2, <2>5, <2>6 DEF Types, DbTypes
    <2> QED BY <2>1, <2>2, <2>4, <2>7
  <1>6. CASE \E c \in Cards : CreateCard(r, c) \/ UpdateCard(r, c) \/ MoveCard(r, c) \/ DeleteCard(r, c)
    <2>1. PICK c \in Cards, e \in Event, v \in Versions :
            /\ e.body.card = c
            /\ Owe(r, e.board, e.body) /\ e.board = BoardOf[c] /\ db[c] # Deleted
            /\ v >= db[c] /\ db' = [db EXCEPT ![c] = v]
            /\ at' \in [Cards -> 0 .. MaxColumns] /\ UNCHANGED columns
            /\ \A x \in Cards \ {c} : at'[x] = at[x]
            /\ \/ e.body.action = "card-created" /\ Live(v) /\ at'[c] = e.body.column
               \/ e.body.action \in {"card-updated", "card-moved"} /\ Live(v)
               \/ e.body.action = "card-deleted" /\ v = Deleted
      BY <1>3, <1>4, <1>6
    <2> WITNESS e \in Event
    <2> QED BY <2>1, CommitIs
  <1>7. CASE \E b \in Boards : AddColumn(r, b)
    <2>1. PICK e \in Event :
            /\ call[r] = Nothing /\ call' = [call EXCEPT ![r] = e]
            /\ DbTypes' /\ Told(e)' /\ UNCHANGED <<db, at>>
            /\ UNCHANGED <<hubVars, listening, queue, pageVars, streamVars, missed>>
      BY <1>5, <1>7
    <2>2. \A x \in Cards : db'[x] = db[x] /\ at'[x] = at[x] /\ db'[x] >= db[x]
      BY <1>1, <2>1
    <2> QED BY <2>1, <2>2
  <1> QED BY <1>6, <1>7 DEF Change
-----------------------------------------------------------------------------
\* A deleted card stays deleted, so what was told stays true.
LEMMA ChangeKeeps ==
  ASSUME HubIInv, Rest, NEW r \in Requests, Change(r)
  PROVE  Rest'
  <1>1. PICK e \in Event :
          /\ call[r] = Nothing /\ call' = [call EXCEPT ![r] = e]
          /\ DbTypes' /\ Told(e)'
          /\ UNCHANGED <<hubVars, listening, queue, pageVars, streamVars, missed>>
          /\ \A x \in Cards : db[x] = Deleted => db'[x] = Deleted
    BY ChangeIs DEF Rest
  <1>2. UNCHANGED <<buf, cast, listening, queue, tab, view, read, hand, wire, missed>>
    BY <1>1 DEF hubVars, pageVars, streamVars
  <1>3. Types' BY <1>1, <1>2 DEF Rest, Types
  <1>4. \A x \in Event : Told(x) => Told(x)'
    BY <1>1, EventFields DEF Told, CardActions
  <1>5. \A x \in Requests : call'[x] # Nothing => Told(call[x])'
    <2> SUFFICES ASSUME NEW x \in Requests, call'[x] # Nothing PROVE Told(call[x])' OBVIOUS
    <2>1. CASE x = r
      <3>1. call'[x] = e BY <1>1, <2>1 DEF Rest, Types
      <3> QED BY <1>1, <3>1 DEF Told
    <2>2. CASE x # r
      <3>1. call'[x] = call[x] BY <1>1, <2>2 DEF Rest, Types
      <3>2. Told(call[x]) /\ call[x] \in Event
        BY <3>1, EventsOnTheWay DEF Rest, EventsAreTrue
      <3> QED BY <1>4, <3>1, <3>2 DEF Told
    <2> QED BY <2>1, <2>2
  <1>6. \A i \in 1 .. Len(queue) : Told(queue[i])'
    BY <1>2, <1>4, EventsOnTheWay DEF Rest, EventsAreTrue, Told
  <1>7. \A g \in Broadcasters : cast[g].to # {} => Told(cast[g].ev)'
    BY <1>2, <1>4, EventsOnTheWay DEF Rest, EventsAreTrue, Told
  <1>8. \A ch \in Channels : \A i \in 1 .. Len(buf[ch]) : Told(buf[ch][i])'
    BY <1>2, <1>4, EventsOnTheWay DEF Rest, EventsAreTrue, Told
  <1>9. \A ch \in Channels : hand[ch] # NoEvent => Told(hand[ch])'
    BY <1>2, <1>4, EventsOnTheWay DEF Rest, EventsAreTrue, Told
  <1>10. EventsAreTrue' BY <1>2, <1>5, <1>6, <1>7, <1>8, <1>9 DEF EventsAreTrue, Told
  <1> QED BY <1>3, <1>10 DEF Rest

LEMMA FinishKeeps ==
  ASSUME HubIInv, Rest, NEW r \in Requests, Finish(r)
  PROVE  Rest'
  <1>1. call[r] # Nothing /\ call[r] \in Event /\ Told(call[r])
    BY EventsOnTheWay DEF Finish, Notify, BoardLookupFails, NotifyFails, Rest, EventsAreTrue
  <1>2. /\ call' = [call EXCEPT ![r] = Nothing]
        /\ queue' = queue \/ queue' = Append(queue, call[r])
        /\ missed' \in SUBSET Channels
        /\ UNCHANGED <<buf, cast, dbVars, listening, pageVars, streamVars>>
    BY DEF Finish, Notify, BoardLookupFails, NotifyFails, hubVars, Viewers, Rest, Types
  <1>3. UNCHANGED <<db, at, columns, changes, tab, view, read, hand, wire>>
    BY <1>2 DEF dbVars, pageVars, streamVars
  <1>4. queue \in Seq(Event) BY DEF Rest, Types
  <1>5. /\ queue' \in Seq(Event)
        /\ \A i \in 1 .. Len(queue') : Told(queue'[i])
    <2>1. CASE queue' = queue BY <1>4, <2>1 DEF Rest, EventsAreTrue
    <2>2. CASE queue' = Append(queue, call[r])
      <3>1. queue' \in Seq(Event) BY <1>1, <1>4, <2>2
      <3>2. ASSUME NEW i \in 1 .. Len(queue') PROVE Told(queue'[i])
        <4>1. CASE i = Len(queue) + 1
          <5>1. queue'[i] = call[r] BY <1>1, <1>4, <2>2, <4>1
          <5> QED BY <1>1, <5>1
        <4>2. CASE i # Len(queue) + 1
          <5>1. i \in 1 .. Len(queue) /\ queue'[i] = queue[i] BY <1>1, <1>4, <2>2, <4>2
          <5> QED BY <5>1 DEF Rest, EventsAreTrue
        <4> QED BY <4>1, <4>2
      <3> QED BY <3>1, <3>2
    <2> QED BY <1>2, <2>1, <2>2
  <1>6. Types' BY <1>2, <1>3, <1>5 DEF Rest, Types, DbTypes
  <1>7. \A x \in Requests : call'[x] = IF x = r THEN Nothing ELSE call[x]
    BY <1>2 DEF Rest, Types
  <1>8. EventsAreTrue' BY <1>2, <1>3, <1>5, <1>7 DEF Rest, EventsAreTrue, Told
  <1> QED BY <1>6, <1>8 DEF Rest

LEMMA ListenerKeeps ==
  ASSUME HubIInv, Rest, Listen \/ Disconnect
  PROVE  Rest'
  <1>1. queue \in Seq(Event) BY DEF Rest, Types
  <1>2. PICK k \in 0 .. Len(queue) : queue' = SubSeq(queue, 1, k) \/ queue' = queue
    <2>1. Len(queue) \in 0 .. Len(queue) BY <1>1
    <2> QED BY <2>1 DEF Listen, Disconnect
  <1>3. /\ queue' \in Seq(Event)
        /\ \A i \in 1 .. Len(queue') : i \in 1 .. Len(queue) /\ queue'[i] = queue[i]
    BY <1>1, <1>2
  <1>4. UNCHANGED <<hubVars, dbVars, call, pageVars, streamVars>> /\ listening' \in BOOLEAN
    BY DEF Listen, Disconnect
  <1>5. missed' \in SUBSET Channels
    <2>1. missed \in SUBSET Channels BY DEF Rest, Types
    <2>2. CASE Listen BY <2>1, <2>2 DEF Listen
    <2>3. CASE Disconnect
      <3>1. PICK n \in 0 .. Len(queue) :
              missed' = missed \cup UNION {Viewers(queue[i].board) : i \in n + 1 .. Len(queue)}
        BY <2>3 DEF Disconnect
      <3> DEFINE passed == {Viewers(queue[i].board) : i \in n + 1 .. Len(queue)}
      <3>2. \A S \in passed : S \subseteq Channels BY DEF Viewers
      <3>3. missed' = missed \cup UNION passed BY <3>1
      <3> HIDE DEF passed
      <3> QED BY <2>1, <3>2, <3>3
    <2> QED BY <2>2, <2>3
  <1>6. UNCHANGED <<buf, cast, db, at, columns, changes, call, tab, view, read, hand, wire>>
    BY <1>4 DEF hubVars, dbVars, pageVars, streamVars
  <1>7. Types' BY <1>3, <1>4, <1>5, <1>6 DEF Rest, Types, DbTypes
  <1>8. EventsAreTrue' BY <1>3, <1>6 DEF Rest, EventsAreTrue, Told
  <1> QED BY <1>7, <1>8 DEF Rest

LEMMA BroadcastKeeps ==
  ASSUME HubIInv, Rest, Broadcast
  PROVE  Rest'
  <1>1. queue \in Seq(Event) /\ queue # <<>> /\ queue' = Tail(queue)
    BY DEF Broadcast, Rest, Types
  <1>2. /\ Head(queue) \in Event /\ Told(Head(queue))
        /\ queue' \in Seq(Event)
        /\ \A i \in 1 .. Len(queue') : i + 1 \in 1 .. Len(queue) /\ queue'[i] = queue[i + 1]
    <2>1. 1 \in 1 .. Len(queue) /\ Head(queue) = queue[1] BY <1>1
    <2> QED BY <1>1, <2>1 DEF Rest, EventsAreTrue
  <1>3. Head(queue) = [board |-> Head(queue).board, body |-> Head(queue).body]
    BY <1>2, EventFields
  <1>4. \/ UNCHANGED cast
        \/ cast' = [cast EXCEPT ![Listener] =
                      [ev |-> Head(queue), to |-> rooms[Head(queue).board]]]
    BY <1>3 DEF Broadcast, StartBroadcast
  <1>5. /\ missed' = missed \cup {ch \in Viewers(Head(queue).board) : ~Subscribed(ch)}
        /\ UNCHANGED <<buf, db, at, columns, changes, call, listening, tab, view, read, hand, wire>>
    BY DEF Broadcast, StartBroadcast, dbVars, pageVars, streamVars
  <1>6. Types' BY <1>2, <1>5 DEF Rest, Types, DbTypes, Viewers
  <1>7. \A g \in Broadcasters : cast'[g] = cast[g] \/ cast'[g].ev = Head(queue)
    BY <1>4 DEF HubIInv, HubTypeOK
  <1>8. EventsAreTrue' BY <1>2, <1>5, <1>7 DEF Rest, EventsAreTrue, Told
  <1> QED BY <1>6, <1>8 DEF Rest

LEMMA SendToKeeps ==
  ASSUME HubIInv, Rest, NEW to \in Channels, SendTo(to)
  PROVE  Rest'
  <1> DEFINE e == cast[Listener].ev
  <1>1. Listener \in Broadcasters /\ to \in cast[Listener].to
    BY RealtimeConstants DEF SendTo, Send
  <1>2. e \in Event /\ Told(e)
    BY <1>1 DEF HubIInv, CastsAreFormed, Rest, EventsAreTrue
  <1>3. /\ buf' = buf \/ buf' = [buf EXCEPT ![to] = Append(@, e)]
        /\ cast' = Served(Listener, to)
        /\ missed' = missed \/ missed' = missed \cup {to}
        /\ UNCHANGED <<db, at, columns, changes, call, listening, queue, tab, view, read, hand, wire>>
    BY DEF SendTo, Send, serverVars, dbVars, pageVars, streamVars
  <1>4. Types' BY <1>3 DEF Rest, Types, DbTypes
  <1>5. \A g \in Broadcasters : cast'[g].to # {} => cast[g].to # {} /\ cast'[g].ev = cast[g].ev
    BY <1>1, <1>3 DEF HubIInv, HubTypeOK, Served, NoCast
  <1>6. \A ch \in Channels : \A i \in 1 .. Len(buf'[ch]) :
          buf'[ch][i] = e \/ (i \in 1 .. Len(buf[ch]) /\ buf'[ch][i] = buf[ch][i])
    <2>1. \A ch \in Channels : buf[ch] \in Seq(Event) BY DEF HubIInv, HubTypeOK
    <2>2. \A ch \in Channels : buf'[ch] = buf[ch] \/ buf'[ch] = Append(buf[ch], e)
      BY <1>3 DEF HubIInv, HubTypeOK
    <2> HIDE DEF e
    <2>3. ASSUME NEW ch \in Channels, NEW i \in 1 .. Len(buf'[ch])
          PROVE  buf'[ch][i] = e \/ (i \in 1 .. Len(buf[ch]) /\ buf'[ch][i] = buf[ch][i])
      <3>1. buf[ch] \in Seq(Event) BY <2>1
      <3>2. CASE buf'[ch] = buf[ch] BY <2>3, <3>2
      <3>3. CASE buf'[ch] = Append(buf[ch], e) BY <1>2, <2>3, <3>1, <3>3
      <3> QED BY <2>2, <3>2, <3>3
    <2> QED BY <2>3
  <1> HIDE DEF e
  <1>7. EventsAreTrue' BY <1>2, <1>3, <1>5, <1>6 DEF Rest, EventsAreTrue, Told
  <1> QED BY <1>4, <1>7 DEF Rest
-----------------------------------------------------------------------------
\* What StreamsFollowPages says of one page.
StreamFollows(ch) ==
  /\ Subscribed(ch) => sub[ch] = tab[ch]
  /\ hand[ch] # NoEvent => Subscribed(ch) /\ hand[ch].board = sub[ch]
  /\ wire[ch] # <<>> => Subscribed(ch)
  /\ tab[ch] # NoBoard /\ read[ch] # NoRead =>
       IsAbout(ch, {"column-created"}) /\ read[ch].board = tab[ch]

LEMMA StreamsArePages == StreamsFollowPages <=> \A ch \in Channels : StreamFollows(ch)
  BY DEF StreamsFollowPages, StreamFollows

\* What a page, its stream and its handler do to the others, to the service and to the
\* listener: nothing.
LEMMA OnlyItsPage ==
  ASSUME HubIInv, Rest, NEW p \in Channels, Page(p) \/ Stream(p) \/ ReadFails(p)
  PROVE  /\ UNCHANGED <<db, at, columns, changes, call, listening, queue, cast>>
         /\ \A ch \in Channels \ {p} :
              /\ sub'[ch] = sub[ch] /\ buf'[ch] = buf[ch]
              /\ tab'[ch] = tab[ch] /\ view'[ch] = view[ch]
              /\ read'[ch] = read[ch] /\ hand'[ch] = hand[ch] /\ wire'[ch] = wire[ch]
              /\ ch \in missed' <=> ch \in missed
  <1>1. /\ sub \in [Channels -> Boards \cup {NoBoard}] /\ buf \in [Channels -> Seq(Event)]
        /\ tab \in [Channels -> Boards \cup {NoBoard}]
        /\ view \in [Channels -> [Cards -> Versions]]
        /\ read \in [Channels -> Reads \cup {NoRead}]
        /\ hand \in [Channels -> Event \cup {NoEvent}]
        /\ wire \in [Channels -> Seq(Frames)]
    BY DEF HubIInv, HubTypeOK, Rest, Types
  <1> USE DEF hubVars, serverVars, dbVars, pageVars, streamVars
  <1>2. CASE BeginLoad(p) BY <1>1, <1>2 DEF BeginLoad, ListColumns
  <1>3. CASE Load(p)
    <2>1. /\ UNCHANGED <<hubVars, serverVars, hand, wire>>
          /\ \E b : tab' = [tab EXCEPT ![p] = b]
          /\ \E f : view' = [view EXCEPT ![p] = f]
          /\ read' = [read EXCEPT ![p] = NoRead]
          /\ missed' \in {missed \ {p}, missed \cup {p}}
      BY <1>3 DEF Load
    <2> QED BY <1>1, <2>1
  <1>4. CASE OpenStream(p) BY <1>1, <1>4 DEF OpenStream, Subscribe
  <1>5. CASE CloseStream(p) BY <1>1, <1>5 DEF CloseStream, Closed, Cancel
  <1>6. CASE LeavePage(p) BY <1>1, <1>6 DEF LeavePage, Closed
  <1>7. CASE TakeEvent(p) BY <1>1, <1>7 DEF TakeEvent, Receive
  <1>8. CASE BeginRender(p) BY <1>1, <1>8 DEF BeginRender, ListColumns
  <1>9. CASE WriteEvent(p)
    <2>1. /\ UNCHANGED <<hubVars, serverVars, pageVars, missed>>
          /\ hand' = [hand EXCEPT ![p] = NoEvent] /\ read' = [read EXCEPT ![p] = NoRead]
          /\ wire' = wire \/ \E w : wire' = [wire EXCEPT ![p] = w]
      BY <1>9 DEF WriteEvent
    <2> QED BY <1>1, <2>1
  <1>10. CASE ReceiveFrame(p)
    <2>1. /\ UNCHANGED <<hubVars, serverVars, tab, read, hand, missed>>
          /\ wire' = [wire EXCEPT ![p] = Tail(@)]
          /\ \E f : view' = [view EXCEPT ![p] = f]
      BY <1>10 DEF ReceiveFrame
    <2> QED BY <1>1, <2>1
  <1>11. CASE ReadFails(p) BY <1>1, <1>11 DEF ReadFails
  <1> QED BY <1>2, <1>3, <1>4, <1>5, <1>6, <1>7, <1>8, <1>9, <1>10, <1>11 DEF Page, Stream

\* The frame a handler writes tells cards of the page's board, as the database has them,
\* and those its event is sure to tell.
LEMMA WrittenFrames ==
  ASSUME HubIInv, Rest, StreamsFollowPages, NEW ch \in Channels, WriteEvent(ch)
  PROVE  /\ Frame(ch) \in Frames
         /\ \A x \in Cards : Frame(ch).texts[x] # Absent =>
              Frame(ch).texts[x] = db[x] /\ BoardOf[x] = tab[ch]
         /\ \A x \in Cards : Tells(hand[ch], x) => Frame(ch).texts[x] = db[x]
  <1>1. hand[ch] \in Event /\ Told(hand[ch])
    BY EventsOnTheWay DEF WriteEvent, Rest, EventsAreTrue
  <1>2. hand[ch].board = sub[ch] /\ sub[ch] = tab[ch] /\ sub[ch] # NoBoard
    BY DEF WriteEvent, StreamsFollowPages, Subscribed
  <1>3. hand[ch].body.action = "column-created" => read[ch].board = hand[ch].board
    BY <1>2 DEF WriteEvent, StreamsFollowPages, IsAbout
  <1> QED BY <1>1, <1>2, <1>3, FramesAreTrue DEF Rest, Types

LEMMA PageKeeps ==
  ASSUME HubIInv, Rest, StreamsFollowPages,
         NEW p \in Channels, Page(p) \/ Stream(p) \/ ReadFails(p)
  PROVE  Rest'
  <1>1. /\ buf \in [Channels -> Seq(Event)] /\ hand \in [Channels -> Event \cup {NoEvent}]
        /\ read \in [Channels -> Reads \cup {NoRead}]
        /\ wire \in [Channels -> Seq(Frames)]
        /\ view \in [Channels -> [Cards -> Versions]]
        /\ columns \in [Boards -> 1 .. MaxColumns] /\ db \in [Cards -> Versions]
        /\ \A ch \in Channels : hand[ch] # NoEvent => hand[ch] \in Event
    BY DEF HubIInv, HubTypeOK, Rest, Types, DbTypes
  <1>2. UNCHANGED <<db, at, columns, changes, call, listening, queue, cast>>
    BY OnlyItsPage
  <1>3. missed' \in SUBSET Channels /\ tab' \in [Channels -> Boards \cup {NoBoard}]
    <2>1. /\ missed' = missed \/ missed' = missed \cup {p} \/ missed' = missed \ {p}
          /\ \/ tab' = tab \/ tab' = [tab EXCEPT ![p] = NoBoard]
             \/ Load(p) /\ tab' = [tab EXCEPT ![p] = read[p].board] /\ read[p] # NoRead
      BY DEF Page, Stream, ReadFails, BeginLoad, Load, OpenStream, CloseStream, LeavePage, Closed,
             TakeEvent, BeginRender, WriteEvent, ReceiveFrame, pageVars
    <2>2. read[p] # NoRead => read[p].board \in Boards BY <1>1 DEF Reads
    <2> QED BY <2>1, <2>2 DEF Rest, Types
  <1>4. \A ch \in Channels : \A i \in 1 .. Len(buf'[ch]) :
          \E j \in 1 .. Len(buf[ch]) : buf'[ch][i] = buf[ch][j]
    <2>1. ASSUME NEW ch \in Channels
          PROVE  buf'[ch] = buf[ch] \/ buf'[ch] = <<>> \/ (buf[ch] # <<>> /\ buf'[ch] = Tail(buf[ch]))
      BY <1>1 DEF Page, Stream, ReadFails, BeginLoad, Load, OpenStream, CloseStream, LeavePage,
                  TakeEvent, BeginRender, WriteEvent, ReceiveFrame, Subscribe, Cancel, Receive,
                  hubVars
    <2>2. ASSUME NEW ch \in Channels, NEW i \in 1 .. Len(buf'[ch])
          PROVE  \E j \in 1 .. Len(buf[ch]) : buf'[ch][i] = buf[ch][j]
      <3>1. buf[ch] \in Seq(Event) BY <1>1
      <3>2. CASE buf'[ch] = buf[ch] BY <2>2, <3>2
      <3>3. CASE buf'[ch] = <<>> BY <2>2, <3>3
      <3>4. CASE buf[ch] # <<>> /\ buf'[ch] = Tail(buf[ch])
        <4>1. i + 1 \in 1 .. Len(buf[ch]) /\ buf'[ch][i] = buf[ch][i + 1]
          BY <2>2, <3>1, <3>4
        <4> QED BY <4>1
      <3> QED BY <2>1, <3>2, <3>3, <3>4
    <2> QED BY <2>2
  <1>5. \/ hand' = hand \/ hand' = [hand EXCEPT ![p] = NoEvent]
        \/ /\ hand' = [hand EXCEPT ![p] = buf[p][1]]
           /\ 1 \in 1 .. Len(buf[p]) /\ buf[p][1] \in Event
    <2>1. CASE TakeEvent(p)
      <3>1. buf[p] \in Seq(Event) /\ buf[p] # <<>> /\ hand' = [hand EXCEPT ![p] = Head(buf[p])]
        BY <1>1, <2>1 DEF TakeEvent, Receive
      <3>2. 1 \in 1 .. Len(buf[p]) /\ Head(buf[p]) = buf[p][1] /\ Head(buf[p]) \in Event
        BY <3>1
      <3> QED BY <3>1, <3>2
    <2>2. CASE ~TakeEvent(p)
      BY <2>2 DEF Page, Stream, ReadFails, BeginLoad, Load, OpenStream, CloseStream, LeavePage,
                  BeginRender, WriteEvent, ReceiveFrame, streamVars
    <2> QED BY <2>1, <2>2
  <1>6. hand' \in [Channels -> Event \cup {NoEvent}] BY <1>1, <1>5
  <1>7. read' \in [Channels -> Reads \cup {NoRead}]
    <2>1. \/ read' = read \/ read' = [read EXCEPT ![p] = NoRead]
          \/ \E b \in Boards : ListColumns(p, b)
      <3>1. CASE BeginRender(p)
        <4>1. hand[p].board \in Boards
          BY <1>1, <3>1, EventFields DEF BeginRender, IsAbout
        <4> QED BY <3>1, <4>1 DEF BeginRender
      <3>2. CASE ~BeginRender(p)
        BY <3>2 DEF Page, Stream, ReadFails, BeginLoad, Load, OpenStream, CloseStream, LeavePage,
                    TakeEvent, WriteEvent, ReceiveFrame, streamVars
      <3> QED BY <3>1, <3>2
    <2>2. \A b \in Boards : [board |-> b, found |-> columns[b]] \in Reads BY <1>1 DEF Reads
    <2> QED BY <1>1, <2>1, <2>2 DEF ListColumns
  <1>8. wire' \in [Channels -> Seq(Frames)]
    <2>1. CASE WriteEvent(p)
      <3>1. Frame(p) \in Frames BY <2>1, WrittenFrames
      <3>2. wire' = wire \/ wire' = [wire EXCEPT ![p] = Append(@, Frame(p))]
        BY <2>1 DEF WriteEvent
      <3>3. \A w \in Seq(Frames) : Append(w, Frame(p)) \in Seq(Frames)
        <4> DEFINE f == Frame(p)
        <4>1. f \in Frames BY <3>1
        <4> HIDE DEF f
        <4>2. \A w \in Seq(Frames) : Append(w, f) \in Seq(Frames) BY <4>1
        <4> QED BY <4>2 DEF f
      <3>4. Append(wire[p], Frame(p)) \in Seq(Frames) BY <1>1, <3>3
      <3> QED BY <1>1, <3>2, <3>4
    <2>2. CASE ReceiveFrame(p)
      <3>1. wire[p] # <<>> /\ wire' = [wire EXCEPT ![p] = Tail(@)] BY <2>2 DEF ReceiveFrame
      <3>2. Tail(wire[p]) \in Seq(Frames) BY <1>1, <3>1
      <3> QED BY <1>1, <3>1, <3>2
    <2>3. CASE ~WriteEvent(p) /\ ~ReceiveFrame(p)
      <3>1. wire' = wire \/ wire' = [wire EXCEPT ![p] = <<>>]
        BY <2>3 DEF Page, Stream, ReadFails, BeginLoad, Load, OpenStream, CloseStream, LeavePage,
                    TakeEvent, BeginRender, streamVars
      <3>2. <<>> \in Seq(Frames) OBVIOUS
      <3> QED BY <1>1, <3>1, <3>2
    <2> QED BY <2>1, <2>2, <2>3
  <1>9. view' \in [Channels -> [Cards -> Versions]]
    <2>1. CASE Load(p)
      <3>1. PICK S : view' = [view EXCEPT ![p] = [c \in Cards |-> IF c \in S THEN db[c] ELSE Absent]]
        <4> DEFINE b == read[p].board
                   hidden == {c \in Cards : BoardOf[c] = b /\ Live(db[c])} \ Found(p)
                   S == {c \in Cards : BoardOf[c] = b /\ c \notin hidden}
        <4>1. view' = [view EXCEPT ![p] =
                         [c \in Cards |-> IF BoardOf[c] = b /\ c \notin hidden THEN db[c] ELSE Absent]]
          BY <2>1 DEF Load
        <4> HIDE DEF hidden, b
        <4>2. view' = [view EXCEPT ![p] = [c \in Cards |-> IF c \in S THEN db[c] ELSE Absent]]
          BY <4>1
        <4> QED BY <4>2
      <3>2. [c \in Cards |-> IF c \in S THEN db[c] ELSE Absent] \in [Cards -> Versions]
        BY <1>1, VersionNumbers
      <3> QED BY <1>1, <3>1, <3>2
    <2>2. CASE ReceiveFrame(p)
      <3> DEFINE texts == Head(wire[p]).texts
                 new == [c \in Cards |-> IF texts[c] = Absent THEN view[p][c] ELSE texts[c]]
      <3>1. view' = [view EXCEPT ![p] = new] BY <1>1, <2>2 DEF ReceiveFrame
      <3>2. Head(wire[p]) \in Frames BY <1>1, <2>2 DEF ReceiveFrame
      <3>3. texts \in [Cards -> Versions] BY <3>2 DEF Frames
      <3>4. new \in [Cards -> Versions] BY <1>1, <3>3
      <3> HIDE DEF new
      <3> QED BY <1>1, <3>1, <3>4
    <2>3. CASE ~Load(p) /\ ~ReceiveFrame(p)
      <3>1. view' = view \/ view' = [view EXCEPT ![p] = Unseen]
        BY <2>3 DEF Page, Stream, ReadFails, BeginLoad, OpenStream, CloseStream, LeavePage, Closed,
                    TakeEvent, BeginRender, WriteEvent, pageVars
      <3>2. Unseen \in [Cards -> Versions] BY VersionNumbers DEF Unseen
      <3> QED BY <1>1, <3>1, <3>2
    <2> QED BY <2>1, <2>2, <2>3
  <1>10. Types' BY <1>2, <1>3, <1>6, <1>7, <1>8, <1>9 DEF Rest, Types, DbTypes
  <1>11. EventsAreTrue'
    <2>1. EventsAreTrue /\ db' = db BY <1>2 DEF Rest
    <2>2. /\ \A r \in Requests : call'[r] # Nothing => Told(call[r])'
          /\ \A i \in 1 .. Len(queue') : Told(queue[i])'
          /\ \A g \in Broadcasters : cast'[g].to # {} => Told(cast[g].ev)'
      BY <1>2, <2>1 DEF EventsAreTrue, Told
    <2>3. ASSUME NEW ch \in Channels, NEW i \in 1 .. Len(buf'[ch]) PROVE Told(buf[ch][i])'
      <3>1. PICK j \in 1 .. Len(buf[ch]) : buf'[ch][i] = buf[ch][j] BY <1>4, <2>3
      <3>2. Told(buf[ch][j]) BY <2>1 DEF EventsAreTrue
      <3> QED BY <2>1, <3>1, <3>2 DEF Told
    <2>4. ASSUME NEW ch \in Channels, hand'[ch] # NoEvent PROVE Told(hand[ch])'
      <3>1. CASE hand'[ch] = hand[ch] BY <2>1, <2>4, <3>1 DEF EventsAreTrue, Told
      <3>2. CASE 1 \in 1 .. Len(buf[ch]) /\ hand'[ch] = buf[ch][1]
        BY <2>1, <3>2 DEF EventsAreTrue, Told
      <3>3. \/ hand'[ch] = hand[ch] \/ hand'[ch] = NoEvent
            \/ 1 \in 1 .. Len(buf[ch]) /\ hand'[ch] = buf[ch][1]
        <4>1. CASE ch # p BY <1>1, <1>5, <4>1
        <4>2. CASE ch = p BY <1>1, <1>5, <4>2
        <4> QED BY <4>1, <4>2
      <3> QED BY <2>4, <3>1, <3>2, <3>3
    <2> QED BY <2>2, <2>3, <2>4 DEF EventsAreTrue, Told
  <1> QED BY <1>10, <1>11 DEF Rest
-----------------------------------------------------------------------------
\* Streams open for the board of the page, and pages change boards without one.
LEMMA StreamsKeep ==
  HubIInv /\ Rest /\ StreamsFollowPages /\ [Next]_rtVars => StreamsFollowPages'
  <1> SUFFICES ASSUME HubIInv, Rest, StreamsFollowPages, [Next]_rtVars
               PROVE  StreamsFollowPages'
    OBVIOUS
  <1>1. /\ sub \in [Channels -> Boards \cup {NoBoard}] /\ buf \in [Channels -> Seq(Event)]
        /\ tab \in [Channels -> Boards \cup {NoBoard}]
        /\ hand \in [Channels -> Event \cup {NoEvent}]
        /\ read \in [Channels -> Reads \cup {NoRead}]
        /\ wire \in [Channels -> Seq(Frames)]
    BY DEF HubIInv, HubTypeOK, Rest, Types
  <1>2. CASE UNCHANGED <<sub, tab, read, hand, wire>>
    BY <1>2 DEF StreamsFollowPages, Subscribed, IsAbout
  <1>3. ASSUME NEW r \in Requests, Change(r) \/ Finish(r)
        PROVE  UNCHANGED <<sub, tab, read, hand, wire>>
    BY <1>3 DEF Change, Finish, CreateCard, UpdateCard, MoveCard, DeleteCard, Owe, AddColumn, Notify,
                BoardLookupFails, NotifyFails, hubVars, pageVars, streamVars
  <1>4. CASE Listen \/ Disconnect \/ Broadcast
    BY <1>2, <1>4 DEF Listen, Disconnect, Broadcast, StartBroadcast, hubVars, pageVars, streamVars
  <1>5. ASSUME NEW ch \in Channels, SendTo(ch) PROVE UNCHANGED <<sub, tab, read, hand, wire>>
    BY <1>5 DEF SendTo, Send, pageVars, streamVars
  <1>6. ASSUME NEW p \in Channels, Page(p) \/ Stream(p) \/ ReadFails(p)
        PROVE  StreamsFollowPages'
    <2>1. ASSUME NEW ch \in Channels, ch # p PROVE StreamFollows(ch)'
      <3>1. StreamFollows(ch) BY StreamsArePages
      <3>2. /\ sub'[ch] = sub[ch] /\ tab'[ch] = tab[ch] /\ read'[ch] = read[ch]
            /\ hand'[ch] = hand[ch] /\ wire'[ch] = wire[ch]
        BY <1>6, <2>1, OnlyItsPage
      <3> QED BY <3>1, <3>2 DEF StreamFollows, Subscribed, IsAbout
    <2>2. StreamFollows(p)'
      <3> USE DEF StreamFollows, Subscribed, IsAbout
      <3>1. StreamFollows(p) BY StreamsArePages
      <3>2. CASE BeginLoad(p)
        BY <1>1, <3>1, <3>2 DEF BeginLoad, ListColumns, hubVars, pageVars
      <3>3. CASE Load(p)
        <4>1. sub[p] = NoBoard /\ hand[p] = NoEvent /\ wire[p] = <<>> BY <3>1, <3>3 DEF Load
        <4>2. /\ UNCHANGED <<sub, hand, wire>> /\ read' = [read EXCEPT ![p] = NoRead]
          BY <3>3 DEF Load, hubVars
        <4> QED BY <1>1, <4>1, <4>2
      <3>4. CASE OpenStream(p)
        <4>1. sub[p] = NoBoard /\ hand[p] = NoEvent /\ wire[p] = <<>>
          BY <3>1, <3>4 DEF OpenStream, Subscribe, Collected
        <4>2. UNCHANGED <<tab, hand, read, wire>> /\ sub' = [sub EXCEPT ![p] = tab[p]]
          BY <3>4 DEF OpenStream, Subscribe, pageVars, streamVars
        <4> QED BY <1>1, <3>1, <4>1, <4>2
      <3>5. CASE CloseStream(p)
        <4>1. /\ sub' = [sub EXCEPT ![p] = NoBoard] /\ read' = [read EXCEPT ![p] = NoRead]
              /\ hand' = [hand EXCEPT ![p] = NoEvent] /\ wire' = [wire EXCEPT ![p] = <<>>]
          BY <3>5 DEF CloseStream, Cancel
        <4> QED BY <1>1, <4>1
      <3>6. CASE LeavePage(p)
        <4>1. /\ sub[p] = NoBoard /\ UNCHANGED <<sub, hand, read, wire>>
              /\ tab' = [tab EXCEPT ![p] = NoBoard]
          BY <3>6 DEF LeavePage, Closed, hubVars, streamVars
        <4> QED BY <1>1, <3>1, <4>1
      <3>7. CASE TakeEvent(p)
        <4>1. buf[p] \in Seq(Event) /\ buf[p] # <<>> /\ hand'[p] = Head(buf[p]) /\ sub[p] # NoBoard
          BY <1>1, <3>7 DEF TakeEvent, Receive
        <4>2. 1 \in 1 .. Len(buf[p]) /\ Head(buf[p]) = buf[p][1] BY <4>1
        <4>3. Head(buf[p]).board = sub[p] BY <4>1, <4>2 DEF HubIInv, Isolation
        <4>4. UNCHANGED <<sub, tab, read, wire>> /\ hand[p] = NoEvent
          BY <3>7 DEF TakeEvent, Receive, pageVars
        <4> QED BY <3>1, <4>1, <4>3, <4>4
      <3>8. CASE BeginRender(p)
        <4>1. /\ hand[p] # NoEvent /\ hand[p].body.action \in {"column-created"}
              /\ read'[p].board = hand[p].board
              /\ UNCHANGED <<sub, tab, hand, wire>>
          BY <1>1, <3>8 DEF BeginRender, ListColumns, hubVars, pageVars
        <4> QED BY <3>1, <4>1
      <3>9. CASE WriteEvent(p) \/ ReadFails(p)
        <4>1. /\ hand[p] # NoEvent /\ UNCHANGED <<sub, tab>>
              /\ hand' = [hand EXCEPT ![p] = NoEvent] /\ read' = [read EXCEPT ![p] = NoRead]
          BY <3>9 DEF WriteEvent, ReadFails, hubVars, pageVars
        <4> QED BY <1>1, <3>1, <4>1
      <3>10. CASE ReceiveFrame(p)
        <4>1. wire[p] # <<>> /\ UNCHANGED <<sub, tab, read, hand>>
          BY <3>10 DEF ReceiveFrame, hubVars
        <4> QED BY <3>1, <4>1
      <3> QED BY <1>6, <3>2, <3>3, <3>4, <3>5, <3>6, <3>7, <3>8, <3>9, <3>10 DEF Page, Stream
    <2>3. \A ch \in Channels : StreamFollows(ch)' BY <2>1, <2>2
    <2> QED BY <2>3 DEF StreamsFollowPages, StreamFollows, Subscribed, IsAbout
  <1>7. CASE UNCHANGED rtVars
    BY <1>2, <1>7 DEF rtVars, hubVars, pageVars, streamVars
  <1> QED BY <1>2, <1>3, <1>4, <1>5, <1>6, <1>7 DEF Next, Forward
-----------------------------------------------------------------------------
\* What FramesGoForward says of one page and card.
GoesForward(ch, c) ==
  /\ view[ch][c] <= db[c]
  /\ \A i \in 1 .. Len(wire[ch]) :
       LET v == wire[ch][i].texts[c]
       IN  v # Absent =>
             /\ BoardOf[c] = tab[ch]
             /\ view[ch][c] <= v /\ v <= db[c]
             /\ \A j \in i + 1 .. Len(wire[ch]) :
                  wire[ch][j].texts[c] # Absent => v <= wire[ch][j].texts[c]

LEMMA AllGoForward ==
  FramesGoForward <=> \A ch \in Channels, c \in Cards : GoesForward(ch, c)
  BY DEF FramesGoForward, GoesForward

\* A page whose frames are left alone, while cards only go on.
LEMMA GoesOnForward ==
  ASSUME Types, NEW ch \in Channels, NEW c \in Cards, GoesForward(ch, c),
         view'[ch] = view[ch], tab'[ch] = tab[ch], wire'[ch] = wire[ch],
         db'[c] \in Versions, db'[c] >= db[c]
  PROVE  GoesForward(ch, c)'
  <1>1. /\ db[c] \in Nat /\ view[ch][c] \in Nat /\ db'[c] \in Nat
        /\ \A i \in 1 .. Len(wire[ch]) : wire[ch][i].texts[c] \in Nat
    <2>1. wire[ch] \in Seq(Frames) BY DEF Types
    <2>2. \A i \in 1 .. Len(wire[ch]) : wire[ch][i] \in Frames BY <2>1
    <2> QED BY <2>2, VersionNumbers DEF Types, DbTypes, Frames
  <1> QED BY <1>1 DEF GoesForward

\* A page without frames on their way, told nothing the database is not past.
LEMMA NoFramesGoForward ==
  ASSUME NEW ch \in Channels, NEW c \in Cards, wire'[ch] = <<>>, view'[ch][c] <= db'[c]
  PROVE  GoesForward(ch, c)'
  BY DEF GoesForward

\* A frame is written: no other on its way is later than the database.
LEMMA WriteGoesForward ==
  ASSUME HubIInv, Rest, StreamsFollowPages, NEW p \in Channels, WriteEvent(p),
         NEW c \in Cards, GoesForward(p, c)
  PROVE  GoesForward(p, c)'
  <1> DEFINE w == wire[p]
             f == Frame(p)
  <1>1. /\ UNCHANGED <<db, tab, view>> /\ wire \in [Channels -> Seq(Frames)]
        /\ wire' = wire \/ wire' = [wire EXCEPT ![p] = Append(@, f)]
        /\ db[c] \in Versions /\ db[c] >= db[c]
    BY VersionNumbers DEF WriteEvent, serverVars, dbVars, pageVars, Rest, Types, DbTypes
  <1>2. CASE wire' = wire
    BY <1>1, <1>2, GoesOnForward DEF Rest
  <1>3. CASE wire' = [wire EXCEPT ![p] = Append(@, f)]
    <2>1. /\ f \in Frames
          /\ f.texts[c] # Absent => f.texts[c] = db[c] /\ BoardOf[c] = tab[p]
      BY WrittenFrames
    <2>2. wire'[p] = Append(w, f) /\ w \in Seq(Frames) BY <1>1, <1>3
    <2> HIDE DEF w, f
    <2>3. /\ Len(wire'[p]) = Len(w) + 1 /\ Len(w) \in Nat
          /\ wire'[p][Len(w) + 1] = f
          /\ \A i \in 1 .. Len(w) : wire'[p][i] = w[i]
      BY <2>1, <2>2
    <2>4. ASSUME NEW i \in 1 .. Len(wire'[p]), wire'[p][i].texts[c] # Absent
          PROVE  /\ BoardOf[c] = tab'[p]
                 /\ view'[p][c] <= wire'[p][i].texts[c] /\ wire'[p][i].texts[c] <= db'[c]
                 /\ \A j \in i + 1 .. Len(wire'[p]) :
                      wire'[p][j].texts[c] # Absent => wire'[p][i].texts[c] <= wire'[p][j].texts[c]
      <3>1. CASE i = Len(w) + 1
        <4>1. wire'[p][i].texts[c] = db[c] /\ BoardOf[c] = tab[p] BY <2>1, <2>3, <2>4, <3>1
        <4>2. view[p][c] <= db[c] BY DEF GoesForward
        <4>3. i + 1 .. Len(wire'[p]) = {} BY <2>3, <3>1
        <4>4. db[c] <= db[c] BY <1>1
        <4> QED BY <1>1, <4>1, <4>2, <4>3, <4>4
      <3>2. CASE i # Len(w) + 1
        <4>1. i \in 1 .. Len(w) /\ wire'[p][i] = w[i] BY <2>3, <3>2
        <4>2. /\ BoardOf[c] = tab[p] /\ view[p][c] <= w[i].texts[c] /\ w[i].texts[c] <= db[c]
              /\ \A j \in i + 1 .. Len(w) :
                   w[j].texts[c] # Absent => w[i].texts[c] <= w[j].texts[c]
          BY <2>4, <4>1 DEF GoesForward, w
        <4>3. ASSUME NEW j \in i + 1 .. Len(wire'[p]), wire'[p][j].texts[c] # Absent
              PROVE  wire'[p][i].texts[c] <= wire'[p][j].texts[c]
          <5>1. CASE j = Len(w) + 1 BY <2>1, <2>3, <4>1, <4>2, <4>3, <5>1
          <5>2. CASE j # Len(w) + 1
            <6>1. j \in i + 1 .. Len(w) /\ j \in 1 .. Len(w) BY <2>3, <4>1, <5>2
            <6>2. wire'[p][j] = w[j] BY <2>3, <6>1
            <6> QED BY <4>1, <4>2, <4>3, <6>1, <6>2
          <5> QED BY <5>1, <5>2
        <4> QED BY <1>1, <4>1, <4>2, <4>3
      <3> QED BY <3>1, <3>2
    <2>5. view'[p][c] <= db'[c] BY <1>1 DEF GoesForward
    <2> QED BY <2>4, <2>5 DEF GoesForward
  <1> QED BY <1>1, <1>2, <1>3

\* The oldest frame arrives: it is no earlier than what the page had been told, and no
\* later than the others.
LEMMA ReceiveGoesForward ==
  ASSUME Rest, NEW p \in Channels, ReceiveFrame(p), NEW c \in Cards, GoesForward(p, c)
  PROVE  GoesForward(p, c)'
  <1> DEFINE w == wire[p]
             v1 == w[1].texts[c]
  <1>1. /\ w \in Seq(Frames) /\ w # <<>> /\ wire'[p] = Tail(w)
        /\ view'[p][c] = IF v1 = Absent THEN view[p][c] ELSE v1
        /\ UNCHANGED <<db, tab>> /\ db[c] \in Nat /\ view[p][c] \in Nat
    <2>1. /\ view \in [Channels -> [Cards -> Versions]] /\ wire \in [Channels -> Seq(Frames)]
          /\ wire[p] # <<>> /\ db[c] \in Nat
      BY VersionNumbers DEF ReceiveFrame, Rest, Types, DbTypes
    <2>2. Head(w) = w[1] BY <2>1
    <2>3. view'[p][c] = IF Head(w).texts[c] = Absent THEN view[p][c] ELSE Head(w).texts[c]
      BY <2>1 DEF ReceiveFrame
    <2>4. UNCHANGED <<db, tab>> /\ wire'[p] = Tail(w)
      BY <2>1 DEF ReceiveFrame, serverVars, dbVars
    <2> QED BY <2>1, <2>2, <2>3, <2>4, VersionNumbers
  <1>2. /\ Len(w) \in Nat /\ 1 \in 1 .. Len(w) /\ Len(wire'[p]) = Len(w) - 1
        /\ \A i \in 1 .. Len(wire'[p]) :
             i + 1 \in 2 .. Len(w) /\ i + 1 \in 1 .. Len(w) /\ wire'[p][i] = w[i + 1]
    BY <1>1
  <1>3. /\ view[p][c] <= db[c]
        /\ \A i \in 1 .. Len(w) : w[i].texts[c] # Absent =>
             /\ BoardOf[c] = tab[p] /\ view[p][c] <= w[i].texts[c] /\ w[i].texts[c] <= db[c]
             /\ \A j \in i + 1 .. Len(w) :
                  w[j].texts[c] # Absent => w[i].texts[c] <= w[j].texts[c]
    BY DEF GoesForward
  <1> HIDE DEF w
  <1>4. view'[p][c] <= db'[c] BY <1>1, <1>2, <1>3
  <1>5. ASSUME NEW i \in 1 .. Len(wire'[p]), wire'[p][i].texts[c] # Absent
        PROVE  /\ BoardOf[c] = tab'[p]
               /\ view'[p][c] <= wire'[p][i].texts[c] /\ wire'[p][i].texts[c] <= db'[c]
               /\ \A j \in i + 1 .. Len(wire'[p]) :
                    wire'[p][j].texts[c] # Absent => wire'[p][i].texts[c] <= wire'[p][j].texts[c]
    <2>1. i + 1 \in 2 .. Len(w) /\ i + 1 \in 1 .. Len(w) /\ wire'[p][i] = w[i + 1] BY <1>2
    <2>2. /\ BoardOf[c] = tab[p] /\ view[p][c] <= w[i + 1].texts[c] /\ w[i + 1].texts[c] <= db[c]
          /\ \A j \in (i + 1) + 1 .. Len(w) :
               w[j].texts[c] # Absent => w[i + 1].texts[c] <= w[j].texts[c]
      BY <1>3, <1>5, <2>1
    <2>3. v1 # Absent => v1 <= w[i + 1].texts[c]
      <3>1. i + 1 \in 1 + 1 .. Len(w) BY <2>1
      <3>2. w[i + 1].texts[c] # Absent BY <1>5, <2>1
      <3> QED BY <1>2, <1>3, <3>1, <3>2
    <2>4. view'[p][c] <= wire'[p][i].texts[c] BY <1>1, <2>1, <2>2, <2>3
    <2>5. ASSUME NEW j \in i + 1 .. Len(wire'[p]), wire'[p][j].texts[c] # Absent
          PROVE  wire'[p][i].texts[c] <= wire'[p][j].texts[c]
      <3>1. j \in 1 .. Len(wire'[p]) BY <1>2
      <3>2. j + 1 \in (i + 1) + 1 .. Len(w) /\ wire'[p][j] = w[j + 1] BY <1>2, <3>1
      <3> QED BY <2>1, <2>2, <2>5, <3>2
    <2> QED BY <1>1, <2>1, <2>2, <2>4, <2>5
  <1> QED BY <1>4, <1>5 DEF GoesForward

LEMMA PageGoesForward ==
  ASSUME HubIInv, Rest, StreamsFollowPages, NEW p \in Channels,
         Page(p) \/ Stream(p) \/ ReadFails(p),
         NEW c \in Cards, GoesForward(p, c)
  PROVE  GoesForward(p, c)'
  <1>1. /\ view \in [Channels -> [Cards -> Versions]] /\ wire \in [Channels -> Seq(Frames)]
        /\ db[c] \in Versions /\ db[c] \in Nat /\ db' = db /\ db[c] >= db[c]
    BY OnlyItsPage, VersionNumbers DEF Rest, Types, DbTypes
  <1>2. ~Subscribed(p) => wire[p] = <<>> BY DEF StreamsFollowPages
  <1>3. CASE UNCHANGED <<view, tab, wire>>
    BY <1>1, <1>3, GoesOnForward DEF Rest
  <1>4. CASE Load(p)
    <2>1. wire'[p] = <<>>
      <3>1. ~Subscribed(p) BY <1>4 DEF Load, StreamsFollowPages, Subscribed
      <3> QED BY <1>2, <1>4, <3>1 DEF Load
    <2>2. view'[p][c] = db[c] \/ view'[p][c] = Absent
      <3> DEFINE b == read[p].board
                 hidden == {x \in Cards : BoardOf[x] = b /\ Live(db[x])} \ Found(p)
      <3>1. view' = [view EXCEPT ![p] =
                       [x \in Cards |-> IF BoardOf[x] = b /\ x \notin hidden THEN db[x] ELSE Absent]]
        BY <1>4 DEF Load
      <3> HIDE DEF hidden, b
      <3> QED BY <1>1, <3>1
    <2>3. view'[p][c] <= db'[c] BY <1>1, <2>2, VersionNumbers
    <2> QED BY <2>1, <2>3, NoFramesGoForward
  <1>5. CASE CloseStream(p) \/ LeavePage(p)
    <2>1. wire'[p] = <<>>
      BY <1>1, <1>2, <1>5 DEF CloseStream, LeavePage, streamVars
    <2>2. view' = view \/ view' = [view EXCEPT ![p] = Unseen]
      BY <1>5 DEF CloseStream, LeavePage, Closed, pageVars
    <2>3. view[p][c] <= db[c] BY DEF GoesForward
    <2>4. view'[p][c] = view[p][c] \/ view'[p][c] = Absent BY <1>1, <2>2 DEF Unseen
    <2>5. view'[p][c] <= db'[c] BY <1>1, <2>3, <2>4, VersionNumbers
    <2> QED BY <2>1, <2>5, NoFramesGoForward
  <1>6. CASE WriteEvent(p) BY <1>6, WriteGoesForward
  <1>7. CASE ReceiveFrame(p) BY <1>7, ReceiveGoesForward
  <1>8. CASE BeginLoad(p) \/ OpenStream(p) \/ TakeEvent(p) \/ BeginRender(p) \/ ReadFails(p)
    BY <1>3, <1>8 DEF BeginLoad, OpenStream, TakeEvent, BeginRender, ReadFails, pageVars, streamVars
  <1> QED BY <1>4, <1>5, <1>6, <1>7, <1>8 DEF Page, Stream

LEMMA ForwardKeeps ==
  HubIInv /\ Rest /\ StreamsFollowPages /\ FramesGoForward /\ [Next]_rtVars => FramesGoForward'
  <1> SUFFICES ASSUME HubIInv, Rest, StreamsFollowPages, FramesGoForward, [Next]_rtVars,
                      NEW ch \in Channels, NEW c \in Cards
               PROVE  GoesForward(ch, c)'
    BY DEF FramesGoForward, GoesForward
  <1>1. GoesForward(ch, c) BY AllGoForward
  <1>2. db[c] \in Versions /\ db[c] \in Nat /\ db[c] >= db[c]
    BY VersionNumbers DEF Rest, Types, DbTypes
  <1>3. CASE UNCHANGED <<db, view, tab, wire>> BY <1>1, <1>2, <1>3, GoesOnForward DEF Rest
  <1>4. ASSUME NEW r \in Requests, Change(r) PROVE GoesForward(ch, c)'
    <2>1. UNCHANGED <<view, tab, wire>> /\ db'[c] >= db[c] /\ db'[c] \in Versions
      <3>1. DbTypes' /\ UNCHANGED <<pageVars, streamVars>> /\ db'[c] >= db[c]
        BY <1>4, ChangeIs DEF Rest
      <3> QED BY <3>1 DEF DbTypes, pageVars, streamVars
    <2> QED BY <1>1, <2>1, GoesOnForward DEF Rest
  <1>5. ASSUME NEW r \in Requests, Finish(r) PROVE UNCHANGED <<db, view, tab, wire>>
    BY <1>5 DEF Finish, Notify, BoardLookupFails, NotifyFails, dbVars, pageVars, streamVars
  <1>6. CASE Listen \/ Disconnect \/ Broadcast
    BY <1>3, <1>6 DEF Listen, Disconnect, Broadcast, dbVars, pageVars, streamVars
  <1>7. ASSUME NEW to \in Channels, SendTo(to) PROVE UNCHANGED <<db, view, tab, wire>>
    BY <1>7 DEF SendTo, serverVars, dbVars, pageVars, streamVars
  <1>8. ASSUME NEW p \in Channels, Page(p) \/ Stream(p) \/ ReadFails(p) PROVE GoesForward(ch, c)'
    <2>1. CASE p = ch BY <1>1, <1>8, <2>1, PageGoesForward
    <2>2. CASE p # ch
      <3>1. /\ view'[ch] = view[ch] /\ tab'[ch] = tab[ch] /\ wire'[ch] = wire[ch] /\ db' = db
        BY <1>8, <2>2, OnlyItsPage
      <3> QED BY <1>1, <1>2, <3>1, GoesOnForward DEF Rest
    <2> QED BY <2>1, <2>2
  <1>9. CASE UNCHANGED rtVars BY <1>3, <1>9 DEF rtVars, dbVars, pageVars, streamVars
  <1> QED BY <1>3, <1>4, <1>5, <1>6, <1>7, <1>8, <1>9 DEF Next, Forward
-----------------------------------------------------------------------------
\* What the inductive steps below start from: all but BehindOnlyIfMissed.
Core == HubIInv /\ Rest /\ StreamsFollowPages /\ FramesGoForward

LEMMA CoreInit == Init => Core
  <1> SUFFICES ASSUME Init PROVE Core OBVIOUS
  <1>1. HubIInv BY HubInitInv DEF Init
  <1>2. Types
    <2>1. db \in [Cards -> Versions] BY VersionNumbers DEF Init
    <2>2. at \in [Cards -> 0 .. MaxColumns]
      <3>1. PICK k \in [Cards -> 1 .. FirstColumns] :
              at = [c \in Cards |-> IF c \in NewCards THEN NoColumn ELSE k[c]]
        BY DEF Init
      <3>2. NoColumn \in 0 .. MaxColumns /\ \A c \in Cards : k[c] \in 0 .. MaxColumns
        BY RealtimeConstants DEF NoColumn
      <3> QED BY <3>1, <3>2
    <2>3. columns \in [Boards -> 1 .. MaxColumns] BY RealtimeConstants DEF Init
    <2>4. changes \in 0 .. MaxChanges BY RealtimeConstants DEF Init
    <2>5. call \in [Requests -> Event \cup {Nothing}] BY DEF Init
    <2>6. listening \in BOOLEAN /\ queue \in Seq(Event)
      <3>1. queue = <<>> /\ <<>> \in Seq(Event) BY DEF Init
      <3>2. listening \in BOOLEAN BY DEF Init
      <3> QED BY <3>1, <3>2
    <2>7. tab \in [Channels -> Boards \cup {NoBoard}] BY DEF Init
    <2>8. view \in [Channels -> [Cards -> Versions]] BY VersionNumbers DEF Init, Unseen
    <2>9. hand \in [Channels -> Event \cup {NoEvent}] /\ read \in [Channels -> Reads \cup {NoRead}]
      BY DEF Init
    <2>10. wire \in [Channels -> Seq(Frames)]
      <3>1. <<>> \in Seq(Frames) OBVIOUS
      <3> QED BY <3>1 DEF Init
    <2>11. missed \in SUBSET Channels BY DEF Init
    <2> QED BY <2>1, <2>2, <2>3, <2>4, <2>5, <2>6, <2>7, <2>8, <2>9, <2>10, <2>11
            DEF Types, DbTypes
  <1>3. EventsAreTrue
    <2>1. \A ch \in Channels : buf[ch] = <<>> BY DEF Init, HubInit
    <2>2. \A g \in Broadcasters : cast[g].to = {} BY DEF Init, HubInit, NoCast
    <2>3. (\A r \in Requests : call[r] = Nothing) /\ queue = <<>> BY DEF Init
    <2>4. \A ch \in Channels : hand[ch] = NoEvent BY DEF Init
    <2> QED BY <2>1, <2>2, <2>3, <2>4 DEF EventsAreTrue
  <1>4. StreamsFollowPages
    <2>1. \A ch \in Channels : /\ sub[ch] = NoBoard /\ tab[ch] = NoBoard
                               /\ hand[ch] = NoEvent /\ wire[ch] = <<>>
      BY DEF Init, HubInit
    <2> QED BY <2>1 DEF StreamsFollowPages, Subscribed
  <1>5. FramesGoForward
    <2>1. \A ch \in Channels : wire[ch] = <<>> BY DEF Init
    <2>2. \A ch \in Channels, c \in Cards : view[ch][c] = Absent BY DEF Init, Unseen
    <2>3. \A c \in Cards : db[c] \in Nat BY <1>2, VersionNumbers DEF Types, DbTypes
    <2>4. \A ch \in Channels, c \in Cards : view[ch][c] <= db[c] BY <2>2, <2>3, VersionNumbers
    <2> QED BY <2>1, <2>4 DEF FramesGoForward
  <1> QED BY <1>1, <1>2, <1>3, <1>4, <1>5 DEF Core, Rest

LEMMA CoreKeeps == Core /\ [Next]_rtVars => Core'
  <1> SUFFICES ASSUME Core, [Next]_rtVars PROVE Rest'
    BY HubSteps, HubNextInv, StreamsKeep, ForwardKeeps DEF Core, Rest
  <1> USE DEF Core
  <1>2. CASE UNCHANGED rtVars
    <2>1. UNCHANGED <<buf, cast, db, at, columns, changes, call, listening, queue,
                      tab, view, read, hand, wire, missed>>
      BY <1>2 DEF rtVars, hubVars, dbVars, pageVars, streamVars
    <2>2. Types' BY <2>1 DEF Rest, Types, DbTypes
    <2>3. EventsAreTrue' BY <2>1 DEF Rest, EventsAreTrue, Told
    <2> QED BY <2>2, <2>3 DEF Rest
  <1>3. ASSUME NEW r \in Requests, Change(r) \/ Finish(r) PROVE Rest'
    BY <1>3, ChangeKeeps, FinishKeeps
  <1>4. ASSUME NEW ch \in Channels, Page(ch) \/ Stream(ch) \/ ReadFails(ch) PROVE Rest'
    BY <1>4, PageKeeps
  <1>5. ASSUME Listen \/ Disconnect PROVE Rest' BY <1>5, ListenerKeeps
  <1>6. ASSUME Broadcast PROVE Rest' BY <1>6, BroadcastKeeps
  <1>7. ASSUME NEW ch \in Channels, SendTo(ch) PROVE Rest' BY <1>7, SendToKeeps
  <1>8. CASE Next
    <2>1. CASE \E r \in Requests : Change(r) \/ Finish(r) BY <1>3, <2>1
    <2>2. CASE Listen \/ Disconnect BY <1>5, <2>2
    <2>3. CASE Forward BY <1>6, <1>7, <2>3 DEF Forward
    <2>4. CASE \E ch \in Channels : Page(ch) \/ Stream(ch) \/ ReadFails(ch) BY <1>4, <2>4
    <2> QED BY <1>8, <2>1, <2>2, <2>3, <2>4, Zenon DEF Next
  <1> QED BY <1>2, <1>8
-----------------------------------------------------------------------------
\* What every step but the ones it is said of leaves in place: an event or a frame that
\* tells c, of a card that does not change, at a place that keeps it.
LEMMA StaysOnItsWay ==
  ASSUME NEW ch \in Channels, NEW c \in Cards, db'[c] = db[c], at'[c] = at[c], OnItsWay(ch, c),
         \A r \in Requests : call[r] # Nothing /\ Tells(call[r], c) =>
           \/ call'[r] = call[r]
           \/ \E i \in 1 .. Len(queue') : queue'[i] = call[r],
         \A i \in 1 .. Len(queue) : Tells(queue[i], c) =>
           \/ \E j \in 1 .. Len(queue') : queue'[j] = queue[i]
           \/ sub'[ch] # NoBoard /\ ch \in cast'[Listener].to /\ cast'[Listener].ev = queue[i],
         Subscribed(ch) =>
           /\ ch \in cast[Listener].to /\ Tells(cast[Listener].ev, c) =>
                /\ sub'[ch] # NoBoard
                /\ \/ ch \in cast'[Listener].to /\ cast'[Listener].ev = cast[Listener].ev
                   \/ \E j \in 1 .. Len(buf'[ch]) : buf'[ch][j] = cast[Listener].ev
           /\ \A i \in 1 .. Len(buf[ch]) : Tells(buf[ch][i], c) =>
                /\ sub'[ch] # NoBoard
                /\ \/ \E j \in 1 .. Len(buf'[ch]) : buf'[ch][j] = buf[ch][i]
                   \/ hand'[ch] # NoEvent /\ hand'[ch] = buf[ch][i]
           /\ hand[ch] # NoEvent /\ Tells(hand[ch], c) =>
                /\ sub'[ch] # NoBoard
                /\ \/ hand'[ch] = hand[ch]
                   \/ \E j \in 1 .. Len(wire'[ch]) : wire'[ch][j].texts[c] = db[c]
           /\ \A i \in 1 .. Len(wire[ch]) : wire[ch][i].texts[c] = db[c] =>
                /\ sub'[ch] # NoBoard
                /\ \E j \in 1 .. Len(wire'[ch]) : wire'[ch][j].texts[c] = db[c]
  PROVE  OnItsWay(ch, c)'
  <1>1. CASE \E r \in Requests : call[r] # Nothing /\ Tells(call[r], c)
    <2>1. PICK r \in Requests : call[r] # Nothing /\ Tells(call[r], c) BY <1>1
    <2>2. CASE call'[r] = call[r]
      <3>1. call'[r] # Nothing /\ Tells(call[r], c)' BY <2>1, <2>2 DEF Tells
      <3> QED BY <3>1 DEF OnItsWay
    <2>3. CASE \E i \in 1 .. Len(queue') : queue'[i] = call[r]
      <3>1. \E i \in 1 .. Len(queue') : Tells(queue[i], c)' BY <2>1, <2>3 DEF Tells
      <3> QED BY <3>1 DEF OnItsWay
    <2> QED BY <2>1, <2>2, <2>3
  <1>2. CASE \E i \in 1 .. Len(queue) : Tells(queue[i], c)
    <2>1. PICK i \in 1 .. Len(queue) : Tells(queue[i], c) BY <1>2
    <2>2. CASE \E j \in 1 .. Len(queue') : queue'[j] = queue[i]
      <3>1. \E j \in 1 .. Len(queue') : Tells(queue[j], c)' BY <2>1, <2>2 DEF Tells
      <3> QED BY <3>1 DEF OnItsWay
    <2>3. CASE sub'[ch] # NoBoard /\ ch \in cast'[Listener].to /\ cast'[Listener].ev = queue[i]
      <3>1. Tells(cast[Listener].ev, c)' BY <2>1, <2>3 DEF Tells
      <3> QED BY <2>3, <3>1 DEF OnItsWay, Subscribed
    <2> QED BY <2>1, <2>2, <2>3
  <1>3. CASE Subscribed(ch) /\ ch \in cast[Listener].to /\ Tells(cast[Listener].ev, c)
    <2>1. sub'[ch] # NoBoard BY <1>3
    <2>2. CASE ch \in cast'[Listener].to /\ cast'[Listener].ev = cast[Listener].ev
      <3>1. Tells(cast[Listener].ev, c)' BY <1>3, <2>2 DEF Tells
      <3> QED BY <2>1, <2>2, <3>1 DEF OnItsWay, Subscribed
    <2>3. CASE \E j \in 1 .. Len(buf'[ch]) : buf'[ch][j] = cast[Listener].ev
      <3>1. \E j \in 1 .. Len(buf'[ch]) : Tells(buf[ch][j], c)' BY <1>3, <2>3 DEF Tells
      <3> QED BY <2>1, <3>1 DEF OnItsWay, Subscribed
    <2> QED BY <1>3, <2>2, <2>3
  <1>4. CASE Subscribed(ch) /\ \E i \in 1 .. Len(buf[ch]) : Tells(buf[ch][i], c)
    <2>1. PICK i \in 1 .. Len(buf[ch]) : Tells(buf[ch][i], c) BY <1>4
    <2>2. sub'[ch] # NoBoard BY <1>4, <2>1
    <2>3. CASE \E j \in 1 .. Len(buf'[ch]) : buf'[ch][j] = buf[ch][i]
      <3>1. \E j \in 1 .. Len(buf'[ch]) : Tells(buf[ch][j], c)' BY <2>1, <2>3 DEF Tells
      <3> QED BY <2>2, <3>1 DEF OnItsWay, Subscribed
    <2>4. CASE hand'[ch] # NoEvent /\ hand'[ch] = buf[ch][i]
      <3>1. Tells(hand[ch], c)' BY <2>1, <2>4 DEF Tells
      <3> QED BY <2>2, <2>4, <3>1 DEF OnItsWay, Subscribed
    <2> QED BY <1>4, <2>1, <2>3, <2>4
  <1>5. CASE Subscribed(ch) /\ hand[ch] # NoEvent /\ Tells(hand[ch], c)
    <2>1. sub'[ch] # NoBoard BY <1>5
    <2>2. CASE hand'[ch] = hand[ch]
      <3>1. Tells(hand[ch], c)' BY <1>5, <2>2 DEF Tells
      <3> QED BY <1>5, <2>1, <2>2, <3>1 DEF OnItsWay, Subscribed
    <2>3. CASE \E j \in 1 .. Len(wire'[ch]) : wire'[ch][j].texts[c] = db[c]
      BY <2>1, <2>3 DEF OnItsWay, Subscribed
    <2> QED BY <1>5, <2>2, <2>3
  <1>6. CASE Subscribed(ch) /\ \E i \in 1 .. Len(wire[ch]) : wire[ch][i].texts[c] = db[c]
    BY <1>6 DEF OnItsWay, Subscribed
  <1> QED BY <1>1, <1>2, <1>3, <1>4, <1>5, <1>6 DEF OnItsWay

Ready == Core /\ BehindOnlyIfMissed

\* The page of ch shows c, and otherwise than the database.
Behind(ch, c) == tab[ch] = BoardOf[c] /\ view[ch][c] # db[c]

\* A commit owes the event that tells its card.
LEMMA ChangeTells ==
  ASSUME Ready, NEW r \in Requests, Change(r),
         NEW ch \in Channels, NEW c \in Cards, ch \notin missed', Behind(ch, c)'
  PROVE  OnItsWay(ch, c)'
  <1>1. PICK e \in Event :
          /\ call[r] = Nothing /\ call' = [call EXCEPT ![r] = e]
          /\ UNCHANGED <<hubVars, listening, queue, pageVars, streamVars, missed>>
          /\ (db'[c] = db[c] /\ at'[c] = at[c]) \/ Tells(e, c)'
    BY ChangeIs DEF Ready, Core, Rest
  <1>2. UNCHANGED <<sub, buf, cast, queue, tab, view, hand, wire, missed>>
    BY <1>1 DEF hubVars, pageVars, streamVars
  <1>3. \A y \in Requests : call'[y] = IF y = r THEN e ELSE call[y]
    BY <1>1 DEF Ready, Core, Rest, Types
  <1>4. CASE Tells(e, c)'
    <2>1. e # Nothing
      <3>1. Nothing \notin Event BY DEF Event, Nothing
      <3> QED BY <3>1
    <2>2. call'[r] = e BY <1>3
    <2>3. Tells(call[r], c)' BY <1>4, <2>2 DEF Tells
    <2> QED BY <2>1, <2>2, <2>3 DEF OnItsWay
  <1>5. CASE db'[c] = db[c] /\ at'[c] = at[c]
    <2>1. OnItsWay(ch, c) BY <1>2, <1>5 DEF Ready, BehindOnlyIfMissed, Behind
    <2>2. \A y \in Requests : call[y] # Nothing => call'[y] = call[y] BY <1>1, <1>3
    <2> QED BY <1>2, <1>5, <2>1, <2>2, StaysOnItsWay DEF Subscribed
  <1> QED BY <1>1, <1>4, <1>5

LEMMA FinishTells ==
  ASSUME Ready, NEW r \in Requests, Finish(r),
         NEW ch \in Channels, NEW c \in Cards, ch \notin missed', Behind(ch, c)'
  PROVE  OnItsWay(ch, c)'
  <1>1. call[r] # Nothing /\ call[r] \in Event /\ Told(call[r]) /\ queue \in Seq(Event)
    BY EventsOnTheWay
    DEF Finish, Notify, BoardLookupFails, NotifyFails, Ready, Core, Rest, Types, EventsAreTrue
  <1>2. /\ call' = [call EXCEPT ![r] = Nothing]
        /\ queue' = queue \/ queue' = Append(queue, call[r])
        /\ missed \subseteq missed'
        /\ UNCHANGED <<hubVars, dbVars, pageVars, streamVars>>
    BY DEF Finish, Notify, BoardLookupFails, NotifyFails
  <1>3. UNCHANGED <<sub, buf, cast, db, at, tab, view, hand, wire>>
    BY <1>2 DEF hubVars, dbVars, pageVars, streamVars
  <1>4. OnItsWay(ch, c)
    BY <1>2, <1>3 DEF Ready, BehindOnlyIfMissed, Behind
  <1>5. \A i \in 1 .. Len(queue) : i \in 1 .. Len(queue') /\ queue'[i] = queue[i]
    BY <1>1, <1>2
  <1>6. ASSUME Tells(call[r], c)
        PROVE  \E i \in 1 .. Len(queue') : queue'[i] = call[r]
    <2>1. BoardOf[c] = call[r].board /\ ch \in Viewers(call[r].board)
      BY <1>1, <1>3, <1>6, RealtimeConstants DEF Tells, Told, Viewers, Behind
    <2>2. ~BoardLookupFails(r)
      BY <1>6 DEF BoardLookupFails, Tells, Live
    <2>3. ~NotifyFails(r) BY <2>1 DEF NotifyFails
    <2>4. queue' = Append(queue, call[r])
      BY <2>1, <2>2, <2>3 DEF Finish, Notify
    <2>5. Len(queue) + 1 \in 1 .. Len(queue') /\ queue'[Len(queue) + 1] = call[r]
      BY <1>1, <2>4
    <2> QED BY <2>5
  <1>7. \A y \in Requests : y # r => call'[y] = call[y]
    BY <1>2 DEF Ready, Core, Rest, Types
  <1> QED BY <1>3, <1>4, <1>5, <1>6, <1>7, StaysOnItsWay DEF Subscribed

LEMMA ListenerTells ==
  ASSUME Ready, Listen \/ Disconnect,
         NEW ch \in Channels, NEW c \in Cards, ch \notin missed', Behind(ch, c)'
  PROVE  OnItsWay(ch, c)'
  <1>1. queue \in Seq(Event) BY DEF Ready, Core, Rest, Types
  <1>2. /\ missed \subseteq missed'
        /\ UNCHANGED <<sub, buf, cast, db, at, call, tab, view, hand, wire>>
    BY DEF Listen, Disconnect, hubVars, dbVars, pageVars, streamVars
  <1>3. OnItsWay(ch, c)
    BY <1>2 DEF Ready, BehindOnlyIfMissed, Behind
  <1>4. ASSUME NEW i \in 1 .. Len(queue), Tells(queue[i], c)
        PROVE  \E j \in 1 .. Len(queue') : queue'[j] = queue[i]
    <2>1. CASE Listen BY <2>1 DEF Listen
    <2>2. CASE Disconnect
      <3>1. PICK k \in 0 .. Len(queue) :
              /\ queue' = SubSeq(queue, 1, k)
              /\ missed' = missed \cup UNION {Viewers(queue[n].board) : n \in k + 1 .. Len(queue)}
        BY <2>2 DEF Disconnect
      <3>2. Told(queue[i]) BY DEF Ready, Core, Rest, EventsAreTrue
      <3>3. ch \in Viewers(queue[i].board)
        BY <1>2, <1>4, <3>2, RealtimeConstants DEF Tells, Told, Viewers, Behind
      <3>4. i \notin k + 1 .. Len(queue)
        <4>1. ~(\E n \in k + 1 .. Len(queue) : ch \in Viewers(queue[n].board)) BY <3>1
        <4> QED BY <3>3, <4>1
      <3>5. i \in 1 .. k BY <1>1, <3>4
      <3>6. i \in 1 .. Len(queue') /\ queue'[i] = queue[i] BY <1>1, <3>1, <3>5
      <3> QED BY <3>6
    <2> QED BY <2>1, <2>2
  <1> QED BY <1>2, <1>3, <1>4, StaysOnItsWay DEF Subscribed

LEMMA BroadcastTells ==
  ASSUME Ready, Broadcast,
         NEW ch \in Channels, NEW c \in Cards, ch \notin missed', Behind(ch, c)'
  PROVE  OnItsWay(ch, c)'
  <1>1. queue \in Seq(Event) /\ queue # <<>> /\ queue' = Tail(queue)
    BY DEF Broadcast, Ready, Core, Rest, Types
  <1>2. /\ missed' = missed \cup {x \in Viewers(Head(queue).board) : ~Subscribed(x)}
        /\ UNCHANGED <<sub, buf, db, at, call, tab, view, hand, wire>>
    BY DEF Broadcast, StartBroadcast, dbVars, pageVars, streamVars
  <1>3. cast[Listener].to = {}
    BY DEF Broadcast, StartBroadcast, Idle, NoCast
  <1>4. OnItsWay(ch, c)
    BY <1>2 DEF Ready, BehindOnlyIfMissed, Behind
  <1>5. /\ Head(queue) = queue[1] /\ 1 \in 1 .. Len(queue) /\ Head(queue) \in Event
        /\ \A i \in 2 .. Len(queue) : i - 1 \in 1 .. Len(queue') /\ queue'[i - 1] = queue[i]
    BY <1>1
  <1>6. ASSUME Tells(Head(queue), c)
        PROVE  /\ sub'[ch] # NoBoard
               /\ ch \in cast'[Listener].to /\ cast'[Listener].ev = Head(queue)
    <2> DEFINE b == Head(queue).board
    <2>1. Told(Head(queue)) BY <1>5 DEF Ready, Core, Rest, EventsAreTrue
    <2>2. tab[ch] = b
      BY <1>2, <1>6, <2>1, RealtimeConstants DEF Tells, Told, Behind
    <2>3. Subscribed(ch)
      BY <1>2, <2>2 DEF Viewers
    <2>4. sub[ch] = b BY <2>2, <2>3 DEF Ready, Core, StreamsFollowPages
    <2>5. b \in Boards /\ Head(queue) = [board |-> b, body |-> Head(queue).body]
      BY <1>5, EventFields
    <2>6. ch \in rooms[b] /\ b \in open
      BY <2>4, <2>5 DEF Ready, Core, HubIInv, RoomsAreSubscribers
    <2>7. cast' = [cast EXCEPT ![Listener] =
                     [ev |-> [board |-> b, body |-> Head(queue).body], to |-> rooms[b]]]
      BY <2>6 DEF Broadcast, StartBroadcast
    <2>8. Listener \in DOMAIN cast BY RealtimeConstants DEF Ready, Core, HubIInv, HubTypeOK
    <2>9. cast'[Listener] = [ev |-> Head(queue), to |-> rooms[b]] BY <2>5, <2>7, <2>8
    <2> QED BY <1>2, <2>3, <2>6, <2>9 DEF Subscribed
  <1>7. ASSUME NEW i \in 1 .. Len(queue), Tells(queue[i], c)
        PROVE  \/ \E j \in 1 .. Len(queue') : queue'[j] = queue[i]
               \/ sub'[ch] # NoBoard /\ ch \in cast'[Listener].to /\ cast'[Listener].ev = queue[i]
    <2>1. CASE i = 1 BY <1>5, <1>6, <1>7, <2>1
    <2>2. CASE i # 1
      <3>1. i \in 2 .. Len(queue) BY <1>1, <2>2
      <3> QED BY <1>5, <3>1
    <2> QED BY <2>1, <2>2
  <1> QED BY <1>2, <1>3, <1>4, <1>7, StaysOnItsWay DEF Subscribed

LEMMA SendTells ==
  ASSUME Ready, NEW to \in Channels, SendTo(to),
         NEW ch \in Channels, NEW c \in Cards, ch \notin missed', Behind(ch, c)'
  PROVE  OnItsWay(ch, c)'
  <1> DEFINE e == cast[Listener].ev
  <1>1. /\ to \in cast[Listener].to /\ Listener \in Broadcasters
        /\ cast \in [Broadcasters -> [ev : Event \cup {NoEvent}, to : SUBSET Channels]]
        /\ buf \in [Channels -> Seq(Event)]
    BY RealtimeConstants DEF SendTo, Send, Ready, Core, HubIInv, HubTypeOK
  <1>2. /\ cast' = Served(Listener, to)
        /\ missed' = IF Len(buf[to]) = Capacity THEN missed \cup {to} ELSE missed
        /\ UNCHANGED <<sub, db, at, call, queue, tab, view, hand, wire>>
    BY DEF SendTo, Send, serverVars, dbVars, pageVars, streamVars
  <1>3. OnItsWay(ch, c)
    BY <1>2 DEF Ready, BehindOnlyIfMissed, Behind
  <1>4. CASE to # ch
    <2>1. buf'[ch] = buf[ch] BY <1>1, <1>4 DEF SendTo, Send
    <2>2. ch \in cast[Listener].to =>
            ch \in cast'[Listener].to /\ cast'[Listener].ev = cast[Listener].ev
      BY <1>1, <1>2, <1>4 DEF Served
    <2> QED BY <1>2, <1>3, <2>1, <2>2, StaysOnItsWay DEF Subscribed
  <1>5. CASE to = ch
    <2>1. Len(buf[ch]) < Capacity
      <3>1. Len(buf[ch]) <= Capacity /\ Len(buf[ch]) # Capacity
        BY <1>2, <1>5 DEF Ready, Core, HubIInv, HubTypeOK
      <3> QED BY <1>1, <3>1, HubConstants
    <2>2. buf'[ch] = Append(buf[ch], e) BY <1>1, <1>5, <2>1 DEF SendTo, Send
    <2>3. /\ Len(buf[ch]) + 1 \in 1 .. Len(buf'[ch]) /\ buf'[ch][Len(buf[ch]) + 1] = e
          /\ \A i \in 1 .. Len(buf[ch]) : i \in 1 .. Len(buf'[ch]) /\ buf'[ch][i] = buf[ch][i]
      <3>1. e \in Event BY <1>1 DEF Ready, Core, HubIInv, CastsAreFormed
      <3>2. buf[ch] \in Seq(Event) BY <1>1
      <3> HIDE DEF e
      <3> QED BY <2>2, <3>1, <3>2
    <2>4. \E j \in 1 .. Len(buf'[ch]) : buf'[ch][j] = cast[Listener].ev BY <2>3
    <2> QED BY <1>2, <1>3, <2>3, <2>4, StaysOnItsWay DEF Subscribed
  <1> QED BY <1>4, <1>5

\* What a page does to another: nothing.
LEMMA OtherPagesTell ==
  ASSUME Ready, NEW p \in Channels, Page(p) \/ Stream(p) \/ ReadFails(p),
         NEW ch \in Channels, NEW c \in Cards, ch # p, ch \notin missed', Behind(ch, c)'
  PROVE  OnItsWay(ch, c)'
  <1>1. /\ UNCHANGED <<db, at, call, queue, cast>>
        /\ sub'[ch] = sub[ch] /\ buf'[ch] = buf[ch] /\ tab'[ch] = tab[ch] /\ view'[ch] = view[ch]
        /\ hand'[ch] = hand[ch] /\ wire'[ch] = wire[ch] /\ ch \notin missed
    BY OnlyItsPage DEF Ready, Core
  <1>2. OnItsWay(ch, c)
    BY <1>1 DEF Ready, BehindOnlyIfMissed, Behind
  <1> QED BY <1>1, <1>2, StaysOnItsWay DEF Subscribed

\* A page without a stream: what is on its way is not yet past the listener.
LEMMA WithoutStream ==
  ASSUME NEW ch \in Channels, NEW c \in Cards, UNCHANGED <<db, at, call, queue>>,
         OnItsWay(ch, c), Subscribed(ch) => ~InFlight(ch)
  PROVE  OnItsWay(ch, c)'
  <1>1. \/ \E r \in Requests : call[r] # Nothing /\ Tells(call[r], c)
        \/ \E i \in 1 .. Len(queue) : Tells(queue[i], c)
    BY DEF OnItsWay, InFlight
  <1> QED BY <1>1 DEF OnItsWay, Tells

LEMMA PageTells ==
  ASSUME Ready, NEW ch \in Channels, Page(ch) \/ Stream(ch) \/ ReadFails(ch),
         NEW c \in Cards, ch \notin missed', Behind(ch, c)'
  PROVE  OnItsWay(ch, c)'
  <1>1. /\ sub \in [Channels -> Boards \cup {NoBoard}] /\ buf \in [Channels -> Seq(Event)]
        /\ tab \in [Channels -> Boards \cup {NoBoard}] /\ db \in [Cards -> Versions]
        /\ view \in [Channels -> [Cards -> Versions]]
        /\ hand \in [Channels -> Event \cup {NoEvent}]
        /\ wire \in [Channels -> Seq(Frames)]
        /\ BoardOf[c] \in Boards /\ NoBoard \notin Boards /\ Listener \in Broadcasters
        /\ UNCHANGED <<db, at, call, queue, cast>>
    BY RealtimeConstants, HubConstants, OnlyItsPage
    DEF Ready, Core, HubIInv, HubTypeOK, Rest, Types, DbTypes
  <1>2. ch \notin missed /\ Behind(ch, c) => OnItsWay(ch, c)
    BY DEF Ready, BehindOnlyIfMissed, Behind
  <1>3. CASE Load(ch)
    <2> DEFINE b == read[ch].board
               hidden == {x \in Cards : BoardOf[x] = b /\ Live(db[x])} \ Found(ch)
    <2>1. /\ tab' = [tab EXCEPT ![ch] = b]
          /\ view' = [view EXCEPT ![ch] =
               [x \in Cards |-> IF BoardOf[x] = b /\ x \notin hidden THEN db[x] ELSE Absent]]
          /\ missed' = IF hidden = {} THEN missed \ {ch} ELSE missed \cup {ch}
      BY <1>3 DEF Load
    <2>2. hidden = {} BY <2>1
    <2> HIDE DEF hidden, b
    <2>3. tab'[ch] = b /\ view'[ch][c] = IF BoardOf[c] = b THEN db[c] ELSE Absent
      BY <1>1, <2>1, <2>2
    <2>4. ~Behind(ch, c)' BY <1>1, <2>3 DEF Behind
    <2> QED BY <2>4
  <1>4. CASE OpenStream(ch)
    <2>1. ~Subscribed(ch) /\ UNCHANGED <<tab, view, missed>>
      BY <1>4 DEF OpenStream, Subscribe, Collected, pageVars
    <2>2. OnItsWay(ch, c) BY <1>1, <1>2, <2>1 DEF Behind
    <2> QED BY <1>1, <2>1, <2>2, WithoutStream
  <1>5. CASE CloseStream(ch)
    <2>1. CASE Closed(ch)
      <3>1. tab'[ch] = NoBoard BY <1>1, <2>1 DEF Closed
      <3> QED BY <1>1, <3>1 DEF Behind
    <2>2. CASE ~Closed(ch)
      <3>1. /\ UNCHANGED <<tab, view>>
            /\ missed' = IF InFlight(ch) THEN missed \cup {ch} ELSE missed
        BY <1>5, <2>2 DEF CloseStream, pageVars
      <3>2. ch \notin missed /\ ~InFlight(ch) BY <3>1
      <3>3. OnItsWay(ch, c) BY <1>1, <1>2, <3>1, <3>2 DEF Behind
      <3> QED BY <1>1, <3>2, <3>3, WithoutStream
    <2> QED BY <2>1, <2>2
  <1>6. CASE LeavePage(ch)
    <2>1. tab'[ch] = NoBoard BY <1>1, <1>6 DEF LeavePage, Closed
    <2> QED BY <1>1, <2>1 DEF Behind
  <1>7. CASE BeginLoad(ch) \/ BeginRender(ch)
    <2>1. UNCHANGED <<sub, buf, tab, view, hand, wire, missed>>
      BY <1>7 DEF BeginLoad, BeginRender, hubVars, pageVars
    <2>2. OnItsWay(ch, c) BY <1>1, <1>2, <2>1 DEF Behind
    <2> QED BY <1>1, <2>1, <2>2, StaysOnItsWay DEF Subscribed
  <1>8. CASE TakeEvent(ch)
    <2>1. /\ UNCHANGED <<tab, view, wire, missed, sub>>
          /\ Subscribed(ch) /\ hand[ch] = NoEvent
          /\ buf[ch] # <<>> /\ buf'[ch] = Tail(buf[ch]) /\ hand'[ch] = Head(buf[ch])
      BY <1>1, <1>8 DEF TakeEvent, Receive, pageVars
    <2>2. OnItsWay(ch, c) BY <1>1, <1>2, <2>1 DEF Behind
    <2>3. ASSUME NEW i \in 1 .. Len(buf[ch])
          PROVE  \/ \E j \in 1 .. Len(buf'[ch]) : buf'[ch][j] = buf[ch][i]
                 \/ hand'[ch] = buf[ch][i]
      <3>1. buf[ch] \in Seq(Event) BY <1>1
      <3>2. CASE i = 1 BY <2>1, <3>1, <3>2
      <3>3. CASE i # 1
        <4>1. i - 1 \in 1 .. Len(buf'[ch]) /\ buf'[ch][i - 1] = buf[ch][i]
          BY <2>1, <2>3, <3>1, <3>3
        <4> QED BY <4>1
      <3> QED BY <3>2, <3>3
    <2>4. hand'[ch] # NoEvent
      <3>1. buf[ch] \in Seq(Event) /\ NoEvent \notin Event BY <1>1, HubConstants
      <3>2. Head(buf[ch]) \in Event BY <2>1, <3>1
      <3> QED BY <2>1, <3>1, <3>2
    <2> QED BY <1>1, <2>1, <2>2, <2>3, <2>4, StaysOnItsWay DEF Subscribed
  <1>9. CASE WriteEvent(ch)
    <2> DEFINE w == wire[ch]
               f == Frame(ch)
    <2>1. /\ UNCHANGED <<tab, view, missed, sub, buf>> /\ hand[ch] # NoEvent
          /\ IF IsGone(ch) THEN wire' = wire ELSE wire' = [wire EXCEPT ![ch] = Append(@, f)]
      BY <1>9 DEF WriteEvent, hubVars, pageVars
    <2>2. OnItsWay(ch, c) BY <1>1, <1>2, <2>1 DEF Behind
    <2>3. f \in Frames /\ (Tells(hand[ch], c) => f.texts[c] = db[c])
      BY <1>9, WrittenFrames DEF Ready, Core
    <2>4. w \in Seq(Frames) BY <1>1
    <2>5. IsGone(ch) => ~Tells(hand[ch], c) BY DEF IsGone, IsAbout, Tells
    <2> HIDE DEF f, w
    <2>6. CASE IsGone(ch)
      <3>1. wire' = wire BY <2>1, <2>6
      <3> QED BY <1>1, <2>1, <2>2, <2>5, <2>6, <3>1, StaysOnItsWay DEF Subscribed
    <2>7. CASE ~IsGone(ch)
      <3>1. wire'[ch] = Append(w, f) BY <1>1, <2>1, <2>7 DEF w
      <3>2. /\ Len(w) + 1 \in 1 .. Len(wire'[ch]) /\ wire'[ch][Len(w) + 1] = f
            /\ \A i \in 1 .. Len(w) : i \in 1 .. Len(wire'[ch]) /\ wire'[ch][i] = w[i]
        BY <2>3, <2>4, <3>1
      <3>3. /\ Tells(hand[ch], c) =>
                 \E j \in 1 .. Len(wire'[ch]) : wire'[ch][j].texts[c] = db[c]
            /\ \A i \in 1 .. Len(wire[ch]) : wire[ch][i].texts[c] = db[c] =>
                 \E j \in 1 .. Len(wire'[ch]) : wire'[ch][j].texts[c] = db[c]
        BY <2>3, <3>2 DEF w
      <3> QED BY <1>1, <2>1, <2>2, <3>3, StaysOnItsWay DEF Subscribed
    <2> QED BY <2>6, <2>7
  <1>10. CASE ReceiveFrame(ch)
    <2> DEFINE w == wire[ch]
    <2>1. /\ w \in Seq(Frames) /\ w # <<>> /\ wire'[ch] = Tail(w)
          /\ UNCHANGED <<sub, buf, tab, hand, missed>>
          /\ view'[ch][c] = IF w[1].texts[c] = Absent THEN view[ch][c] ELSE w[1].texts[c]
      <3>1. w \in Seq(Frames) /\ w # <<>> BY <1>1, <1>10 DEF ReceiveFrame
      <3>2. Head(w) = w[1] BY <3>1
      <3> QED BY <1>1, <1>10, <3>1, <3>2 DEF ReceiveFrame, hubVars
    <2>2. view[ch][c] <= db[c] /\ view[ch][c] \in Nat /\ db[c] \in Nat
      BY <1>1, VersionNumbers DEF Ready, Core, FramesGoForward
    <2>3. view'[ch][c] # db[c] BY <1>1 DEF Behind
    <2>4. w[1].texts[c] # db[c] /\ view[ch][c] # db[c]
      <3>1. CASE w[1].texts[c] = Absent BY <2>1, <2>2, <2>3, <3>1, VersionNumbers
      <3>2. CASE w[1].texts[c] # Absent
        <4>1. w[1].texts[c] # db[c] BY <2>1, <2>3, <3>2
        <4>2. 1 \in 1 .. Len(w) BY <2>1
        <4>3. view[ch][c] <= w[1].texts[c] /\ w[1].texts[c] <= db[c]
          BY <3>2, <4>2 DEF Ready, Core, FramesGoForward
        <4>4. w[1] \in Frames BY <2>1, <4>2
        <4>5. w[1].texts[c] \in Nat BY <4>4, VersionNumbers DEF Frames
        <4> QED BY <2>2, <4>1, <4>3, <4>5
      <3> QED BY <3>1, <3>2
    <2>5. OnItsWay(ch, c) BY <1>1, <1>2, <2>1, <2>4 DEF Behind
    <2>6. ASSUME NEW i \in 1 .. Len(w), w[i].texts[c] = db[c]
          PROVE  /\ sub'[ch] # NoBoard
                 /\ \E j \in 1 .. Len(wire'[ch]) : wire'[ch][j].texts[c] = db[c]
      <3>1. i # 1 BY <2>4, <2>6
      <3>2. i - 1 \in 1 .. Len(wire'[ch]) /\ wire'[ch][i - 1] = w[i] BY <2>1, <3>1
      <3>3. Subscribed(ch) BY <2>1 DEF Ready, Core, StreamsFollowPages
      <3> QED BY <2>1, <2>6, <3>2, <3>3 DEF Subscribed
    <2> QED BY <1>1, <2>1, <2>5, <2>6, StaysOnItsWay DEF Subscribed
  <1>11. CASE ReadFails(ch) BY <1>11 DEF ReadFails
  <1> QED BY <1>3, <1>4, <1>5, <1>6, <1>7, <1>8, <1>9, <1>10, <1>11 DEF Page, Stream

LEMMA BehindKeeps == Ready /\ [Next]_rtVars => BehindOnlyIfMissed'
  <1> SUFFICES ASSUME Ready, [Next]_rtVars,
                      NEW ch \in Channels, NEW c \in Cards, ch \notin missed', Behind(ch, c)'
               PROVE  OnItsWay(ch, c)'
    BY DEF BehindOnlyIfMissed, Behind
  <1>1. CASE UNCHANGED rtVars
    <2>1. UNCHANGED <<sub, buf, cast, db, at, call, queue, tab, view, hand, wire, missed>>
      BY <1>1 DEF rtVars, hubVars, dbVars, pageVars, streamVars
    <2>2. OnItsWay(ch, c) BY <2>1 DEF Ready, BehindOnlyIfMissed, Behind
    <2> QED BY <2>1, <2>2, StaysOnItsWay DEF Subscribed
  <1>2. ASSUME NEW r \in Requests, Change(r) \/ Finish(r) PROVE OnItsWay(ch, c)'
    BY <1>2, ChangeTells, FinishTells
  <1>3. ASSUME Listen \/ Disconnect PROVE OnItsWay(ch, c)' BY <1>3, ListenerTells
  <1>4. ASSUME Broadcast PROVE OnItsWay(ch, c)' BY <1>4, BroadcastTells
  <1>5. ASSUME NEW to \in Channels, SendTo(to) PROVE OnItsWay(ch, c)' BY <1>5, SendTells
  <1>6. ASSUME NEW p \in Channels, Page(p) \/ Stream(p) \/ ReadFails(p) PROVE OnItsWay(ch, c)'
    BY <1>6, PageTells, OtherPagesTell
  <1>7. CASE Next
    <2>1. CASE \E r \in Requests : Change(r) \/ Finish(r) BY <1>2, <2>1
    <2>2. CASE Listen \/ Disconnect BY <1>3, <2>2
    <2>3. CASE Forward BY <1>4, <1>5, <2>3 DEF Forward
    <2>4. CASE \E p \in Channels : Page(p) \/ Stream(p) \/ ReadFails(p) BY <1>6, <2>4
    <2> QED BY <1>7, <2>1, <2>2, <2>3, <2>4, Zenon DEF Next
  <1> QED BY <1>1, <1>7

LEMMA ReadyInit == Init => Ready
  <1> SUFFICES ASSUME Init PROVE BehindOnlyIfMissed
    BY CoreInit DEF Ready
  <1>1. \A ch \in Channels : tab[ch] = NoBoard BY DEF Init
  <1>2. \A c \in Cards : BoardOf[c] # NoBoard BY RealtimeConstants, HubConstants
  <1> QED BY <1>1, <1>2 DEF BehindOnlyIfMissed

LEMMA ReadyKeeps == Ready /\ [Next]_rtVars => Ready'
  BY CoreKeeps, BehindKeeps DEF Ready

\* The invariant: events on their way are events, the deletions they tell are final, no
\* frame on its way takes a card back, and a page shows the content of its cards as the
\* database has it, is about to be told, or is listed as one that something passed by.
THEOREM RealtimeInvariant == RealtimeSpec => []RealtimeIInv
  <1>1. Ready => RealtimeIInv BY InvIsParts DEF Ready, Core
  <1> QED BY <1>1, ReadyInit, ReadyKeeps, PTL DEF RealtimeSpec

\* Whatever fails, and in whatever order requests notify: a page that shows the title or
\* the description of a card of its board otherwise than the database has them, or a card
\* that is gone, or not one that is there, is about to be told; or it is one of those
\* passed by because a notification was lost, a buffer was full, a read failed, a stream
\* ended with something on its way, or the page was read while a column was added.  In
\* which column and at which position it shows the card is not among what is promised.
THEOREM NothingElseIsMissed == RealtimeSpec => []BehindOnlyIfMissed
  <1>1. RealtimeIInv => BehindOnlyIfMissed BY DEF RealtimeIInv
  <1> QED BY <1>1, RealtimeInvariant, PTL

\* The frames on their way to a page are in order: the page's versions of a card, those
\* of the frames, oldest first, and that of the database do not decrease.
THEOREM FramesStayInOrder == RealtimeSpec => []FramesGoForward
  <1>1. RealtimeIInv => FramesGoForward BY DEF RealtimeIInv
  <1> QED BY <1>1, RealtimeInvariant, PTL

\* The hub, driven by the listener and by the streams of the pages, is the hub: what
\* Hub_proofs proves of HubSpec holds of the whole.
THEOREM RealtimeUsesTheHub == RealtimeSpec => HubSpec
  <1>1. Init => HubInit BY DEF Init
  <1>2. Ready => Types BY DEF Ready, Core, Rest
  <1> QED BY <1>1, <1>2, ReadyInit, ReadyKeeps, HubSteps, PTL DEF RealtimeSpec, HubSpec
-----------------------------------------------------------------------------
\* Every step is one of LiveBoard, or changes nothing a page is told.
LEMMA StepsShow == Core /\ [Next]_rtVars => [Shown!Next]_(Shown!boardVars)
  <1> SUFFICES ASSUME Core, Next
               PROVE  Shown!Next \/ UNCHANGED <<db, tab, view>>
    BY DEF rtVars, dbVars, pageVars, Shown!boardVars
  <1>1. /\ db \in [Cards -> Versions] /\ view \in [Channels -> [Cards -> Versions]]
        /\ wire \in [Channels -> Seq(Frames)] /\ read \in [Channels -> Reads \cup {NoRead}]
        /\ Rest /\ Types /\ HubIInv
    BY DEF Core, Rest, Types, DbTypes
  <1>2. Shown!Deleted = Deleted /\ Shown!Absent = Absent
    BY DEF Shown!Deleted, Shown!Absent, Deleted, Absent
  <1>3. ASSUME NEW r \in Requests, Change(r) PROVE Shown!Next \/ UNCHANGED <<db, tab, view>>
    <2>1. /\ UNCHANGED pageVars
          /\ \/ UNCHANGED db
             \/ \E x \in Cards : /\ db[x] # Deleted
                                 /\ \E w \in db[x] + 1 .. Deleted : db' = [db EXCEPT ![x] = w]
      BY <1>1, <1>3, ChangeIs
    <2>2. CASE UNCHANGED db BY <2>1, <2>2 DEF pageVars
    <2>3. CASE \E x \in Cards : /\ db[x] # Deleted
                                /\ \E w \in db[x] + 1 .. Deleted : db' = [db EXCEPT ![x] = w]
      <3>1. \E x \in Cards : Shown!Change(x)
        BY <1>2, <2>1, <2>3 DEF Shown!Change, pageVars
      <3> QED BY <3>1 DEF Shown!Next
    <2> QED BY <2>1, <2>2, <2>3
  <1>4. ASSUME NEW ch \in Channels, ReceiveFrame(ch) PROVE Shown!Next
    <2> DEFINE texts == Head(wire[ch]).texts
               new == [c \in Cards |-> IF texts[c] = Absent THEN view[ch][c] ELSE texts[c]]
    <2>1. view' = [view EXCEPT ![ch] = new] /\ UNCHANGED <<db, tab>>
      BY <1>1, <1>4 DEF ReceiveFrame, serverVars, dbVars
    <2>2. /\ 1 \in 1 .. Len(wire[ch]) /\ Head(wire[ch]) = wire[ch][1] /\ wire[ch][1] \in Frames
      <3>1. wire[ch] \in Seq(Frames) /\ wire[ch] # <<>> BY <1>1, <1>4 DEF ReceiveFrame
      <3> QED BY <3>1
    <2>3. texts \in [Cards -> Versions] BY <2>2 DEF Frames
    <2>4. \A c \in Cards : texts[c] # Absent =>
            BoardOf[c] = tab[ch] /\ view[ch][c] <= texts[c] /\ texts[c] <= db[c]
      BY <2>2 DEF Core, FramesGoForward
    <2> HIDE DEF texts
    <2>5. new \in [Cards -> 0 .. Shown!Deleted] BY <1>1, <1>2, <2>3, VersionNumbers
    <2>6. \A c \in Cards : new[c] # view[ch][c] =>
            BoardOf[c] = tab[ch] /\ new[c] \in view[ch][c] .. db[c]
      <3>1. \A c \in Cards : /\ view[ch][c] \in Nat /\ db[c] \in Nat /\ texts[c] \in Nat
                             /\ new[c] = IF texts[c] = Absent THEN view[ch][c] ELSE texts[c]
        BY <1>1, <2>3, VersionNumbers
      <3> HIDE DEF new
      <3> QED BY <2>4, <3>1
    <2> HIDE DEF new
    <2>7. Shown!Show(ch) BY <2>1, <2>5, <2>6 DEF Shown!Show
    <2> QED BY <2>7 DEF Shown!Next
  <1>5. ASSUME NEW ch \in Channels, Page(ch) PROVE Shown!Next \/ UNCHANGED <<db, tab, view>>
    <2>1. CASE Load(ch)
      <3> DEFINE b == read[ch].board
                 hidden == {c \in Cards : BoardOf[c] = b /\ Live(db[c])} \ Found(ch)
                 some == {c \in Cards : BoardOf[c] = b /\ c \notin hidden}
      <3>1. /\ tab[ch] = NoBoard /\ UNCHANGED db /\ tab' = [tab EXCEPT ![ch] = b]
            /\ view' = [view EXCEPT ![ch] =
                 [c \in Cards |-> IF BoardOf[c] = b /\ c \notin hidden THEN db[c] ELSE Absent]]
        BY <2>1 DEF Load, serverVars, dbVars
      <3>2. b \in Boards BY <1>1, <2>1 DEF Load, Reads
      <3> HIDE DEF b, hidden
      <3>3. view' = [view EXCEPT ![ch] = [c \in Cards |-> IF c \in some THEN db[c] ELSE Absent]]
        BY <3>1
      <3>4. some \in SUBSET Cards /\ \A c \in some : BoardOf[c] = b OBVIOUS
      <3> HIDE DEF some
      <3>5. Shown!Open(ch, b, some) BY <1>2, <3>1, <3>3, <3>4 DEF Shown!Open
      <3> QED BY <3>2, <3>4, <3>5 DEF Shown!Next
    <2>2. CASE BeginLoad(ch) \/ OpenStream(ch)
      BY <2>2 DEF BeginLoad, OpenStream, serverVars, dbVars, pageVars
    <2>3. CASE CloseStream(ch) \/ LeavePage(ch)
      <3>1. UNCHANGED db /\ (UNCHANGED pageVars \/ Closed(ch))
        BY <2>3 DEF CloseStream, LeavePage, serverVars, dbVars
      <3>2. CASE UNCHANGED pageVars BY <3>1, <3>2 DEF pageVars
      <3>3. CASE Closed(ch)
        <4>1. Shown!Close(ch) BY <1>2, <3>1, <3>3 DEF Closed, Unseen, Shown!Close
        <4> QED BY <4>1 DEF Shown!Next
      <3> QED BY <3>1, <3>2, <3>3
    <2> QED BY <1>5, <2>1, <2>2, <2>3 DEF Page
  <1>6. ASSUME NEW ch \in Channels,
               TakeEvent(ch) \/ BeginRender(ch) \/ WriteEvent(ch) \/ ReadFails(ch) \/ SendTo(ch)
        PROVE  UNCHANGED <<db, tab, view>>
    BY <1>6 DEF TakeEvent, BeginRender, WriteEvent, ReadFails, SendTo, serverVars, dbVars, pageVars
  <1>7. ASSUME NEW r \in Requests, Finish(r) PROVE UNCHANGED <<db, tab, view>>
    BY <1>7 DEF Finish, Notify, BoardLookupFails, NotifyFails, dbVars, pageVars
  <1>8. ASSUME Listen \/ Disconnect \/ Broadcast PROVE UNCHANGED <<db, tab, view>>
    BY <1>8 DEF Listen, Disconnect, Broadcast, dbVars, pageVars
  <1> QED BY <1>3, <1>4, <1>5, <1>6, <1>7, <1>8 DEF Next, Forward, Stream

\* For any number of pages, requests and cards, and through every failure: what a page is
\* told of a card's title and description has been in the database, is of the page's
\* board, and with time only goes on to later versions.
THEOREM PagesShowTheDatabase == RealtimeSpec => ImplementsLiveBoard
  <1>1. Init => Shown!Init
    BY DEF Init, Shown!Init, Shown!Absent, Absent, Created, Unseen
  <1>2. Ready => Core BY DEF Ready
  <1> QED BY <1>1, <1>2, ReadyInit, ReadyKeeps, StepsShow, PTL
          DEF RealtimeSpec, ImplementsLiveBoard, Shown!Spec
=============================================================================
