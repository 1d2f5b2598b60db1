-------------------------- MODULE HubLedger_proofs --------------------------
(***************************************************************************)
(* What reaches a subscriber, for any number of boards, subscribers,       *)
(* broadcasters and events, and any buffer size.  The ledger only watches  *)
(* the hub, so what Hub_proofs proves of the hub holds here too.           *)
(***************************************************************************)
EXTENDS HubLedger, Hub_proofs

\* Every step of the ledger is a step of the hub.
LEMMA LedgerStep == LedgerTypeOK /\ [Next]_vars => [HubNext]_hubVars
  <1> SUFFICES ASSUME LedgerTypeOK, Next PROVE HubNext
    BY DEF vars
  <1>1. ASSUME NEW g \in Broadcasters, NEW b \in Boards, sent[g][b] < MaxEvents
        PROVE  [by |-> g, n |-> sent[g][b] + 1] \in Bodies
    <2>1. sent[g][b] \in 0 .. MaxEvents
      BY DEF LedgerTypeOK
    <2> QED
      BY <1>1, <2>1, NumberedBodies
  <1> QED
    BY <1>1 DEF Next, HubNext, Broadcasting, Subscribing

LEMMA LedgerInit == Init => HubInit /\ LedgerIInv
  <1> SUFFICES ASSUME Init PROVE HubInit /\ LedgerIInv
    OBVIOUS
  <1>1. HubInit /\ \A ch \in Channels : ~Subscribed(ch)
    BY DEF Init, HubInit, Subscribed
  <1>2. LedgerTypeOK
    BY <1>1, HubInitInv, NumberedBodies DEF Init, LedgerTypeOK, HubIInv, Nobody
  <1>3. NumbersAreSent /\ InOrder /\ LossesAreCounted
    BY <1>1 DEF HubInit, NoCast, NumbersAreSent, InOrder, LossesAreCounted
  <1> QED
    BY <1>1, <1>2, <1>3 DEF LedgerIInv

\* What an event is.
LEMMA EventForm ==
  ASSUME NEW ev \in Event
  PROVE  /\ ev.board \in Boards /\ ev.body.by \in Broadcasters
         /\ ev.body.n \in Nat /\ ev.body.n \in 1 .. MaxEvents
  BY NumberedBodies DEF Event

LEMMA LedgerForm ==
  ASSUME LedgerTypeOK
  PROVE  /\ \A g \in Broadcasters, b \in Boards : sent[g][b] \in Nat /\ sent[g][b] \in 0 .. MaxEvents
         /\ \A ch \in Channels, g \in Broadcasters :
              seen[ch][g] \in Nat /\ seen[ch][g] \in 0 .. MaxEvents
         /\ \A ch \in Channels : buf[ch] \in Seq(Event) /\ Len(buf[ch]) \in Nat
         /\ \A ch \in Channels : \A i \in 1 .. Len(buf[ch]) : buf[ch][i] \in Event
         /\ \A ch \in Channels : sub[ch] \in Boards \cup {NoBoard}
  BY NumberedBodies DEF LedgerTypeOK, HubTypeOK

\* A new subscriber: nothing is buffered or on its way, and it has missed nothing.
LEMMA LedgerSubscribe ==
  ASSUME LedgerIInv, HubTypeOK', NEW ch \in Channels, NEW b \in Boards, Subscribe(ch, b),
         seen' = [seen EXCEPT ![ch] = [g \in Broadcasters |-> sent[g][b]]], UNCHANGED sent
  PROVE  LedgerIInv'
  <1> USE DEF LedgerIInv
  <1>1. /\ sub' = [sub EXCEPT ![ch] = b] /\ buf' = [buf EXCEPT ![ch] = <<>>]
        /\ UNCHANGED <<cast, dropped>> /\ \A g \in Broadcasters : ch \notin cast[g].to
    BY DEF Subscribe, Collected
  <1>2. /\ sub'[ch] = b /\ buf'[ch] = <<>>
        /\ \A g \in Broadcasters : seen'[ch][g] = sent[g][b]
        /\ \A x \in Channels \ {ch} : sub'[x] = sub[x] /\ buf'[x] = buf[x] /\ seen'[x] = seen[x]
    BY <1>1 DEF LedgerTypeOK, HubTypeOK
  <1>3. \A x \in Channels \ {ch} : Subscribed(x)' <=> Subscribed(x)
    BY <1>2 DEF Subscribed
  <1>4. \A g \in Broadcasters : From(ch, g)' = {}
    BY <1>2 DEF From
  <1>5. \A x \in Channels \ {ch}, g \in Broadcasters : From(x, g)' = From(x, g)
    BY <1>2 DEF From
  <1>6. LedgerTypeOK'
    <2>1. [g \in Broadcasters |-> sent[g][b]] \in [Broadcasters -> 0 .. MaxEvents]
      BY LedgerForm
    <2> QED
      BY <2>1 DEF LedgerTypeOK
  <1>7. NumbersAreSent'
    <2>1. \A x \in Channels : \A i \in 1 .. Len(buf'[x]) :
            LET ev == buf'[x][i] IN ev.body.n <= sent'[ev.body.by][ev.board]
      BY <1>2 DEF NumbersAreSent
    <2>2. \A x \in Channels, g \in Broadcasters : Subscribed(x)' => seen'[x][g] <= sent'[g][sub'[x]]
      BY <1>2, <1>3, LedgerForm DEF NumbersAreSent
    <2> QED
      BY <1>1, <2>1, <2>2 DEF NumbersAreSent
  <1>8. InOrder'
    BY <1>1, <1>2, <1>3, <1>4, <1>5 DEF InOrder
  <1>9. LossesAreCounted'
    <2> SUFFICES ASSUME dropped' = 0, NEW x \in Channels, NEW g \in Broadcasters, Subscribed(x)',
                        NEW n \in seen'[x][g] + 1 .. sent'[g][sub'[x]]
                 PROVE  \/ \E i \in From(x, g)' : buf'[x][i].body.n = n
                        \/ x \in cast'[g].to /\ cast'[g].ev.body.n = n
      BY DEF LossesAreCounted
    <2>1. CASE x = ch
      <3>1. sent[g][b] \in Nat
        BY LedgerForm
      <3> QED
        BY <1>2, <2>1, <3>1
    <2>2. CASE x # ch
      BY <1>1, <1>2, <1>3, <1>5, <2>2 DEF LossesAreCounted
    <2> QED
      BY <2>1, <2>2
  <1> QED
    BY <1>6, <1>7, <1>8, <1>9

\* What is said of the others does not change.
LEMMA LedgerCancel ==
  ASSUME LedgerIInv, HubTypeOK', NEW ch \in Channels, Cancel(ch),
         seen' = [seen EXCEPT ![ch] = Nobody], UNCHANGED sent
  PROVE  LedgerIInv'
  <1> USE DEF LedgerIInv
  <1>1. sub' = [sub EXCEPT ![ch] = NoBoard] /\ UNCHANGED <<buf, cast, dropped>>
    BY DEF Cancel
  <1>2. \A x \in Channels : Subscribed(x)' =>
          Subscribed(x) /\ x # ch /\ sub'[x] = sub[x] /\ seen'[x] = seen[x]
    BY <1>1 DEF Subscribed, LedgerTypeOK, HubTypeOK
  <1>3. \A x \in Channels, g \in Broadcasters : From(x, g)' = From(x, g)
    BY <1>1 DEF From
  <1>4. LedgerTypeOK'
    BY NumberedBodies DEF LedgerTypeOK, Nobody
  <1>5. NumbersAreSent'
    BY <1>1, <1>2 DEF NumbersAreSent
  <1>6. InOrder'
    BY <1>1, <1>2, <1>3 DEF InOrder
  <1>7. LossesAreCounted'
    BY <1>1, <1>2, <1>3 DEF LossesAreCounted
  <1> QED
    BY <1>4, <1>5, <1>6, <1>7

\* A broadcaster's new event has the next number: whatever its subscribers have taken
\* or have buffered has a lower one, and all of them are in the copied room.
LEMMA LedgerStart ==
  ASSUME LedgerIInv, HubIInv, HubTypeOK', NEW g \in Broadcasters, NEW b \in Boards,
         sent[g][b] < MaxEvents,
         StartBroadcast(g, b, [by |-> g, n |-> sent[g][b] + 1]),
         sent' = [sent EXCEPT ![g][b] = @ + 1], UNCHANGED seen
  PROVE  LedgerIInv'
  <1> USE DEF LedgerIInv
  <1> DEFINE ev == [board |-> b, body |-> [by |-> g, n |-> sent[g][b] + 1]]
  <1>1. /\ cast' = IF b \in open THEN [cast EXCEPT ![g] = [ev |-> ev, to |-> rooms[b]]] ELSE cast
        /\ UNCHANGED <<sub, buf, dropped>> /\ cast[g].to = {}
    BY DEF StartBroadcast, Idle, NoCast
  <1>2. /\ ev.board = b /\ ev.body.by = g /\ ev.body.n = sent[g][b] + 1
        /\ sent[g][b] \in Nat /\ sent[g][b] + 1 \in 0 .. MaxEvents
    BY LedgerForm, NumberedBodies
  <1> HIDE DEF ev
  <1>3. /\ sent'[g][b] = sent[g][b] + 1
        /\ \A h \in Broadcasters, x \in Boards : h # g \/ x # b => sent'[h][x] = sent[h][x]
        /\ \A h \in Broadcasters, x \in Boards : sent[h][x] \in Nat /\ sent[h][x] <= sent'[h][x]
    <2>1. sent'[g][b] = sent[g][b] + 1
      BY DEF LedgerTypeOK
    <2>2. \A h \in Broadcasters, x \in Boards : h # g \/ x # b => sent'[h][x] = sent[h][x]
      BY DEF LedgerTypeOK
    <2> QED
      BY <1>2, <2>1, <2>2, LedgerForm
  <1>4. /\ \A h \in Broadcasters \ {g} : cast'[h] = cast[h]
        /\ \A ch \in Channels : sub[ch] = b => cast'[g] = [ev |-> ev, to |-> rooms[b]]
        /\ \A ch \in Channels : ch \in cast'[g].to =>
             sub[ch] = b /\ cast'[g] = [ev |-> ev, to |-> rooms[b]]
    <2>1. \A ch \in Channels : ch \in rooms[b] <=> sub[ch] = b
      BY DEF HubIInv, RoomsAreSubscribers
    <2>2. (\E ch \in Channels : sub[ch] = b) => b \in open
      BY <2>1 DEF HubIInv, RoomsAreSubscribers
    <2>3. cast \in [Broadcasters -> [ev : Event \cup {NoEvent}, to : SUBSET Channels]]
      BY DEF LedgerTypeOK, HubTypeOK
    <2> QED
      BY <1>1, <2>1, <2>2, <2>3
  <1>5. /\ \A ch \in Channels, h \in Broadcasters : From(ch, h)' = From(ch, h)
        /\ \A ch \in Channels : Subscribed(ch)' <=> Subscribed(ch)
    BY <1>1 DEF From, Subscribed
  <1>6. \A ch \in Channels : sub[ch] = b => ch \in rooms[b] /\ Subscribed(ch)
    BY HubConstants DEF HubIInv, RoomsAreSubscribers, Subscribed
  <1>7. LedgerTypeOK'
    <2>1. sent' \in [Broadcasters -> [Boards -> 0 .. MaxEvents]]
      BY <1>2 DEF LedgerTypeOK
    <2> QED
      BY <2>1 DEF LedgerTypeOK
  <1>8. NumbersAreSent'
    <2>1. ASSUME NEW ch \in Channels, NEW i \in 1 .. Len(buf'[ch])
          PROVE  buf'[ch][i].body.n <= sent'[buf'[ch][i].body.by][buf'[ch][i].board]
      <3> DEFINE e == buf[ch][i]
      <3>1. e \in Event /\ e.body.n <= sent[e.body.by][e.board] /\ buf'[ch][i] = e
        BY <1>1, <2>1, LedgerForm DEF NumbersAreSent
      <3> HIDE DEF e
      <3> QED
        BY <1>3, <3>1, EventForm
    <2>2. ASSUME NEW h \in Broadcasters, cast'[h].to # {}
          PROVE  /\ cast'[h].ev.body.by = h
                 /\ cast'[h].ev.body.n <= sent'[h][cast'[h].ev.board]
      <3>1. CASE h = g
        <4>1. cast'[g] = [ev |-> ev, to |-> rooms[b]]
          BY <1>1, <2>2, <3>1 DEF LedgerTypeOK, HubTypeOK
        <4> QED
          BY <1>2, <1>3, <3>1, <4>1
      <3>2. CASE h # g
        <4> DEFINE e == cast[h].ev
        <4>1. /\ cast'[h].ev = e /\ cast[h].to # {} /\ e.body.by = h
              /\ e.body.n <= sent[h][e.board]
          BY <1>4, <2>2, <3>2 DEF NumbersAreSent
        <4>2. e \in Event
          BY <4>1 DEF HubIInv, CastsAreFormed
        <4> HIDE DEF e
        <4> QED
          BY <1>3, <4>1, <4>2, EventForm
      <3> QED
        BY <3>1, <3>2
    <2>3. ASSUME NEW ch \in Channels, NEW h \in Broadcasters, Subscribed(ch)'
          PROVE  seen'[ch][h] <= sent'[h][sub'[ch]]
      <3>1. seen[ch][h] <= sent[h][sub[ch]] /\ sub[ch] \in Boards /\ seen[ch][h] \in Nat
        BY <1>5, <2>3, LedgerForm DEF NumbersAreSent, Subscribed
      <3> QED
        BY <1>1, <1>3, <3>1
    <2> QED
      BY <2>1, <2>2, <2>3 DEF NumbersAreSent
  <1>9. InOrder'
    <2> SUFFICES ASSUME NEW ch \in Channels, NEW h \in Broadcasters, Subscribed(ch), ch \in cast'[h].to
                 PROVE  /\ seen[ch][h] < cast'[h].ev.body.n
                        /\ \A i \in From(ch, h) : buf[ch][i].body.n < cast'[h].ev.body.n
      BY <1>1, <1>5 DEF InOrder
    <2>1. CASE h # g
      BY <1>4, <2>1 DEF InOrder
    <2>2. CASE h = g
      <3>1. sub[ch] = b /\ cast'[h].ev = ev
        BY <1>4, <2>2
      <3>2. seen[ch][g] <= sent[g][b] /\ seen[ch][g] \in Nat
        BY <3>1, LedgerForm DEF NumbersAreSent
      <3>3. ASSUME NEW i \in From(ch, g)
            PROVE  buf[ch][i].body.n <= sent[g][b] /\ buf[ch][i].body.n \in Nat
        <4> DEFINE e == buf[ch][i]
        <4>1. i \in 1 .. Len(buf[ch]) /\ e.body.by = g
          BY DEF From
        <4>2. e.board = b
          BY <3>1, <4>1 DEF HubIInv, Isolation
        <4>3. e \in Event /\ e.body.n <= sent[e.body.by][e.board]
          BY <4>1, LedgerForm DEF NumbersAreSent
        <4> HIDE DEF e
        <4>4. e.body.n <= sent[g][b] /\ e.body.n \in Nat
          BY <4>1, <4>2, <4>3, EventForm
        <4> QED
          BY <4>4 DEF e
      <3> QED
        BY <1>2, <2>2, <3>1, <3>2, <3>3
    <2> QED
      BY <2>1, <2>2
  <1>10. LossesAreCounted'
    <2> SUFFICES ASSUME dropped = 0, NEW ch \in Channels, NEW h \in Broadcasters, Subscribed(ch),
                        NEW n \in seen[ch][h] + 1 .. sent'[h][sub[ch]],
                        \A i \in From(ch, h) : buf[ch][i].body.n # n
                 PROVE  ch \in cast'[h].to /\ cast'[h].ev.body.n = n
      BY <1>1, <1>5 DEF LossesAreCounted
    <2>1. sub[ch] \in Boards /\ seen[ch][h] \in Nat
      BY LedgerForm DEF Subscribed
    <2>2. CASE n \in seen[ch][h] + 1 .. sent[h][sub[ch]]
      <3>1. ch \in cast[h].to /\ cast[h].ev.body.n = n
        BY <2>2 DEF LossesAreCounted
      <3> QED
        BY <1>1, <1>4, <3>1
    <2>3. CASE n \notin seen[ch][h] + 1 .. sent[h][sub[ch]]
      <3>1. h = g /\ sub[ch] = b
        BY <1>3, <2>1, <2>3
      <3>2. n = sent[g][b] + 1
        BY <1>3, <2>1, <2>3, <3>1
      <3>3. cast'[g] = [ev |-> ev, to |-> rooms[b]]
        BY <1>4, <3>1
      <3> QED
        BY <1>2, <1>6, <3>1, <3>2, <3>3
    <2> QED
      BY <2>2, <2>3
  <1> QED
    BY <1>7, <1>8, <1>9, <1>10

\* A send moves the event from the broadcast to the end of the buffer, or counts it.
LEMMA LedgerSend ==
  ASSUME LedgerIInv, HubIInv, HubTypeOK', NEW g \in Broadcasters, NEW ch \in Channels,
         Send(g, ch), UNCHANGED <<sent, seen>>
  PROVE  LedgerIInv'
  <1> USE DEF LedgerIInv
  <1> DEFINE ev == cast[g].ev
  <1>1. /\ ch \in cast[g].to /\ cast' = Served(g, ch) /\ UNCHANGED sub
        /\ \/ Len(buf[ch]) < Capacity /\ buf' = [buf EXCEPT ![ch] = Append(@, ev)]
           \/ buf' = buf /\ dropped' = dropped + 1
        /\ dropped' \in {dropped, dropped + 1} /\ dropped \in Nat
    BY DEF Send, LedgerTypeOK, HubTypeOK
  <1>2. /\ ev \in Event /\ ev.body.by = g /\ ev.body.n <= sent[g][ev.board]
        /\ ev.body.n \in Nat
    BY <1>1, EventForm DEF HubIInv, CastsAreFormed, NumbersAreSent
  <1> HIDE DEF ev
  \* The other sends to do stay as they are.
  <1>3. /\ \A h \in Broadcasters, x \in Channels :
             x \in cast'[h].to <=> x \in cast[h].to /\ (h # g \/ x # ch)
        /\ \A h \in Broadcasters : cast'[h].to # {} =>
             cast[h].to # {} /\ cast'[h].ev = cast[h].ev
    <2> DEFINE rest == cast[g].to \ {ch}
               new == IF rest = {} THEN NoCast ELSE [cast[g] EXCEPT !.to = rest]
    <2>1. cast \in [Broadcasters -> [ev : Event \cup {NoEvent}, to : SUBSET Channels]]
      BY DEF LedgerTypeOK, HubTypeOK
    <2>2. cast' = [cast EXCEPT ![g] = new]
      BY <1>1 DEF Served
    <2>3. new.to = rest /\ (rest # {} => new.ev = cast[g].ev)
      BY <2>1 DEF NoCast
    <2>4. \A x \in Channels : x \in rest <=> x \in cast[g].to /\ x # ch
      OBVIOUS
    <2>5. rest # {} => cast[g].to # {}
      OBVIOUS
    <2> HIDE DEF new, rest
    <2> QED
      BY <2>1, <2>2, <2>3, <2>4, <2>5
  \* What is new in a buffer is the event, at the end.
  <1>4. \A x \in Channels :
          \/ buf'[x] = buf[x]
          \/ /\ x = ch /\ Len(buf'[x]) = Len(buf[x]) + 1 /\ Len(buf[x]) \in Nat
             /\ \A i \in 1 .. Len(buf[x]) : buf'[x][i] = buf[x][i]
             /\ buf'[x][Len(buf[x]) + 1] = ev
    <2>1. buf[ch] \in Seq(Event)
      BY LedgerForm
    <2>2. /\ Len(Append(buf[ch], ev)) = Len(buf[ch]) + 1 /\ Len(buf[ch]) \in Nat
          /\ \A i \in 1 .. Len(buf[ch]) : Append(buf[ch], ev)[i] = buf[ch][i]
          /\ Append(buf[ch], ev)[Len(buf[ch]) + 1] = ev
      BY <1>2, <2>1
    <2> QED
      BY <1>1, <2>2 DEF LedgerTypeOK, HubTypeOK
  <1>5. \A x \in Channels, h \in Broadcasters : \A i \in From(x, h)' :
          \/ i \in From(x, h) /\ buf'[x][i] = buf[x][i]
          \/ x = ch /\ h = g /\ i = Len(buf[x]) + 1 /\ buf'[x][i] = ev
    <2> TAKE x \in Channels, h \in Broadcasters
    <2> TAKE i \in From(x, h)'
    <2>1. i \in 1 .. Len(buf'[x]) /\ buf'[x][i].body.by = h
      BY DEF From
    <2>2. CASE buf'[x] = buf[x]
      BY <2>1, <2>2 DEF From
    <2>3. CASE /\ x = ch /\ Len(buf'[x]) = Len(buf[x]) + 1 /\ Len(buf[x]) \in Nat
               /\ \A j \in 1 .. Len(buf[x]) : buf'[x][j] = buf[x][j]
               /\ buf'[x][Len(buf[x]) + 1] = ev
      <3>1. i \in 1 .. Len(buf[x]) \/ i = Len(buf[x]) + 1
        BY <2>1, <2>3
      <3> QED
        BY <1>2, <2>1, <2>3, <3>1 DEF From
    <2> QED
      BY <1>4, <2>2, <2>3
  <1>6. \A x \in Channels, h \in Broadcasters : \A i \in From(x, h) :
          i \in From(x, h)' /\ buf'[x][i] = buf[x][i]
    <2> TAKE x \in Channels, h \in Broadcasters
    <2> TAKE i \in From(x, h)
    <2>1. i \in 1 .. Len(buf[x]) /\ buf[x][i].body.by = h
      BY DEF From
    <2>2. i \in 1 .. Len(buf'[x]) /\ buf'[x][i] = buf[x][i]
      BY <1>4, <2>1
    <2> QED
      BY <2>1, <2>2 DEF From
  <1>7. \A x \in Channels : Subscribed(x)' <=> Subscribed(x)
    BY <1>1 DEF Subscribed
  <1>8. LedgerTypeOK'
    BY DEF LedgerTypeOK
  <1>9. NumbersAreSent'
    <2>1. ASSUME NEW x \in Channels, NEW i \in 1 .. Len(buf'[x])
          PROVE  buf'[x][i].body.n <= sent'[buf'[x][i].body.by][buf'[x][i].board]
      <3>1. CASE i \in 1 .. Len(buf[x]) /\ buf'[x][i] = buf[x][i]
        BY <3>1 DEF NumbersAreSent
      <3>2. CASE buf'[x][i] = ev
        BY <1>2, <3>2
      <3>3. buf'[x] = buf[x] \/ i \in 1 .. Len(buf[x]) \/ i = Len(buf[x]) + 1
        BY <1>4, <2>1
      <3> QED
        BY <1>4, <2>1, <3>1, <3>2, <3>3
    <2>2. \A h \in Broadcasters : cast'[h].to # {} =>
            /\ cast'[h].ev.body.by = h
            /\ cast'[h].ev.body.n <= sent'[h][cast'[h].ev.board]
      BY <1>3 DEF NumbersAreSent
    <2>3. \A x \in Channels, h \in Broadcasters : Subscribed(x)' => seen'[x][h] <= sent'[h][sub'[x]]
      BY <1>1, <1>7 DEF NumbersAreSent
    <2> QED
      BY <2>1, <2>2, <2>3 DEF NumbersAreSent
  <1>10. InOrder'
    <2> SUFFICES ASSUME NEW x \in Channels, NEW h \in Broadcasters, Subscribed(x)
                 PROVE  /\ \A i \in From(x, h)' : seen[x][h] < buf'[x][i].body.n
                        /\ \A i, j \in From(x, h)' : i < j => buf'[x][i].body.n < buf'[x][j].body.n
                        /\ x \in cast'[h].to =>
                             /\ seen[x][h] < cast'[h].ev.body.n
                             /\ \A i \in From(x, h)' : buf'[x][i].body.n < cast'[h].ev.body.n
      BY <1>7 DEF InOrder
    <2>1. \A i \in From(x, h) : seen[x][h] < buf[x][i].body.n
      BY DEF InOrder
    <2>2. \A i, j \in From(x, h) : i < j => buf[x][i].body.n < buf[x][j].body.n
      BY DEF InOrder
    <2>3. x \in cast[h].to =>
            /\ seen[x][h] < cast[h].ev.body.n
            /\ \A i \in From(x, h) : buf[x][i].body.n < cast[h].ev.body.n
      BY DEF InOrder
    <2>4. x = ch /\ h = g => x \in cast[h].to /\ cast[h].ev = ev
      BY <1>1 DEF ev
    <2>5. \A i \in From(x, h) : i \in 1 .. Len(buf[x]) /\ Len(buf[x]) \in Nat
      BY LedgerForm DEF From
    <2>6. \A i \in From(x, h)' : seen[x][h] < buf'[x][i].body.n
      BY <1>5, <2>1, <2>3, <2>4
    <2>7. ASSUME NEW i \in From(x, h)', NEW j \in From(x, h)', i < j
          PROVE  buf'[x][i].body.n < buf'[x][j].body.n
      <3>1. CASE i \in From(x, h) /\ buf'[x][i] = buf[x][i]
        <4>1. CASE j \in From(x, h) /\ buf'[x][j] = buf[x][j]
          BY <2>2, <2>7, <3>1, <4>1
        <4>2. CASE x = ch /\ h = g /\ buf'[x][j] = ev
          BY <2>3, <2>4, <3>1, <4>2
        <4> QED
          BY <1>5, <4>1, <4>2
      <3>2. CASE i = Len(buf[x]) + 1 /\ Len(buf[x]) \in Nat
        <4>1. j \in From(x, h) \/ j = Len(buf[x]) + 1
          BY <1>5
        <4> QED
          BY <2>5, <2>7, <3>2, <4>1
      <3> QED
        BY <1>5, <3>1, <3>2, LedgerForm
    <2>8. ASSUME x \in cast'[h].to
          PROVE  /\ seen[x][h] < cast'[h].ev.body.n
                 /\ \A i \in From(x, h)' : buf'[x][i].body.n < cast'[h].ev.body.n
      <3>1. x \in cast[h].to /\ cast'[h].ev = cast[h].ev /\ ~(x = ch /\ h = g)
        BY <1>3, <2>8
      <3> QED
        BY <1>5, <2>3, <3>1
    <2> QED
      BY <2>6, <2>7, <2>8
  <1>11. LossesAreCounted'
    <2> SUFFICES ASSUME dropped' = 0, NEW x \in Channels, NEW h \in Broadcasters, Subscribed(x),
                        NEW n \in seen[x][h] + 1 .. sent[h][sub[x]]
                 PROVE  \/ \E i \in From(x, h)' : buf'[x][i].body.n = n
                        \/ x \in cast'[h].to /\ cast'[h].ev.body.n = n
      BY <1>1, <1>7 DEF LossesAreCounted
    <2>1. dropped = 0 /\ buf' = [buf EXCEPT ![ch] = Append(@, ev)]
      BY <1>1
    <2>2. CASE \E i \in From(x, h) : buf[x][i].body.n = n
      BY <1>6, <2>2
    <2>3. CASE x \in cast[h].to /\ cast[h].ev.body.n = n
      <3>1. CASE x = ch /\ h = g
        <4> DEFINE k == Len(buf[ch]) + 1
        <4>1. buf[ch] \in Seq(Event)
          BY LedgerForm
        <4>2. buf'[ch] = Append(buf[ch], ev)
          BY <2>1 DEF LedgerTypeOK, HubTypeOK
        <4>3. k \in 1 .. Len(buf'[ch]) /\ buf'[ch][k] = ev
          BY <1>2, <4>1, <4>2
        <4>4. k \in From(ch, g)'
          BY <1>2, <4>3 DEF From
        <4> QED
          BY <2>3, <3>1, <4>3, <4>4 DEF ev
      <3>2. CASE ~(x = ch /\ h = g)
        <4>1. x \in cast'[h].to
          BY <1>3, <2>3, <3>2
        <4> QED
          BY <1>3, <2>3, <4>1
      <3> QED
        BY <3>1, <3>2
    <2> QED
      BY <2>1, <2>2, <2>3 DEF LossesAreCounted
  <1> QED
    BY <1>8, <1>9, <1>10, <1>11

\* A subscriber takes the first event of its buffer; the others move up by one.
LEMMA LedgerReceive ==
  ASSUME LedgerIInv, HubIInv, HubTypeOK', NEW ch \in Channels, Receive(ch),
         seen' = [seen EXCEPT ![ch][Head(buf[ch]).body.by] = Head(buf[ch]).body.n],
         UNCHANGED sent
  PROVE  LedgerIInv'
  <1> USE DEF LedgerIInv
  <1> DEFINE ev == Head(buf[ch])
             rest == Tail(buf[ch])
  <1>1. /\ Subscribed(ch) /\ buf[ch] # <<>> /\ buf' = [buf EXCEPT ![ch] = rest]
        /\ UNCHANGED <<sub, cast, dropped>>
    BY DEF Receive
  <1>2. /\ buf[ch] \in Seq(Event) /\ Len(buf[ch]) \in Nat /\ Len(rest) = Len(buf[ch]) - 1
        /\ \A i \in 1 .. Len(rest) : rest[i] = buf[ch][i + 1]
        /\ ev = buf[ch][1] /\ 1 \in 1 .. Len(buf[ch])
    BY <1>1, LedgerForm
  <1>3. ev \in Event /\ ev.board = sub[ch]
    BY <1>1, <1>2, LedgerForm DEF HubIInv, Isolation
  <1>4. ev.body.by \in Broadcasters /\ ev.body.n \in Nat /\ ev.body.n \in 0 .. MaxEvents
    BY <1>3, EventForm, NumberedBodies
  <1> HIDE DEF ev, rest
  <1>5. \A x \in Channels \ {ch} : buf'[x] = buf[x] /\ seen'[x] = seen[x]
    BY <1>1 DEF ev, LedgerTypeOK, HubTypeOK
  <1>6. buf'[ch] = rest
    BY <1>1 DEF LedgerTypeOK, HubTypeOK
  <1>7. /\ seen'[ch][ev.body.by] = ev.body.n
        /\ \A h \in Broadcasters \ {ev.body.by} : seen'[ch][h] = seen[ch][h]
    BY <1>4 DEF ev, LedgerTypeOK
  <1>8. \A x \in Channels : Subscribed(x)' <=> Subscribed(x)
    BY <1>1 DEF Subscribed
  \* Where an event now is, and where it was.
  <1>9. \A h \in Broadcasters : \A i \in From(ch, h)' :
          i + 1 \in From(ch, h) /\ buf'[ch][i] = buf[ch][i + 1] /\ i \in Nat /\ i > 0
    BY <1>2, <1>6 DEF From
  <1>10. \A h \in Broadcasters : \A i \in From(ch, h) :
           \/ i = 1 /\ h = ev.body.by /\ buf[ch][i] = ev
           \/ i - 1 \in From(ch, h)' /\ buf'[ch][i - 1] = buf[ch][i]
    <2> TAKE h \in Broadcasters
    <2> TAKE i \in From(ch, h)
    <2>1. i \in 1 .. Len(buf[ch]) /\ buf[ch][i].body.by = h
      BY DEF From
    <2>2. CASE i = 1
      BY <1>2, <2>1, <2>2
    <2>3. CASE i # 1
      <3>1. i - 1 \in 1 .. Len(rest) /\ (i - 1) + 1 = i
        BY <1>2, <2>1, <2>3
      <3>2. rest[i - 1] = buf[ch][i]
        BY <1>2, <3>1
      <3> QED
        BY <1>6, <2>1, <3>1, <3>2 DEF From
    <2> QED
      BY <2>2, <2>3
  <1>first. 1 \in From(ch, ev.body.by) /\ buf[ch][1] = ev
    BY <1>2 DEF From
  <1>11. \A x \in Channels \ {ch}, h \in Broadcasters : From(x, h)' = From(x, h)
    BY <1>5 DEF From
  <1>12. LedgerTypeOK'
    <2>1. seen' \in [Channels -> [Broadcasters -> 0 .. MaxEvents]]
      BY <1>4 DEF ev, LedgerTypeOK
    <2> QED
      BY <2>1 DEF LedgerTypeOK
  <1>13. NumbersAreSent'
    <2>1. ASSUME NEW x \in Channels, NEW i \in 1 .. Len(buf'[x])
          PROVE  buf'[x][i].body.n <= sent'[buf'[x][i].body.by][buf'[x][i].board]
      <3>1. CASE x = ch
        <4>1. i + 1 \in 1 .. Len(buf[ch]) /\ buf'[x][i] = buf[ch][i + 1]
          BY <1>2, <1>6, <2>1, <3>1
        <4> QED
          BY <4>1 DEF NumbersAreSent
      <3>2. CASE x # ch
        BY <1>5, <2>1, <3>2 DEF NumbersAreSent
      <3> QED
        BY <3>1, <3>2
    <2>2. \A x \in Channels, h \in Broadcasters : Subscribed(x)' => seen'[x][h] <= sent'[h][sub'[x]]
      <3> TAKE x \in Channels, h \in Broadcasters
      <3>1. CASE x = ch /\ h = ev.body.by
        <4>1. ev.body.n <= sent[ev.body.by][ev.board]
          BY <1>2 DEF NumbersAreSent
        <4> QED
          BY <1>1, <1>3, <1>7, <3>1, <4>1
      <3>2. CASE ~(x = ch /\ h = ev.body.by)
        BY <1>1, <1>5, <1>7, <1>8, <3>2 DEF NumbersAreSent
      <3> QED
        BY <3>1, <3>2
    <2> QED
      BY <1>1, <2>1, <2>2 DEF NumbersAreSent
  <1>14. InOrder'
    <2> SUFFICES ASSUME NEW x \in Channels, NEW h \in Broadcasters, Subscribed(x)
                 PROVE  /\ \A i \in From(x, h)' : seen'[x][h] < buf'[x][i].body.n
                        /\ \A i, j \in From(x, h)' : i < j => buf'[x][i].body.n < buf'[x][j].body.n
                        /\ x \in cast[h].to =>
                             /\ seen'[x][h] < cast[h].ev.body.n
                             /\ \A i \in From(x, h)' : buf'[x][i].body.n < cast[h].ev.body.n
      BY <1>1, <1>8 DEF InOrder
    <2>1. CASE x # ch
      BY <1>5, <1>11, <2>1 DEF InOrder
    <2>2. CASE x = ch
      <3>1. /\ \A i, j \in From(ch, h) : i < j => buf[ch][i].body.n < buf[ch][j].body.n
            /\ ch \in cast[h].to => \A i \in From(ch, h) : buf[ch][i].body.n < cast[h].ev.body.n
        BY <2>2 DEF InOrder
      <3>2. /\ \A i \in From(ch, h) : seen[ch][h] < buf[ch][i].body.n
            /\ ch \in cast[h].to => seen[ch][h] < cast[h].ev.body.n
        BY <2>2 DEF InOrder
      <3>3. \A i, j \in From(ch, h)' : i < j => buf'[ch][i].body.n < buf'[ch][j].body.n
        BY <1>9, <3>1
      <3>4. ch \in cast[h].to => \A i \in From(ch, h)' : buf'[ch][i].body.n < cast[h].ev.body.n
        BY <1>9, <3>1
      <3>5. CASE h = ev.body.by
        <4>1. 1 \in From(ch, h) /\ buf[ch][1] = ev
          BY <1>first, <3>5
        <4>2. \A i \in From(ch, h)' : ev.body.n < buf'[ch][i].body.n
          BY <1>9, <3>1, <4>1
        <4>3. ch \in cast[h].to => ev.body.n < cast[h].ev.body.n
          BY <3>1, <4>1
        <4> QED
          BY <1>7, <2>2, <3>3, <3>4, <3>5, <4>2, <4>3
      <3>6. CASE h # ev.body.by
        BY <1>7, <1>9, <2>2, <3>2, <3>3, <3>4, <3>6
      <3> QED
        BY <3>5, <3>6
    <2> QED
      BY <2>1, <2>2
  <1>15. LossesAreCounted'
    <2> SUFFICES ASSUME dropped = 0, NEW x \in Channels, NEW h \in Broadcasters, Subscribed(x),
                        NEW n \in seen'[x][h] + 1 .. sent[h][sub[x]],
                        ~(x \in cast[h].to /\ cast[h].ev.body.n = n)
                 PROVE  \E i \in From(x, h)' : buf'[x][i].body.n = n
      BY <1>1, <1>8 DEF LossesAreCounted
    <2>1. CASE x # ch
      BY <1>5, <1>11, <2>1 DEF LossesAreCounted
    <2>2. CASE x = ch
      <3>1. seen[ch][h] <= seen'[ch][h] /\ seen[ch][h] \in Nat /\ seen'[ch][h] \in Nat
            /\ sub[ch] \in Boards /\ sent[h][sub[ch]] \in Nat
        <4>1. sub[ch] \in Boards /\ sent[h][sub[ch]] \in Nat /\ seen[ch][h] \in Nat
          BY <1>1, LedgerForm DEF Subscribed
        <4>2. CASE h = ev.body.by
          <5>1. 1 \in From(ch, h) /\ buf[ch][1] = ev
            BY <1>first, <4>2
          <5>2. seen[ch][h] < ev.body.n
            BY <2>2, <5>1 DEF InOrder
          <5> QED
            BY <1>4, <1>7, <4>2, <4>1, <5>2
        <4>3. CASE h # ev.body.by
          BY <1>7, <4>3, <4>1
        <4> QED
          BY <4>1, <4>2, <4>3
      <3>2. n \in seen[ch][h] + 1 .. sent[h][sub[ch]]
        BY <2>2, <3>1
      <3>3. PICK i \in From(ch, h) : buf[ch][i].body.n = n
        BY <2>2, <3>2 DEF LossesAreCounted
      <3>4. ~(i = 1 /\ h = ev.body.by /\ buf[ch][i] = ev)
        BY <1>7, <2>2, <3>1, <3>3
      <3> QED
        BY <1>10, <2>2, <3>3, <3>4
    <2> QED
      BY <2>1, <2>2
  <1> QED
    BY <1>12, <1>13, <1>14, <1>15

LEMMA LedgerNext == LedgerIInv /\ HubIInv /\ HubIInv' /\ [Next]_vars => LedgerIInv'
  <1> SUFFICES ASSUME LedgerIInv, HubIInv, HubTypeOK', [Next]_vars PROVE LedgerIInv'
    BY DEF HubIInv
  <1>1. CASE UNCHANGED vars
    <2>1. UNCHANGED <<open, rooms, sub, buf, cast, dropped, sent, seen>>
      BY <1>1 DEF vars, hubVars
    <2>2. LedgerTypeOK'
      BY <2>1 DEF LedgerIInv, LedgerTypeOK
    <2>3. NumbersAreSent'
      BY <2>1 DEF LedgerIInv, NumbersAreSent, Subscribed
    <2>4. InOrder'
      BY <2>1 DEF LedgerIInv, InOrder, Subscribed, From
    <2>5. LossesAreCounted'
      BY <2>1 DEF LedgerIInv, LossesAreCounted, Subscribed, From
    <2> QED
      BY <2>2, <2>3, <2>4, <2>5 DEF LedgerIInv
  <1>2. ASSUME Next PROVE LedgerIInv'
    BY <1>2, LedgerSubscribe, LedgerCancel, LedgerStart, LedgerSend, LedgerReceive DEF Next
  <1> QED
    BY <1>1, <1>2
-----------------------------------------------------------------------------
\* The ledger does not change the hub: all it does, the hub does.
THEOREM LedgerOnlyWatches == Spec => HubSpec /\ []LedgerIInv
  <1>1. Init => HubInit /\ HubIInv /\ LedgerIInv
    BY LedgerInit, HubInitInv
  <1>2. LedgerIInv => LedgerTypeOK
    BY DEF LedgerIInv
  <1>3. LedgerIInv /\ HubIInv /\ [Next]_vars => HubIInv' /\ LedgerIInv' /\ [HubNext]_hubVars
    BY <1>2, LedgerStep, HubNextInv, LedgerNext
  <1> QED
    BY <1>1, <1>3, PTL DEF Spec, HubSpec

\* Broadcast and the writer of the stream: the events of one broadcaster arrive in
\* the order they were broadcast in, none of them twice.
THEOREM EventsArriveInOrder == Spec => []InOrder
  <1>1. LedgerIInv => InOrder
    BY DEF LedgerIInv
  <1> QED
    BY <1>1, LedgerOnlyWatches, PTL

\* The drop counter tells: as long as it is 0, every event since a subscription has
\* been taken, is buffered or is about to be sent.
THEOREM EveryLossIsCounted == Spec => []LossesAreCounted
  <1>1. LedgerIInv => LossesAreCounted
    BY DEF LedgerIInv
  <1> QED
    BY <1>1, LedgerOnlyWatches, PTL
=============================================================================
