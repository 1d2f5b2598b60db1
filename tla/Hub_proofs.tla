----------------------------- MODULE Hub_proofs -----------------------------
(***************************************************************************)
(* Rooms and isolation, for any number of boards, subscribers, concurrent  *)
(* broadcasts and any buffer size.                                         *)
(***************************************************************************)
EXTENDS Hub, TLAPS

LEMMA HubInitInv == HubInit => HubIInv
  <1> SUFFICES ASSUME HubInit PROVE HubIInv
    OBVIOUS
  <1>1. HubTypeOK
    BY HubConstants DEF HubInit, HubTypeOK, NoCast
  <1>2. CastsAreFormed /\ RoomsAreSubscribers /\ Isolation
    BY HubConstants
    DEF HubInit, CastsAreFormed, RoomsAreSubscribers, Isolation, NoCast, Subscribed
  <1> QED
    BY <1>1, <1>2 DEF HubIInv

\* A new subscriber: its channel is empty and no broadcast is to send to it.
LEMMA SubscribeInv ==
  ASSUME HubIInv, NEW ch \in Channels, NEW b \in Boards, Subscribe(ch, b)
  PROVE  HubIInv'
  <1> USE DEF HubIInv
  <1>1. /\ open' = open \cup {b}
        /\ rooms' = [rooms EXCEPT ![b] = IF b \in open THEN @ \cup {ch} ELSE {ch}]
        /\ sub' = [sub EXCEPT ![ch] = b]
        /\ buf' = [buf EXCEPT ![ch] = <<>>]
        /\ UNCHANGED <<cast, dropped>>
        /\ ~Subscribed(ch)
        /\ \A g \in Broadcasters : ch \notin cast[g].to
    BY DEF Subscribe, Collected
  <1>2. HubTypeOK'
    <2>1. rooms' \in [Boards -> SUBSET Channels]
      BY <1>1 DEF HubTypeOK
    <2>2. buf' \in [Channels -> Seq(Event)] /\ \A x \in Channels : Len(buf'[x]) <= Capacity
      BY <1>1, HubConstants DEF HubTypeOK
    <2> QED
      BY <1>1, <2>1, <2>2 DEF HubTypeOK
  <1>3. RoomsAreSubscribers'
    <2>1. \A x \in Channels : sub'[x] = IF x = ch THEN b ELSE sub[x]
      BY <1>1 DEF HubTypeOK
    <2>2. sub[ch] = NoBoard
      BY <1>1 DEF Subscribed
    <2>3. rooms'[b] = rooms[b] \cup {ch} /\ \A x \in Boards \ {b} : rooms'[x] = rooms[x]
      BY <1>1 DEF HubTypeOK, RoomsAreSubscribers
    <2>4. \A x \in Boards : rooms'[x] = {y \in Channels : sub'[y] = x}
      <3> SUFFICES ASSUME NEW x \in Boards PROVE rooms'[x] = {y \in Channels : sub'[y] = x}
        OBVIOUS
      <3>1. rooms[x] = {y \in Channels : sub[y] = x}
        BY DEF RoomsAreSubscribers
      <3>2. x # NoBoard
        BY HubConstants
      <3> QED
        BY <2>1, <2>2, <2>3, <3>1, <3>2
    <2>5. open' = {x \in Boards : rooms'[x] # {}}
      <3>1. open = {x \in Boards : rooms[x] # {}}
        BY DEF RoomsAreSubscribers
      <3>2. \A x \in Boards : rooms'[x] # {} <=> x = b \/ rooms[x] # {}
        BY <2>3
      <3> QED
        BY <1>1, <3>1, <3>2
    <2> QED
      BY <2>4, <2>5 DEF RoomsAreSubscribers
  <1>4. Isolation'
    <2>1. \A x \in Channels \ {ch} : sub'[x] = sub[x] /\ buf'[x] = buf[x]
      BY <1>1 DEF HubTypeOK
    <2>2. buf'[ch] = <<>>
      BY <1>1 DEF HubTypeOK
    <2> QED
      BY <1>1, <2>1, <2>2 DEF Isolation, Subscribed
  <1> QED
    BY <1>1, <1>2, <1>3, <1>4 DEF CastsAreFormed

\* The cancel func: the room loses one channel, and the map the room if it was the
\* last one.
LEMMA CancelInv ==
  ASSUME HubIInv, NEW ch \in Channels, Cancel(ch)
  PROVE  HubIInv'
  <1> USE DEF HubIInv
  <1> DEFINE b == sub[ch]
  <1>1. /\ b # NoBoard
        /\ rooms' = [rooms EXCEPT ![b] = @ \ {ch}]
        /\ open' = IF rooms[b] \ {ch} = {} THEN open \ {b} ELSE open
        /\ sub' = [sub EXCEPT ![ch] = NoBoard]
        /\ UNCHANGED <<buf, cast, dropped>>
    BY DEF Cancel, Subscribed
  <1>2. b \in Boards
    BY <1>1 DEF HubTypeOK
  <1> HIDE DEF b
  <1>3. HubTypeOK'
    <2>1. rooms' \in [Boards -> SUBSET Channels]
      BY <1>1, <1>2 DEF HubTypeOK
    <2> QED
      BY <1>1, <2>1 DEF HubTypeOK
  <1>4. \A x \in Channels : sub'[x] = IF x = ch THEN NoBoard ELSE sub[x]
    BY <1>1 DEF HubTypeOK
  <1>5. RoomsAreSubscribers'
    <2>1. rooms'[b] = rooms[b] \ {ch} /\ \A x \in Boards \ {b} : rooms'[x] = rooms[x]
      BY <1>1, <1>2 DEF HubTypeOK
    <2>2. \A x \in Boards : rooms'[x] = {y \in Channels : sub'[y] = x}
      <3> SUFFICES ASSUME NEW x \in Boards PROVE rooms'[x] = {y \in Channels : sub'[y] = x}
        OBVIOUS
      <3>1. rooms[x] = {y \in Channels : sub[y] = x}
        BY DEF RoomsAreSubscribers
      <3>2. x # NoBoard
        BY HubConstants
      <3> QED
        BY <1>4, <2>1, <3>1, <3>2 DEF b
    <2>3. open' = {x \in Boards : rooms'[x] # {}}
      <3>1. open = {x \in Boards : rooms[x] # {}}
        BY DEF RoomsAreSubscribers
      <3>2. ch \in rooms[b]
        BY <1>2 DEF RoomsAreSubscribers, b
      <3> QED
        BY <1>1, <1>2, <2>1, <3>1, <3>2
    <2> QED
      BY <2>2, <2>3 DEF RoomsAreSubscribers
  <1>6. Isolation'
    BY <1>1, <1>4 DEF Isolation, Subscribed
  <1> QED
    BY <1>1, <1>3, <1>5, <1>6 DEF CastsAreFormed

\* A broadcast starts with a copy of the room of its event's board.
LEMMA StartBroadcastInv ==
  ASSUME HubIInv, NEW g \in Broadcasters, NEW b \in Boards, NEW body \in Bodies,
         StartBroadcast(g, b, body)
  PROVE  HubIInv'
  <1> USE DEF HubIInv
  <1> DEFINE ev == [board |-> b, body |-> body]
  <1>1. /\ cast' = IF b \in open THEN [cast EXCEPT ![g] = [ev |-> ev, to |-> rooms[b]]] ELSE cast
        /\ UNCHANGED <<open, rooms, sub, buf, dropped>>
    BY DEF StartBroadcast
  <1>2. ev \in Event /\ ev.board = b /\ rooms[b] \in SUBSET Channels
    BY DEF Event, HubTypeOK
  <1> HIDE DEF ev
  <1>3. HubTypeOK'
    <2>1. cast' \in [Broadcasters -> [ev : Event \cup {NoEvent}, to : SUBSET Channels]]
      BY <1>1, <1>2 DEF HubTypeOK
    <2> QED
      BY <1>1, <2>1 DEF HubTypeOK
  <1>4. \A h \in Broadcasters : cast'[h] \in {cast[h], [ev |-> ev, to |-> rooms[b]]}
    BY <1>1 DEF HubTypeOK
  <1>5. CastsAreFormed'
    BY <1>2, <1>4 DEF CastsAreFormed
  <1>6. Isolation'
    <2>1. \A x \in rooms[b] : sub[x] = b
      BY DEF RoomsAreSubscribers
    <2> QED
      BY <1>1, <1>2, <1>4, <2>1 DEF Isolation, Subscribed
  <1> QED
    BY <1>1, <1>3, <1>5, <1>6 DEF RoomsAreSubscribers

\* One send: into a buffer with room for it, or nowhere.
LEMMA SendInv ==
  ASSUME HubIInv, NEW g \in Broadcasters, NEW ch \in Channels, Send(g, ch)
  PROVE  HubIInv'
  <1> USE DEF HubIInv
  <1> DEFINE ev == cast[g].ev
  <1>1. /\ ch \in cast[g].to
        /\ cast' = Served(g, ch)
        /\ UNCHANGED <<open, rooms, sub>>
        /\ \/ /\ Len(buf[ch]) < Capacity
              /\ buf' = [buf EXCEPT ![ch] = Append(@, ev)]
              /\ dropped' = dropped
           \/ buf' = buf /\ dropped' = dropped + 1
    BY DEF Send
  <1>2. ev \in Event /\ buf[ch] \in Seq(Event)
    BY <1>1 DEF CastsAreFormed, HubTypeOK
  <1> HIDE DEF ev
  <1>3. buf' \in [Channels -> Seq(Event)] /\ \A x \in Channels : Len(buf'[x]) <= Capacity
    <2>1. CASE buf' = buf
      BY <2>1 DEF HubTypeOK
    <2>2. CASE Len(buf[ch]) < Capacity /\ buf' = [buf EXCEPT ![ch] = Append(@, ev)]
      <3>1. Append(buf[ch], ev) \in Seq(Event) /\ Len(Append(buf[ch], ev)) = Len(buf[ch]) + 1
        BY <1>2
      <3>2. Len(buf[ch]) \in Nat /\ Capacity \in Nat
        BY <1>2, HubConstants
      <3>3. Len(buf[ch]) + 1 <= Capacity
        BY <2>2, <3>2
      <3> QED
        BY <2>2, <3>1, <3>3 DEF HubTypeOK
    <2> QED
      BY <1>1, <2>1, <2>2
  <1>4. /\ cast' \in [Broadcasters -> [ev : Event \cup {NoEvent}, to : SUBSET Channels]]
        /\ \A h \in Broadcasters :
             /\ cast'[h].to \subseteq cast[h].to
             /\ cast'[h].to # {} => cast'[h].ev = cast[h].ev
    <2> DEFINE rest == cast[g].to \ {ch}
               new == IF rest = {} THEN NoCast ELSE [cast[g] EXCEPT !.to = rest]
    <2>1. cast[g] \in [ev : Event \cup {NoEvent}, to : SUBSET Channels]
      BY DEF HubTypeOK
    <2>2. cast' = [cast EXCEPT ![g] = new]
      BY <1>1 DEF Served
    <2>3. /\ new \in [ev : Event \cup {NoEvent}, to : SUBSET Channels]
          /\ new.to = rest
          /\ rest # {} => new.ev = cast[g].ev
      BY <2>1 DEF NoCast
    <2>4. rest \subseteq cast[g].to
      OBVIOUS
    <2> HIDE DEF new, rest
    <2> QED
      BY <2>2, <2>3, <2>4 DEF HubTypeOK
  <1>5. dropped' \in Nat
    BY <1>1 DEF HubTypeOK
  <1>6. HubTypeOK'
    BY <1>1, <1>3, <1>4, <1>5 DEF HubTypeOK
  <1>7. CastsAreFormed'
    BY <1>4 DEF CastsAreFormed
  <1>8. Isolation'
    <2> SUFFICES ASSUME NEW x \in Channels, Subscribed(x)'
                 PROVE  /\ \A i \in 1 .. Len(buf'[x]) : buf'[x][i].board = sub'[x]
                        /\ \A h \in Broadcasters : x \in cast'[h].to => cast'[h].ev.board = sub'[x]
      BY DEF Isolation
    <2>1. Subscribed(x) /\ sub'[x] = sub[x]
      BY <1>1 DEF Subscribed
    <2>2. \A h \in Broadcasters : x \in cast'[h].to => cast'[h].ev.board = sub'[x]
      <3> SUFFICES ASSUME NEW h \in Broadcasters, x \in cast'[h].to
                   PROVE  cast'[h].ev.board = sub'[x]
        OBVIOUS
      <3>1. x \in cast[h].to /\ cast'[h].ev = cast[h].ev
        BY <1>4
      <3> QED
        BY <2>1, <3>1 DEF Isolation
    <2>3. \A i \in 1 .. Len(buf[x]) : buf[x][i].board = sub[x]
      BY <2>1 DEF Isolation
    <2>4. CASE buf'[x] = buf[x]
      BY <2>1, <2>2, <2>3, <2>4
    <2>5. CASE x = ch /\ buf'[x] = Append(buf[x], ev)
      <3>1. ev.board = sub[x]
        BY <1>1, <2>1, <2>5 DEF Isolation, ev
      <3>2. /\ buf[x] \in Seq(Event) /\ Len(buf'[x]) = Len(buf[x]) + 1
            /\ \A i \in 1 .. Len(buf[x]) : buf'[x][i] = buf[x][i]
            /\ buf'[x][Len(buf[x]) + 1] = ev
        BY <1>2, <2>5
      <3>3. \A i \in 1 .. Len(buf'[x]) : i \in 1 .. Len(buf[x]) \/ i = Len(buf[x]) + 1
        BY <3>2
      <3> QED
        BY <2>1, <2>2, <2>3, <3>1, <3>2, <3>3
    <2> QED
      BY <1>1, <2>4, <2>5 DEF HubTypeOK
  <1> QED
    BY <1>1, <1>6, <1>7, <1>8 DEF RoomsAreSubscribers

LEMMA ReceiveInv ==
  ASSUME HubIInv, NEW ch \in Channels, Receive(ch)
  PROVE  HubIInv'
  <1> USE DEF HubIInv
  <1>1. /\ buf[ch] # <<>>
        /\ buf' = [buf EXCEPT ![ch] = Tail(@)]
        /\ UNCHANGED <<open, rooms, sub, cast, dropped>>
    BY DEF Receive
  <1>2. /\ buf[ch] \in Seq(Event) /\ Tail(buf[ch]) \in Seq(Event)
        /\ Len(buf[ch]) \in Nat /\ Len(Tail(buf[ch])) = Len(buf[ch]) - 1
        /\ \A i \in 1 .. Len(Tail(buf[ch])) : Tail(buf[ch])[i] = buf[ch][i + 1]
    BY <1>1 DEF HubTypeOK
  <1>3. buf'[ch] = Tail(buf[ch]) /\ \A x \in Channels \ {ch} : buf'[x] = buf[x]
    BY <1>1 DEF HubTypeOK
  <1>4. HubTypeOK'
    <2>1. buf' \in [Channels -> Seq(Event)]
      BY <1>1, <1>2 DEF HubTypeOK
    <2>2. Len(buf[ch]) <= Capacity /\ Capacity \in Nat
      BY HubConstants DEF HubTypeOK
    <2>3. Len(buf'[ch]) <= Capacity
      BY <1>2, <1>3, <2>2
    <2> QED
      BY <1>1, <1>3, <2>1, <2>3 DEF HubTypeOK
  <1>5. Isolation'
    <2>1. \A x \in Channels : \A i \in 1 .. Len(buf'[x]) :
            \E j \in 1 .. Len(buf[x]) : buf'[x][i] = buf[x][j]
      <3> SUFFICES ASSUME NEW x \in Channels, NEW i \in 1 .. Len(buf'[x])
                   PROVE  \E j \in 1 .. Len(buf[x]) : buf'[x][i] = buf[x][j]
        OBVIOUS
      <3>1. CASE x = ch
        <4> DEFINE t == Tail(buf[ch])
        <4>1. buf'[x] = t /\ i \in 1 .. Len(t)
          BY <1>3, <3>1
        <4>2. t[i] = buf[ch][i + 1] /\ Len(t) = Len(buf[ch]) - 1 /\ Len(buf[ch]) \in Nat
          BY <1>2, <4>1
        <4> HIDE DEF t
        <4>3. i + 1 \in 1 .. Len(buf[ch])
          BY <4>1, <4>2
        <4> QED
          BY <3>1, <4>1, <4>2, <4>3
      <3>2. CASE x # ch
        BY <1>3, <3>2
      <3> QED
        BY <3>1, <3>2
    <2> QED
      BY <1>1, <2>1 DEF Isolation, Subscribed
  <1> QED
    BY <1>1, <1>4, <1>5 DEF RoomsAreSubscribers, CastsAreFormed

LEMMA HubNextInv == HubIInv /\ [HubNext]_hubVars => HubIInv'
  <1> SUFFICES ASSUME HubIInv, [HubNext]_hubVars PROVE HubIInv'
    OBVIOUS
  <1>1. CASE UNCHANGED hubVars
    BY <1>1 DEF hubVars, HubIInv, HubTypeOK, CastsAreFormed, RoomsAreSubscribers, Isolation,
       Subscribed
  <1>2. ASSUME NEW g \in Broadcasters, Broadcasting(g) PROVE HubIInv'
    BY <1>2, StartBroadcastInv, SendInv DEF Broadcasting
  <1>3. ASSUME NEW ch \in Channels, Subscribing(ch) PROVE HubIInv'
    BY <1>3, SubscribeInv, CancelInv, ReceiveInv DEF Subscribing
  <1> QED
    BY <1>1, <1>2, <1>3 DEF HubNext

\* Whoever uses the hub, and however its operations interleave.
THEOREM HubInvariantAlways == HubSpec => []HubIInv
  BY HubInitInv, HubNextInv, PTL DEF HubSpec

\* The rooms map has exactly the watched boards as keys, and each room exactly the
\* board's subscribers.
THEOREM RoomsStayExact == HubSpec => []RoomsAreSubscribers
  <1>1. HubIInv => RoomsAreSubscribers
    BY DEF HubIInv
  <1> QED
    BY <1>1, HubInvariantAlways, PTL

\* No subscriber is sent an event of another board.
THEOREM BoardsStayIsolated == HubSpec => []Isolation
  <1>1. HubIInv => Isolation
    BY DEF HubIInv
  <1> QED
    BY <1>1, HubInvariantAlways, PTL
=============================================================================
