-------------------------------- MODULE Hub ---------------------------------
(***************************************************************************)
(* realtime.Hub: rooms of subscribers, one room per board, and broadcasts  *)
(* that never wait for a subscriber.                                       *)
(*                                                                         *)
(* Subscribe and its cancel func run under the write lock.  Broadcast      *)
(* copies the room under the read lock and then sends to the copy without  *)
(* a lock: subscribers come and go, and other broadcasts run, between two  *)
(* of its sends.                                                           *)
(***************************************************************************)
EXTENDS Naturals, Sequences

CONSTANTS
  Boards,
  Channels,       \* channels that can be in use at the same time
  Broadcasters,   \* goroutines that call Broadcast
  Bodies,         \* what an event says, its board aside
  Capacity,       \* buffer of a subscriber's channel (4 in the code)
  NoBoard, NoEvent

Event == [board : Boards, body : Bodies]

ASSUME HubConstants ==
  /\ Capacity \in Nat \ {0}
  /\ NoBoard \notin Boards
  /\ NoEvent \notin Event

VARIABLES
  open,      \* keys of the rooms map
  rooms,     \* rooms[b], for the boards of open; {} for the others
  sub,       \* the board whose subscriber reads a channel; NoBoard if none does
  buf,       \* what a channel holds
  cast,      \* the Broadcast each broadcaster is in: its event, and sends to do
  dropped    \* the counter

hubVars == <<open, rooms, sub, buf, cast, dropped>>

NoCast == [ev |-> NoEvent, to |-> {}]

HubTypeOK ==
  /\ open \in SUBSET Boards
  /\ rooms \in [Boards -> SUBSET Channels]
  /\ sub \in [Channels -> Boards \cup {NoBoard}]
  /\ buf \in [Channels -> Seq(Event)]
  /\ \A ch \in Channels : Len(buf[ch]) <= Capacity
  /\ cast \in [Broadcasters -> [ev : Event \cup {NoEvent}, to : SUBSET Channels]]
  /\ dropped \in Nat

HubInit ==
  /\ open = {}
  /\ rooms = [b \in Boards |-> {}]
  /\ sub = [ch \in Channels |-> NoBoard]
  /\ buf = [ch \in Channels |-> <<>>]
  /\ cast = [g \in Broadcasters |-> NoCast]
  /\ dropped = 0

Subscribed(ch) == sub[ch] # NoBoard

\* A cancelled channel is garbage once no broadcast is still to send to it;
\* its name can then stand for a new channel.
Collected(ch) == ~Subscribed(ch) /\ \A g \in Broadcasters : ch \notin cast[g].to

\* Variant: channels come from a pool and are not drained.
SubscribePooled(ch, b) ==
  /\ Collected(ch)
  /\ open' = open \cup {b}
  /\ rooms' = [rooms EXCEPT ![b] = IF b \in open THEN @ \cup {ch} ELSE {ch}]
  /\ sub' = [sub EXCEPT ![ch] = b]
  /\ UNCHANGED <<buf, cast, dropped>>

Subscribe(ch, b) ==
  /\ Collected(ch)
  /\ open' = open \cup {b}
  /\ rooms' = [rooms EXCEPT ![b] = IF b \in open THEN @ \cup {ch} ELSE {ch}]
  /\ sub' = [sub EXCEPT ![ch] = b]
  /\ buf' = [buf EXCEPT ![ch] = <<>>]
  /\ UNCHANGED <<cast, dropped>>

\* Variant: the empty room stays in the map.
CancelLeaksRoom(ch) ==
  /\ Subscribed(ch)
  /\ rooms' = [rooms EXCEPT ![sub[ch]] = @ \ {ch}]
  /\ sub' = [sub EXCEPT ![ch] = NoBoard]
  /\ UNCHANGED <<open, buf, cast, dropped>>

\* The cancel func: the channel is not closed, and a broadcast that copied the
\* room before may still send to it.
Cancel(ch) ==
  LET b == sub[ch]
  IN  /\ Subscribed(ch)
      /\ rooms' = [rooms EXCEPT ![b] = @ \ {ch}]
      /\ open' = IF rooms[b] \ {ch} = {} THEN open \ {b} ELSE open
      /\ sub' = [sub EXCEPT ![ch] = NoBoard]
      /\ UNCHANGED <<buf, cast, dropped>>

Idle(g) == cast[g] = NoCast

\* Variant: every room is copied.
StartBroadcastToAll(g, b, body) ==
  /\ Idle(g)
  /\ cast' = IF b \in open
       THEN [cast EXCEPT ![g] =
              [ev |-> [board |-> b, body |-> body], to |-> UNION {rooms[x] : x \in Boards}]]
       ELSE cast
  /\ UNCHANGED <<open, rooms, sub, buf, dropped>>

\* Broadcast up to RUnlock: the room is copied, or there is no room.
StartBroadcast(g, b, body) ==
  /\ Idle(g)
  /\ cast' = IF b \in open
       THEN [cast EXCEPT ![g] = [ev |-> [board |-> b, body |-> body], to |-> rooms[b]]]
       ELSE cast
  /\ UNCHANGED <<open, rooms, sub, buf, dropped>>

\* What is left of g's broadcast once ch has been served.
Served(g, ch) ==
  LET rest == cast[g].to \ {ch}
  IN  [cast EXCEPT ![g] = IF rest = {} THEN NoCast ELSE [@ EXCEPT !.to = rest]]

\* Variants: a channel without a bound; a drop that is not counted; a send that
\* waits for a subscriber.
SendUnbounded(g, ch) ==
  /\ ch \in cast[g].to
  /\ buf' = [buf EXCEPT ![ch] = Append(@, cast[g].ev)]
  /\ cast' = Served(g, ch)
  /\ UNCHANGED <<open, rooms, sub, dropped>>

SendDropsSilently(g, ch) ==
  /\ ch \in cast[g].to
  /\ buf' = IF Len(buf[ch]) < Capacity
       THEN [buf EXCEPT ![ch] = Append(@, cast[g].ev)] ELSE buf
  /\ cast' = Served(g, ch)
  /\ UNCHANGED <<open, rooms, sub, dropped>>

SendWaits(g, ch) ==
  /\ ch \in cast[g].to
  /\ Len(buf[ch]) < Capacity \/ ~Subscribed(ch)
  /\ buf' = IF Len(buf[ch]) < Capacity
       THEN [buf EXCEPT ![ch] = Append(@, cast[g].ev)] ELSE buf
  /\ cast' = Served(g, ch)
  /\ UNCHANGED <<open, rooms, sub, dropped>>

\* One non-blocking send; map iteration visits the room in any order.  The
\* broadcast is over with its last send.
Send(g, ch) ==
  /\ ch \in cast[g].to
  /\ IF Len(buf[ch]) < Capacity
       THEN buf' = [buf EXCEPT ![ch] = Append(@, cast[g].ev)] /\ UNCHANGED dropped
       ELSE dropped' = dropped + 1 /\ UNCHANGED buf
  /\ cast' = Served(g, ch)
  /\ UNCHANGED <<open, rooms, sub>>

\* The subscriber takes the next event out of its channel.
Receive(ch) ==
  /\ Subscribed(ch)
  /\ buf[ch] # <<>>
  /\ buf' = [buf EXCEPT ![ch] = Tail(@)]
  /\ UNCHANGED <<open, rooms, sub, cast, dropped>>

Broadcasting(g) ==
  \/ \E b \in Boards, body \in Bodies : StartBroadcast(g, b, body)
  \/ \E ch \in Channels : Send(g, ch)

Subscribing(ch) == (\E b \in Boards : Subscribe(ch, b)) \/ Cancel(ch) \/ Receive(ch)

HubNext ==
  \/ \E g \in Broadcasters : Broadcasting(g)
  \/ \E ch \in Channels : Subscribing(ch)

HubSpec == HubInit /\ [][HubNext]_hubVars
-----------------------------------------------------------------------------
\* The map has exactly the boards somebody watches as keys, and a room holds
\* exactly the channels subscribed to its board: cancelling the last of them,
\* with others subscribing, neither leaks a room nor loses a subscriber.
RoomsAreSubscribers ==
  /\ \A b \in Boards : rooms[b] = {ch \in Channels : sub[ch] = b}
  /\ open = {b \in Boards : rooms[b] # {}}

\* A subscriber only ever gets events of its own board, those a broadcast that
\* outlived an earlier subscription still sends included.
Isolation ==
  \A ch \in Channels : Subscribed(ch) =>
    /\ \A i \in 1 .. Len(buf[ch]) : buf[ch][i].board = sub[ch]
    /\ \A g \in Broadcasters : ch \in cast[g].to => cast[g].ev.board = sub[ch]

\* What the two rest on: a broadcast with sends to do has an event to send.
CastsAreFormed == \A g \in Broadcasters : cast[g].to # {} => cast[g].ev \in Event

HubIInv == HubTypeOK /\ CastsAreFormed /\ RoomsAreSubscribers /\ Isolation
=============================================================================
