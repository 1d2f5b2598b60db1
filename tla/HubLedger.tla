----------------------------- MODULE HubLedger ------------------------------
(***************************************************************************)
(* The hub, with every event numbered by its broadcaster and board and     *)
(* with a record of how far each subscriber has got, to say what reaches a *)
(* subscriber and what does not.  The hub itself is not changed.           *)
(***************************************************************************)
EXTENDS Hub

CONSTANT MaxEvents   \* bound: events of one broadcaster to one board

ASSUME NumberedBodies ==
  /\ MaxEvents \in Nat
  /\ Bodies = [by : Broadcasters, n : 1 .. MaxEvents]

VARIABLES
  sent,      \* events each broadcaster has broadcast to each board
  seen       \* of those, the newest a subscriber has taken or, if it has taken
             \* none, the newest there was when it subscribed

vars == <<hubVars, sent, seen>>

LedgerTypeOK ==
  /\ HubTypeOK
  /\ sent \in [Broadcasters -> [Boards -> 0 .. MaxEvents]]
  /\ seen \in [Channels -> [Broadcasters -> 0 .. MaxEvents]]

Nobody == [g \in Broadcasters |-> 0]

Init ==
  /\ HubInit
  /\ sent = [g \in Broadcasters |-> [b \in Boards |-> 0]]
  /\ seen = [ch \in Channels |-> Nobody]

Next ==
  \/ \E ch \in Channels, b \in Boards :
       /\ Subscribe(ch, b)
       /\ seen' = [seen EXCEPT ![ch] = [g \in Broadcasters |-> sent[g][b]]]
       /\ UNCHANGED sent
  \/ \E ch \in Channels :
       /\ Cancel(ch)
       /\ seen' = [seen EXCEPT ![ch] = Nobody]
       /\ UNCHANGED sent
  \/ \E g \in Broadcasters, b \in Boards :
       /\ sent[g][b] < MaxEvents
       /\ StartBroadcast(g, b, [by |-> g, n |-> sent[g][b] + 1])
       /\ sent' = [sent EXCEPT ![g][b] = @ + 1]
       /\ UNCHANGED seen
  \/ \E g \in Broadcasters, ch \in Channels : Send(g, ch) /\ UNCHANGED <<sent, seen>>
  \/ \E ch \in Channels :
       /\ Receive(ch)
       /\ LET taken == Head(buf[ch]).body
          IN  seen' = [seen EXCEPT ![ch][taken.by] = taken.n]
       /\ UNCHANGED sent

Spec == Init /\ [][Next]_vars
-----------------------------------------------------------------------------
\* Where the events of broadcaster g are in the buffer of ch.
From(ch, g) == {i \in 1 .. Len(buf[ch]) : buf[ch][i].body.by = g}

\* Each broadcaster's events reach a subscriber in order and at most once,
\* whatever other broadcasters run and whoever used the channel's name before.
InOrder ==
  \A ch \in Channels, g \in Broadcasters : Subscribed(ch) =>
    /\ \A i \in From(ch, g) : seen[ch][g] < buf[ch][i].body.n
    /\ \A i, j \in From(ch, g) : i < j => buf[ch][i].body.n < buf[ch][j].body.n
    /\ ch \in cast[g].to =>
         /\ seen[ch][g] < cast[g].ev.body.n
         /\ \A i \in From(ch, g) : buf[ch][i].body.n < cast[g].ev.body.n

\* While the counter is at 0, no subscriber has missed an event broadcast since
\* it subscribed: each was taken, is buffered or is about to be sent.
LossesAreCounted ==
  dropped = 0 =>
    \A ch \in Channels, g \in Broadcasters : Subscribed(ch) =>
      \A n \in seen[ch][g] + 1 .. sent[g][sub[ch]] :
        \/ \E i \in From(ch, g) : buf[ch][i].body.n = n
        \/ ch \in cast[g].to /\ cast[g].ev.body.n = n

\* What the two rest on: an event carries its broadcaster's number for its board,
\* wherever it is, and nobody has taken one that was not broadcast.
NumbersAreSent ==
  /\ \A ch \in Channels : \A i \in 1 .. Len(buf[ch]) :
       LET ev == buf[ch][i] IN ev.body.n <= sent[ev.body.by][ev.board]
  /\ \A g \in Broadcasters : cast[g].to # {} =>
       LET ev == cast[g].ev IN ev.body.by = g /\ ev.body.n <= sent[g][ev.board]
  /\ \A ch \in Channels, g \in Broadcasters : Subscribed(ch) =>
       seen[ch][g] <= sent[g][sub[ch]]

LedgerIInv == LedgerTypeOK /\ NumbersAreSent /\ InOrder /\ LossesAreCounted
=============================================================================
