SPECIFICATION RealtimeSpec
CONSTANTS
  bd = bd  be = be
  ch1 = ch1
  c1 = c1
  r1 = r1  r2 = r2
  Boards = {bd, be}
  Channels = {ch1}
  Broadcasters = {listener}
  Listener = listener
  Bodies <- MCBodies
  Capacity = 1
  NoBoard = NoBoard
  NoEvent = NoEvent
  NoCard = NoCard
  Cards = {c1}
  BoardOf <- MCBoardOf
  Requests = {r1, r2}
  NewCards = {c1}
  MaxEdits = 1
  MaxChanges = 3
  FirstColumns = 1
  MaxColumns = 2
  SocketBuffer = 2
INVARIANT RealtimeIInv
PROPERTIES ImplementsLiveBoard ConvergesUnlessMissed BroadcastEnds
