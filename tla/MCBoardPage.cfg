SPECIFICATION HealthySpec
CONSTANTS
  bd = bd
  ch1 = ch1
  c1 = c1  c2 = c2
  r1 = r1  r2 = r2
  Boards = {bd}
  Channels = {ch1}
  Broadcasters = {listener}
  Listener = listener
  Bodies <- MCBodies
  Capacity = 4
  NoBoard = NoBoard
  NoEvent = NoEvent
  NoCard = NoCard
  Cards = {c1, c2}
  BoardOf <- MCBoardOf
  Requests = {r1, r2}
  NewCards = {c1}
  MaxEdits = 1
  MaxChanges = 1
  FirstColumns = 2
  MaxColumns = 2
  SocketBuffer = 2
PROPERTY MovesAreDisplayed
CHECK_DEADLOCK FALSE
