SPECIFICATION MovesSpec
CONSTANTS
  c1 = c1  c2 = c2  c3 = c3
  r1 = r1  r2 = r2
  todo = todo  done = done  board = board
  Cards = {c1, c2, c3}
  Columns = {todo, done}
  Requests = {r1, r2}
  Unborn = Unborn
  Gone = Gone
  NoTx = NoTx
  NoCard = NoCard
  NoColumn = NoColumn
  BoardOf <- MCBoardOf
  MinInt4 <- MCMinInt4
  MaxInt4 = 3
  DestPositions = {0, 1}
INVARIANT UniquePositions
CHECK_DEADLOCK FALSE
