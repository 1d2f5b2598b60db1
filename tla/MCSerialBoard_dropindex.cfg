SPECIFICATION PageSpec
CONSTANTS
  c1 = c1  c2 = c2  c3 = c3
  Cards = {c1, c2, c3}
  Columns = {todo, done}
  Unborn = Unborn
  Gone = Gone
  MinInt4 <- MCMinInt4
  MaxInt4 = 4
  DestPositions <- MCDestPositions

PROPERTY DropIndexHonoured
CHECK_DEADLOCK FALSE
