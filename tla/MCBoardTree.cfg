SPECIFICATION TreeSpec
CONSTANTS
  c1 = c1  c2 = c2  c3 = c3
  k1 = k1  k2 = k2  k3 = k3  k4 = k4
  b1 = b1  b2 = b2
  p1 = p1  p2 = p2
  r1 = r1
  Cards = {c1, c2}
  Columns = {k1, k2, k3, k4}
  Boards = {b1, b2}
  NoBoard = NoBoard
  Defaults = 2
  Requests = {p1, p2}
  Readers = {r1}
  Unborn = Unborn
  Gone = Gone
  MinInt4 <- MCMinInt4
  MaxInt4 = 2
  DestPositions = {0}
SYMMETRY Symmetry
INVARIANTS TreeIInv BoardsAreWhole TreeIsConsistent
PROPERTIES LaterColumnsFollow
