SPECIFICATION Spec
CONSTANTS
  u1 = u1
  p1 = p1  p2 = p2
  k1 = k1  k2 = k2
  Users = {u1}
  Requests = {p1, p2}
  Keys = {k1, k2}
  NoKey = NoKey
  MaxConns = 1
  MaxBackoff = 30
PROPERTY OutagesStartOver
