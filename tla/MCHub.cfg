SPECIFICATION Spec
CONSTANTS
  bd1 = bd1  bd2 = bd2
  ch1 = ch1  ch2 = ch2
  g1 = g1  g2 = g2
  Boards = {bd1, bd2}
  Channels = {ch1, ch2}
  Broadcasters = {g1, g2}
  Bodies <- MCBodies
  Capacity = 2
  MaxEvents = 2
  NoBoard = NoBoard
  NoEvent = NoEvent
INVARIANTS LedgerIInv RoomsAreSubscribers Isolation InOrder LossesAreCounted
SYMMETRY Symmetry
