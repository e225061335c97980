CONSTANTS
  r1 = r1
  wanted = wanted
  Writer = {w1, w2, w3}
  Reader = {r1}
  Topic = {wanted, other}
  Wanted <- OneChannel
  Capacity = 3
  MaxPush = 5
  MaxFetch = 3
SPECIFICATION Spec
INVARIANTS
  BufferIsTail
  RealTimeOrder
  GetAfterExact
  CatchUpComplete
  CatchUpInOrder
CHECK_DEADLOCK FALSE
