CONSTANTS
  c1 = c1
  c2 = c2
  c3 = c3
  Channel = {c1, c2}
  ChannelOf <- SharedByEnds
  Refused = {}
  MaxQueue = 2
  MaxConnects = 1
  MaxLosses = 0
SPECIFICATION Spec
INVARIANTS
  SentWhenRestored
CHECK_DEADLOCK FALSE
