CONSTANTS
  c1 = c1
  c2 = c2
  c3 = c3
  Channel = {c1, c2, c3}
  ChannelOf <- SharedByTwo
  Refused = {2}
  MaxQueue = 2
  MaxConnects = 2
  MaxLosses = 2
SPECIFICATION Spec
INVARIANTS
  RetryArmed
  NoneForgotten
  ResolvedIsPublished
  OfflineInOrder
PROPERTIES
  ConfirmedNotResent
CHECK_DEADLOCK FALSE
