CONSTANTS
  a = a
  b = b
  s1 = s1
  Char = {a, b}
  Foreign = {}
  Dot = dot
  Star = star
  Malformed = malformed
  None = None
  Session = {s1, s2}
  Caller = {}
  Chan <- OneName
  Pat <- OnePattern
  Identity <- Members
  Requests <- PublisherAndMember
  Cap = 1
  MaxReq = 2
  MaxApi = 1
SPECIFICATION FairSpec
PROPERTIES
  FanOutSpec
  RouteReturns
  EndedSessionsStop
CHECK_DEADLOCK FALSE
