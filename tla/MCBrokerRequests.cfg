CONSTANTS
  a = a
  b = b
  s1 = s1
  Char = {a, b}
  Foreign = {}
  Dot = dot
  Star = star
  Malformed = malformed
  None = None
  Session = {s1}
  Caller = {k1}
  Chan <- OneName
  Pat <- Overlapping
  Identity <- Everyone
  Requests <- AllRequests
  Cap = 1
  MaxReq = 3
  MaxApi = 1
SPECIFICATION Spec
INVARIANTS
  TypeOK
  ReadConfined
  SourceOrder
  IndexComplete
PROPERTIES
  FanOutSpec
CHECK_DEADLOCK FALSE
