CONSTANTS
  Char = {a, b}
  Foreign = {sp}
  Dot = dot
  Star = star
  MaxLen = 5
  ChannelLen = 6
  GrantLen = 4
SPECIFICATION TextSpec
INVARIANTS
  ParseAcceptsWellFormed
  DisplayRoundTrip
  MatchesIsSegmentwise
  ClientsAgree
  CoversUpToNamespace
  CoversComplete
CHECK_DEADLOCK FALSE
