CONSTANTS
  e1 = e1
  e2 = e2
  e3 = e3
  e4 = e4
  f1 = f1
  p1 = p1
  k1 = k1
  k2 = k2
  Key = {k1, k2}
  Event = {e1, e2, e3, e4, f1, p1}
  Ping = {p1}
  Ts <- MCTs
  KeyOf <- MCKeyOf
  Timeout = 2
  Instant = {2, 4, 6, 11}
  NoSession = NoSession
  Counts = {1, 2, 3}
  Home <- MCHome
  Unrouted = Unrouted
  MaxAdds = 4
  NoEvent = NoEvent
SPECIFICATION KeyedSpec
INVARIANTS
  TotalsKept
  SplitOnlyByStaleRoute
  RouteExists
  SessionCustody
  PublishedOnce
  OrderlySessions
CHECK_DEADLOCK FALSE
