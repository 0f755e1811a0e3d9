SPECIFICATION ProtocolsSpec
CONSTANTS
  na = na  nb = nb  nc = nc
  Nodes = {na, nb, nc}
  Worlds <- SomeWorlds
  MaxConns = 2
  MaxLosses = 1
  m1 = m1  m2 = m2  m3 = m3  home = home  r1 = r1  r2 = r2
  Home = home
  Remotes = {r1, r2}
  Members = {m1, m2, m3}
  NodeOf <- Spread
  Speakers = {m1, m2}
  MaxSends = 2
  MaxChanges = 3
  MaxDrops = 1
  Seats = 3
  Fetchers = {w1, w2}
  ClientJobs = {k1, k2, k3, k4}
  Hosts = {1, 2}
  FirstHost = 1
  MaxOps = 2
  MaxEvents = 3
  Types = {s, t}
  Anything = any
  Stranger = stranger
  MaxTuple = 4
  MaxPattern = 4
  AtomLen = 4
  AtomCodes = {0, 15, 63}
  MaxString = 5
  ExpBits = 4
  SigBits = 3
  ByteBase = 4
  LenWidth = 2
  Users = {u1, u2, u3}
  j1 = j1  j2 = j2  n1 = n1  n2 = n2  n3 = n3  n4 = n4  null = null
  Jobs = {j1, j2}
  DequeNodes = {n1, n2, n3, n4}
  MaxCalls = 4
  Holders = {1, 2}
  Cells = {1, 2, 3, 4, 5}
  Payloads = {0, 1}
  New <- TwoElements
  MaxUses = 6
CHECK_DEADLOCK FALSE
INVARIANTS DialSound DirectProxyTold GroupDelivers
  ChopsticksSound ReadsServed ServerTracked
  MatchSound RoundTrips
PROPERTIES IsDeque MessagesAreValues
