SPECIFICATION LifeFairSpec
CONSTANTS
  a1 = a1  a2 = a2  p1 = p1  mm = mm
  Actors = {a1, a2}
  Proxies = {}
  Broker = mm
  Root = a1
  MayLink <- BothWays
  MaxOps = 2
CHECK_DEADLOCK FALSE
PROPERTY LinkReturns
