SPECIFICATION LivesSpec
CONSTANTS
  a1 = a1  a2 = a2  p1 = p1  mm = mm
  Actors = {a1, a2}
  Proxies = {p1}
  Broker = mm
  Root = a1
  MayLink <- OneWay
  MaxOps = 2
  Users = {1, 2}
  Builtin = {5}
  UserTypes = {1, 4}
  ElementsOf <- TupleElements
  MaxCalls = 2
  Policies <- SomePolicies
  Slack = 1
  MaxIn = 3
  MaxOut = 2
CHECK_DEADLOCK FALSE
INVARIANTS LinksKept ExitNoticed BytesExact WatchedHeld
PROPERTIES AwaitExact TypesAgree FlushedLeaves LoopStops
