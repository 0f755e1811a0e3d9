SPECIFICATION GroupsSpec
CONSTANTS
  m1 = m1  m2 = m2  home = home  r1 = r1
  Home = home
  Remotes = {r1}
  Members = {m1, m2}
  NodeOf <- Together
  Speakers = {}
  MaxSends = 0
  MaxChanges = 4
  MaxDrops = 0
INVARIANT JoinedIfSubscribed
CHECK_DEADLOCK FALSE
