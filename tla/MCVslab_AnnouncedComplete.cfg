SPECIFICATION Spec
CONSTANTS
  m1 = m1  m2 = m2  w1 = w1  w2 = w2  c1 = c1  c2 = c2  c3 = c3  c4 = c4
  Managers = {m1}
  Workers = {w1}
  Clients = {c1}
  Host <- OneHost
  Input <- Input30
  Rho <- RhoTable
  MaxCycles = 3
  StateModulus = 4
  MailBound = 2
  LinkBound = 2
  Injected = {}
CHECK_DEADLOCK FALSE
INVARIANT AnnouncedComplete
