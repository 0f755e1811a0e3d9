SPECIFICATION CastSpec
CONSTANTS
  m1 = m1  m2 = m2  w1 = w1  w2 = w2  c1 = c1  c2 = c2  c3 = c3  c4 = c4
  Managers = {m1, m2}
  Workers = {w1, w2}
  Clients = {c1, c2, c3, c4}
  Host <- TwoHosts
  Input <- Inputs
  Rho <- RhoTable
  MaxCycles = 3
  StateModulus = 4
  MailBound = 2
  LinkBound = 2
  Injected = {"pong", "result", "kWorkers", "quit"}
CHECK_DEADLOCK FALSE
INVARIANTS ClientKeepsDivisor NobodyFails RepliesReach
