SPECIFICATION RuntimeSpec
CONSTANTS
  s1 = s1 s2 = s2 Senders = {s1, s2}
  Quota = 2
  MaxThroughput = 2
  a1 = a1 a2 = a2 a3 = a3
  NumWorkers = 2
  Actors_ = {a1, a2, a3}
  MaxResumes = 1
  Callers = {1, 2, 3}
  LongBound = 10
  MaxValue = 40
  MaxDividend = 36
CHECK_DEADLOCK FALSE
INVARIANTS WakeupExact JobsKept MapExclusive OneGroup ResultIsGcd LeavesStripFactor OnlyLateLeft
PROPERTIES IsQueue Delivered CallsReturn
