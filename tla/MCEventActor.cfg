SPECIFICATION ActorsSpec
CONSTANTS
  p1 = p1  p2 = p2
  Peers = {p1, p2}
  Words = {"a", "b", "exit"}
  Behaviors <- SomeBehaviors
  Firsts <- SomeFirsts
  Letters <- SomeLetters
  Posts <- SomePosts
  Prioritized = {p2}
  AskPriorities = {TRUE, FALSE}
  Throughput = 1
  MaxOps = 2
  d1 = d1  d2 = d2  stopper = stopper
  Delayers = {d1, d2}
  Stopper = stopper
CHECK_DEADLOCK FALSE
INVARIANTS RequestsKept CacheReread
PROPERTIES TimedEnds TimerDelivers
