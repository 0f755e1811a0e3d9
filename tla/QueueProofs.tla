---------------------------- MODULE QueueProofs ----------------------------
(***************************************************************************)
(* Proofs about two queues of the scheduler, thread by thread: the timer   *)
(* actor of the coordinator keeps every request and sleeps through none,   *)
(* and the queue of a worker is a double-ended queue, for any threads,     *)
(* jobs and nodes.  The theories of finite sets and of well-founded        *)
(* relations come in last, so that the obligations before do not carry     *)
(* them.                                                                   *)
(***************************************************************************)
EXTENDS WorkerDeque, TimerActor, Integers, TLAPS

USE SMT, Zenon, Z3

-----------------------------------------------------------------------------
(* The timer actor.                                                        *)

(* Where the timer's thread is while it may find the queue blocked, and    *)
(* elsewhere.                                                              *)
Sleeping == {"lock", "check", "wait", "asleep", "woken", "timeout"}
Awake == {"loop", "await", "block", "next", "handle", "cleanup"}

TimerTypes ==
  /\ word \in {"empty", "blocked", "list", "closed"}
  /\ list \in Seq(Posters) /\ cached \in Seq(Posters)
  /\ reader \in Sleeping \cup Awake \cup {"done"}
  /\ poster \in [Posters -> {"start", "notify", "sent", "refused", "stopped"}]

(* Only a reader on its way to sleep leaves the queue blocked, and nobody  *)
(* else empties it meanwhile; the elements are those of the list; the      *)
(* mutex is held between the test of the queue and the sleep.              *)
QueueInv ==
  /\ word = "blocked" => reader \in Sleeping
  /\ reader \in Sleeping => word \in {"blocked", "list"}
  /\ word = "closed" <=> reader = "done"
  /\ word # "list" => list = <<>>
  /\ locked <=> reader \in {"check", "wait"}

(* Whoever adds an element after that test has to notify.                  *)
WakeInv == reader \in {"wait", "asleep"} /\ word # "blocked" =>
             \E t \in Posters : poster[t] = "notify"

TimerInv == TimerTypes /\ QueueInv /\ WakeInv /\ Kept

(* What the timer holds when its queue gets an element, and when the first *)
(* element is taken.                                                       *)
LEMMA AppendedSet ==
  ASSUME NEW S, NEW s \in Seq(S), NEW x
  PROVE  ToSet(Append(s, x)) = ToSet(s) \cup {x}
<1>1. DOMAIN Append(s, x) = 1..(Len(s) + 1) /\ DOMAIN s = 1..Len(s) /\ Len(s) \in Nat
  BY SMT
<1>2. \A i \in 1..Len(s) : Append(s, x)[i] = s[i]
  BY SMT
<1>3. Append(s, x)[Len(s) + 1] = x
  BY SMT
<1>4. 1..(Len(s) + 1) = (1..Len(s)) \cup {Len(s) + 1}
  BY <1>1, SMT
<1> QED
  BY <1>1, <1>2, <1>3, <1>4 DEF ToSet

LEMMA HeadTailSet ==
  ASSUME NEW S, NEW s \in Seq(S), s # <<>>
  PROVE  /\ Tail(s) \in Seq(S) /\ Head(s) \in S
         /\ ToSet(s) = {Head(s)} \cup ToSet(Tail(s))
<1>1. /\ DOMAIN s = 1..Len(s) /\ Len(s) \in Nat /\ Len(s) # 0
      /\ Tail(s) \in Seq(S) /\ Head(s) = s[1] /\ s[1] \in S
      /\ DOMAIN Tail(s) = 1..(Len(s) - 1)
      /\ \A i \in 1..(Len(s) - 1) : Tail(s)[i] = s[i + 1]
  BY SMT
<1>2. ASSUME NEW x \in ToSet(s) PROVE x \in {Head(s)} \cup ToSet(Tail(s))
  <2>1. PICK i \in 1..Len(s) : x = s[i]
    BY <1>1, <1>2 DEF ToSet
  <2>2. CASE i = 1
    BY <1>1, <2>1, <2>2
  <2>3. CASE i # 1
    <3>1. i - 1 \in 1..(Len(s) - 1) /\ (i - 1) + 1 = i
      BY <1>1, <2>3, SMT
    <3> QED
      BY <1>1, <2>1, <3>1 DEF ToSet
  <2> QED
    BY <2>2, <2>3
<1>3. ASSUME NEW x \in ToSet(Tail(s)) PROVE x \in ToSet(s)
  <2>1. PICK i \in 1..(Len(s) - 1) : x = s[i + 1]
    BY <1>1, <1>3 DEF ToSet
  <2>2. i + 1 \in 1..Len(s)
    BY <1>1, SMT
  <2> QED
    BY <1>1, <2>1, <2>2 DEF ToSet
<1>4. Head(s) \in ToSet(s)
  <2>1. 1 \in 1..Len(s)
    BY <1>1, SMT
  <2> QED
    BY <1>1, <2>1 DEF ToSet
<1> QED
  BY <1>1, <1>2, <1>3, <1>4

LEMMA EmptySet == ToSet(<<>>) = {}
BY SMT DEF ToSet

(* The timer starts with an empty queue and nothing sent.                  *)
LEMMA TimerInvInit == TimerInit => TimerInv
BY SMT DEF TimerInit, TimerInv, TimerTypes, QueueInv, WakeInv, Kept, Sleeping, Awake

(* A sender adds its element and has to notify if it found the reader      *)
(* blocked.                                                                *)
LEMMA TimerEnqueue ==
  ASSUME TimerInv, NEW t \in Posters, enqueue(t)
  PROVE  TimerInv'
<1>1. TimerTypes'
  <2>1. PICK p \in {"refused", "notify", "sent"} : poster' = [poster EXCEPT ![t] = p]
    BY DEF enqueue
  <2>2. poster' \in [Posters -> {"start", "notify", "sent", "refused", "stopped"}]
    BY <2>1 DEF TimerInv, TimerTypes
  <2>3. /\ word' \in {word, "list"}
        /\ list' \in {list, Append(list, t)}
    BY DEF enqueue
  <2>4. Append(list, t) \in Seq(Posters)
    BY SMT DEF TimerInv, TimerTypes
  <2>5. UNCHANGED <<cached, reader>>
    BY DEF enqueue
  <2> QED
    BY <2>2, <2>3, <2>4, <2>5 DEF TimerInv, TimerTypes
<1>2. QueueInv'
  BY SMT DEF enqueue, TimerInv, QueueInv, Sleeping
<1>3. WakeInv'
  <2>1. CASE word = "blocked"
    BY <2>1 DEF enqueue, TimerInv, TimerTypes, WakeInv
  <2>2. CASE word # "blocked"
    BY <2>2 DEF enqueue, TimerInv, TimerTypes, WakeInv
  <2> QED
    BY <2>1, <2>2
<1>4. Kept'
  <2>1. ASSUME NEW u \in Posters, u # t PROVE poster'[u] = poster[u]
    BY <2>1 DEF enqueue, TimerInv, TimerTypes
  <2>2. CASE word = "closed"
    <3>1. poster'[t] = "refused"
      BY <2>2, SMT DEF enqueue, TimerInv, TimerTypes
    <3> QED
      BY <2>1, <2>2, <3>1 DEF enqueue, TimerInv, Kept
  <2>3. CASE word # "closed"
    <3>1. ToSet(list') = ToSet(list) \cup {t}
      BY <2>3, AppendedSet DEF enqueue, TimerInv, TimerTypes
    <3> QED
      BY <2>1, <3>1 DEF enqueue, TimerInv, Kept
  <2> QED
    BY <2>2, <2>3
<1> QED
  BY <1>1, <1>2, <1>3, <1>4 DEF TimerInv

(* A reader that sleeps hears the notification; one that holds the mutex   *)
(* between its test and its sleep cannot miss it.                          *)
LEMMA TimerNotify ==
  ASSUME TimerInv, NEW t \in Posters, notify_one(t)
  PROVE  TimerInv'
<1> USE DEF notify_one
<1>1. (reader' = reader /\ reader # "asleep") \/ (reader = "asleep" /\ reader' = "woken")
  OBVIOUS
<1>2. TimerTypes'
  <2>1. poster' \in [Posters -> {"start", "notify", "sent", "refused", "stopped"}]
    BY DEF TimerInv, TimerTypes
  <2> QED
    BY <1>1, <2>1, SMT DEF TimerInv, TimerTypes, Sleeping
<1>3. QueueInv'
  BY <1>1, SMT DEF TimerInv, QueueInv, Sleeping
<1>4. WakeInv'
  BY <1>1, SMT DEF TimerInv, QueueInv, WakeInv
<1>5. Kept'
  <2>1. ASSUME NEW u \in Posters, poster'[u] \in {"notify", "sent"}
        PROVE  poster[u] \in {"notify", "sent"}
    BY <2>1 DEF TimerInv, TimerTypes
  <2> QED
    BY <1>1, <2>1, SMT DEF TimerInv, Kept
<1> QED
  BY <1>2, <1>3, <1>4, <1>5 DEF TimerInv

(* The stopper goes on when the timer is gone.                             *)
LEMMA TimerStopped ==
  ASSUME TimerInv, stopped
  PROVE  TimerInv'
<1> USE DEF stopped
<1>1. poster' \in [Posters -> {"start", "notify", "sent", "refused", "stopped"}]
  BY DEF TimerInv, TimerTypes
<1>2. TimerTypes' /\ QueueInv' /\ WakeInv' /\ Kept'
  BY <1>1, SMT DEF TimerInv, TimerTypes, QueueInv, WakeInv, Kept, Sleeping, Awake
<1> QED
  BY <1>2 DEF TimerInv

(* What is due is delivered, the rest stays delayed.                       *)
LEMMA TimerAct ==
  ASSUME TimerInv, act
  PROVE  TimerInv'
<1> USE DEF act
<1>1. reader = "loop" /\ reader' \in {"loop", "await"}
  OBVIOUS
<1>2. TimerTypes'
  BY <1>1, SMT DEF TimerInv, TimerTypes, Awake
<1>3. QueueInv' /\ WakeInv'
  BY <1>1, SMT DEF TimerInv, QueueInv, WakeInv, Sleeping
<1>4. Kept'
  <2>1. messages \cup delivered \subseteq messages' \cup delivered'
    OBVIOUS
  <2> QED
    BY <1>1, <2>1, SMT DEF TimerInv, Kept
<1> QED
  BY <1>2, <1>3, <1>4 DEF TimerInv

(* The steps of the reader towards its sleep and back touch no element.    *)
LEMMA TimerWaits ==
  ASSUME TimerInv,
         \/ can_fetch_more \/ try_block \/ lock_guard \/ blocked \/ wait
         \/ spurious \/ timeout \/ try_unblock
  PROVE  TimerInv'
<1>1. /\ UNCHANGED <<list, cached, msg_ptr, messages, delivered, poster>>
      /\ reader \notin {"handle", "cleanup", "done"}
  BY SMT DEF can_fetch_more, try_block, lock_guard, blocked, wait, spurious, timeout, try_unblock
<1>2. Kept'
  BY <1>1, SMT DEF TimerInv, Kept
<1>3. TimerTypes'
  <2>1. word' \in {word, "blocked", "empty"} /\ reader' \in Sleeping \cup Awake
    BY SMT DEF Sleeping, Awake, can_fetch_more, try_block, lock_guard, blocked, wait, spurious,
      timeout, try_unblock
  <2> QED
    BY <1>1, <2>1, SMT DEF TimerInv, TimerTypes
<1>4. QueueInv'
  <2>1. CASE can_fetch_more \/ wait \/ spurious \/ timeout
    BY <1>1, <2>1, SMT DEF TimerInv, QueueInv, Sleeping, can_fetch_more, wait, spurious, timeout
  <2>2. CASE try_block \/ try_unblock
    BY <1>1, <2>2, SMT DEF TimerInv, QueueInv, Sleeping, try_block, try_unblock
  <2>3. CASE lock_guard
    BY <1>1, <2>3 DEF TimerInv, QueueInv, Sleeping, lock_guard
  <2>4. CASE blocked /\ word = "blocked"
    <3>1. reader' = "wait" /\ locked' /\ word' = word
      BY <2>4 DEF blocked
    <3> QED
      BY <1>1, <2>4, <3>1 DEF TimerInv, QueueInv, Sleeping
  <2>5. CASE blocked /\ word # "blocked"
    <3>1. reader = "check" /\ reader' = "next" /\ ~locked' /\ word' = word
      BY <2>5 DEF blocked
    <3> QED
      BY <1>1, <2>5, <3>1, SMT DEF TimerInv, QueueInv, Sleeping
  <2> QED
    BY <2>1, <2>2, <2>3, <2>4, <2>5
<1>5. WakeInv'
  BY <1>1, SMT DEF TimerInv, TimerTypes, QueueInv, WakeInv, Sleeping, can_fetch_more, try_block,
    lock_guard, blocked, wait, spurious, timeout, try_unblock
<1> QED
  BY <1>2, <1>3, <1>4, <1>5 DEF TimerInv

(* The element taken is the one in hand afterwards, the others stay.       *)
LEMMA TimerFetch ==
  ASSUME TimerInv, next_message
  PROVE  TimerInv'
<1> DEFINE all == IF cached = <<>> THEN list ELSE cached
<1>1. /\ reader = "next" /\ reader' \in {"loop", "handle"}
      /\ UNCHANGED <<locked, messages, delivered, poster>>
      /\ all \in Seq(Posters)
  BY DEF next_message, TimerInv, TimerTypes
<1>2. \/ word' = word /\ list' = list
      \/ cached = <<>> /\ word = "list" /\ word' = "empty" /\ list' = <<>>
  BY DEF next_message
<1>3. CASE all = <<>>
  <2>1. cached' = cached /\ msg_ptr' = msg_ptr /\ list' = list
    BY <1>2, <1>3 DEF next_message
  <2>2. TimerTypes' /\ QueueInv' /\ WakeInv'
    BY <1>1, <1>2, <2>1, SMT DEF TimerInv, TimerTypes, QueueInv, WakeInv, Sleeping, Awake
  <2>3. Kept'
    BY <1>1, <2>1, SMT DEF TimerInv, Kept
  <2> QED
    BY <2>2, <2>3 DEF TimerInv
<1>4. CASE all # <<>>
  <2>1. cached' = Tail(all) /\ msg_ptr' = Head(all)
    BY <1>4 DEF next_message
  <2>2. Tail(all) \in Seq(Posters) /\ ToSet(all) = {Head(all)} \cup ToSet(Tail(all))
    BY <1>1, <1>4, HeadTailSet
  <2>3. TimerTypes' /\ QueueInv' /\ WakeInv'
    BY <1>1, <1>2, <2>1, <2>2, SMT DEF TimerInv, TimerTypes, QueueInv, WakeInv, Sleeping, Awake
  <2>4. ToSet(list) \cup ToSet(cached) \subseteq ToSet(list') \cup ToSet(cached') \cup {msg_ptr'}
    <3>1. CASE cached = <<>>
      <4>1. ToSet(cached) = {} /\ all = list
        BY <3>1, EmptySet
      <4> QED
        BY <2>1, <2>2, <4>1
    <3>2. CASE cached # <<>>
      BY <1>2, <2>1, <2>2, <3>2
    <3> QED
      BY <3>1, <3>2
  <2>5. reader' = "handle"
    BY <1>4 DEF next_message
  <2>6. Kept'
    BY <1>1, <2>4, <2>5, SMT DEF TimerInv, Kept
  <2> QED
    BY <2>3, <2>6 DEF TimerInv
<1> QED
  BY <1>3, <1>4

(* The element in hand is delayed, unless it is the exit message.          *)
LEMMA TimerHandle ==
  ASSUME TimerInv, mfun
  PROVE  TimerInv'
<1> USE DEF mfun
<1>1. reader = "handle" /\ reader' \in {"cleanup", "loop"}
  OBVIOUS
<1>2. TimerTypes' /\ QueueInv' /\ WakeInv'
  BY <1>1, SMT DEF TimerInv, TimerTypes, QueueInv, WakeInv, Sleeping, Awake
<1>3. Kept'
  BY <1>1, SMT DEF TimerInv, Kept
<1> QED
  BY <1>2, <1>3 DEF TimerInv

LEMMA TimerClose ==
  ASSUME TimerInv, close
  PROVE  TimerInv'
BY SMT DEF close, TimerInv, TimerTypes, QueueInv, WakeInv, Kept, Sleeping, Awake

LEMMA TimerElapse ==
  ASSUME TimerInv, (\E m \in Delayers : Elapse(m)) \/ UNCHANGED timerVars
  PROVE  TimerInv'
<1>1. UNCHANGED <<word, list, cached, locked, reader, msg_ptr, messages, delivered, poster>>
  BY DEF Elapse, timerVars
<1> QED
  BY <1>1 DEF TimerInv, TimerTypes, QueueInv, WakeInv, Kept

(* Whatever wakes the timer's thread and however its deadlines race with   *)
(* senders, it never reads a blocked or closed queue, sleeps on an element *)
(* only while the notification is on its way, and loses no message that    *)
(* was accepted (single_reader_queue.hpp:211-262 and the act() of          *)
(* abstract_coordinator.cpp), for any set of senders.                      *)
THEOREM TimerSound == TimerSpec => [](BackUnblocked /\ WakeupPending /\ Kept)
<1>1. TimerInv /\ [TimerNext]_timerVars => TimerInv'
  <2> SUFFICES ASSUME TimerInv, [TimerNext]_timerVars PROVE TimerInv'
    OBVIOUS
  <2>1. CASE \E t \in Posters : enqueue(t) \/ notify_one(t)
    BY <2>1, TimerEnqueue, TimerNotify
  <2>2. CASE act \/ next_message \/ mfun \/ close \/ stopped
    BY <2>2, TimerAct, TimerFetch, TimerHandle, TimerClose, TimerStopped
  <2>3. CASE \/ can_fetch_more \/ try_block \/ lock_guard \/ blocked \/ wait
             \/ spurious \/ timeout \/ try_unblock
    BY <2>3, TimerWaits
  <2>4. CASE (\E m \in Delayers : Elapse(m)) \/ UNCHANGED timerVars
    BY <2>4, TimerElapse
  <2> QED
    BY <2>1, <2>2, <2>3, <2>4 DEF TimerNext, ReaderStep
<1>2. TimerInv => BackUnblocked /\ WakeupPending /\ Kept
  BY SMT DEF TimerInv, QueueInv, WakeInv, BackUnblocked, WakeupPending, Sleeping
<1> QED
  BY <1>1, <1>2, TimerInvInit, PTL DEF TimerSpec

-----------------------------------------------------------------------------
(* The queue of a worker, node by node.                                    *)

(* ns lists the nodes that next links, from head to the last.              *)
Linked(ns, next, head) ==
  /\ ns \in Seq(DequeNodes) /\ ns # <<>> /\ ns[1] = head
  /\ \A i, j \in 1..Len(ns) : ns[i] = ns[j] => i = j
  /\ \A i \in 1..(Len(ns) - 1) : next[ns[i]] = ns[i + 1]
  /\ next[ns[Len(ns)]] = null

Total == Cardinality(DequeNodes)

(* The jobs in a list of nodes, the dummy left out.                        *)
Items(ns, val) == [i \in 1..(Len(ns) - 1) |-> val[ns[i + 1]]]

JobsFrom(head, next, val) ==
  LET Node == Walk(head, next)
      Length == Cardinality({k \in 1..Total : Node[k] # null})
  IN [i \in 1..Length |-> val[Node[i]]]

(* What Walk finds; shown at the end, from the theories of well-founded    *)
(* relations and finite sets, which no obligation before needs to carry.   *)
Walked ==
  \A ns, next, head, val : Linked(ns, next, head) => JobsFrom(head, next, val) = Items(ns, val)

(* How the jobs change when a node comes at the end, behind the dummy, or  *)
(* goes.                                                                   *)
LEMMA LengthFacts ==
  ASSUME NEW l \in Nat, l >= 1
  PROVE  /\ l = 1 \/ l > 1
         /\ l > 1 =>
            /\ 1 # l /\ l - 1 \in 1..l /\ l - 1 # l /\ l \in 2..l
            /\ \A i \in 1..l : i = l \/ i \in 1..(l - 1)
            /\ \A i \in 1..(l - 1) : i \in 1..l /\ i # l
            /\ \A i \in 2..(l - 1) : i \in 2..l /\ i \in 1..(l - 1)
            /\ l - 1 \in 1..(l - 1) /\ (l - 1) - 1 = l - 2
OBVIOUS

LEMMA ItemsFacts ==
  ASSUME NEW ns \in Seq(DequeNodes), ns # <<>>, NEW val
  PROVE  /\ Len(Items(ns, val)) = Len(ns) - 1 /\ DOMAIN Items(ns, val) = 1..(Len(ns) - 1)
         /\ \A i \in 1..(Len(ns) - 1) : Items(ns, val)[i] = val[ns[i + 1]]
         /\ Len(ns) = 1 <=> Items(ns, val) = <<>>
<1>1. Len(ns) \in Nat /\ Len(ns) >= 1
  OBVIOUS
<1>2. /\ DOMAIN Items(ns, val) = 1..(Len(ns) - 1)
      /\ \A i \in 1..(Len(ns) - 1) : Items(ns, val)[i] = val[ns[i + 1]]
  BY DEF Items
<1>3. Len(Items(ns, val)) = Len(ns) - 1
  BY <1>1 DEF Items
<1>4. CASE Len(ns) = 1
  BY <1>4 DEF Items
<1>5. CASE Len(ns) # 1
  <2>1. 1 \in 1..(Len(ns) - 1)
    BY <1>1, <1>5
  <2>2. 1 \in DOMAIN Items(ns, val)
    BY <1>2, <2>1, Zenon
  <2>3. DOMAIN <<>> = {}
    OBVIOUS
  <2> QED
    BY <1>2, <1>3, <1>5, <2>2, <2>3, Zenon
<1> QED
  BY <1>2, <1>3, <1>4, <1>5, Zenon

LEMMA SameItems ==
  ASSUME NEW ns \in Seq(DequeNodes), NEW val, NEW wal,
         \A i \in 2..Len(ns) : wal[ns[i]] = val[ns[i]]
  PROVE  Items(ns, wal) = Items(ns, val)
<1>1. \A i \in 1..(Len(ns) - 1) : i + 1 \in 2..Len(ns)
  OBVIOUS
<1> QED
  BY <1>1, Zenon DEF Items

LEMMA ItemsAppend ==
  ASSUME NEW ns \in Seq(DequeNodes), ns # <<>>, NEW n \in DequeNodes, NEW val
  PROVE  Items(Append(ns, n), val) = Append(Items(ns, val), val[n])
BY DEF Items

LEMMA ItemsPrepend ==
  ASSUME NEW ns \in Seq(DequeNodes), ns # <<>>, NEW n \in DequeNodes, NEW val
  PROVE  Items(<<ns[1], n>> \o Tail(ns), val) = <<val[n]>> \o Items(ns, val)
BY DEF Items

LEMMA ItemsTail ==
  ASSUME NEW ns \in Seq(DequeNodes), Len(ns) > 1, NEW val
  PROVE  /\ Items(Tail(ns), val) = Tail(Items(ns, val))
         /\ Head(Items(ns, val)) = val[ns[2]]
BY DEF Items

LEMMA ItemsFront ==
  ASSUME NEW ns \in Seq(DequeNodes), Len(ns) > 1, NEW val
  PROVE  /\ Items(SubSeq(ns, 1, Len(ns) - 1), val) = SubSeq(Items(ns, val), 1, Len(ns) - 2)
         /\ Items(ns, val)[Len(ns) - 1] = val[ns[Len(ns)]]
BY DEF Items

-----------------------------------------------------------------------------
CallSteps == {"rest", "append", "publish", "swing", "prepend", "prepend2", "head", "head2",
              "tail", "tail2", "delete"}

DequeTypes ==
  /\ next_node \in [DequeNodes -> DequeNodes \cup {null}]
  /\ value \in [DequeNodes -> Jobs \cup {null}]
  /\ live \in SUBSET DequeNodes
  /\ headLock \in Users \cup {null} /\ tailLock \in Users \cup {null}
  /\ call \in [Users -> [step : CallSteps, node : DequeNodes \cup {null}]]
  /\ result \in [Users -> Jobs \cup {null}]
  /\ freedUse = FALSE

(* Who holds which lock.                                                   *)
LocksHeld ==
  \A u \in Users :
    /\ headLock = u <=> call[u].step \in {"prepend2", "head2", "tail2"}
    /\ tailLock = u <=> call[u].step \in {"publish", "swing"}

(* A thread has a node of its own before it publishes it, and after it has *)
(* taken it out of the list.                                               *)
New(u) == call[u].step \in {"append", "publish", "prepend", "prepend2"}
Owns(u) == New(u) \/ call[u].step = "delete"

OwnNodes ==
  \A u \in Users :
    /\ Owns(u) => call[u].node \in live
    /\ New(u) => next_node[call[u].node] = null /\ value[call[u].node] \in Jobs
    /\ \A w \in Users : Owns(u) /\ Owns(w) /\ call[u].node = call[w].node => u = w

(* The nodes of the list are live and nobody's own.                        *)
Apart(ns) == \A i \in 1..Len(ns) : ns[i] \in live /\ \A u \in Users : Owns(u) => call[u].node # ns[i]

(* All other live nodes are somebody's own.                                *)
NoLeak(ns) ==
  \A n \in live : \/ \E i \in 1..Len(ns) : ns[i] = n
                  \/ \E u \in Users : Owns(u) /\ call[u].node = n

(* All but the first carry a job.                                          *)
Filled(ns) == \A i \in 2..Len(ns) : value[ns[i]] \in Jobs

(* m_tail is the last one unless a thread is about to swing it forward.    *)
EndsAt(ns) ==
  /\ \A u \in Users : call[u].step = "swing" => call[u].node = ns[Len(ns)]
  /\ (\A u \in Users : call[u].step # "swing") => m_tail = ns[Len(ns)]

InList(ns) == Linked(ns, next_node, m_head) /\ Apart(ns) /\ NoLeak(ns) /\ Filled(ns) /\ EndsAt(ns)

DequeBase == DequeTypes /\ LocksHeld /\ OwnNodes
DequeInv == DequeBase /\ \E ns : InList(ns)

(* What the list says of Contents.                                         *)
LEMMA ContentsOf ==
  ASSUME Walked, NEW ns, InList(ns)
  PROVE  Contents = Items(ns, value)
<1>1. Contents = JobsFrom(m_head, next_node, value)
  BY Zenon DEF Contents, JobsFrom, Total
<1>2. Linked(ns, next_node, m_head)
  BY DEF InList
<1> QED
  BY <1>1, <1>2, Zenon DEF Walked

LEMMA DequeInvInit ==
  ASSUME Walked, DequeInit
  PROVE  DequeInv /\ Contents = <<>>
<1>1. m_head \in DequeNodes /\ m_tail = m_head /\ live = {m_head}
  BY DequeAssumption, Zenon DEF DequeInit
<1>2. /\ call = [u \in Users |-> Resting] /\ headLock = null /\ tailLock = null /\ freedUse = FALSE
      /\ next_node = [n \in DequeNodes |-> null] /\ value = [n \in DequeNodes |-> null]
      /\ result = [u \in Users |-> null]
  BY DEF DequeInit
<1>3. Resting \in [step : CallSteps, node : DequeNodes \cup {null}] /\ Resting.step = "rest"
  BY DEF Resting, CallSteps
<1>4. DequeTypes
  BY <1>1, <1>2, <1>3, Zenon DEF DequeTypes
<1>5. \A u \in Users : call[u].step = "rest"
  BY <1>2, <1>3, Zenon
<1>6. LocksHeld
  BY <1>2, <1>5, DequeAssumption DEF LocksHeld
<1>7. OwnNodes
  BY <1>5 DEF OwnNodes, Owns, New
<1> DEFINE ns == <<m_head>>
<1>8. ns \in Seq(DequeNodes) /\ ns # <<>> /\ Len(ns) = 1 /\ ns[1] = m_head
  BY <1>1
<1>9. next_node[m_head] = null
  BY <1>1, <1>2
<1> HIDE DEF ns
<1>10. Linked(ns, next_node, m_head)
  BY <1>8, <1>9 DEF Linked
<1>11. InList(ns)
  BY <1>1, <1>5, <1>8, <1>10 DEF InList, Apart, NoLeak, Filled, EndsAt, Owns, New
<1>12. Contents = <<>>
  <2>1. Items(ns, value) = <<>>
    BY <1>8, ItemsFacts
  <2>2. Contents = Items(ns, value)
    BY <1>11, ContentsOf
  <2> QED
    BY <2>1, <2>2
<1> QED
  BY <1>4, <1>6, <1>7, <1>11, <1>12 DEF DequeInv, DequeBase

-----------------------------------------------------------------------------
LEMMA ContentsNext ==
  ASSUME Walked, NEW ns, Linked(ns, next_node', m_head')
  PROVE  Contents' = Items(ns, value')
<1>1. Contents' = JobsFrom(m_head', next_node', value')
  BY Zenon DEF Contents, JobsFrom, Total
<1> QED
  BY <1>1, Zenon DEF Walked

LEMMA SameLinks ==
  ASSUME NEW ns, NEW next, NEW nxt, NEW head, Linked(ns, next, head),
         \A i \in 1..Len(ns) : nxt[ns[i]] = next[ns[i]]
  PROVE  Linked(ns, nxt, head)
<1>1. Len(ns) \in 1..Len(ns) /\ \A i \in 1..(Len(ns) - 1) : i \in 1..Len(ns)
  BY DEF Linked
<1> QED
  BY <1>1 DEF Linked

LEMMA ListFacts ==
  ASSUME NEW ns, InList(ns)
  PROVE  /\ ns \in Seq(DequeNodes) /\ ns # <<>> /\ DOMAIN ns = 1..Len(ns) /\ Len(ns) \in Nat
         /\ 1 \in 1..Len(ns) /\ Len(ns) \in 1..Len(ns) /\ \A i \in 2..Len(ns) : i \in 1..Len(ns)
         /\ \A i \in 1..Len(ns) : ns[i] \in DequeNodes /\ ns[i] # null /\ ns[i] \in live
         /\ m_head = ns[1]
BY DequeAssumption DEF InList, Linked, Apart

CallRecords == [step : CallSteps, node : DequeNodes \cup {null}]

(* Thread u is at step s now, with node n; the others are where they were. *)
Becomes(u, s, n) ==
  /\ call' \in [Users -> CallRecords]
  /\ call'[u].step = s /\ call'[u].node = n
  /\ \A w \in Users \ {u} : call'[w] = call[w]

LEMMA CallBecomes ==
  ASSUME DequeTypes, NEW u \in Users, NEW s \in CallSteps, NEW n \in DequeNodes \cup {null}
  PROVE  /\ call' = [call EXCEPT ![u] = [step |-> s, node |-> n]] => Becomes(u, s, n)
         /\ call' = [call EXCEPT ![u] = [@ EXCEPT !.step = s, !.node = n]] => Becomes(u, s, n)
         /\ Goes(u, s) => Becomes(u, s, call[u].node)
<1>1. call \in [Users -> CallRecords] /\ call[u] \in CallRecords
  BY DEF DequeTypes, CallRecords
<1>2. ASSUME NEW c \in CallRecords, call' = [call EXCEPT ![u] = c]
      PROVE  Becomes(u, c.step, c.node)
  BY <1>1, <1>2, Zenon DEF Becomes
<1>3. LET c == [step |-> s, node |-> n] IN c \in CallRecords /\ c.step = s /\ c.node = n
  BY DEF CallRecords
<1>4. LET c == [call[u] EXCEPT !.step = s, !.node = n]
      IN c \in CallRecords /\ c.step = s /\ c.node = n
  BY <1>1 DEF CallRecords
<1>5. LET c == [call[u] EXCEPT !.step = s]
      IN c \in CallRecords /\ c.step = s /\ c.node = call[u].node
  BY <1>1 DEF CallRecords
<1>6. ASSUME Goes(u, s) PROVE Becomes(u, s, call[u].node)
  BY <1>2, <1>5, <1>6, Zenon DEF Goes
<1>7. ASSUME call' = [call EXCEPT ![u] = [@ EXCEPT !.step = s, !.node = n]] PROVE Becomes(u, s, n)
  BY <1>2, <1>4, <1>7, Zenon
<1>8. ASSUME call' = [call EXCEPT ![u] = [step |-> s, node |-> n]] PROVE Becomes(u, s, n)
  BY <1>2, <1>3, <1>8, Zenon
<1> QED
  BY <1>6, <1>7, <1>8, Zenon

(* A step that only moves a thread on, and locks, owning what it owned.    *)
Quiet == UNCHANGED <<next_node, value, live, m_head, m_tail, result, freedUse>>

LEMMA QuietStep ==
  ASSUME DequeInv, NEW u \in Users, Quiet, Becomes(u, call'[u].step, call[u].node),
         Owns(u)' <=> Owns(u), New(u)' <=> New(u),
         call[u].step # "swing", call'[u].step # "swing"
  PROVE  OwnNodes' /\ (\E ns : InList(ns))' /\ Contents' = Contents
<1>1. /\ call'[u].node = call[u].node
      /\ \A w \in Users \ {u} : call'[w] = call[w]
  BY DEF Becomes
<1>2. \A w \in Users : /\ Owns(w)' <=> Owns(w)
                       /\ New(w)' <=> New(w)
                       /\ call'[w].node = call[w].node
                       /\ call'[w].step = "swing" <=> call[w].step = "swing"
  BY <1>1, Zenon DEF Owns, New
<1>3. OwnNodes'
  BY <1>2, Zenon DEF DequeInv, DequeBase, OwnNodes, Quiet
<1>4. PICK ns : InList(ns)
  BY DEF DequeInv
<1>5. InList(ns)'
  <2>1. Apart(ns)' /\ NoLeak(ns)'
    BY <1>2, <1>4, Zenon DEF InList, Quiet, Apart, NoLeak
  <2>2. Filled(ns)' /\ EndsAt(ns)'
    BY <1>2, <1>4, Zenon DEF InList, Quiet, Filled, EndsAt
  <2> QED
    BY <1>4, <2>1, <2>2, Zenon DEF InList, Quiet
<1>6. Contents' = Contents
  BY Zenon DEF Contents, Quiet
<1> QED
  BY <1>3, <1>5, <1>6, Zenon

(* BeginTake, the tail lock of append() and the head lock of the others.   *)
LEMMA BeginStep ==
  ASSUME DequeInv, NEW u \in Users, BeginTake(u, "head") \/ BeginTake(u, "tail")
  PROVE  DequeInv' /\ Contents' = Contents /\ result' = result
<1>1. PICK s \in {"head", "tail"} : BeginTake(u, s)
  OBVIOUS
<1>2. Quiet /\ Goes(u, s) /\ call[u].step = "rest" /\ UNCHANGED <<headLock, tailLock>>
  BY <1>1 DEF BeginTake, Begins, At, memory, Quiet
<1>3. Becomes(u, s, call[u].node)
  BY <1>2, CallBecomes DEF CallSteps, DequeInv, DequeBase
<1>4. OwnNodes' /\ (\E ns : InList(ns))' /\ Contents' = Contents
  <2>1. call'[u].step = s
    BY <1>3 DEF Becomes
  <2> QED
    BY <1>2, <1>3, <2>1, QuietStep DEF Owns, New
<1>5. DequeTypes'
  BY <1>2, <1>3, Zenon DEF DequeInv, DequeBase, DequeTypes, Becomes, CallRecords, Quiet
<1>6. LocksHeld'
  BY <1>2, <1>3 DEF DequeInv, DequeBase, LocksHeld, Becomes
<1> QED
  BY <1>2, <1>4, <1>5, <1>6 DEF DequeInv, DequeBase, Quiet

LEMMA TailLockStep ==
  ASSUME DequeInv, NEW u \in Users, append_lock(u)
  PROVE  DequeInv' /\ Contents' = Contents /\ result' = result
<1>1. /\ Quiet /\ Goes(u, "publish") /\ call[u].step = "append" /\ headLock' = headLock
      /\ tailLock = null /\ tailLock' = u
  BY DEF append_lock, At, memory, Quiet
<1>2. Becomes(u, "publish", call[u].node)
  BY <1>1, CallBecomes DEF CallSteps, DequeInv, DequeBase
<1>3. OwnNodes' /\ (\E ns : InList(ns))' /\ Contents' = Contents
  <2>1. call'[u].step = "publish"
    BY <1>2 DEF Becomes
  <2> QED
    BY <1>1, <1>2, <2>1, QuietStep DEF Owns, New
<1>4. DequeTypes'
  BY <1>1, <1>2, Zenon DEF DequeInv, DequeBase, DequeTypes, Becomes, CallRecords, Quiet
<1>5. LocksHeld'
  BY <1>1, <1>2, DequeAssumption DEF DequeInv, DequeBase, LocksHeld, Becomes
<1> QED
  BY <1>1, <1>3, <1>4, <1>5 DEF DequeInv, DequeBase, Quiet

LEMMA HeadLockStep ==
  ASSUME DequeInv, NEW u \in Users, lock_head(u)
  PROVE  DequeInv' /\ Contents' = Contents /\ result' = result
<1>1. PICK s \in {"prepend2", "head2", "tail2"} :
        /\ Goes(u, s)
        /\ <<call[u].step, s>> \in {<<"prepend", "prepend2">>, <<"head", "head2">>, <<"tail", "tail2">>}
  BY DEF lock_head, At
<1>2. Quiet /\ headLock = null /\ headLock' = u /\ tailLock' = tailLock
  BY DEF lock_head, memory, Quiet
<1>3. Becomes(u, s, call[u].node)
  BY <1>1, CallBecomes DEF CallSteps, DequeInv, DequeBase
<1>4. OwnNodes' /\ (\E ns : InList(ns))' /\ Contents' = Contents
  <2>1. call'[u].step = s
    BY <1>3 DEF Becomes
  <2> QED
    BY <1>1, <1>2, <1>3, <2>1, QuietStep DEF Owns, New
<1>5. DequeTypes'
  BY <1>2, <1>3, Zenon DEF DequeInv, DequeBase, DequeTypes, Becomes, CallRecords, Quiet
<1>6. LocksHeld'
  BY <1>1, <1>2, <1>3, DequeAssumption DEF DequeInv, DequeBase, LocksHeld, Becomes
<1> QED
  BY <1>2, <1>4, <1>5, <1>6 DEF DequeInv, DequeBase, Quiet

(* A new node is nobody else's and not in the list.                        *)
LEMMA NewNodeStep ==
  ASSUME Walked, DequeInv, NEW u \in Users, NEW j \in Jobs, NEW s \in {"append", "prepend"}, NewNode(u, j, s)
  PROVE  DequeInv' /\ Contents' = Contents /\ result' = result
<1>1. PICK n \in DequeNodes \ live :
        /\ live' = live \cup {n}
        /\ next_node' = [next_node EXCEPT ![n] = null]
        /\ value' = [value EXCEPT ![n] = j]
        /\ call' = [call EXCEPT ![u] = [step |-> s, node |-> n]]
  <2>1. \E n \in DequeNodes : n \notin live
    BY DEF NewNode, DequeInv, DequeBase, DequeTypes
  <2>2. LET n == CHOOSE n \in DequeNodes : n \notin live IN n \in DequeNodes \ live
    BY <2>1, Zenon
  <2> QED
    BY <2>2, Zenon DEF NewNode
<1>2. /\ UNCHANGED <<m_head, m_tail, headLock, tailLock, result, freedUse>>
      /\ call[u].step = "rest"
  BY DEF NewNode, Begins, At
<1>3. Becomes(u, s, n)
  BY <1>1, CallBecomes, Zenon DEF CallSteps, DequeInv, DequeBase
<1>4. /\ call'[u].step = s /\ call'[u].node = n /\ call' \in [Users -> CallRecords]
      /\ \A w \in Users \ {u} : call'[w] = call[w]
  BY <1>3 DEF Becomes
<1>5. /\ next_node'[n] = null /\ value'[n] = j
      /\ \A m \in DequeNodes \ {n} : next_node'[m] = next_node[m] /\ value'[m] = value[m]
  BY <1>1 DEF DequeInv, DequeBase, DequeTypes
<1>6. DequeTypes'
  BY <1>1, <1>2, <1>4 DEF DequeInv, DequeBase, DequeTypes, CallRecords
<1>7. LocksHeld'
  BY <1>2, <1>4 DEF DequeInv, DequeBase, LocksHeld
<1>8. /\ ~Owns(u) /\ Owns(u)' /\ New(u)'
      /\ \A w \in Users \ {u} : (Owns(w)' <=> Owns(w)) /\ (New(w)' <=> New(w))
  BY <1>2, <1>4 DEF Owns, New
<1>9. \A w \in Users : Owns(w) => call[w].node \in DequeNodes \ {n} /\ w # u
  BY <1>1, <1>8, Zenon DEF DequeInv, DequeBase, OwnNodes, DequeTypes
<1>10. \A w \in Users : New(w) => Owns(w)
  BY DEF Owns
<1>11. OwnNodes'
  <2>1. ASSUME NEW w \in Users, Owns(w)' PROVE call'[w].node \in live'
    BY <1>1, <1>4, <1>8, <2>1, Zenon DEF DequeInv, DequeBase, OwnNodes
  <2>2. ASSUME NEW w \in Users, New(w)'
        PROVE  next_node'[call'[w].node] = null /\ value'[call'[w].node] \in Jobs
    <3>1. CASE w = u
      BY <1>4, <1>5, <3>1, Zenon
    <3>2. CASE w # u
      <4>1. New(w) /\ call'[w].node = call[w].node /\ call[w].node \in DequeNodes \ {n}
        BY <1>4, <1>8, <1>9, <1>10, <2>2, <3>2, Zenon
      <4>2. next_node[call[w].node] = null /\ value[call[w].node] \in Jobs
        BY <4>1, Zenon DEF DequeInv, DequeBase, OwnNodes
      <4> QED
        BY <1>5, <4>1, <4>2, Zenon
    <3> QED
      BY <3>1, <3>2
  <2>3. ASSUME NEW w \in Users, NEW v \in Users, Owns(w)', Owns(v)', call'[w].node = call'[v].node
        PROVE  w = v
    BY <1>4, <1>8, <1>9, <2>3, Zenon DEF DequeInv, DequeBase, OwnNodes
  <2> QED
    BY <2>1, <2>2, <2>3, Zenon DEF OwnNodes
<1>12. PICK ns : InList(ns)
  BY DEF DequeInv
<1>13. /\ ns \in Seq(DequeNodes)
       /\ \A i \in 2..Len(ns) : i \in 1..Len(ns)
       /\ \A i \in 1..Len(ns) : ns[i] \in DequeNodes \ {n} /\ ns[i] \in live
  BY <1>1, <1>12, ListFacts
<1>14. Linked(ns, next_node', m_head')
  BY <1>2, <1>5, <1>12, <1>13, SameLinks, Zenon DEF InList
<1>15. Apart(ns)'
  BY <1>1, <1>4, <1>8, <1>12, <1>13, Zenon DEF InList, Apart
<1>16. NoLeak(ns)'
  <2> SUFFICES ASSUME NEW m \in live'
               PROVE  \/ \E i \in 1..Len(ns) : ns[i] = m
                      \/ \E w \in Users : Owns(w)' /\ call'[w].node = m
    BY Zenon DEF NoLeak
  <2>1. CASE m = n
    BY <1>4, <1>8, <2>1, Zenon
  <2>2. CASE m \in live
    <3>1. CASE \E i \in 1..Len(ns) : ns[i] = m
      BY <3>1
    <3>2. CASE \E w \in Users : Owns(w) /\ call[w].node = m
      BY <1>4, <1>8, <3>2, Zenon
    <3> QED
      BY <1>12, <2>2, <3>1, <3>2, Zenon DEF InList, NoLeak
  <2> QED
    BY <1>1, <2>1, <2>2, Zenon
<1>17. Filled(ns)'
  BY <1>5, <1>12, <1>13, Zenon DEF InList, Filled
<1>18. EndsAt(ns)'
  BY <1>2, <1>4, <1>12 DEF InList, EndsAt
<1>19. Contents' = Contents
  <2>1. \A i \in 2..Len(ns) : value'[ns[i]] = value[ns[i]]
    BY <1>5, <1>13, Zenon
  <2>2. Items(ns, value') = Items(ns, value)
    BY <1>13, <2>1, SameItems, Zenon
  <2>3. Contents = Items(ns, value) /\ Contents' = Items(ns, value')
    BY <1>12, <1>14, ContentsOf, ContentsNext
  <2> QED
    BY <2>2, <2>3
<1> QED
  BY <1>2, <1>6, <1>7, <1>11, <1>14, <1>15, <1>16, <1>17, <1>18, <1>19, Zenon
    DEF DequeInv, DequeBase, InList

(* A node that was taken out is deleted by the thread that owns it.        *)
LEMMA DeleteStep ==
  ASSUME DequeInv, NEW u \in Users, delete(u)
  PROVE  DequeInv' /\ Contents' = Contents /\ result' = result
<1>1. PICK n : n = call[u].node
  OBVIOUS
<1>2. /\ UNCHANGED <<next_node, value, m_head, m_tail, headLock, tailLock, result, freedUse>>
      /\ call[u].step = "delete" /\ live' = live \ {n}
      /\ call' = [call EXCEPT ![u] = [step |-> "rest", node |-> null]]
  BY <1>1 DEF delete, At, Resting
<1>3. Becomes(u, "rest", null)
  BY <1>2, CallBecomes, Zenon DEF CallSteps, DequeInv, DequeBase
<1>4. /\ call'[u].step = "rest" /\ call' \in [Users -> CallRecords]
      /\ \A w \in Users \ {u} : call'[w] = call[w]
  BY <1>3 DEF Becomes
<1>5. DequeTypes'
  BY <1>2, <1>4 DEF DequeInv, DequeBase, DequeTypes, CallRecords
<1>6. LocksHeld'
  BY <1>2, <1>4 DEF DequeInv, DequeBase, LocksHeld
<1>7. /\ Owns(u) /\ ~Owns(u)' /\ ~New(u)'
      /\ \A w \in Users \ {u} : (Owns(w)' <=> Owns(w)) /\ (New(w)' <=> New(w))
  BY <1>2, <1>4 DEF Owns, New
<1>8. \A w \in Users \ {u} : Owns(w) => call[w].node # n
  BY <1>1, <1>7, Zenon DEF DequeInv, DequeBase, OwnNodes
<1>9. OwnNodes'
  BY <1>2, <1>4, <1>7, <1>8, Zenon DEF DequeInv, DequeBase, OwnNodes
<1>10. PICK ns : InList(ns)
  BY DEF DequeInv
<1>11. Apart(ns)'
  BY <1>1, <1>2, <1>4, <1>7, <1>10, Zenon DEF InList, Apart
<1>12. NoLeak(ns)'
  BY <1>1, <1>2, <1>4, <1>7, <1>10, Zenon DEF InList, NoLeak
<1>13. Filled(ns)' /\ Linked(ns, next_node', m_head')
  BY <1>2, <1>10, Zenon DEF InList, Filled
<1>14. EndsAt(ns)'
  BY <1>2, <1>4, <1>10 DEF InList, EndsAt
<1>15. Contents' = Contents
  BY <1>2, Zenon DEF Contents
<1> QED
  BY <1>2, <1>5, <1>6, <1>9, <1>11, <1>12, <1>13, <1>14, <1>15, Zenon DEF DequeInv, DequeBase, InList

(* m_tail is swung forward to the last node.                               *)
LEMMA SwingStep ==
  ASSUME DequeInv, NEW u \in Users, append_swing(u)
  PROVE  DequeInv' /\ Contents' = Contents /\ result' = result
<1>1. /\ UNCHANGED <<next_node, value, live, m_head, headLock, result, freedUse>>
      /\ call[u].step = "swing" /\ m_tail' = call[u].node /\ tailLock' = null
      /\ call' = [call EXCEPT ![u] = [step |-> "rest", node |-> null]]
  BY DEF append_swing, At, Resting, memory
<1>2. Becomes(u, "rest", null)
  BY <1>1, CallBecomes, Zenon DEF CallSteps, DequeInv, DequeBase
<1>3. /\ call'[u].step = "rest" /\ call' \in [Users -> CallRecords]
      /\ \A w \in Users \ {u} : call'[w] = call[w]
  BY <1>2 DEF Becomes
<1>4. DequeTypes'
  BY <1>1, <1>3 DEF DequeInv, DequeBase, DequeTypes, CallRecords
<1>5. tailLock = u
  BY <1>1 DEF DequeInv, DequeBase, LocksHeld
<1>6. LocksHeld'
  BY <1>1, <1>3, <1>5, DequeAssumption DEF DequeInv, DequeBase, LocksHeld
<1>7. \A w \in Users : (Owns(w)' <=> Owns(w)) /\ (New(w)' <=> New(w)) /\ (Owns(w) => w # u)
  BY <1>1, <1>3 DEF Owns, New
<1>8. \A w \in Users : New(w) => Owns(w)
  BY DEF Owns
<1>9. OwnNodes'
  BY <1>1, <1>3, <1>7, <1>8, Zenon DEF DequeInv, DequeBase, OwnNodes
<1>10. PICK ns : InList(ns)
  BY DEF DequeInv
<1>11. Apart(ns)'
  BY <1>1, <1>3, <1>7, <1>10, Zenon DEF InList, Apart
<1>12. NoLeak(ns)'
  <2> SUFFICES ASSUME NEW n \in live
               PROVE  \/ \E i \in 1..Len(ns) : ns[i] = n
                      \/ \E w \in Users : Owns(w)' /\ call'[w].node = n
    BY <1>1, Zenon DEF NoLeak
  <2>1. CASE \E i \in 1..Len(ns) : ns[i] = n
    BY <2>1, Zenon
  <2>2. ASSUME NEW w \in Users, Owns(w), call[w].node = n
        PROVE  Owns(w)' /\ call'[w].node = n
    BY <1>3, <1>7, <2>2, Zenon
  <2> QED
    BY <1>10, <2>1, <2>2, Zenon DEF InList, NoLeak
<1>13. Filled(ns)' /\ Linked(ns, next_node', m_head')
  BY <1>1, <1>10, Zenon DEF InList, Filled
<1>14. EndsAt(ns)'
  BY <1>1, <1>3, <1>10 DEF InList, EndsAt
<1>15. Contents' = Contents
  BY <1>1, Zenon DEF Contents
<1> QED
  BY <1>1, <1>4, <1>6, <1>9, <1>11, <1>12, <1>13, <1>14, <1>15, Zenon DEF DequeInv, DequeBase, InList

(* A node is published behind the last one.                                *)
LEMMA AppendedLinks ==
  ASSUME NEW ns, NEW next \in [DequeNodes -> DequeNodes \cup {null}], NEW head, Linked(ns, next, head),
         NEW n \in DequeNodes, next[n] = null, \A i \in 1..Len(ns) : ns[i] # n
  PROVE  Linked(Append(ns, n), [next EXCEPT ![ns[Len(ns)]] = n], head)
<1> DEFINE ms == Append(ns, n)
           nxt == [next EXCEPT ![ns[Len(ns)]] = n]
<1>1. /\ ns \in Seq(DequeNodes) /\ ns # <<>> /\ ns[1] = head /\ Len(ns) \in Nat /\ Len(ns) >= 1
      /\ \A i, j \in 1..Len(ns) : ns[i] = ns[j] => i = j
      /\ \A i \in 1..(Len(ns) - 1) : next[ns[i]] = ns[i + 1]
      /\ \A i \in 1..Len(ns) : ns[i] \in DequeNodes
  BY DEF Linked
<1>2. /\ ms \in Seq(DequeNodes) /\ ms # <<>> /\ Len(ms) = Len(ns) + 1
      /\ \A i \in 1..Len(ns) : ms[i] = ns[i]
      /\ ms[Len(ns) + 1] = n
  BY <1>1
<1>3. /\ nxt[ns[Len(ns)]] = n
      /\ \A m \in DequeNodes \ {ns[Len(ns)]} : nxt[m] = next[m]
  BY <1>1
<1> HIDE DEF ms, nxt
<1>4. ms[1] = head
  BY <1>1, <1>2
<1>5. ASSUME NEW i \in 1..Len(ms), NEW j \in 1..Len(ms), ms[i] = ms[j] PROVE i = j
  BY <1>1, <1>2, <1>5
<1>6. ASSUME NEW i \in 1..(Len(ms) - 1) PROVE nxt[ms[i]] = ms[i + 1]
  <2>1. i \in 1..Len(ns) /\ ms[i] = ns[i]
    BY <1>1, <1>2
  <2>2. CASE i = Len(ns)
    BY <1>2, <1>3, <2>1, <2>2
  <2>3. CASE i # Len(ns)
    <3>1. i \in 1..(Len(ns) - 1) /\ i + 1 \in 1..Len(ns) /\ Len(ns) \in 1..Len(ns)
      BY <1>1, <2>1, <2>3
    <3>2. ns[i] \in DequeNodes \ {ns[Len(ns)]}
      BY <1>1, <2>1, <2>3, <3>1
    <3> QED
      BY <1>1, <1>2, <1>3, <2>1, <3>1, <3>2, Zenon
  <2> QED
    BY <2>2, <2>3
<1>7. nxt[ms[Len(ms)]] = null
  <2>1. n \in DequeNodes \ {ns[Len(ns)]}
    BY <1>1
  <2> QED
    BY <1>2, <1>3, <2>1
<1> QED
  BY <1>2, <1>4, <1>5, <1>6, <1>7 DEF Linked, ms, nxt

LEMMA PublishStep ==
  ASSUME Walked, DequeInv, NEW u \in Users, append_publish(u)
  PROVE  DequeInv' /\ result' = result /\ \E j \in Jobs : Contents' = Append(Contents, j)
<1>1. PICK n : n = call[u].node
  OBVIOUS
<1>2. /\ UNCHANGED <<value, live, m_head, m_tail, headLock, tailLock, result>>
      /\ call[u].step = "publish" /\ Goes(u, "swing")
      /\ next_node' = [next_node EXCEPT ![m_tail] = n]
      /\ freedUse' = (freedUse \/ ~({m_tail} \subseteq live))
  BY <1>1 DEF append_publish, At, Touches
<1>3. Becomes(u, "swing", n)
  BY <1>1, <1>2, CallBecomes, Zenon DEF CallSteps, DequeInv, DequeBase
<1>4. /\ call'[u].step = "swing" /\ call'[u].node = n /\ call' \in [Users -> CallRecords]
      /\ \A w \in Users \ {u} : call'[w] = call[w]
  BY <1>3 DEF Becomes
<1>5. PICK ns : InList(ns)
  BY DEF DequeInv
<1>6. /\ ns \in Seq(DequeNodes) /\ ns # <<>> /\ Len(ns) \in Nat /\ Len(ns) \in 1..Len(ns)
      /\ \A i \in 1..Len(ns) : ns[i] \in DequeNodes /\ ns[i] \in live
  BY <1>5, ListFacts
<1>7. tailLock = u /\ \A w \in Users : call[w].step # "swing"
  BY <1>2 DEF DequeInv, DequeBase, LocksHeld
<1>8. m_tail = ns[Len(ns)] /\ m_tail \in live
  BY <1>5, <1>6, <1>7, Zenon DEF InList, EndsAt
<1>9. New(u) /\ Owns(u) /\ ~Owns(u)' /\ ~New(u)'
  BY <1>2, <1>4 DEF Owns, New
<1>10. \A w \in Users \ {u} : (Owns(w)' <=> Owns(w)) /\ (New(w)' <=> New(w)) /\ (New(w) => Owns(w))
  BY <1>4 DEF Owns, New
<1>11. n \in live /\ n \in DequeNodes /\ next_node[n] = null /\ value[n] \in Jobs
  BY <1>1, <1>9, Zenon DEF DequeInv, DequeBase, OwnNodes, DequeTypes
<1>12. \A i \in 1..Len(ns) : ns[i] # n
  BY <1>1, <1>5, <1>9, Zenon DEF InList, Apart
<1>13. DequeTypes'
  BY <1>2, <1>4, <1>8, <1>11 DEF DequeInv, DequeBase, DequeTypes, CallRecords
<1>14. LocksHeld'
  BY <1>2, <1>4 DEF DequeInv, DequeBase, LocksHeld
<1>15. \A m \in DequeNodes : m # m_tail => next_node'[m] = next_node[m]
  BY <1>2 DEF DequeInv, DequeBase, DequeTypes
<1>16. \A w \in Users \ {u} : Owns(w) => /\ call[w].node \in live /\ call[w].node \in DequeNodes
                                         /\ call[w].node # m_tail /\ call[w].node # n
  <2>1. \A w \in Users : Owns(w) => call[w].node \in live /\ call[w].node \in DequeNodes
    BY Zenon DEF DequeInv, DequeBase, OwnNodes, DequeTypes
  <2>2. \A w \in Users : Owns(w) => call[w].node # m_tail
    BY <1>5, <1>6, <1>8, Zenon DEF InList, Apart
  <2>3. \A w \in Users \ {u} : Owns(w) => call[w].node # n
    BY <1>1, <1>9, Zenon DEF DequeInv, DequeBase, OwnNodes
  <2> QED
    BY <2>1, <2>2, <2>3, Zenon
<1>17. OwnNodes'
  <2>1. \A w \in Users : New(w)' => next_node'[call'[w].node] = null /\ value'[call'[w].node] \in Jobs
    <3> SUFFICES ASSUME NEW w \in Users \ {u}, New(w)
                 PROVE  next_node'[call[w].node] = null /\ value'[call[w].node] \in Jobs
      BY <1>4, <1>9, <1>10, Zenon
    <3>1. next_node[call[w].node] = null /\ value[call[w].node] \in Jobs
      BY Zenon DEF DequeInv, DequeBase, OwnNodes
    <3> QED
      BY <1>2, <1>10, <1>15, <1>16, <3>1, Zenon
  <2>2. \A w \in Users : Owns(w)' => w # u /\ Owns(w) /\ call'[w].node = call[w].node
    BY <1>4, <1>9, <1>10, Zenon
  <2> QED
    BY <1>2, <2>1, <2>2, Zenon DEF DequeInv, DequeBase, OwnNodes
<1> DEFINE ms == Append(ns, n)
<1>18. Linked(ms, next_node', m_head')
  BY <1>2, <1>5, <1>8, <1>11, <1>12, AppendedLinks DEF InList, DequeInv, DequeBase, DequeTypes
<1>19. /\ Len(ms) = Len(ns) + 1 /\ \A i \in 1..Len(ns) : ms[i] = ns[i] /\ i \in 1..Len(ms)
       /\ ms[Len(ms)] = n /\ Len(ms) \in 1..Len(ms)
       /\ \A i \in 1..Len(ms) : i \in 1..Len(ns) \/ i = Len(ms)
       /\ \A i \in 2..Len(ms) : i \in 2..Len(ns) \/ i = Len(ms)
       /\ \A i \in 2..Len(ns) : i \in 1..Len(ns)
  BY <1>6, <1>11
<1>20. \E j \in Jobs : Contents' = Append(Contents, j)
  <2>1. Contents = Items(ns, value)
    BY <1>5, ContentsOf
  <2>2. Contents' = Items(ms, value')
    BY <1>18, ContentsNext
  <2>3. Items(ms, value) = Append(Items(ns, value), value[n])
    BY <1>6, <1>11, ItemsAppend
  <2> QED
    BY <1>2, <1>11, <2>1, <2>2, <2>3
<1> HIDE DEF ms
<1>21. Apart(ms)'
  <2>1. \A w \in Users : Owns(w)' => w \in Users \ {u} /\ Owns(w) /\ call'[w].node = call[w].node
    BY <1>4, <1>9, <1>10, Zenon
  <2> SUFFICES ASSUME NEW i \in 1..Len(ms)
               PROVE  ms[i] \in live /\ \A w \in Users : Owns(w) /\ w # u => call[w].node # ms[i]
    BY <1>2, <2>1, Zenon DEF Apart
  <2>2. CASE i = Len(ms)
    BY <1>11, <1>16, <1>19, <2>2, Zenon
  <2>3. CASE i \in 1..Len(ns)
    BY <1>5, <1>19, <2>3, Zenon DEF InList, Apart
  <2> QED
    BY <1>19, <2>2, <2>3, Zenon
<1>22. NoLeak(ms)'
  <2> SUFFICES ASSUME NEW m \in live
               PROVE  \/ \E i \in 1..Len(ms) : ms[i] = m
                      \/ \E w \in Users : Owns(w)' /\ call'[w].node = m
    BY <1>2, Zenon DEF NoLeak
  <2>1. CASE \E i \in 1..Len(ns) : ns[i] = m
    BY <1>19, <2>1, Zenon
  <2>2. CASE m = n
    BY <1>19, <2>2, Zenon
  <2>3. CASE \E w \in Users : Owns(w) /\ call[w].node = m /\ m # n
    BY <1>1, <1>4, <1>10, <2>3, Zenon
  <2> QED
    BY <1>5, <2>1, <2>2, <2>3, Zenon DEF InList, NoLeak
<1>23. Filled(ms)'
  BY <1>2, <1>5, <1>11, <1>19, Zenon DEF InList, Filled
<1>24. EndsAt(ms)'
  BY <1>4, <1>7, <1>19, Zenon DEF EndsAt
<1> QED
  BY <1>2, <1>13, <1>14, <1>17, <1>18, <1>20, <1>21, <1>22, <1>23, <1>24, Zenon
    DEF DequeInv, DequeBase, InList

(* A node comes behind the dummy.                                          *)
LEMMA PrependedLinks ==
  ASSUME NEW ns, NEW next \in [DequeNodes -> DequeNodes \cup {null}], NEW head, Linked(ns, next, head),
         NEW n \in DequeNodes, \A i \in 1..Len(ns) : ns[i] # n
  PROVE  Linked(<<ns[1], n>> \o Tail(ns), [next EXCEPT ![n] = next[head], ![head] = n], head)
<1> DEFINE ms == <<ns[1], n>> \o Tail(ns)
           nxt == [next EXCEPT ![n] = next[head], ![head] = n]
<1>1. /\ ns \in Seq(DequeNodes) /\ ns # <<>> /\ ns[1] = head /\ Len(ns) \in Nat /\ Len(ns) >= 1
      /\ \A i, j \in 1..Len(ns) : ns[i] = ns[j] => i = j
      /\ \A i \in 1..(Len(ns) - 1) : next[ns[i]] = ns[i + 1]
      /\ next[ns[Len(ns)]] = null
      /\ \A i \in 1..Len(ns) : ns[i] \in DequeNodes
  BY DEF Linked
<1>2. /\ ms \in Seq(DequeNodes) /\ ms # <<>> /\ Len(ms) = Len(ns) + 1
      /\ ms[1] = head /\ ms[2] = n
      /\ \A i \in 3..Len(ms) : ms[i] = ns[i - 1]
  BY <1>1
<1>3. head \in DequeNodes /\ n # head
  BY <1>1
<1>4. /\ nxt[head] = n /\ nxt[n] = next[head]
      /\ \A m \in DequeNodes \ {n, head} : nxt[m] = next[m]
  BY <1>3
<1> HIDE DEF ms, nxt
<1>5. ASSUME NEW i \in 1..Len(ms), NEW j \in 1..Len(ms), ms[i] = ms[j] PROVE i = j
  <2> DEFINE src(k) == IF k = 1 THEN 1 ELSE k - 1
  <2>1. ASSUME NEW k \in 1..Len(ms), k # 2
        PROVE  src(k) \in 1..Len(ns) /\ ms[k] = ns[src(k)]
    BY <1>1, <1>2, <2>1
  <2>2. CASE i # 2 /\ j # 2
    <3>1. src(i) = src(j)
      <4> HIDE DEF src
      <4> QED
        BY <1>1, <1>5, <2>1, <2>2
    <3> QED
      BY <1>1, <1>2, <2>2, <3>1
  <2>3. CASE i = 2 \/ j = 2
    <3> HIDE DEF src
    <3> QED
      BY <1>2, <1>5, <2>1, <2>3
  <2> QED
    BY <2>2, <2>3
<1>6. ASSUME NEW i \in 1..(Len(ms) - 1) PROVE nxt[ms[i]] = ms[i + 1]
  <2>1. CASE i = 1
    BY <1>2, <1>4, <2>1
  <2>2. CASE i = 2
    <3>1. 1 \in 1..(Len(ns) - 1) /\ 3 \in 3..Len(ms)
      BY <1>1, <1>2, <2>2
    <3>2. next[head] = ns[2] /\ ms[3] = ns[2]
      BY <1>1, <1>2, <3>1
    <3> QED
      BY <1>2, <1>4, <2>2, <3>2
  <2>3. CASE i > 2
    <3>1. i \in 3..Len(ms) /\ i + 1 \in 3..Len(ms) /\ i - 1 \in 1..(Len(ns) - 1) /\ i - 1 \in 2..Len(ns)
      BY <1>1, <1>2, <2>3
    <3>2. ms[i] = ns[i - 1] /\ ms[i + 1] = ns[i] /\ next[ns[i - 1]] = ns[i]
      BY <1>1, <1>2, <3>1
    <3>3. ns[i - 1] \in DequeNodes \ {n, head}
      BY <1>1, <3>1
    <3> QED
      BY <1>4, <3>2, <3>3
  <2> QED
    BY <1>1, <1>2, <2>1, <2>2, <2>3
<1>7. nxt[ms[Len(ms)]] = null
  <2>1. CASE Len(ns) = 1
    BY <1>1, <1>2, <1>4, <2>1
  <2>2. CASE Len(ns) > 1
    <3>1. ms[Len(ms)] = ns[Len(ns)] /\ ns[Len(ns)] \in DequeNodes \ {n, head}
      BY <1>1, <1>2, <2>2
    <3> QED
      BY <1>1, <1>4, <3>1
  <2>3. Len(ns) \in Nat /\ Len(ns) >= 1
    BY <1>1, Zenon
  <2>4. Len(ns) = 1 \/ Len(ns) > 1
    BY <2>3, LengthFacts, Zenon
  <2> QED
    BY <2>1, <2>2, <2>4, Zenon
<1> QED
  BY <1>2, <1>5, <1>6, <1>7 DEF Linked, ms, nxt

LEMMA PrependStep ==
  ASSUME Walked, DequeInv, NEW u \in Users, prepend_both(u)
  PROVE  DequeInv' /\ result' = result /\ \E j \in Jobs : Contents' = <<j>> \o Contents
<1>1. PICK n : n = call[u].node
  OBVIOUS
<1>2. /\ UNCHANGED <<value, live, m_head, tailLock, result>>
      /\ call[u].step = "prepend2" /\ tailLock = null /\ headLock' = null
      /\ m_tail' = IF next_node[m_head] = null THEN n ELSE m_tail
      /\ next_node' = [next_node EXCEPT ![n] = next_node[m_head], ![m_head] = n]
      /\ freedUse' = (freedUse \/ ~({m_head} \subseteq live))
      /\ call' = [call EXCEPT ![u] = [step |-> "rest", node |-> null]]
  BY <1>1 DEF prepend_both, At, Touches, Resting
<1>3. Becomes(u, "rest", null)
  BY <1>2, CallBecomes, Zenon DEF CallSteps, DequeInv, DequeBase
<1>4. /\ call'[u].step = "rest" /\ call' \in [Users -> CallRecords]
      /\ \A w \in Users \ {u} : call'[w] = call[w]
  BY <1>3 DEF Becomes
<1>5. PICK ns : InList(ns)
  BY DEF DequeInv
<1>6. /\ ns \in Seq(DequeNodes) /\ ns # <<>> /\ Len(ns) \in Nat /\ Len(ns) \in 1..Len(ns)
      /\ 1 \in 1..Len(ns) /\ \A i \in 1..Len(ns) : ns[i] \in DequeNodes /\ ns[i] \in live /\ ns[i] # null
      /\ m_head = ns[1]
  BY <1>5, ListFacts
<1>7. headLock = u /\ \A w \in Users : call[w].step # "swing"
  BY <1>2, DequeAssumption DEF DequeInv, DequeBase, LocksHeld
<1>8. m_tail = ns[Len(ns)] /\ m_head \in live /\ m_head \in DequeNodes
  BY <1>5, <1>6, <1>7, Zenon DEF InList, EndsAt
<1>9. New(u) /\ Owns(u) /\ ~Owns(u)' /\ ~New(u)'
  BY <1>2, <1>4 DEF Owns, New
<1>10. \A w \in Users \ {u} : (Owns(w)' <=> Owns(w)) /\ (New(w)' <=> New(w)) /\ (New(w) => Owns(w))
  BY <1>4 DEF Owns, New
<1>11. n \in live /\ n \in DequeNodes /\ next_node[n] = null /\ value[n] \in Jobs
  BY <1>1, <1>9, Zenon DEF DequeInv, DequeBase, OwnNodes, DequeTypes
<1>12. \A i \in 1..Len(ns) : ns[i] # n
  BY <1>1, <1>5, <1>9, Zenon DEF InList, Apart
<1>13. next_node[m_head] \in DequeNodes \cup {null}
  BY <1>8 DEF DequeInv, DequeBase, DequeTypes
<1>14. DequeTypes'
  BY <1>2, <1>4, <1>8, <1>11, <1>13 DEF DequeInv, DequeBase, DequeTypes, CallRecords
<1>15. LocksHeld'
  BY <1>2, <1>4, <1>7, DequeAssumption DEF DequeInv, DequeBase, LocksHeld
<1>16. \A m \in DequeNodes : m # m_head /\ m # n => next_node'[m] = next_node[m]
  BY <1>2 DEF DequeInv, DequeBase, DequeTypes
<1>17. \A w \in Users \ {u} : Owns(w) => /\ call[w].node \in live /\ call[w].node \in DequeNodes
                                         /\ call[w].node # m_head /\ call[w].node # n
  <2>1. \A w \in Users : Owns(w) => call[w].node \in live /\ call[w].node \in DequeNodes
    BY Zenon DEF DequeInv, DequeBase, OwnNodes, DequeTypes
  <2>2. \A w \in Users : Owns(w) => call[w].node # m_head
    BY <1>5, <1>6, Zenon DEF InList, Apart
  <2>3. \A w \in Users \ {u} : Owns(w) => call[w].node # n
    BY <1>1, <1>9, Zenon DEF DequeInv, DequeBase, OwnNodes
  <2> QED
    BY <2>1, <2>2, <2>3, Zenon
<1>18. \A w \in Users : Owns(w)' => w \in Users \ {u} /\ Owns(w) /\ call'[w].node = call[w].node
  BY <1>4, <1>9, <1>10, Zenon
<1>19. OwnNodes'
  <2>1. \A w \in Users : New(w)' => next_node'[call'[w].node] = null /\ value'[call'[w].node] \in Jobs
    <3> SUFFICES ASSUME NEW w \in Users \ {u}, New(w)
                 PROVE  next_node'[call[w].node] = null /\ value'[call[w].node] \in Jobs
      BY <1>4, <1>9, <1>10, Zenon
    <3>1. next_node[call[w].node] = null /\ value[call[w].node] \in Jobs
      BY Zenon DEF DequeInv, DequeBase, OwnNodes
    <3> QED
      BY <1>2, <1>10, <1>16, <1>17, <3>1, Zenon
  <2>2. \A w \in Users : Owns(w)' => call'[w].node \in live'
    <3> SUFFICES ASSUME NEW w \in Users, Owns(w)' PROVE call'[w].node \in live
      BY <1>2, Zenon
    <3> QED
      BY <1>17, <1>18, Zenon
  <2>3. \A v, w \in Users : Owns(v)' /\ Owns(w)' /\ call'[v].node = call'[w].node => v = w
    BY <1>18, Zenon DEF DequeInv, DequeBase, OwnNodes
  <2> QED
    BY <2>1, <2>2, <2>3, Zenon DEF OwnNodes
<1> DEFINE ms == <<ns[1], n>> \o Tail(ns)
<1>20. Linked(ms, next_node', m_head')
  BY <1>2, <1>5, <1>11, <1>12, PrependedLinks DEF InList, DequeInv, DequeBase, DequeTypes
<1>21. Len(ms) = Len(ns) + 1 /\ ms[1] = ns[1] /\ ms[2] = n /\ \A i \in 3..Len(ms) : ms[i] = ns[i - 1]
  BY <1>6, <1>11
<1>22. \E j \in Jobs : Contents' = <<j>> \o Contents
  <2>1. Contents = Items(ns, value)
    BY <1>5, ContentsOf
  <2>2. Contents' = Items(ms, value')
    BY <1>20, ContentsNext
  <2>3. Items(ms, value) = <<value[n]>> \o Items(ns, value)
    BY <1>6, <1>11, ItemsPrepend
  <2> QED
    BY <1>2, <1>11, <2>1, <2>2, <2>3
<1> HIDE DEF ms
<1>23. /\ \A i \in 1..Len(ms) : ms[i] = n \/ \E k \in 1..Len(ns) : ms[i] = ns[k]
       /\ \A i \in 2..Len(ms) : ms[i] = n \/ \E k \in 2..Len(ns) : ms[i] = ns[k]
       /\ \A k \in 1..Len(ns) : \E i \in 1..Len(ms) : ms[i] = ns[k]
       /\ 2 \in 1..Len(ms)
  <2>1. ASSUME NEW i \in 2..Len(ms) PROVE ms[i] = n \/ \E k \in 2..Len(ns) : ms[i] = ns[k]
    <3>1. CASE i = 2
      BY <1>21, <3>1
    <3>2. CASE i # 2
      <4>1. i \in 3..Len(ms) /\ i - 1 \in 2..Len(ns)
        BY <1>6, <1>21, <3>2
      <4> QED
        BY <1>21, <4>1
    <3> QED
      BY <3>1, <3>2
  <2>2. ASSUME NEW k \in 1..Len(ns) PROVE \E i \in 1..Len(ms) : ms[i] = ns[k]
    <3>1. CASE k = 1
      BY <1>6, <1>21, <3>1
    <3>2. CASE k # 1
      <4>1. k + 1 \in 3..Len(ms) /\ k + 1 \in 1..Len(ms) /\ (k + 1) - 1 = k
        BY <1>6, <1>21, <3>2
      <4>2. ms[k + 1] = ns[k]
        BY <1>21, <4>1
      <4> QED
        BY <4>1, <4>2
    <3> QED
      BY <3>1, <3>2
  <2>3. /\ \A i \in 1..Len(ms) : i = 1 \/ i \in 2..Len(ms)
        /\ \A k \in 2..Len(ns) : k \in 1..Len(ns)
        /\ 2 \in 1..Len(ms)
    BY <1>6, <1>21
  <2> QED
    BY <1>6, <1>21, <2>1, <2>2, <2>3, Zenon
<1>24. Apart(ms)'
  <2> SUFFICES ASSUME NEW i \in 1..Len(ms)
               PROVE  ms[i] \in live /\ \A w \in Users : Owns(w) /\ w # u => call[w].node # ms[i]
    BY <1>2, <1>18, Zenon DEF Apart
  <2>1. CASE ms[i] = n
    BY <1>11, <1>17, <2>1, Zenon
  <2>2. CASE \E k \in 1..Len(ns) : ms[i] = ns[k]
    BY <1>5, <2>2, Zenon DEF InList, Apart
  <2> QED
    BY <1>23, <2>1, <2>2, Zenon
<1>25. NoLeak(ms)'
  <2> SUFFICES ASSUME NEW m \in live
               PROVE  \/ \E i \in 1..Len(ms) : ms[i] = m
                      \/ \E w \in Users : Owns(w)' /\ call'[w].node = m
    BY <1>2, Zenon DEF NoLeak
  <2>1. CASE \E i \in 1..Len(ns) : ns[i] = m
    BY <1>23, <2>1, Zenon
  <2>2. CASE m = n
    BY <1>21, <1>23, <2>2, Zenon
  <2>3. CASE \E w \in Users : Owns(w) /\ call[w].node = m /\ m # n
    BY <1>1, <1>4, <1>10, <2>3, Zenon
  <2> QED
    BY <1>5, <2>1, <2>2, <2>3, Zenon DEF InList, NoLeak
<1>26. Filled(ms)'
  BY <1>2, <1>5, <1>11, <1>23, Zenon DEF InList, Filled
<1>27. m_tail' = ms[Len(ms)]
  <2>1. CASE Len(ns) = 1
    <3>1. next_node[m_head] = null
      BY <1>5, <1>6, <2>1 DEF InList, Linked
    <3> QED
      BY <1>2, <1>21, <2>1, <3>1
  <2>2. CASE Len(ns) # 1
    <3>0. Len(ns) \in Nat /\ Len(ns) \in 1..Len(ns) /\ Len(ms) = Len(ns) + 1
      BY <1>6, <1>21, Zenon
    <3>1. 1 \in 1..(Len(ns) - 1) /\ 1 + 1 \in 1..Len(ns) /\ Len(ms) \in 3..Len(ms) /\ Len(ms) - 1 = Len(ns)
      <4>1. \A a \in Nat : a \in 1..a /\ a # 1 =>
              /\ 1 \in 1..(a - 1) /\ 1 + 1 \in 1..a
              /\ a + 1 \in 3..(a + 1) /\ (a + 1) - 1 = a
        OBVIOUS
      <4> QED
        BY <2>2, <3>0, <4>1, Zenon
    <3>2. next_node[m_head] # null
      BY <1>5, <1>6, <3>1 DEF InList, Linked
    <3> QED
      BY <1>2, <1>8, <1>21, <3>1, <3>2
  <2> QED
    BY <2>1, <2>2
<1>28. EndsAt(ms)'
  BY <1>4, <1>7, <1>27 DEF EndsAt
<1> QED
  BY <1>2, <1>14, <1>15, <1>19, <1>20, <1>22, <1>24, <1>25, <1>26, <1>28, Zenon
    DEF DequeInv, DequeBase, InList

(* Without its first node, and without its last one, it is still a list.   *)
LEMMA TailLinks ==
  ASSUME NEW ns, NEW next, NEW head, Linked(ns, next, head), Len(ns) > 1
  PROVE  /\ Linked(Tail(ns), next, ns[2])
         /\ Len(Tail(ns)) = Len(ns) - 1 /\ \A i \in 1..Len(Tail(ns)) : Tail(ns)[i] = ns[i + 1]
         /\ next[head] = ns[2]
<1> DEFINE ms == Tail(ns)
<1>1. /\ ns \in Seq(DequeNodes) /\ ns # <<>> /\ ns[1] = head /\ Len(ns) \in Nat
      /\ \A i, j \in 1..Len(ns) : ns[i] = ns[j] => i = j
      /\ \A i \in 1..(Len(ns) - 1) : next[ns[i]] = ns[i + 1]
      /\ next[ns[Len(ns)]] = null
  BY DEF Linked
<1>2. ms \in Seq(DequeNodes) /\ Len(ms) = Len(ns) - 1 /\ \A i \in 1..Len(ms) : ms[i] = ns[i + 1]
  BY <1>1
<1>3. Len(ns) \in Nat
  BY <1>1, Zenon
<1>4. /\ Len(ms) \in Nat /\ Len(ms) \in 1..Len(ms) /\ 1 \in 1..Len(ms) /\ Len(ms) + 1 = Len(ns)
      /\ 1 + 1 = 2 /\ 1 \in 1..(Len(ns) - 1)
      /\ \A i \in 1..Len(ms) : i \in Int /\ i + 1 \in 1..Len(ns)
      /\ \A i \in 1..(Len(ms) - 1) : i \in 1..Len(ms) /\ i + 1 \in 1..Len(ms) /\ i + 1 \in 1..(Len(ns) - 1)
      /\ \A i, j \in Int : i + 1 = j + 1 => i = j
  BY <1>2, <1>3
<1> HIDE DEF ms
<1>5. ms # <<>>
  BY <1>2, <1>4
<1>6. ASSUME NEW i \in 1..Len(ms), NEW j \in 1..Len(ms), ms[i] = ms[j] PROVE i = j
  <2>1. i \in Int /\ j \in Int /\ i + 1 \in 1..Len(ns) /\ j + 1 \in 1..Len(ns)
    BY <1>4, Zenon
  <2>2. ns[i + 1] = ns[j + 1]
    BY <1>2, <1>6, Zenon
  <2>3. i + 1 = j + 1
    BY <1>1, <2>1, <2>2, Zenon
  <2> QED
    BY <2>1, <2>3
<1>7. ASSUME NEW i \in 1..(Len(ms) - 1) PROVE next[ms[i]] = ms[i + 1]
  <2>1. i \in 1..Len(ms) /\ i + 1 \in 1..Len(ms) /\ i + 1 \in 1..(Len(ns) - 1)
    BY <1>4, Zenon
  <2>2. ms[i] = ns[i + 1] /\ ms[i + 1] = ns[(i + 1) + 1]
    BY <1>2, <2>1, Zenon
  <2>3. next[ns[i + 1]] = ns[(i + 1) + 1]
    BY <1>1, <2>1, Zenon
  <2> QED
    BY <2>2, <2>3
<1>8. next[ms[Len(ms)]] = null /\ ms[1] = ns[2] /\ next[head] = ns[2]
  BY <1>1, <1>2, <1>4, Zenon
<1> QED
  BY <1>2, <1>5, <1>6, <1>7, <1>8, Zenon DEF Linked, ms

LEMMA FrontLinks ==
  ASSUME NEW ns, NEW next \in [DequeNodes -> DequeNodes \cup {null}], NEW head,
         Linked(ns, next, head), Len(ns) > 1
  PROVE  LET ms == SubSeq(ns, 1, Len(ns) - 1) IN
         /\ Linked(ms, [next EXCEPT ![ns[Len(ns) - 1]] = null], head)
         /\ Len(ms) = Len(ns) - 1 /\ \A i \in 1..Len(ms) : ms[i] = ns[i]
<1> DEFINE ms == SubSeq(ns, 1, Len(ns) - 1)
           last == ns[Len(ns) - 1]
           nxt == [next EXCEPT ![last] = null]
<1>1. /\ ns \in Seq(DequeNodes) /\ ns # <<>> /\ ns[1] = head
      /\ \A i, j \in 1..Len(ns) : ns[i] = ns[j] => i = j
      /\ \A i \in 1..(Len(ns) - 1) : next[ns[i]] = ns[i + 1]
  BY DEF Linked
<1>2. Len(ns) \in Nat
  BY <1>1
<1>3. ms \in Seq(DequeNodes) /\ Len(ms) = Len(ns) - 1 /\ \A i \in 1..Len(ms) : ms[i] = ns[i]
  BY <1>1, <1>2
<1>4. /\ Len(ms) \in Nat /\ Len(ms) \in 1..Len(ms) /\ 1 \in 1..Len(ms) /\ Len(ns) - 1 \in 1..Len(ns)
      /\ \A i \in 1..Len(ms) : i \in 1..Len(ns)
      /\ \A i \in 1..(Len(ms) - 1) : i \in 1..Len(ms) /\ i + 1 \in 1..Len(ms) /\ i \in 1..(Len(ns) - 1)
                                     /\ i # Len(ns) - 1
  BY <1>2, <1>3
<1>5. last \in DequeNodes /\ \A i \in 1..Len(ms) : ns[i] \in DequeNodes
  BY <1>1, <1>4
<1>6. nxt[last] = null /\ \A n \in DequeNodes : n # last => nxt[n] = next[n]
  BY <1>5
<1> HIDE DEF ms, nxt
<1>7. ms # <<>>
  BY <1>3, <1>4
<1>8. \A i, j \in 1..Len(ms) : ms[i] = ms[j] => i = j
  BY <1>1, <1>3, <1>4, Zenon
<1>9. ASSUME NEW i \in 1..(Len(ms) - 1) PROVE nxt[ms[i]] = ms[i + 1]
  <2>1. ns[i] # last /\ ns[i] \in DequeNodes
    BY <1>1, <1>4, <1>5, Zenon
  <2> QED
    BY <1>1, <1>3, <1>4, <1>6, <2>1, Zenon
<1>10. nxt[ms[Len(ms)]] = null /\ ms[1] = head
  BY <1>1, <1>3, <1>4, <1>6, Zenon
<1> QED
  BY <1>3, <1>7, <1>8, <1>9, <1>10, Zenon DEF Linked, ms, nxt

(* A take of an empty queue changes nothing.                               *)
LEMMA EmptyTake ==
  ASSUME Walked, DequeInv, NEW u \in Users, NEW ns, InList(ns), Len(ns) = 1,
         call[u].step \in {"head2", "tail2"}, Becomes(u, "rest", null),
         headLock' = null, result' = [result EXCEPT ![u] = null], freedUse' = FALSE,
         UNCHANGED <<next_node, value, live, m_head, m_tail, tailLock>>
  PROVE  DequeInv' /\ Contents = <<>> /\ Contents' = Contents
<1>0. UNCHANGED next_node /\ UNCHANGED value /\ UNCHANGED live
  OBVIOUS
<1>1. /\ call'[u].step = "rest" /\ call' \in [Users -> CallRecords]
      /\ \A w \in Users \ {u} : call'[w] = call[w]
  BY DEF Becomes
<1>2. \A w \in Users : /\ Owns(w)' <=> Owns(w)
                       /\ New(w)' <=> New(w)
                       /\ Owns(w) => call'[w] = call[w]
                       /\ New(w) => Owns(w)
                       /\ call'[w].step = "swing" <=> call[w].step = "swing"
                       /\ call[w].step = "swing" => call'[w] = call[w]
  BY <1>1 DEF Owns, New
<1>3. headLock = u
  BY DEF DequeInv, DequeBase, LocksHeld
<1>4. LocksHeld'
  BY <1>1, <1>3, DequeAssumption DEF DequeInv, DequeBase, LocksHeld
<1>5. DequeTypes'
  BY <1>1 DEF DequeInv, DequeBase, DequeTypes, CallRecords
<1>6. OwnNodes'
  <2>1. OwnNodes
    BY DEF DequeInv, DequeBase
  <2>2. \A w \in Users : Owns(w)' => call'[w].node \in live'
    BY <1>0, <1>2, <2>1, Zenon DEF OwnNodes
  <2>3. ASSUME NEW w \in Users, New(w)'
        PROVE  next_node'[call'[w].node] = null /\ value'[call'[w].node] \in Jobs
    <3>1. New(w) /\ call'[w] = call[w]
      BY <1>2, <2>3, Zenon
    <3>2. next_node[call[w].node] = null /\ value[call[w].node] \in Jobs
      BY <2>1, <3>1, Zenon DEF OwnNodes
    <3> QED
      BY <1>0, <3>1, <3>2, Zenon
  <2>4. ASSUME NEW v \in Users, NEW w \in Users, Owns(v)', Owns(w)', call'[v].node = call'[w].node
        PROVE  v = w
    <3>1. Owns(v) /\ Owns(w) /\ call'[v] = call[v] /\ call'[w] = call[w]
      BY <1>2, <2>4, Zenon
    <3> QED
      BY <2>1, <2>4, <3>1, Zenon DEF OwnNodes
  <2> QED
    BY <2>2, <2>3, <2>4, Zenon DEF OwnNodes
<1>7. Apart(ns)'
  BY <1>0, <1>2, Zenon DEF InList, Apart
<1>8. NoLeak(ns)'
  <2> SUFFICES ASSUME NEW m \in live
               PROVE  \/ \E i \in 1..Len(ns) : ns[i] = m
                      \/ \E w \in Users : Owns(w)' /\ call'[w].node = m
    BY <1>0, Zenon DEF NoLeak
  <2>1. \/ \E i \in 1..Len(ns) : ns[i] = m
        \/ \E w \in Users : Owns(w) /\ call[w].node = m
    BY Zenon DEF InList, NoLeak
  <2> QED
    BY <1>2, <2>1, Zenon
<1>9. Filled(ns)' /\ EndsAt(ns)' /\ Linked(ns, next_node', m_head')
  BY <1>2, Zenon DEF InList, Filled, EndsAt
<1>10. Contents' = Contents
  BY Zenon DEF Contents
<1>11. Contents = <<>>
  BY ContentsOf, ListFacts, ItemsFacts, Zenon
<1> QED
  BY <1>4, <1>5, <1>6, <1>7, <1>8, <1>9, <1>10, <1>11, Zenon DEF DequeInv, DequeBase, InList

(* A node that a take unlinks is the taker's own from then on.             *)
Parted(ns, ms, n) ==
  /\ \E i \in 1..Len(ns) : ns[i] = n
  /\ \A i \in 1..Len(ms) : ms[i] # n /\ \E k \in 1..Len(ns) : ms[i] = ns[k]
  /\ \A k \in 1..Len(ns) : ns[k] = n \/ \E i \in 1..Len(ms) : ms[i] = ns[k]

NewStay == \A w \in Users : New(w) => next_node'[call[w].node] = null /\ value'[call[w].node] \in Jobs

LEMMA TakeOut ==
  ASSUME DequeInv, NEW u \in Users, NEW ns, NEW ms, NEW n, InList(ns),
         Parted(ns, ms, n), NewStay,
         call[u].step \in {"head2", "tail2"}, Becomes(u, "delete", n),
         live' = live, headLock' = null, tailLock' = tailLock
  PROVE  OwnNodes' /\ LocksHeld' /\ Apart(ms)' /\ NoLeak(ms)'
<1>1. /\ call'[u].step = "delete" /\ call'[u].node = n
      /\ \A w \in Users \ {u} : call'[w] = call[w]
  BY DEF Becomes
<1>2. headLock = u
  BY DEF DequeInv, DequeBase, LocksHeld
<1>3. LocksHeld'
  BY <1>1, <1>2, DequeAssumption DEF DequeInv, DequeBase, LocksHeld
<1>4. /\ Owns(u)' /\ ~New(u)' /\ ~Owns(u) /\ ~New(u)
      /\ \A w \in Users \ {u} : (Owns(w)' <=> Owns(w)) /\ (New(w)' <=> New(w))
  BY <1>1 DEF Owns, New
<1>5. n \in live /\ \A w \in Users : Owns(w) => call[w].node # n
  <2>1. PICK i \in 1..Len(ns) : ns[i] = n
    BY Zenon DEF Parted
  <2> QED
    BY <2>1, Zenon DEF InList, Apart
<1>6. OwnNodes'
  <2>1. \A w \in Users : Owns(w)' => call'[w].node \in live'
    <3> SUFFICES ASSUME NEW w \in Users, Owns(w)' PROVE call'[w].node \in live
      BY Zenon
    <3>1. CASE w = u
      BY <1>1, <1>5, <3>1, Zenon
    <3>2. CASE w # u
      BY <1>1, <1>4, <3>2, Zenon DEF DequeInv, DequeBase, OwnNodes
    <3> QED
      BY <3>1, <3>2
  <2>2. \A w \in Users : New(w)' => next_node'[call'[w].node] = null /\ value'[call'[w].node] \in Jobs
    BY <1>1, <1>4, Zenon DEF NewStay
  <2>3. \A v, w \in Users : Owns(v)' /\ Owns(w)' /\ call'[v].node = call'[w].node => v = w
    <3> SUFFICES ASSUME NEW v \in Users, NEW w \in Users, Owns(v)', Owns(w)',
                        call'[v].node = call'[w].node
                 PROVE  v = w
      BY Zenon
    <3>1. CASE v = u \/ w = u
      BY <1>1, <1>4, <1>5, <3>1, Zenon
    <3>2. CASE v # u /\ w # u
      BY <1>1, <1>4, <3>2, Zenon DEF DequeInv, DequeBase, OwnNodes
    <3> QED
      BY <3>1, <3>2
  <2> QED
    BY <2>1, <2>2, <2>3, Zenon DEF OwnNodes
<1>7. Apart(ms)'
  <2> SUFFICES ASSUME NEW i \in 1..Len(ms)
               PROVE  ms[i] \in live /\ \A w \in Users : Owns(w)' => call'[w].node # ms[i]
    BY Zenon DEF Apart
  <2>1. PICK k \in 1..Len(ns) : ms[i] = ns[k]
    BY Zenon DEF Parted
  <2>2. ms[i] # n
    BY Zenon DEF Parted
  <2>3. ms[i] \in live /\ \A w \in Users : Owns(w) => call[w].node # ms[i]
    BY <2>1, Zenon DEF InList, Apart
  <2> QED
    BY <1>1, <1>4, <2>2, <2>3, Zenon
<1>8. NoLeak(ms)'
  <2> SUFFICES ASSUME NEW m \in live
               PROVE  \/ \E i \in 1..Len(ms) : ms[i] = m
                      \/ \E w \in Users : Owns(w)' /\ call'[w].node = m
    BY Zenon DEF NoLeak
  <2>1. CASE m = n
    BY <1>1, <1>4, <2>1, Zenon
  <2>2. CASE m # n /\ \E k \in 1..Len(ns) : ns[k] = m
    BY <2>2, Zenon DEF Parted
  <2>3. CASE \E w \in Users : Owns(w) /\ call[w].node = m
    BY <1>1, <1>4, <2>3, Zenon
  <2> QED
    BY <2>1, <2>2, <2>3, Zenon DEF InList, NoLeak
<1> QED
  BY <1>3, <1>6, <1>7, <1>8

(* take_head() takes the first job; its node is the dummy now.             *)
LEMMA TakeHeadStep ==
  ASSUME Walked, DequeInv, NEW u \in Users, take_head(u)
  PROVE  /\ DequeInv'
         /\ \/ /\ Contents = <<>> /\ Contents' = Contents
               /\ result' = [result EXCEPT ![u] = null]
            \/ /\ Contents # <<>> /\ Contents' = Tail(Contents)
               /\ result' = [result EXCEPT ![u] = Head(Contents)]
<1>1. PICK n : n = next_node[m_head]
  OBVIOUS
<1>2. /\ UNCHANGED <<next_node, live, m_tail, tailLock>>
      /\ call[u].step = "head2" /\ headLock' = null
      /\ freedUse' = (freedUse \/ ~({m_head} \cup ({n} \ {null}) \subseteq live))
      /\ n = null => /\ result' = [result EXCEPT ![u] = null]
                     /\ call' = [call EXCEPT ![u] = [step |-> "rest", node |-> null]]
                     /\ UNCHANGED <<value, m_head>>
      /\ n # null => /\ result' = [result EXCEPT ![u] = value[n]]
                     /\ value' = [value EXCEPT ![n] = null]
                     /\ m_head' = n
                     /\ call' = [call EXCEPT ![u] = [@ EXCEPT !.step = "delete", !.node = m_head]]
  BY <1>1 DEF take_head, At, Touches, Resting
<1>3. PICK ns : InList(ns)
  BY DEF DequeInv
<1>4. /\ ns \in Seq(DequeNodes) /\ ns # <<>> /\ Len(ns) \in Nat
      /\ 1 \in 1..Len(ns) /\ Len(ns) \in 1..Len(ns) /\ \A i \in 2..Len(ns) : i \in 1..Len(ns)
      /\ \A i \in 1..Len(ns) : ns[i] \in DequeNodes /\ ns[i] # null /\ ns[i] \in live
      /\ m_head = ns[1]
  BY <1>3, ListFacts
<1>5. Linked(ns, next_node, m_head) /\ DequeTypes
  BY <1>3 DEF InList, DequeInv, DequeBase
<1>6. Len(ns) \in Nat /\ Len(ns) >= 1
  <2>1. ns \in Seq(DequeNodes) /\ ns # <<>>
    BY <1>4, Zenon
  <2> QED
    BY <2>1
<1>7. CASE Len(ns) = 1
  <2>1. n = null
    BY <1>1, <1>4, <1>5, <1>7 DEF Linked
  <2>2. Becomes(u, "rest", null)
    BY <1>2, <1>5, <2>1, CallBecomes, Zenon DEF CallSteps
  <2>3. freedUse' = FALSE
    BY <1>2, <1>4, <1>5, <2>1 DEF DequeTypes
  <2>4. UNCHANGED <<next_node, value, live, m_head, m_tail, tailLock>>
    BY <1>2, <2>1
  <2> QED
    BY <1>2, <1>3, <1>7, <2>1, <2>2, <2>3, <2>4, EmptyTake
<1>8. CASE Len(ns) > 1
  <2> DEFINE ms == Tail(ns)
  <2>1. /\ Linked(ms, next_node, ns[2])
        /\ Len(ms) = Len(ns) - 1 /\ \A i \in 1..Len(ms) : ms[i] = ns[i + 1]
        /\ n = ns[2]
    BY <1>1, <1>5, <1>8, TailLinks
  <2>2. /\ 2 \in 1..Len(ns) /\ 2 \in 2..Len(ns) /\ Len(ms) + 1 = Len(ns) /\ Len(ms) \in 1..Len(ms)
        /\ \A i \in 1..Len(ms) : i + 1 \in 2..Len(ns) /\ i + 1 \in 1..Len(ns) /\ i + 1 # 1
        /\ \A i \in 2..Len(ms) : i \in 1..Len(ms) /\ i + 1 # 2 /\ i + 1 \in 2..Len(ns) /\ i + 1 \in 1..Len(ns)
        /\ \A k \in 1..Len(ns) : k = 1 \/ (k - 1 \in 1..Len(ms) /\ (k - 1) + 1 = k)
    BY <1>6, <1>8, <2>1
  <2>3. Contents # <<>> /\ Items(ms, value) = Tail(Contents) /\ Head(Contents) = value[n]
    <3>1. Contents = Items(ns, value)
      BY <1>3, ContentsOf
    <3>2. Items(ns, value) # <<>>
      BY <1>4, <1>8, ItemsFacts
    <3> QED
      BY <1>4, <1>8, <2>1, <3>1, <3>2, ItemsTail
  <2> HIDE DEF ms
  <2>4. n # null /\ n \in DequeNodes /\ n \in live /\ m_head \in live /\ m_head \in DequeNodes
    BY <1>4, <2>1, <2>2, Zenon
  <2>5. Becomes(u, "delete", m_head)
    BY <1>2, <1>5, <2>4, CallBecomes, Zenon DEF CallSteps
  <2>6. \A i, j \in 1..Len(ns) : ns[i] = ns[j] => i = j
    BY <1>5 DEF Linked
  <2>7. value' = [value EXCEPT ![n] = null] /\ \A m \in DequeNodes : m # n => value'[m] = value[m]
    BY <1>2, <1>5, <2>4 DEF DequeTypes
  <2>8. value[n] \in Jobs
    BY <1>3, <2>1, <2>2, Zenon DEF InList, Filled
  <2>9. DequeTypes'
    <3>1. call' \in [Users -> CallRecords]
      BY <2>5 DEF Becomes
    <3>2. freedUse' = FALSE
      BY <1>2, <1>5, <2>4 DEF DequeTypes
    <3>3. value' \in [DequeNodes -> Jobs \cup {null}] /\ result' \in [Users -> Jobs \cup {null}]
      BY <1>2, <1>5, <2>4, <2>8 DEF DequeTypes
    <3> QED
      BY <1>2, <1>5, <3>1, <3>2, <3>3 DEF DequeTypes, CallRecords
  <2>10. Parted(ns, ms, m_head)
    <3>1. ASSUME NEW i \in 1..Len(ms)
          PROVE  ms[i] # m_head /\ \E k \in 1..Len(ns) : ms[i] = ns[k]
      BY <1>4, <2>1, <2>2, <2>6, Zenon
    <3>2. ASSUME NEW k \in 1..Len(ns)
          PROVE  ns[k] = m_head \/ \E i \in 1..Len(ms) : ms[i] = ns[k]
      <4>1. CASE k = 1
        BY <1>4, <4>1
      <4>2. CASE k - 1 \in 1..Len(ms) /\ (k - 1) + 1 = k
        <5>1. ms[k - 1] = ns[(k - 1) + 1]
          BY <2>1, <4>2, Zenon
        <5> QED
          BY <4>2, <5>1
      <4> QED
        BY <2>2, <4>1, <4>2, Zenon
    <3> QED
      BY <1>4, <3>1, <3>2, Zenon DEF Parted
  <2>11. NewStay
    <3> SUFFICES ASSUME NEW w \in Users, New(w)
                 PROVE  next_node'[call[w].node] = null /\ value'[call[w].node] \in Jobs
      BY Zenon DEF NewStay
    <3>1. Owns(w) /\ OwnNodes
      BY DEF Owns, DequeInv, DequeBase
    <3>2. /\ call[w].node \in live /\ next_node[call[w].node] = null /\ value[call[w].node] \in Jobs
      BY <3>1, Zenon DEF OwnNodes
    <3>3. call[w].node # n
      BY <1>3, <2>1, <2>2, <3>1, Zenon DEF InList, Apart
    <3>4. call[w].node \in DequeNodes
      BY <1>5, <3>2 DEF DequeTypes
    <3> QED
      BY <1>2, <2>7, <3>2, <3>3, <3>4
  <2>12. OwnNodes' /\ LocksHeld' /\ Apart(ms)' /\ NoLeak(ms)'
    BY <1>2, <1>3, <2>5, <2>10, <2>11, TakeOut
  <2>13. \A i \in 2..Len(ms) : value'[ms[i]] = value[ms[i]] /\ value[ms[i]] \in Jobs
    <3> SUFFICES ASSUME NEW i \in 2..Len(ms) PROVE value'[ms[i]] = value[ms[i]] /\ value[ms[i]] \in Jobs
      OBVIOUS
    <3>1. ms[i] = ns[i + 1] /\ i + 1 \in 2..Len(ns) /\ i + 1 \in 1..Len(ns) /\ i + 1 # 2
      BY <2>1, <2>2, Zenon
    <3>2. ms[i] # n /\ ms[i] \in DequeNodes
      BY <1>4, <2>1, <2>2, <2>6, <3>1, Zenon
    <3> QED
      BY <1>3, <2>7, <3>1, <3>2, Zenon DEF InList, Filled
  <2>14. Filled(ms)'
    BY <2>13, Zenon DEF Filled
  <2>15. Linked(ms, next_node', m_head')
    BY <1>2, <2>1, <2>4
  <2>16. EndsAt(ms)'
    <3>1. ms[Len(ms)] = ns[Len(ns)]
      BY <2>1, <2>2, Zenon
    <3>2. \A w \in Users : /\ call'[w].step = "swing" <=> call[w].step = "swing"
                           /\ call[w].step = "swing" => call'[w] = call[w]
      BY <1>2, <2>5 DEF Becomes
    <3> QED
      BY <1>2, <1>3, <3>1, <3>2, Zenon DEF InList, EndsAt
  <2>17. Contents' = Tail(Contents)
    <3>1. Contents' = Items(ms, value')
      BY <2>15, ContentsNext
    <3>2. ms \in Seq(DequeNodes)
      BY <2>1 DEF Linked
    <3>3. Items(ms, value') = Items(ms, value)
      BY <2>13, <3>2, SameItems, Zenon
    <3> QED
      BY <2>3, <3>1, <3>3
  <2>18. result' = [result EXCEPT ![u] = Head(Contents)]
    BY <1>2, <2>3, <2>4
  <2> QED
    BY <2>3, <2>9, <2>12, <2>14, <2>15, <2>16, <2>17, <2>18, Zenon DEF DequeInv, DequeBase, InList
<1>9. Len(ns) = 1 \/ Len(ns) > 1
  BY <1>6, LengthFacts, Zenon
<1> QED
  BY <1>7, <1>8, <1>9, Zenon

(* take_tail() takes the last job, with its node.                          *)
LEMMA Predecessor ==
  ASSUME DequeInv, NEW ns, InList(ns), Len(ns) > 1
  PROVE  find_predecessor(ns[Len(ns)]) = ns[Len(ns) - 1]
<1> DEFINE gone == {call[u].node : u \in {w \in Users : At(w, "delete")}}
           last == ns[Len(ns)]
           pred == ns[Len(ns) - 1]
<1>1. /\ ns \in Seq(DequeNodes) /\ ns # <<>> /\ Len(ns) \in Nat
      /\ \A i \in 1..Len(ns) : ns[i] \in DequeNodes /\ ns[i] # null /\ ns[i] \in live
  BY ListFacts
<1>2. Len(ns) \in Nat
  BY <1>1, Zenon
<1>3. /\ \A i, j \in 1..Len(ns) : ns[i] = ns[j] => i = j
      /\ \A i \in 1..(Len(ns) - 1) : next_node[ns[i]] = ns[i + 1]
      /\ next_node[last] = null
  BY DEF InList, Linked
<1>4. /\ Len(ns) - 1 \in 1..(Len(ns) - 1) /\ Len(ns) - 1 \in 1..Len(ns) /\ (Len(ns) - 1) + 1 = Len(ns)
      /\ Len(ns) \in 1..Len(ns)
      /\ \A i \in 1..Len(ns) : i = Len(ns) \/ (i \in 1..(Len(ns) - 1) /\ i + 1 \in 1..Len(ns))
      /\ \A i \in 1..Len(ns) : i + 1 = Len(ns) => i = Len(ns) - 1
  BY <1>2
<1>5. next_node[pred] = last /\ pred \in live /\ last # null
  <2>1. next_node[pred] = ns[(Len(ns) - 1) + 1]
    BY <1>3, <1>4, Zenon
  <2> QED
    BY <1>1, <1>4, <2>1
<1>6. pred \notin gone
  <2> SUFFICES ASSUME NEW u \in Users, call[u].step = "delete", call[u].node = pred PROVE FALSE
    BY DEF At
  <2>1. Owns(u)
    BY DEF Owns
  <2> QED
    BY <1>4, <2>1, Zenon DEF InList, Apart
<1>7. ASSUME NEW p \in live \ gone, next_node[p] = last PROVE p = pred
  <2>1. \/ \E i \in 1..Len(ns) : ns[i] = p
        \/ \E u \in Users : Owns(u) /\ call[u].node = p
    BY <1>7, Zenon DEF InList, NoLeak
  <2>2. ASSUME NEW u \in Users, Owns(u), call[u].node = p PROVE FALSE
    <3>1. call[u].step # "delete"
      BY <1>7, <2>2 DEF At
    <3>2. New(u)
      BY <2>2, <3>1 DEF Owns
    <3>3. next_node[p] = null
      BY <2>2, <3>2, Zenon DEF DequeInv, DequeBase, OwnNodes
    <3> QED
      BY <1>5, <1>7, <3>3
  <2>3. PICK i \in 1..Len(ns) : ns[i] = p
    BY <2>1, <2>2, Zenon
  <2>4. i # Len(ns)
    BY <1>3, <1>5, <1>7, <2>3
  <2>5. i \in 1..(Len(ns) - 1) /\ i + 1 \in 1..Len(ns)
    BY <1>4, <2>4, Zenon
  <2>6. ns[i + 1] = last
    BY <1>3, <1>7, <2>3, <2>5, Zenon
  <2>7. i + 1 = Len(ns)
    BY <1>3, <1>4, <2>5, <2>6, Zenon
  <2>8. i = Len(ns) - 1
    BY <1>4, <2>7, Zenon
  <2> QED
    BY <2>3, <2>8
<1>8. find_predecessor(last) = CHOOSE p \in live \ gone : next_node[p] = last
  BY Zenon DEF find_predecessor
<1> HIDE DEF gone, last, pred
<1>9. find_predecessor(last) = pred
  BY <1>5, <1>6, <1>7, <1>8, Zenon
<1> QED
  BY <1>9 DEF last, pred

LEMMA TakeTailStep ==
  ASSUME Walked, DequeInv, NEW u \in Users, take_tail(u)
  PROVE  /\ DequeInv'
         /\ \/ /\ Contents = <<>> /\ Contents' = Contents
               /\ result' = [result EXCEPT ![u] = null]
            \/ /\ Contents # <<>> /\ Contents' = SubSeq(Contents, 1, Len(Contents) - 1)
               /\ result' = [result EXCEPT ![u] = Contents[Len(Contents)]]
<1>1. /\ UNCHANGED <<value, live, m_head, tailLock>>
      /\ call[u].step = "tail2" /\ tailLock = null /\ headLock' = null
      /\ freedUse' = (freedUse \/ ~({m_tail} \subseteq live))
      /\ m_tail = m_head => /\ result' = [result EXCEPT ![u] = null]
                            /\ call' = [call EXCEPT ![u] = [step |-> "rest", node |-> null]]
                            /\ UNCHANGED <<next_node, m_tail>>
      /\ m_tail # m_head =>
           /\ result' = [result EXCEPT ![u] = value[m_tail]]
           /\ next_node' = [next_node EXCEPT ![find_predecessor(m_tail)] = null]
           /\ m_tail' = find_predecessor(m_tail)
           /\ call' = [call EXCEPT ![u] = [@ EXCEPT !.step = "delete", !.node = m_tail]]
  BY DEF take_tail, At, Touches, Resting
<1>2. PICK ns : InList(ns)
  BY DEF DequeInv
<1>3. /\ ns \in Seq(DequeNodes) /\ ns # <<>> /\ Len(ns) \in Nat
      /\ 1 \in 1..Len(ns) /\ Len(ns) \in 1..Len(ns)
      /\ \A i \in 1..Len(ns) : ns[i] \in DequeNodes /\ ns[i] # null /\ ns[i] \in live
      /\ m_head = ns[1]
  BY <1>2, ListFacts
<1>4. Linked(ns, next_node, m_head) /\ DequeTypes
  BY <1>2 DEF InList, DequeInv, DequeBase
<1>5. Len(ns) \in Nat /\ Len(ns) >= 1
  <2>1. ns \in Seq(DequeNodes) /\ ns # <<>>
    BY <1>3, Zenon
  <2> QED
    BY <2>1
<1>6. headLock = u /\ \A w \in Users : call[w].step # "swing"
  BY <1>1, DequeAssumption DEF DequeInv, DequeBase, LocksHeld
<1>7. m_tail = ns[Len(ns)] /\ m_tail \in live /\ m_tail \in DequeNodes
  BY <1>2, <1>3, <1>6, Zenon DEF InList, EndsAt
<1>8. freedUse' = FALSE
  BY <1>1, <1>4, <1>7 DEF DequeTypes
<1>9. CASE Len(ns) = 1
  <2>1. m_tail = m_head
    BY <1>3, <1>7, <1>9
  <2>2. Becomes(u, "rest", null)
    BY <1>1, <1>4, <2>1, CallBecomes, Zenon DEF CallSteps
  <2>3. UNCHANGED <<next_node, value, live, m_head, m_tail, tailLock>>
    BY <1>1, <2>1
  <2> QED
    BY <1>1, <1>2, <1>8, <1>9, <2>1, <2>2, <2>3, EmptyTake
<1>10. CASE Len(ns) > 1
  <2> DEFINE ms == SubSeq(ns, 1, Len(ns) - 1)
             pred == ns[Len(ns) - 1]
  <2>1. /\ 1 # Len(ns) /\ Len(ns) - 1 \in 1..Len(ns) /\ Len(ns) - 1 # Len(ns) /\ Len(ns) \in 2..Len(ns)
        /\ \A i \in 1..Len(ns) : i = Len(ns) \/ i \in 1..(Len(ns) - 1)
        /\ \A i \in 1..(Len(ns) - 1) : i \in 1..Len(ns) /\ i # Len(ns)
        /\ \A i \in 2..(Len(ns) - 1) : i \in 2..Len(ns) /\ i \in 1..(Len(ns) - 1)
        /\ Len(ns) - 1 \in 1..(Len(ns) - 1) /\ (Len(ns) - 1) - 1 = Len(ns) - 2
    BY <1>5, <1>10, LengthFacts, Zenon
  <2>2. \A i, j \in 1..Len(ns) : ns[i] = ns[j] => i = j
    BY <1>4 DEF Linked
  <2>3. m_tail # m_head
    BY <1>3, <1>7, <2>1, <2>2, Zenon
  <2>4. find_predecessor(m_tail) = pred /\ pred \in DequeNodes
    BY <1>2, <1>3, <1>7, <1>10, <2>1, Predecessor, Zenon
  <2>5. next_node' = [next_node EXCEPT ![pred] = null] /\ m_tail' = pred
    BY <1>1, <2>3, <2>4, Zenon
  <2>6. /\ Linked(ms, next_node', m_head')
        /\ Len(ms) = Len(ns) - 1 /\ \A i \in 1..Len(ms) : ms[i] = ns[i]
    BY <1>1, <1>4, <1>10, <2>5, FrontLinks DEF DequeTypes
  <2>7. Contents # <<>> /\ Contents' = SubSeq(Contents, 1, Len(Contents) - 1) /\ Contents[Len(Contents)] = value[m_tail]
    <3>1. Contents = Items(ns, value) /\ Contents' = Items(ms, value')
      BY <1>2, <2>6, ContentsOf, ContentsNext
    <3>2. Items(ns, value) # <<>> /\ Len(Items(ns, value)) = Len(ns) - 1
      BY <1>3, <1>10, ItemsFacts
    <3>3. /\ Items(ms, value) = SubSeq(Items(ns, value), 1, Len(ns) - 2)
          /\ Items(ns, value)[Len(ns) - 1] = value[ns[Len(ns)]]
      BY <1>3, <1>10, ItemsFront
    <3> HIDE DEF ms
    <3> QED
      BY <1>1, <1>7, <2>1, <3>1, <3>2, <3>3, Zenon
  <2> HIDE DEF ms
  <2>8. Becomes(u, "delete", m_tail)
    BY <1>1, <1>4, <1>7, <2>3, CallBecomes, Zenon DEF CallSteps
  <2>9. value[m_tail] \in Jobs
    BY <1>2, <1>7, <2>1, Zenon DEF InList, Filled
  <2>10. DequeTypes'
    <3>1. call' \in [Users -> CallRecords]
      BY <2>8 DEF Becomes
    <3>2. next_node' \in [DequeNodes -> DequeNodes \cup {null}]
      BY <1>4, <2>4, <2>5 DEF DequeTypes
    <3>3. result' \in [Users -> Jobs \cup {null}]
      BY <1>1, <1>4, <2>3, <2>9 DEF DequeTypes
    <3> QED
      BY <1>1, <1>4, <1>8, <3>1, <3>2, <3>3 DEF DequeTypes, CallRecords
  <2>11. Parted(ns, ms, m_tail)
    <3>1. ASSUME NEW i \in 1..Len(ms)
          PROVE  ms[i] # m_tail /\ \E k \in 1..Len(ns) : ms[i] = ns[k]
      <4>1. i \in 1..(Len(ns) - 1) /\ ms[i] = ns[i]
        BY <2>6, Zenon
      <4>2. i \in 1..Len(ns) /\ i # Len(ns)
        BY <2>1, <4>1, Zenon
      <4>3. Len(ns) \in 1..Len(ns)
        BY <1>3, Zenon
      <4>4. ns[i] # ns[Len(ns)]
        BY <2>2, <4>2, <4>3, Zenon
      <4> QED
        BY <1>7, <4>1, <4>2, <4>4, Zenon
    <3>2. ASSUME NEW k \in 1..Len(ns)
          PROVE  ns[k] = m_tail \/ \E i \in 1..Len(ms) : ms[i] = ns[k]
      BY <1>7, <2>1, <2>6, Zenon
    <3> QED
      BY <1>3, <1>7, <3>1, <3>2, Zenon DEF Parted
  <2>12. NewStay
    <3> SUFFICES ASSUME NEW w \in Users, New(w)
                 PROVE  next_node'[call[w].node] = null /\ value'[call[w].node] \in Jobs
      BY Zenon DEF NewStay
    <3>1. Owns(w) /\ OwnNodes
      BY DEF Owns, DequeInv, DequeBase
    <3>2. /\ call[w].node \in live /\ next_node[call[w].node] = null /\ value[call[w].node] \in Jobs
      BY <3>1, Zenon DEF OwnNodes
    <3>3. call[w].node \in DequeNodes
      BY <1>4, <3>2 DEF DequeTypes
    <3> QED
      BY <1>1, <1>4, <2>4, <2>5, <3>2, <3>3 DEF DequeTypes
  <2>13. OwnNodes' /\ LocksHeld' /\ Apart(ms)' /\ NoLeak(ms)'
    BY <1>1, <1>2, <2>8, <2>11, <2>12, TakeOut
  <2>14. Filled(ms)'
    <3>1. ASSUME NEW i \in 2..Len(ms) PROVE value[ms[i]] \in Jobs
      <4>1. i \in 2..Len(ns) /\ ms[i] = ns[i]
        BY <2>1, <2>6, Zenon
      <4> QED
        BY <1>2, <4>1, Zenon DEF InList, Filled
    <3> QED
      BY <1>1, <3>1, Zenon DEF Filled
  <2>15. EndsAt(ms)'
    <3>1. ms[Len(ms)] = pred
      BY <2>1, <2>6, Zenon
    <3>2. \A w \in Users : call'[w].step # "swing"
      BY <1>6, <2>8 DEF Becomes
    <3> QED
      BY <2>5, <3>1, <3>2, Zenon DEF EndsAt
  <2>16. result' = [result EXCEPT ![u] = Contents[Len(Contents)]]
    BY <1>1, <2>3, <2>7, Zenon
  <2> QED
    BY <2>6, <2>7, <2>10, <2>13, <2>14, <2>15, <2>16, Zenon DEF DequeInv, DequeBase, InList
<1>11. Len(ns) = 1 \/ Len(ns) > 1
  BY <1>5, LengthFacts, Zenon
<1> QED
  BY <1>9, <1>10, <1>11, Zenon

-----------------------------------------------------------------------------
(* Every step of a thread is a step of the double-ended queue or leaves    *)
(* it alone.                                                               *)
LEMMA DequeStepRefines ==
  ASSUME Walked, DequeInv, [DequeNext]_dequeVars
  PROVE  DequeInv' /\ [Deque!JobDequeNext]_<<Contents, result>>
<1> USE DEF Deque!JobDequeNext, Deque!Append_, Deque!Prepend_, Deque!Take
<1>1. ASSUME NEW u \in Users, NEW j \in Jobs, NewNode(u, j, "append") \/ NewNode(u, j, "prepend")
      PROVE  DequeInv' /\ [Deque!JobDequeNext]_<<Contents, result>>
  <2>1. PICK s \in {"append", "prepend"} : NewNode(u, j, s)
    BY <1>1
  <2> QED
    BY <2>1, NewNodeStep
<1>2. ASSUME NEW u \in Users, BeginTake(u, "head") \/ BeginTake(u, "tail")
      PROVE  DequeInv' /\ [Deque!JobDequeNext]_<<Contents, result>>
  BY <1>2, BeginStep
<1>3. ASSUME NEW u \in Users, append_lock(u) \/ append_swing(u) \/ lock_head(u) \/ delete(u)
      PROVE  DequeInv' /\ [Deque!JobDequeNext]_<<Contents, result>>
  BY <1>3, TailLockStep, SwingStep, HeadLockStep, DeleteStep
<1>4. ASSUME NEW u \in Users, append_publish(u)
      PROVE  DequeInv' /\ [Deque!JobDequeNext]_<<Contents, result>>
  BY <1>4, PublishStep
<1>5. ASSUME NEW u \in Users, prepend_both(u)
      PROVE  DequeInv' /\ [Deque!JobDequeNext]_<<Contents, result>>
  BY <1>5, PrependStep
<1>6. ASSUME NEW u \in Users, take_head(u)
      PROVE  DequeInv' /\ [Deque!JobDequeNext]_<<Contents, result>>
  <2>1. Deque!TakeHead(u)
    BY <1>6, TakeHeadStep, Zenon DEF Deque!TakeHead
  <2> QED
    BY <1>6, <2>1, TakeHeadStep, Zenon
<1>7. ASSUME NEW u \in Users, take_tail(u)
      PROVE  DequeInv' /\ [Deque!JobDequeNext]_<<Contents, result>>
  <2>1. Deque!TakeTail(u)
    BY <1>7, TakeTailStep, Zenon DEF Deque!TakeTail, Deque!Last, Deque!Front
  <2> QED
    BY <1>7, <2>1, TakeTailStep, Zenon
<1>8. ASSUME UNCHANGED dequeVars
      PROVE  DequeInv' /\ UNCHANGED <<Contents, result>>
  <2>1. /\ UNCHANGED next_node /\ UNCHANGED value /\ UNCHANGED live /\ UNCHANGED m_head
        /\ UNCHANGED m_tail /\ UNCHANGED headLock /\ UNCHANGED tailLock /\ UNCHANGED call
        /\ UNCHANGED result /\ UNCHANGED freedUse
    BY <1>8 DEF dequeVars
  <2>2. DequeBase'
    BY <2>1, Zenon DEF DequeInv, DequeBase, DequeTypes, LocksHeld, OwnNodes, Owns, New
  <2>3. PICK ns : InList(ns)
    BY DEF DequeInv
  <2>4. InList(ns)'
    BY <2>1, <2>3, Zenon DEF InList, Apart, NoLeak, Filled, EndsAt, Owns, New
  <2> QED
    BY <2>1, <2>2, <2>4, Zenon DEF DequeInv, Contents
<1> QED
  BY <1>1, <1>2, <1>3, <1>4, <1>5, <1>6, <1>7, <1>8, Zenon DEF DequeNext, DequeStep

LEMMA DequeInvSafe == DequeInv => NodesAlive /\ TailLast
<1> SUFFICES ASSUME DequeInv PROVE NodesAlive /\ TailLast
  OBVIOUS
<1>1. PICK ns : InList(ns)
  BY DEF DequeInv
<1>2. /\ 1 \in 1..Len(ns) /\ Len(ns) \in 1..Len(ns) /\ m_head = ns[1]
      /\ \A i \in 1..Len(ns) : ns[i] \in live
  BY <1>1, ListFacts, Zenon
<1>3. NodesAlive
  BY <1>2 DEF NodesAlive, DequeInv, DequeBase, DequeTypes
<1>4. ASSUME tailLock = null PROVE m_tail \in live /\ next_node[m_tail] = null
  <2>1. \A u \in Users : call[u].step # "swing"
    BY <1>4, DequeAssumption DEF DequeInv, DequeBase, LocksHeld
  <2> QED
    BY <1>1, <1>2, <2>1, Zenon DEF InList, EndsAt, Linked
<1> QED
  BY <1>3, <1>4 DEF TailLast

-----------------------------------------------------------------------------
INSTANCE FiniteSetTheorems

LEMMA LeastElement ==
  ASSUME NEW S \in SUBSET Nat, S # {}
  PROVE  \E m \in S : \A l \in S : m <= l
<1> DEFINE R == OpToRel(<, Nat)
<1>1. PICK m \in S : \A l \in S : ~(<<l, m>> \in R)
  <2>1. IsWellFoundedOn(R, Nat)
    BY NatLessThanWellFounded
  <2> HIDE DEF R
  <2> QED
    BY <2>1, WFMin
<1>2. \A l \in S : m <= l
  <2>1. SUFFICES ASSUME NEW l \in S, l < m PROVE FALSE
    BY SMT
  <2>2. <<l, m>> \in R
    BY <2>1, SMT DEF OpToRel
  <2> QED
    BY <1>1, <2>2
<1> QED
  BY <1>2

Walks(f, head, next) ==
  f = [k \in 0..Total |->
         IF k = 0 THEN head ELSE IF f[k - 1] = null THEN null ELSE next[f[k - 1]]]

LEMMA LinkedLength ==
  ASSUME NEW ns, NEW next, NEW head, Linked(ns, next, head)
  PROVE  Len(ns) \in 1..Total /\ DOMAIN ns = 1..Len(ns) /\ Total \in Nat
<1>1. Len(ns) \in Nat /\ Len(ns) >= 1 /\ DOMAIN ns = 1..Len(ns) /\ ns \in [1..Len(ns) -> DequeNodes]
  BY DEF Linked
<1>2. Total \in Nat
  BY DequeAssumption, FS_CardinalityType DEF Total
<1>3. IsFiniteSet(1..Len(ns)) /\ Cardinality(1..Len(ns)) = Len(ns)
  <2>1. 1 \in Int /\ Len(ns) \in Int
    BY <1>1
  <2>2. IsFiniteSet(1..Len(ns)) /\ Cardinality(1..Len(ns)) = IF 1 > Len(ns) THEN 0 ELSE Len(ns) - 1 + 1
    BY <2>1, FS_Interval
  <2> QED
    BY <1>1, <2>2
<1>4. ~(Total < Len(ns))
  <2> SUFFICES ASSUME Total < Len(ns) PROVE FALSE
    OBVIOUS
  <2>1. \E i, j \in 1..Len(ns) : i # j /\ ns[i] = ns[j]
    BY <1>1, <1>3, DequeAssumption, FS_PigeonHole, Zenon DEF Total
  <2> QED
    BY <2>1 DEF Linked
<1> QED
  BY <1>1, <1>2, <1>4

(* Walk follows these links.                                               *)
LEMMA WalkLinked ==
  ASSUME NEW ns, NEW next, NEW head, Linked(ns, next, head)
  PROVE  \A k \in 0..Total : Walk(head, next)[k] = IF k < Len(ns) THEN ns[k + 1] ELSE null
<1> DEFINE f == [k \in 0..Total |-> IF k < Len(ns) THEN ns[k + 1] ELSE null]
           g == Walk(head, next)
<1>1. Len(ns) \in 1..Total /\ DOMAIN ns = 1..Len(ns) /\ Total \in Nat
  BY LinkedLength
<1>2. \A i \in 1..Len(ns) : ns[i] \in DequeNodes /\ ns[i] # null
  BY DequeAssumption DEF Linked
<1>3. ASSUME NEW k \in 0..Total, k # 0
      PROVE  f[k] = IF f[k - 1] = null THEN null ELSE next[f[k - 1]]
  <2>1. k - 1 \in 0..Total /\ (k - 1) + 1 = k
    BY <1>1, <1>3
  <2>2. CASE k < Len(ns)
    <3>1. k \in 1..(Len(ns) - 1) /\ k \in 1..Len(ns) /\ k - 1 < Len(ns)
      BY <1>1, <1>3, <2>2
    <3>2. f[k] = ns[k + 1] /\ f[k - 1] = ns[k]
      BY <2>1, <2>2, <3>1
    <3> QED
      BY <1>2, <3>1, <3>2, Zenon DEF Linked
  <2>3. CASE k = Len(ns)
    <3>1. k \in 1..Len(ns) /\ k - 1 < Len(ns) /\ ~(k < Len(ns))
      BY <1>1, <1>3, <2>3
    <3>2. f[k] = null /\ f[k - 1] = ns[k]
      BY <2>1, <3>1
    <3> QED
      BY <1>2, <2>3, <3>1, <3>2, Zenon DEF Linked
  <2>4. CASE k > Len(ns)
    <3>1. ~(k - 1 < Len(ns)) /\ ~(k < Len(ns))
      BY <1>1, <1>3, <2>4
    <3>2. f[k] = null /\ f[k - 1] = null
      BY <2>1, <3>1
    <3> QED
      BY <3>2
  <2>5. \A i \in Int, j \in Int : i < j \/ i = j \/ i > j
    OBVIOUS
  <2>6. k \in Int /\ Len(ns) \in Int
    BY <1>1
  <2> QED
    BY <2>2, <2>3, <2>4, <2>5, <2>6, Zenon
<1>4. f[0] = head
  <2>1. 0 \in 0..Total /\ 0 < Len(ns) /\ 0 + 1 = 1
    BY <1>1
  <2> QED
    BY <2>1 DEF Linked
<1>5. Walks(f, head, next)
  <2>1. f = [k \in 0..Total |-> f[k]]
    OBVIOUS
  <2> HIDE DEF f
  <2> QED
    BY <1>3, <1>4, <2>1, Zenon DEF Walks
<1> HIDE DEF f
<1>6. Walks(g, head, next)
  BY <1>5, Zenon DEF Walks, Walk, Total
<1> HIDE DEF g
<1>7. ASSUME NEW k \in 0..Total PROVE g[k] = f[k]
  <2> DEFINE D == {j \in 0..Total : g[j] # f[j]}
  <2> SUFFICES ASSUME g[k] # f[k] PROVE FALSE
    OBVIOUS
  <2>1. D \in SUBSET Nat /\ k \in D
    BY <1>1
  <2>2. PICK m \in D : \A j \in D : m <= j
    BY <2>1, LeastElement
  <2>3. m \in 0..Total /\ g[m] # f[m]
    BY <2>2
  <2>4. \A h : Walks(h, head, next) =>
          /\ h[0] = head
          /\ m # 0 => h[m] = IF h[m - 1] = null THEN null ELSE next[h[m - 1]]
    <3>1. 0 \in 0..Total
      BY <1>1
    <3> QED
      BY <2>3, <3>1, Zenon DEF Walks
  <2>5. m # 0
    BY <1>5, <1>6, <2>3, <2>4
  <2>6. m - 1 \in 0..Total /\ ~(m <= m - 1)
    BY <1>1, <2>3, <2>5
  <2>7. g[m - 1] = f[m - 1]
    BY <2>2, <2>6
  <2> QED
    BY <1>5, <1>6, <2>3, <2>4, <2>5, <2>7, Zenon
<1> QED
  BY <1>7 DEF f, g

LEMMA LinkedJobs ==
  ASSUME NEW ns, NEW next, NEW head, NEW val, Linked(ns, next, head)
  PROVE  JobsFrom(head, next, val) = Items(ns, val)
<1> DEFINE Node == Walk(head, next)
           S == {k \in 1..Total : Node[k] # null}
<1>1. Len(ns) \in 1..Total /\ DOMAIN ns = 1..Len(ns) /\ Total \in Nat
  BY LinkedLength
<1>2. \A i \in 1..Len(ns) : ns[i] # null
  BY DequeAssumption DEF Linked
<1>3. \A k \in 0..Total : Node[k] = IF k < Len(ns) THEN ns[k + 1] ELSE null
  BY WalkLinked
<1> HIDE DEF Node
<1>4. \A k \in 1..(Len(ns) - 1) : Node[k] = ns[k + 1] /\ k \in S
  <2> SUFFICES ASSUME NEW k \in 1..(Len(ns) - 1) PROVE Node[k] = ns[k + 1] /\ k \in S
    OBVIOUS
  <2>1. k \in 0..Total /\ k \in 1..Total /\ k < Len(ns) /\ k + 1 \in 1..Len(ns)
    BY <1>1
  <2> QED
    BY <1>2, <1>3, <2>1
<1>5. ASSUME NEW k \in S PROVE k \in 1..(Len(ns) - 1)
  <2>1. k \in 0..Total /\ k \in 1..Total /\ Node[k] # null
    BY <1>1
  <2>2. k < Len(ns)
    BY <1>3, <2>1
  <2> QED
    BY <1>1, <2>1, <2>2
<1>6. S = 1..(Len(ns) - 1)
  BY <1>4, <1>5, Zenon
<1>7. Cardinality(1..(Len(ns) - 1)) = Len(ns) - 1
  <2>1. 1 \in Int /\ Len(ns) - 1 \in Int
    BY <1>1
  <2>2. Cardinality(1..(Len(ns) - 1)) = IF 1 > Len(ns) - 1 THEN 0 ELSE (Len(ns) - 1) - 1 + 1
    BY <2>1, FS_Interval
  <2> QED
    BY <1>1, <2>2
<1>8. JobsFrom(head, next, val) = [i \in 1..Cardinality(S) |-> val[Node[i]]]
  BY Zenon DEF JobsFrom, Node
<1> HIDE DEF S
<1> QED
  BY <1>4, <1>6, <1>7, <1>8, Zenon DEF Items

LEMMA WalkedHolds == Walked
BY LinkedJobs, Zenon DEF Walked

(* The queue of a worker, with its two locks and its dummy, is a           *)
(* double-ended queue: whatever the threads interleave, append(),          *)
(* prepend(), take_head() and take_tail() take effect at one step each, no *)
(* job is lost or handed out twice, and no thread follows a pointer to a   *)
(* deleted node (double_ended_queue).                                      *)
THEOREM IsDequeHolds == DequeSpec => IsDeque
<1>1. DequeInit => DequeInv /\ Deque!JobDequeInit
  BY WalkedHolds, DequeInvInit DEF DequeInit, Deque!JobDequeInit
<1>2. DequeInv /\ [DequeNext]_dequeVars => DequeInv' /\ [Deque!JobDequeNext]_<<Contents, result>>
  BY WalkedHolds, DequeStepRefines, Zenon
<1> QED
  BY <1>1, <1>2, DequeInvSafe, PTL DEF DequeSpec, IsDeque, Deque!JobDequeSpec
=============================================================================
