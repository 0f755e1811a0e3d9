--------------------------- MODULE ActorLifecycle ---------------------------
(***************************************************************************)
(* How CAF actors watch each other and end: the attachables of             *)
(* abstract_actor (monitors, links, the functor of the registry), the      *)
(* locks m_mtx that guard them, cleanup(), and the actor_registry with its *)
(* count of running actors.                                                *)
(*                                                                         *)
(* Every local actor runs its own operations; the thread of the middleman  *)
(* (Broker) works on proxies and registers actors.  One critical section   *)
(* is one step, unless another lock is taken inside it.                    *)
(***************************************************************************)
EXTENDS Integers, FiniteSets

CONSTANTS Actors,      \* local actors
          Proxies,     \* actor_proxy instances
          Broker,      \* the thread of the middleman
          Root,        \* the actor that is running at the start
          MayLink,     \* pairs <<x, y>>: x may call link_to(y), unlink_from(y)
          MaxOps       \* operations the threads start

Threads == Actors \cup {Broker}
All == Actors \cup Proxies
Reasons == {"normal", "error"}

ASSUME LifecycleAssumption ==
  /\ Root \in Actors /\ Broker \notin All /\ Actors \cap Proxies = {}
  /\ IsFiniteSet(Actors) /\ "free" \notin Threads
  /\ MayLink \subseteq All \X All /\ MaxOps \in Nat

VARIABLES exitReason,  \* m_exit_reason, "none" while the actor runs
          attached,    \* m_attachables_head: how often x holds an attachable
          mtx,         \* the thread in a critical section of m_mtx, or "free"
          job,         \* the operation a thread is in, with its actors
          todo,        \* attachables it still has to call actor_exited on
          inbox,       \* exit_msg and down_msg received: from whom, how often
          owed,        \* history: down messages a monitor() call is owed
          entry,       \* m_entries of the registry: "none", "live" or a reason
          running,     \* m_running
          waiter,      \* the thread in await_running_count_equal(0)
          ops          \* operations started

lifeVars == <<exitReason, attached, mtx, job, todo, inbox, owed,
              entry, running, waiter, ops>>
registry == <<entry, running, waiter>>

(* An attachable: a link or a monitor of an observer, or a functor.        *)
Attachables == ({"link", "monitor"} \X All) \cup {<<"functor", Broker>>}
link(x) == <<"link", x>>
make_monitor(x) == <<"monitor", x>>
functor == <<"functor", Broker>>
NoAttachables == [i \in Attachables |-> 0]

exited(x) == exitReason[x] # "none"
at(t) == job[t].at
self(t) == job[t].self
other(t) == job[t].other
Job(step, x, y) == [at |-> step, self |-> x, other |-> y]
Does(t, step, x, y) == job' = [job EXCEPT ![t] = Job(step, x, y)]
GoesIdle(t) == Does(t, "idle", t, t)

Idle(t) == at(t) = "idle" /\ (t \in Actors => ~exited(t))
Starts(t) == Idle(t) /\ ops < MaxOps /\ ops' = ops + 1
Existing == {x \in All : x \in Proxies \/ at(x) # "new"}
(* An actor works on itself; the middleman may work on every actor.        *)
WorksOn(t, x) == x = t \/ t = Broker

LifeInit ==
  /\ exitReason = [x \in All |-> "none"]
  /\ attached = [x \in All |-> NoAttachables]
  /\ mtx = [x \in All |-> "free"]
  /\ job = [t \in Threads |->
              Job(IF t \in {Root, Broker} THEN "idle" ELSE "new", t, t)]
  /\ todo = [t \in Threads |-> NoAttachables]
  /\ inbox = [x \in All |-> NoAttachables]
  /\ owed = [x \in All |-> [y \in All |-> 0]]
  /\ entry = [x \in All |-> "none"]
  /\ running = 1
  /\ waiter = "check"
  /\ ops = 0

(* enqueue() of an exit_msg or down_msg about x to y.                      *)
Deliver(kind, x, y) == inbox' = [inbox EXCEPT ![y][<<kind, x>>] = @ + 1]

-----------------------------------------------------------------------------
(* spawn(): the new actor is registered as running before it is launched.  *)
spawn(t, y) ==
  /\ Idle(t) /\ at(y) = "new"
  /\ running' = running + 1
  /\ GoesIdle(y)
  /\ UNCHANGED <<exitReason, attached, mtx, todo, inbox, owed,
                 entry, waiter, ops>>

(* A mutant of attach: a terminated actor ignores the attachable.          *)
AttachForgets(t, x, item) ==
  /\ mtx[x] = "free"
  /\ attached' = IF exited(x) THEN attached
                              ELSE [attached EXCEPT ![x][item] = @ + 1]
  /\ GoesIdle(t)
  /\ UNCHANGED todo

(* attach(): into the list, or called at once after the lock is released.  *)
attach(t, x, item) ==
  /\ mtx[x] = "free"
  /\ IF exited(x)
     THEN /\ todo' = [todo EXCEPT ![t][item] = 1]
          /\ Does(t, "call", x, x)
          /\ UNCHANGED attached
     ELSE /\ attached' = [attached EXCEPT ![x][item] = @ + 1]
          /\ GoesIdle(t)
          /\ UNCHANGED todo

monitor(t, y) ==
  /\ y # t /\ Starts(t)
  /\ attach(t, y, make_monitor(t))
  /\ owed' = [owed EXCEPT ![t][y] = @ + 1]
  /\ UNCHANGED <<exitReason, mtx, inbox, registry>>

(* demonitor(): detach() without stop_on_hit removes every match.          *)
demonitor(t, y) ==
  /\ y # t /\ Starts(t)
  /\ mtx[y] = "free"
  /\ owed' = [owed EXCEPT ![t][y] = @ - attached[y][make_monitor(t)]]
  /\ attached' = [attached EXCEPT ![y][make_monitor(t)] = 0]
  /\ UNCHANGED <<exitReason, mtx, job, todo, inbox, registry>>

-----------------------------------------------------------------------------
(* establish_link_impl(): x's lock is held while y's is taken.             *)
establish_link(t, x, y) ==
  /\ WorksOn(t, x) /\ x # y /\ <<x, y>> \in MayLink /\ Starts(t)
  /\ mtx[x] = "free"
  /\ mtx' = [mtx EXCEPT ![x] = t]
  /\ Does(t, "link", x, y)
  /\ UNCHANGED <<exitReason, attached, todo, inbox, owed, registry>>

Release(t) ==
  /\ mtx' = [mtx EXCEPT ![self(t)] = "free"]
  /\ GoesIdle(t)

establish_link_exited(t) ==
  /\ at(t) = "link" /\ exited(self(t))
  /\ Deliver("link", self(t), other(t))
  /\ Release(t)
  /\ UNCHANGED <<exitReason, attached, todo, owed, registry, ops>>

(* A mutant of establish_backlink: no check whether they are linked.       *)
BacklinkTwice(t) ==
  LET x == self(t)  y == other(t) IN
  /\ at(t) = "link" /\ ~exited(x)
  /\ mtx[y] = "free"
  /\ attached' = [attached EXCEPT ![y][link(x)] = IF exited(y) THEN @ ELSE @ + 1,
                                  ![x][link(y)] = @ + 1]
  /\ Release(t)
  /\ UNCHANGED <<exitReason, todo, inbox, owed, registry, ops>>

(* establish_backlink_impl(), and the rest of establish_link_impl().       *)
establish_backlink(t) ==
  LET x == self(t)  y == other(t) IN
  /\ at(t) = "link" /\ ~exited(x)
  /\ mtx[y] = "free"
  /\ \/ /\ exited(y)
        /\ Deliver("link", y, x)
        /\ UNCHANGED attached
     \/ /\ ~exited(y) /\ attached[y][link(x)] = 0
        /\ attached' = [attached EXCEPT ![y][link(x)] = @ + 1,
                                        ![x][link(y)] = @ + 1]
        /\ UNCHANGED inbox
     \/ /\ ~exited(y) /\ attached[y][link(x)] # 0
        /\ UNCHANGED <<attached, inbox>>
  /\ Release(t)
  /\ UNCHANGED <<exitReason, todo, owed, registry, ops>>

(* remove_link_impl(): nothing to do unless x holds the link.              *)
remove_link(t, x, y) ==
  /\ WorksOn(t, x) /\ x # y /\ <<x, y>> \in MayLink /\ Starts(t)
  /\ mtx[x] = "free" /\ attached[x][link(y)] > 0
  /\ attached' = [attached EXCEPT ![x][link(y)] = @ - 1]
  /\ mtx' = [mtx EXCEPT ![x] = t]
  /\ Does(t, "unlink", x, y)
  /\ UNCHANGED <<exitReason, todo, inbox, owed, registry>>

(* remove_backlink_impl()                                                  *)
remove_backlink(t) ==
  LET x == self(t)  y == other(t) IN
  /\ at(t) = "unlink" /\ mtx[y] = "free"
  /\ attached' = [attached EXCEPT ![y][link(x)] = IF @ > 0 THEN @ - 1 ELSE 0]
  /\ Release(t)
  /\ UNCHANGED <<exitReason, todo, inbox, owed, registry, ops>>

-----------------------------------------------------------------------------
(* cleanup(): the first reason wins, the list is swapped out.              *)
cleanup(t, x, reason) ==
  /\ Idle(t) /\ mtx[x] = "free" /\ ~exited(x)
  /\ exitReason' = [exitReason EXCEPT ![x] = reason]
  /\ todo' = [todo EXCEPT ![t] = attached[x]]
  /\ attached' = [attached EXCEPT ![x] = NoAttachables]
  /\ Does(t, "cleanup", x, x)
  /\ UNCHANGED <<mtx, inbox, owed, registry, ops>>

(* quit(), with the reason of its choice.                                  *)
quit(a, reason) == cleanup(a, a, reason)

(* A linked actor ended abnormally: the exit_msg makes this one quit.      *)
exit_msg(a) ==
  \E y \in All : /\ inbox[a][link(y)] > 0 /\ exitReason[y] = "error"
                 /\ cleanup(a, a, "error")

kill_proxy(p, reason) == cleanup(Broker, p, reason)

(* actor_exited(): a link sends exit_msg, a monitor down_msg, the functor  *)
(* of the registry erases the entry.                                       *)
actor_exited(t) ==
  /\ at(t) \in {"call", "cleanup"}
  /\ \E i \in Attachables :
       /\ todo[t][i] > 0
       /\ todo' = [todo EXCEPT ![t][i] = @ - 1]
       /\ IF i = functor
          THEN /\ entry' = [entry EXCEPT ![self(t)] = exitReason[self(t)]]
               /\ UNCHANGED inbox
          ELSE /\ Deliver(i[1], self(t), i[2])
               /\ UNCHANGED entry
  /\ UNCHANGED <<exitReason, attached, mtx, job, owed, running,
                 waiter, ops>>

AllCalled(t) == todo[t] = NoAttachables

(* attach() on a terminated actor, or kill_proxy(), returns.               *)
Return(t) ==
  /\ \/ at(t) = "call"
     \/ at(t) = "cleanup" /\ t = Broker
  /\ AllCalled(t)
  /\ GoesIdle(t)
  /\ UNCHANGED <<exitReason, attached, mtx, todo, inbox, owed,
                 registry, ops>>

(* A mutant of dec_running: the last actor does not wake the waiting       *)
(* thread.                                                                 *)
DecRunningSilent(t) ==
  /\ at(t) = "cleanup" /\ t \in Actors /\ AllCalled(t)
  /\ running' = running - 1
  /\ Does(t, IF running - 1 = 1 THEN "wake" ELSE "done", t, t)
  /\ UNCHANGED <<exitReason, attached, mtx, todo, inbox, owed,
                 entry, waiter, ops>>

(* local_actor::cleanup() tells the registry: dec_running().               *)
dec_running(t) ==
  /\ at(t) = "cleanup" /\ t \in Actors /\ AllCalled(t)
  /\ running' = running - 1
  /\ Does(t, IF running - 1 <= 1 THEN "wake" ELSE "done", t, t)
  /\ UNCHANGED <<exitReason, attached, mtx, todo, inbox, owed,
                 entry, waiter, ops>>

(* m_running_cv.notify_all()                                               *)
notify_all(t) ==
  /\ at(t) = "wake"
  /\ waiter' = IF waiter = "wait" THEN "check" ELSE waiter
  /\ Does(t, "done", t, t)
  /\ UNCHANGED <<exitReason, attached, mtx, todo, inbox, owed,
                 entry, running, ops>>

(* await_running_count_equal(0), one turn of its loop.                     *)
await_running_count_equal ==
  /\ waiter = "check"
  /\ waiter' = IF running = 0 THEN "done" ELSE "wait"
  /\ UNCHANGED <<exitReason, attached, mtx, job, todo, inbox, owed,
                 entry, running, ops>>

(* actor_registry::put(): the entry is visible before its functor is.      *)
put(x) ==
  /\ Starts(Broker) /\ entry[x] = "none"
  /\ entry' = [entry EXCEPT ![x] = "live"]
  /\ Does(Broker, "put", x, x)
  /\ UNCHANGED <<exitReason, attached, mtx, todo, inbox, owed, running,
                 waiter>>

put_attach ==
  /\ at(Broker) = "put"
  /\ attach(Broker, self(Broker), functor)
  /\ UNCHANGED <<exitReason, mtx, inbox, owed, registry, ops>>

-----------------------------------------------------------------------------
(* What a thread does to finish what it has begun.                         *)
Proceed(t) ==
  \/ establish_link_exited(t) \/ establish_backlink(t) \/ remove_backlink(t)
  \/ actor_exited(t) \/ Return(t) \/ dec_running(t) \/ notify_all(t)
  \/ t = Broker /\ put_attach

LifeNext ==
  \/ \E t \in Threads : Proceed(t)
  \/ \E t, y \in Actors : spawn(t, y)
  \/ \E t \in Actors, y \in Existing : monitor(t, y) \/ demonitor(t, y)
  \/ \E t \in Threads, x, y \in Existing :
       establish_link(t, x, y) \/ remove_link(t, x, y)
  \/ \E a \in Actors : exit_msg(a) \/ \E r \in Reasons : quit(a, r)
  \/ \E p \in Proxies, r \in Reasons : kill_proxy(p, r)
  \/ \E x \in Existing \cap Actors : put(x)
  \/ await_running_count_equal

(* A running thread goes on with what it has begun.                        *)
LifeSpec == LifeInit /\ [][LifeNext]_lifeVars
LifeFair ==
  /\ \A t \in Threads : WF_lifeVars(Proceed(t))
  /\ WF_lifeVars(await_running_count_equal)
LifeFairSpec == LifeSpec /\ LifeFair

-----------------------------------------------------------------------------
(* Every variable has its type.                                            *)
LifeTypeOK ==
  /\ exitReason \in [All -> Reasons \cup {"none"}]
  /\ attached \in [All -> [Attachables -> Nat]]
  /\ mtx \in [All -> Threads \cup {"free"}]
  /\ job \in [Threads -> [at : {"new", "idle", "link", "unlink", "call",
                                 "cleanup", "wake", "done", "put"},
                           self : All \cup Threads, other : All \cup Threads]]
  /\ todo \in [Threads -> [Attachables -> Nat]]
  /\ inbox \in [All -> [Attachables -> Nat]]
  /\ owed \in [All -> [All -> Nat]]
  /\ entry \in [All -> Reasons \cup {"none", "live"}]
  /\ running \in Int /\ waiter \in {"check", "wait", "done"}
  /\ ops \in 0..MaxOps

(* Links are mutual: two running actors nobody is linking or unlinking     *)
(* hold each other's link, once, or neither does (abstract_actor.cpp:137). *)
LinksMutual ==
  \A x, y \in All :
    x # y /\ ~exited(x) /\ ~exited(y) /\ mtx[x] = "free" /\ mtx[y] = "free"
      => /\ attached[x][link(y)] = attached[y][link(x)]
         /\ attached[x][link(y)] <= 1

(* An actor that still holds a link to a terminated one has been sent its  *)
(* exit_msg, or is about to be (abstract_actor.cpp:203).                   *)
DeadLinkNotified ==
  \A x, y \in All :
    ~exited(x) /\ exited(y) /\ attached[x][link(y)] > 0 /\ mtx[x] = "free"
      => \/ inbox[x][link(y)] > 0
         \/ \E t \in Threads : self(t) = y /\ todo[t][link(x)] > 0

(* A down message for every monitor: each call of monitor() that was not   *)
(* withdrawn is in the list, about to be called or has been answered, once *)
(* (abstract_actor.cpp:68, local_actor.cpp:46).                            *)
Cleaner(y) == IF y \in Actors THEN y ELSE Broker
Swapped(x, y) == IF at(Cleaner(y)) = "cleanup" /\ self(Cleaner(y)) = y
                 THEN todo[Cleaner(y)][make_monitor(x)] ELSE 0
Late(x, y) == {t \in Threads : at(t) = "call" /\ self(t) = y /\ todo[t][make_monitor(x)] > 0}

DownForEveryMonitor ==
  \A x, y \in All : owed[x][y] = attached[y][make_monitor(x)] + Swapped(x, y)
                                 + Cardinality(Late(x, y)) + inbox[x][make_monitor(y)]

(* await_all_actors_done() returns only after every actor has told all its *)
(* observers that it ended (actor_registry.cpp:114, local_actor.cpp:161).  *)
AwaitSound ==
  waiter = "done" =>
    \A a \in Actors : at(a) = "new" \/ (exited(a) /\ AllCalled(a))

(* The registry forgets an actor that ended, whether the functor came in   *)
(* time or not (actor_registry.cpp:60).                                    *)
RegistryForgets ==
  \A a \in Actors :
    at(a) \in {"wake", "done"} /\ entry[a] # "none" /\ ~(at(Broker) # "idle" /\ self(Broker) = a)
      => entry[a] = exitReason[a]

(* The thread in await_all_actors_done() is woken once all actors are done *)
(* (actor_registry.cpp:105).                                               *)
AwaitReturns ==
  (\A a \in Actors : at(a) = "new" \/ exited(a)) ~> waiter = "done"

(* An exit is noticed: every monitor gets its down message, once, and the  *)
(* registry forgets the actor (abstract_actor.cpp:203,                     *)
(* actor_registry.cpp:60).                                                 *)
ExitNoticed == DownForEveryMonitor /\ RegistryForgets

(* await_all_actors_done() returns, and not before the last actor has      *)
(* ended (actor_registry.cpp:105, 114).                                    *)
AwaitExact == []AwaitSound /\ AwaitReturns

(* link_to() and unlink_from() return (abstract_actor.cpp:128).            *)
LinkReturns == \A t \in Threads : at(t) \in {"link", "unlink"} ~> at(t) = "idle"

(* Links are mutual while both ends run, and the end of one is told to the *)
(* other (abstract_actor.cpp:137, 203).                                    *)
LinksKept == LifeTypeOK /\ LinksMutual /\ DeadLinkNotified
=============================================================================
