# A verification of vslab and of the runtime under it

`src/vslab` factors numbers with several processes: clients ask, managers own
workers that run Pollard's rho method, and a server publishes the group through
which they talk. It is built on the C++ Actor Framework (CAF, in
`src/actor-framework`) and on Boost's big integers. This directory models the
program, the arithmetic it calls, and the parts of CAF that keep state: mailbox,
messages, timer, event-based actors, scheduler, links and registry, groups, the network protocol
and its event loop, and three of CAF's example programs. TLC checks small
instances, and TLAPS proves the main invariants for all of them.

## The system

| Part | Where | State | Operations |
|---|---|---|---|
| worker | `main.cpp` 95-159 | `state_id`, mailbox | `calculate`, `continue` (a loop of `MAX_ITERATIONS`) |
| manager | `main.cpp` 223-303 | connection, group memberships | connect, `ping`, `sWorkers`, `kWorkers`, `factor`, `nofactor`, `calculate`, `quit` |
| client | `main.cpp` 305-378 | its number `n`, connection | connect, `result`, `pong`, `factor` (with the division loop), `nofactor` |
| server process | `main.cpp` 400-430 | published groups | start, end |
| gcd, primality | Boost | none | pure functions |
| mailbox | `single_reader_queue.hpp` | `m_stack`, `m_head` | enqueue, fetch, block, close |
| event-based actors | `event_based_resume.hpp`, `invoke_policy.hpp`, `behavior_stack*`, `local_actor.*` | behaviour stack, cache, pending responses, timeout | resume, become, request, answer, promise, forward, exit |
| scheduler | `worker.hpp`, `work_stealing.hpp`, `coordinator.hpp`, `double_ended_queue.hpp` | queues, workers | enqueue, steal, run, stop |
| actors' ends | `abstract_actor.cpp`, `actor_registry.cpp` | attachables, locks, count of running actors | link, monitor, cleanup, put, await |
| map of types, singletons | `uniform_type_info_map.cpp`, `singletons.cpp` | announced types, the pointer to the map | get (lazy creation), announce, lookup by name |
| timer | `abstract_coordinator.cpp`, `no_scheduling.hpp` | delayed messages, a mailbox with mutex and condition variable | enqueue, notify, wait, time out, deliver, stop |
| messages | `message*.cpp`, `decorated_tuple.cpp`, `ref_counted.hpp` | shared data, reference counts | copy, drop, detach, write, release |
| groups | `group_manager.cpp`, `shared_spinlock.cpp` | subscribers, acquaintances, table of groups | get, join, leave, send, forward |
| BASP | `basp_broker.cpp`, `remote_actor.cpp` | contexts, routes, proxies | dial, handshake, dispatch, announce, kill |
| multiplexer | `default_multiplexer.*`, `middleman.cpp` | sockets, event masks, buffers | poll, read, write, accept, flush, stop |

A client joins the group `cmgroup` of the server and broadcasts its number to
it. Every manager is in `cmgroup` and in the group `wgroup` of its own process,
and forwards `calculate` from the first to the second, `factor` and `nofactor`
from the second to the first. A worker answers to `wgroup`. The client divides a
factor out of its number and broadcasts what is left.

What makes this hard:

- Every broadcast reaches its own sender. A manager gets its `calculate` back
  from `wgroup` and its reports back from `cmgroup`, and forwards them again, so
  the client sees duplicates, late reports, and reports for other clients.
- A worker is restarted while a continuation of its old computation is in its
  mailbox; only `state_id` tells them apart.
- Processes come and go, and messages sent before a JOIN reaches the broker are
  lost.
- The runtime has a mailbox without a lock, a spinlock that is upgraded, a queue
  with a lock at each end, locks that are taken while others are held, and two
  event loops whose handlers change what the loop is about to look at.

## Modules

| Module | Models | Instance |
|---|---|---|
| `Factoring` | divisibility, gcd, primality and division as values | all of vslab |
| `RhoWorker` | one worker, one step per loop iteration, with messages arriving meanwhile | `MCRhoWorker` |
| `PollardRho` | the same `continue` handler as a function of `n` and `cycles` | `MCRhoWorker`, `MCVslab` |
| `Vslab` | all processes, their mailboxes, the links and the broker | `MCVslab` |
| `EuclidGcd` | the loop of `boost::math::gcd` | `MCRuntime` |
| `DivisionLoop` | the division loop of the client | `MCRuntime` |
| `Mailbox` | the lock-free queue, its senders, and `resume` | `MCRuntime` |
| `MessageQueue` | what a mailbox promises | refined by `Mailbox` |
| `Scheduler` | workers that run and steal jobs, `stop()` of the coordinator | `MCRuntime` |
| `WorkerDeque` | the queue of a worker, node by node | `MCProtocols` |
| `JobDeque` | what that queue promises | refined by `WorkerDeque` |
| `GroupLookup` | `get()` of the local group module and its spinlock | `MCRuntime` |
| `ActorLifecycle` | links, monitors, exit, the registry | `MCLifecycle`, `MCActorLifecycle` |
| `TimerActor` | the timer actor, its blocking mailbox, `stop_actors` | `MCEventActor` |
| `TypeMap` | the lazily created map of types, its lock and tuple types | `MCLifecycle` |
| `CowMessage` | messages that share their data until they are written | `MCProtocols` |
| `MessageValue` | what a message promises | refined by `CowMessage` |
| `EventActor` | event-based actors with requests and timeouts | `MCEventActor` |
| `Multiplexer` | the epoll loop with pipe, acceptor and stream | `MCLifecycle` |
| `Groups` | one local group, its broker and its remote proxies | `MCProtocols`, `MCGroups` |
| `Basp` | the brokers of the nodes and their connections | `MCProtocols` |
| `PatternMatch` | the matcher of message patterns | `MCProtocols` |
| `Codecs` | atoms, strings, floating point numbers, binary messages | `MCProtocols` |
| `DiningPhilosophers`, `CurlFuse`, `DistributedCalculator` | the example programs of these names | `MCProtocols` |
| `SeqOps` | operations on sequences and bounds of sets, with few definitions for the proofs to carry | |

Every operator that models code has its lines in the `map` of `PROJECT.json`.
An operator whose comment calls it a mutant is another one with a mistake that is easy
to make; a property is trusted only if TLC refutes it once the mutant takes the place of
the original.

How they fit together. `Vslab` takes a worker's `continue` handler as one step
whose outcome is a member of `Rho[n][cycles]`. Its proofs assume of `Rho` only
that a factor is a divisor other than 1 (`RhoAssumption`), which
`WorkerFactorSound` shows of `RhoWorker`. For TLC, `MCVslab` writes `Rho` down as
a table, `TableAssumption` compares the table with `PollardRho`, and the property
`HandlerIsFunction` compares `PollardRho` with `RhoWorker`. The gcd and the
division loop are values in `Factoring`; `EuclidGcd` and `DivisionLoop` show that
the loops compute them. `Vslab`, `RhoWorker`, `EventActor` and the examples give an
actor a FIFO mailbox that wakes it up; `Mailbox` shows that CAF's mailbox is one.
`Mailbox` takes the scheduler to be a number of jobs, any of which may be taken;
`Scheduler` shows that a job is run once and not lost, with queues whose
operations take effect at once, which is what `WorkerDeque` implements. `Groups`
takes a connection to be a channel in order that may break, `Basp` sends whole
messages over such channels, and `Multiplexer` shows what bytes come out of a
socket and in which order.

### RhoWorker

`mailbox` is the actor's mailbox, `loop` the locals of a running `continue`
handler. `current` and `out` are history. `Receive` puts a `calculate` message in
at any time up to `MailboxBound`; the worker's own messages are never refused.
Random numbers are nondeterministic over `1..n`. `random_gen` is shared by all
workers without a lock; whatever a race makes it return is one of these draws,
since `% n + 1` is applied to it. `int512_t` arithmetic wraps at `IntModulus`. Only
`x * x + a` and `state_id` can wrap. `pow(n, 1/4)` is `n` to the integer quotient 0,
so `Limit` is 1. A handler that divides by zero throws and its actor exits. A
thread that runs no handler takes the oldest message.

### Vslab

`up[x]` is what the process of `x` has sent to the broker of `cmgroup` over its
connection, in order. The broker's step hands one message to all who have joined.
In the program the copies travel separately. Handing them over in one step loses
no behaviour: a node takes its copy when it likes, nobody looks into another
node's mailbox, and what a node sends in reaction to its copy reaches the others
through the same broker, after the broker has sent out their copies. Messages a
worker sends within its process do not pass the broker, and may be taken to come
before or after its step.

A message without a handler goes to the actor's cache and is never looked at
again, since no behaviour of the program has a handler that an earlier one
lacked; it is not represented. CPU times and sums of cycles are only printed.
`announced` and `computing` are history. `quit`, `result`, `kWorkers` and `pong` have
handlers but no sender (the one `anon_send` is commented out); `Inject` delivers
each atom of `Injected` once, to show what the handlers do.

Not in the model: a server that is started again, negative inputs, a client or
manager process that is killed (`Groups` has the down message the broker gets).

### Mailbox, Scheduler, WorkerDeque, GroupLookup

In `Mailbox` every access to `m_stack` is a step. `Load`, `Push`, `PushFails` and
`Refused` are `enqueue`; `Fetch`, `Swap`, `SwapFails` are `fetch_new_data`, whose weak
compare-exchange may fail without a reason; `TryBlock`, `Check` and `LastBlock` are
the exits of `resume`; `CloseLoad` and `CloseSwap` are `close`, reached through
`cleanup`. A message is its own pointer. In the program the memory of a deleted
message may be used again, so that a compare-exchange succeeds on a new message
with the old address; a sender has then linked to the new top, which is what
`PushFails` followed by `Push` does.

In `Scheduler` a job is an actor; `current[w]` is what worker `w` runs. An actor that
runs may send to another one, which makes that one a job of the same worker if it
was waiting. `stop()` is split into its loop over the workers, the wait for the
helper's answer and the cleanup of the queues, which takes them one after the other and
their jobs one by one. The middleman is stopped after the scheduler (`singletons.cpp:73`), so
`central_enqueue` goes on meanwhile and afterwards; `drained` are the queues the cleanup has
left behind, `late` the actors that were put into one of these. In `WorkerDeque` every access to
a node or a lock is a step, and a node that is deleted may be allocated again;
`freedUse` records that a deleted one was dereferenced. In `GroupLookup` every access to
the lock word is a step.

### ActorLifecycle

`attached[x]` counts the attachables of `x` by kind and observer, `mtx[x]` is the
thread in a critical section of `x`. A section is one step unless another lock is
taken inside it: `establish_link_impl` is a step that takes its own lock and a step
under the lock of the other actor. `cleanup` takes the list and then calls
`actor_exited` for its members one by one (`todo`). `put` of the registry runs on the
middleman's thread. `waiter` is the thread in `await_all_actors_done`.

### TimerActor, TypeMap, CowMessage

In `TimerActor` the word of the queue, the mutex and the sleep on the condition variable
are separate steps, `notify_one` is one step because it holds the mutex; pushing and
taking the list are single steps, which `Mailbox` justifies. A wait may end without a
reason, but reports a timeout once its deadline has passed, as `wait_until` of the standard
library does. Time is the set `due` of messages whose delay is over. Delayed messages that
the timer still holds when it is told to exit are lost, in the code as in the model.

In `TypeMap` every access to the pointer of the singleton and every critical section of the
map's lock is a step. A tuple type is put together by looking its elements up one by one.

In `CowMessage` every access to a reference count is a step, and so is the copy of the
data. A deleted address is `Free`, so that a message that still used it would change its
value. `Carried` is the value of each thread's message, read through decorated tuples.

### EventActor

`stage[a]` is where the loop of `resume` is, `bhvr[a]` the behaviour stack, in which a
response handler carries the id it waits for. One message handler is a sequence of
steps (request, promise, forward, become, unbecome) that ends, with or without `quit`, in
`Return`. `Verdict` is the classification of a message by `filter_msg` and the
stack. After `try_block` the code still touches the actor to re-arm its timeout;
`resets` are these late calls, and `crashed` says that one of them, or the loop, has
called `back()` on an empty stack, after which nothing is promised. A priority-aware actor
reads its whole mailbox into `m_high` and `m_low` whenever it has no message of high
priority at hand; `fetched` counts the messages there. The bouncer of an actor that exits
answers the requests in the mailbox only. Those in the cache, `m_high` or `m_low` are deleted
with the actor, and `lost` remembers them.

### Multiplexer

One stream, one acceptor and the pipe. `bf` is what epoll watches, `events` the changes
collected while a batch is handled, `ready` the rest of the batch. Bytes are
numbered. `Batches` are the orders in which `epoll_wait` may report what is `Ready`, the
input of a socket right before its output. The peer, the kernel and the thread in
`middleman::stop` act between any two steps. `recv` returns any number of the bytes that are
there, `send` takes at least one. A broker that writes to a scribe already closed throws, and
`broker.cpp` 197-215 then ends it with all it has open.

### Groups, Basp

In `Groups`, `doing[m]` is what a call still has to send after it has released its
lock. `due` is history: who must get which message. A connection that drops loses an
arbitrary rest of what is on its way.

In `Basp` a node has one actor that may be published, and one broker. A `world` says
who dials whom, who sends whom a handle of which actor, whose actor is published, is typed
or may exit, and which version a node speaks. Handlers of a broker collect what they write (`wr`) and
what they flush; a write to a closed handle throws and ends the broker (`up`).
`_AddProxy` and `_DelProxy` are tasks in the queue of the multiplexer, as in
`remote_actor_proxy.cpp`.

### PatternMatch, Codecs

Pure functions, written as the code computes them and compared with a definition
that does not search, or with their inverse. What lies behind the end of a tuple in
memory is a nondeterministic value. The formats have their widths as constants:
4 bits of exponent and 3 of significand instead of 8 and 23, bytes with 4 values,
atoms of 4 characters. Characters are their 6 bit codes.

### Examples

`DiningPhilosophers`: a handler's sends are steps of their own. `CurlFuse`: the master
takes the first message its behaviour knows. `DistributedCalculator`: the client with
both behaviours, servers that crash and restart, and a user who types and rebinds.

## Runs

Components that share no state are checked side by side in one run: the `MC` module
extends them, and a variable `phase`, fixed at the start, says whose steps are taken.
The components' definitions are used as they are, and fairness is that of the
component whose phase it is.

Passing:

| Run | Instance | Shows |
|---|---|---|
| `worker` | inputs 0, 6, 9; 3 iterations; modulus 10; 2 waiting calculates | restart, retry, give-up, overflow and the exception on 0 all occur; one continuation (`SingleContinuation`), of the current number (`WorksOnCurrent`), with sound reports (`FactorSound`), as `PollardRho` says (`HandlerIsFunction`) |
| `system` | one server, manager and worker; a client with 15 beside injected `pong` and `result`, clients with 9 and 0 beside `kWorkers`, or a client with 3 beside `quit`; or a client with 3 and two managers with a worker each | stale factors that do not divide (3 after the client is at 5), factors for another client, duplicates, a 0 in the system, a manager that leaves: `ClientKeepsDivisor`, `NobodyFails`, `RepliesReach` |
| `runtime` | phases mailbox, scheduler, lookup, gcd, divide | below |
| `lifecycle` | phases actors (two, one proxy, two operations, links requested one way), types and network | below |
| `event_actors` | phases actors, timer | below |
| `protocols` | phases basp, groups, dine, curl, calc, match, codec, deque, cow | below |

Most properties below join several statements about one component; the conjuncts have
definitions and comments of their own.

`runtime`. Mailbox: `WakeupExact` (an actor is run by one thread, `SingleCustody`; it sleeps
only with an empty mailbox, `NoLostWakeup`; the assertions of the queue hold,
`AssertionsHold`), the whole is a queue (`IsQueue`), everything is delivered (`Delivered`).
Scheduler: `JobsKept` (a job is in one place, `RunOnce`, and `stop()` waits for workers that
are there, `StopKnowsWorkers`). `OnlyLateLeft`: when `stop()` returns, every worker has ended,
and an actor is left ready only if it was enqueued to a queue that the cleanup had already
left behind. Such an actor is neither run nor detached, and the run has it. Table of groups:
`MapExclusive`, `OneGroup`. The two loops of the program compute what they should
(`ResultIsGcd`, `LeavesStripFactor`). `CallsReturn`: `stop()`, `get()` and both loops come to
an end.

`lifecycle`. `LinksKept`: links are mutual and the end of one side is told to the other.
`ExitNoticed`: every monitor gets its down message once, and the registry forgets the
actor. `AwaitExact`: `await_all_actors_done` returns when all have ended and not before.
`TypesAgree`: however threads race to create the map and to announce types, they use one map,
and a name stands for one type. Network: `BytesExact` (chunks as the policy asks, writes in
order), `WatchedHeld` (the manager of a watched socket is alive, the shadow counts),
`FlushedLeaves`, and `LoopStops`, without which `middleman::stop` would not return.

`event_actors`. `RequestsKept`: response handlers and pending responses agree, no request or
answer is in two places, and while its sender waits it is in one. Two things are left out of
the last part, and the run has both. The response to a request of high priority is dropped as
expired, because the pending id lacks the priority bit. A request that had left the mailbox of
an actor that exits is deleted. `CacheReread`: an actor does not sleep on a skipped message it
would now take. `TimedEnds`: a timed request ends, whatever its priority. `TimerDelivers`: an
accepted message is delivered whatever wakes the timer and however its deadline races with
senders, the queue is never read while it is blocked, and `stop_actors` returns.

`protocols`. BASP: `DialSound` (`remote_actor` returns, and the handshake data on its stack
is not used afterwards). `DirectProxyTold`: with an open direct route, a proxy learns of the
end of its actor, unless its announcement was never flushed (`AnnouncementWaits`) or it was
erased in place of an earlier proxy of the same actor (`ErasedForEarlier`). Both exceptions
need two nodes that dial each other, as in the world `Mutual`. Groups:
`GroupDelivers` (in order, to all who are due, to nodes with subscribers). Examples:
`ChopsticksSound`, `ReadsServed`, `ServerTracked`. Matcher and codecs: `MatchSound`,
`RoundTrips` (atoms, floating point numbers and binary data are read back as they were, and so
are strings that do not end in a backslash). Queue of a worker: the refinement `IsDeque`, with `NodesAlive` (no deleted
node is used) and `TailLast` as conjuncts. Messages: the refinement `MessagesAreValues`,
with exact reference counts.

Violations, each of a statement the repository makes:

| Run | Statement | What happens |
|---|---|---|
| `announcement` | `main.cpp:359` prints the prime factorisation | 30 with factor 5 leaves 6, and `6 / 5 == 1` |
| `worker_answers` | `main.cpp:115` "calculate factor and send result to manager" | the echo of `calculate` restarts the worker for ever |
| `late_worker` | `lab2.pdf` page 4, workers that join are included | the number is broadcast only once |
| `group_join` | `group_manager.cpp:188`, JOIN if a proxy has local subscriptions | with two actors on a remote node, JOIN and LEAVE are sent after the lock is released and arrive in the wrong order |
| `string_round_trip` | `string_serialization.hpp:68` "Converts a string created by `to_string` to its original value." | only quotes are escaped, so after a trailing backslash the closing quote is taken for an escaped one and `from_string` throws |
| `link_deadlock` | `abstract_actor.hpp:119` "Links this actor to `whom`" | two actors that link to each other hold their own lock and wait for the other's |

`JoinedIfSubscribed` is also a part of `GroupDelivers`: with one member per remote node it
holds, so the order of JOIN and LEAVE of two members is all that breaks it. The run
`lifecycle` requests links in one direction only and therefore stays clear of the
deadlock.

### Noted without a run

- vslab: the limit on cycles is 1 where `main.cpp:124` says "4th square-root N"; the
  start value can be `n` although `main.cpp:120` excludes it; `is_probable_prime`
  rejects 2, so a factor 2 that is left alone is never reported; `suicide`
  (`main.cpp:273`) has no handler; a factor is printed once more than it divides
  (`main.cpp:351`); when the last prime divides out, nothing is announced
  (`main.cpp:358`); nobody sends `quit` or `result`, so `await_all_actors_done` does not
  return.
- Event-based actors: re-arming the timeout after `try_block`
  (`event_based_resume.hpp:152`) can meet an empty stack, against the assertion at
  `behavior_stack_based.hpp:90` (`crashed` in `EventActor`). A priority-aware actor
  never looks at skipped messages again (`prioritizing.hpp:73`); `CacheReread` and
  `TimedEnds` leave such actors out. The response to a `sync_send` of high priority never
  reaches its handler: the handler waits for the id with the priority bit
  (`local_actor.cpp:208`), the pending id is without (`local_actor.hpp:465`), and
  `invoke_policy.hpp:331` drops it.
- BASP: a server with another version leaves the promise of `remote_actor` unset
  (`basp_broker.cpp:417`); `DialSound` excludes this. When two nodes dial each other,
  the announcement of a proxy (`basp_broker.cpp:583`) may stay unflushed, and a late
  `_DelProxy` of a proxy that is gone may erase the next one of the same actor
  (`basp_broker.cpp:131`, 591). A connection closed by the broker may still deliver data
  read in the same batch, against the assertion at `basp_broker.cpp:54`.
- The matcher compares a type behind the end of the tuple when a wildcard is followed by
  more (`matcher.hpp:69`). For patterns without an inner wildcard `StaysInside` says that
  it does not; `MatchExact` leaves out the case that the memory behind looks like a type.
- A tuple type that is made before one of its elements is announced keeps a null element,
  since `by_uniform_name` returns a null pointer (`uniform_type_info_map.cpp:587`);
  `announce.hpp:84` warns that announcing is not thread-safe.
- `distributed_calculator` drops the request that fails and forgets a rebind in its
  failure handler (`distributed_calculator.cpp:58`); `InOrderTyped` allows gaps.

### Bounds

The bounds of the worker leave room for a restart behind a continuation, which
is what `state_id` is for, and its modulus is small enough that `x * x + a`
wraps and `state_id` comes round. `MailBound` and `LinkBound` (2, and 3 mailbox
places for `worker_answers`) are enough for a message, its echo and the message it
races with. `StateModulus` exceeds `MailBound + 1`, as 2^512 exceeds the
length of any mailbox: otherwise an old continuation could have the current
state. `MaxCycles` is what two iterations per round can reach. In `Mailbox` two
senders are enough for two concurrent unblocking attempts, two messages for an
order, and a throughput of 2 makes the loop end both with and without messages.
Bounds block a sender; runs for liveness are violations whose counterexamples do
not rest on a full mailbox or link (each was read), or have no such bound but a quota
on what is sent.

`Scheduler`: two workers and three actors, so that one queue holds two jobs while it is
robbed. `GroupLookup`: three callers, for a reader that comes while a second upgrade is
waiting. `ActorLifecycle`: two operations besides exits, for a link and an unlink, or a
link and a monitor, around an exit. `EventActor`: two actors, one of them priority aware,
that ask each other with either priority, two operations, with behaviours that take, skip and
time out; one of the two starts with a message, and the priority-aware one with two of
different priority, so that it exits with messages fetched. `Multiplexer`: three bytes in and
two out, so that a chunk of two is cut in either place and a flush meets a write under
way. `Groups`: one member per node, three changes, a lost connection, and two messages of
the member at home, of a remote one, or of each. `TimerActor`: two delayed messages, so that
one arrives while the timer waits for the other. `CowMessage`: two threads and six
operations, enough for a copy, a cut on either side and a write through both levels, with
an address left over whenever a copy is made. `TypeMap`: two threads with two calls each.
`Basp`: three nodes, two connections, one loss; in the first world a node gets a handle of
an actor it has no direct connection to. `DiningPhilosophers`: three seats, the
smallest ring in which two neighbours of one are neighbours themselves.
`DistributedCalculator`: two hosts, two requests, three crashes, restarts or rebinds.
`WorkerDeque`: three threads, four calls and four nodes, so that memory is used again.

Deadlock is not checked where the system may stop: processes need not be
started, quotas run out, loops end, servers stay down.

### Fairness

Weak fairness per actor and per connection in `Vslab`: CAF resumes an actor that
has messages, and TCP delivers while the server is up. Strong fairness for
`WorkerFactor` and `WorkerNofactor`: a draw that can end a computation comes up
eventually. It only makes the violation `worker_answers` stronger. Nothing forces
a process to start. In `Mailbox`, weak fairness for threads that run, and strong
fairness for compare-exchanges, which neither fail spuriously for ever nor lose
against an endless stream of others (each sender has a quota). `EuclidGcd` and
`DivisionLoop` run on until they return.

The other modules have weak fairness for every thread inside an operation: workers of
the scheduler and the thread in `stop()`, callers of `get()`, threads inside `link_to`,
`cleanup` and the registry, the loop of an event-based actor and the timer actor, the
network loop, the thread in `middleman::stop` once it has begun, the timer's thread and
the threads that notify it; delays run out. Nothing forces a
program to start an operation, a peer to send, or a promise to be kept. `Basp`, `Groups`
and the examples have no fairness: their progress is stated of the states in which
nothing is left to do.

## Proofs

| Module | Theorems | Argument |
|---|---|---|
| `ApplicationProofs` | `WorkerTypeCorrect`, `WorkerSingleContinuation`, `WorkerWorksOnCurrent`, `WorkerFactorSound`, `WorkerCyclesBounded` | see below |
| | `CalcServerTracked`, from `CalcInvariant` | see below |
| `VslabProofs` | `VslabTypeCorrect`, `VslabKeepsDivisor`, `VslabNobodyFails`, `VslabRepliesReach` | see below |
| `RuntimeProofs` | `EuclidResultIsGcd` | the common divisors of `a`, `b` stay those of `d`, `n` |
| | `MailboxWakeupExact`, from `MailboxSingleCustody`, `MailboxNoLostWakeup`, `MailboxAssertionsHold`; the refinement `MailboxIsQueue` | see below |
| | `MapExclusiveAlways`, `OneGroupAlways` | see below |
| `SchedulerProofs` | `SchedJobsKept` and `SchedOnlyLateLeft`, from `SchedInvariant` | see below |
| `QueueProofs` | the refinement `IsDequeHolds`, from an invariant of the nodes; `TimerSound`, the safety half of `TimerDelivers` | see below |
| `LifecycleProofs` | `TypesAgreeHolds` | see below |
| | `LifeLinksKept`, `LifeExitNoticed`, `LifeAwaitSound`, from `LifeInvariant` | see below |
| `DiningPhilosophersProofs` | `DineChopsticksSound`, from `DineInvariant` | see below |
| `MultiplexerProofs` | `MuxBytesExact`, `MuxWatchedHeld`, from `MuxInvariant` | see below |

*Worker.* That only one continuation is live is not inductive: a calculate makes a
continuation for the next state, and one for that state could be left from 2^512
restarts ago. The invariant bounds how far behind the states in the mailbox are,
by their position in it; `BoundAssumption` (a mailbox is shorter than 2^512) closes
the argument. `FactorSound` needs the gcd lemmas and holds for any draws and any
modulus, as it only depends on the last gcd.

*System.* `NumInv` says that a client's number is 0 for an input of 0 and else a
positive divisor of the input. With the type invariant, by which all numbers in
messages divide some input, neither failing handler is reached for positive
inputs. `RepliesReach` needs `LinkInv`: a node that has not connected has sent
nothing.

*Mailbox.* `Control` adds to the three properties that the queue is closed exactly
when the actor is done, that a reader about to block has an empty `m_head`, that the
loop has an iteration left, and that a message is created before it is pushed.
The argument is that the blocked dummy is a token: whoever replaces it is the only
one to schedule the actor, and only a running actor can put it back. The refinement
maps the queue to `m_head` followed by the stack read backwards. It needs `QInv`: whatever
was taken, is in `m_head` or is on the stack has been pushed by its sender, so that a
message pushed now is a new one; a reader that has not run has taken nothing; and one that
leaves or closes has an empty `m_head`.

*Table of groups.* `FlagCounts` says that the lock word is the number of threads that
hold the lock shared, or `min_long` with a writer and nobody else; mutual exclusion
follows, and is needed to keep it. `Kept` says that what a thread found or inserted is
what the table holds, which needs that an entry is never replaced.

*Scheduler.* `PlacesInv` says that a ready actor has exactly one place, which is an entry of
a queue or the `current` of a worker, and that an actor that waits has none; the helper of
`stop()` has at most one. `StopInv` follows the helper: `alive_workers`, without the worker
that the helper has just stopped, are the workers that have not stopped; between two waits
the helper has no place; and at the cleanup no worker is left. `LateInv` says that the jobs in
a drained queue are `late`; a job is late only once its queue is drained, so when all queues
are drained only late ones are ready.
Jobs are told apart from the markers `raid`, `none` and
`stopped` of the model by `SchedulerAssumption`.

*Queue of a worker.* `DequeInv` says that the nodes from `m_head` on form a list without
repetition (`Linked`), that these and the nodes in the hands of a thread that has allocated or
taken one are all the live nodes and no two of them the same, and that `m_tail` is the last
node unless its lock is held by a thread about to move it. `Contents`, the mapping to
`JobDeque`, follows the pointers; the list determines it, so each operation changes it in the
one step in which the list changes.

*Timer.* Only a reader on its way to sleep leaves the queue blocked (`QueueInv`), and whoever
adds an element after the reader has tested the queue still has to notify (`WakeInv`): the
mutex is held from the test to the sleep.

*Map of types.* Whoever creates the map holds the mutex until the pointer is stored and nobody
has the pointer before (`MapInv`), so there is one map. Its list is sorted by name, `lower_bound` divides a sorted list, and an insertion
keeps what earlier searches found; so every answer that was ever given is the one a search
gives now (`AnswerInv`).

*Links, monitors and the registry.* `LifeInv` has one conjunct for each thing a step relies
on. `LockInv`: a lock is held exactly by the thread that is linking or unlinking for its
owner. `JobInv`: a thread has nothing left to call outside of `attach` and `cleanup`, only
for an actor that has ended, and at most one call of each kind for a late `attach`.
`ListInv`: an actor that ended holds no attachables. `LinkInv`: the two lists of a pair of
running actors agree unless one of them is being unlinked, and then the one that unlinks
holds no link any more. `DeadInv`: a running actor with a link to one that ended has its
exit message, or a thread working on the ended actor still has to send it.
`DownForEveryMonitor`, part of `ExitNoticed`, is needed too: for a pair, the calls of
`monitor` that were not withdrawn are those in the list, plus those swapped out by
`cleanup`, plus one for each thread whose `attach` came too late, plus the down messages
delivered. `EntryInv` says that a live entry of the registry has its functor attached, about
to be attached or about to be called, and that the reason in an entry is the actor's.
`CountInv` says that `m_running` is the number of actors that were spawned and have not left
the registry.

*Philosophers.* `DineInv` is about a philosopher and one chopstick beside it: at most one
take or its answer is under way, at most one put, the next take does not overtake it, and
the chopstick's user is the philosopher exactly if a `taken` or a put of that philosopher is
under way, or they eat or hold this chopstick while waiting for the other. `MoodInv` says
which answers are awaited in each behaviour.

*Calculator.* `CalcInv` adds to `ServerTracked` that requests wait in the order they were
typed, behind the one being served and after those printed; that a server which is
reachable is monitored; and that an answer under way is for the request being served.

*Network loop.* `MuxInv` adds to the two properties what each handler relies on.
`InOrderStream`: whatever epoll watches or a pending event will make it watch has its
manager, which is why a manager may go only when `handle` applies the removal; and the online
buffer is empty unless a write is under way, without which `flush` would overwrite bytes.
`InOrderBytes`: the bytes received are those consumed followed by those collected, and no
byte arrives before the connection is accepted. `InOrderBatch`: no event is left twice in a
batch, each is still watched, and an event of the pipe finds a runnable. Every operation of
the stream is shown to keep `Fine`, and to move what is to be sent from the offline to an
empty online buffer at most. `MuxConstants` lets a threshold be any natural number, 0
included.

`WorkerTypeCorrect`, `WorkerCyclesBounded` and `VslabTypeCorrect` are proved only; the runs
do not repeat them.

A `USE` at the top of each proof module names the provers that are tried in turn on every
leaf. In `LifecycleProofs` and `MultiplexerProofs` Zenon comes first, which proves most of
their leaves at once. An obligation carries all that is in scope, and `tlapm` slows down with
it; the theories of finite sets and of well-founded relations are therefore brought in as late
as possible, and `SeqOps` stands in for the larger module of the same operators.

Assumptions: the named `ASSUME`s of the modules, which TLC evaluates in the runs.

Only model-checked:

- all liveness, the second halves of `AwaitExact` and `TimerDelivers` included: it needs
  fairness;
- `HandlerIsFunction`, `LeavesStripFactor`, `ReadsServed` and `RoundTrips`: induction over
  recursive functions and folds, over powers and over what `SelectSeq` keeps;
- `MatchSound`: the matcher is written with recursive operators, about which TLAPS proves
  nothing;
- the refinement `MessagesAreValues`, and the properties of `EventActor`, `Basp` and
  `Groups`: within the prover's reach, but no inductive
  invariant has been worked out for them.

## Not modelled

`PROJECT.json` lists every part with its status. Left out, and why:

- Most of CAF's headers: containers, type lists, the templates for typed actors and match
  expressions, and the meta information that converts values and keeps no state. With the
  unit tests, the bundled Boost headers and examples that only show the calling interface
  they are by far the largest share of the sources. The map therefore covers less than a
  tenth of all lines.
- Of the singletons and the map of types: disposal, the lookup by `type_info` and the list
  of all types.
- The big integers of Boost and the random generator: results, not algorithms, are
  modelled.
- The printer actor and nested receives of blocking actors; `message_builder` and the
  concatenation of messages.
- The poll variant of the multiplexer, and system calls.
- Hooks, logging, command lines, and links that pass over a proxy.
- The backup sources of vslab, which no target builds.

Open: a proof that `CowMessage` implements `MessageValue`; `RhoWorker` as an implementation of the worker of
`Vslab`; one composition of `Groups` with `Basp`.
