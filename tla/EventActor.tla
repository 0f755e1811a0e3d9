----------------------------- MODULE EventActor -----------------------------
(***************************************************************************)
(* Event-based actors that send each other synchronous requests: the loop  *)
(* of event_based_resume, the invoke policy, the behavior stack, the       *)
(* single timeout of an actor, the cache of skipped messages and the       *)
(* bouncer that answers for an actor that has exited.                      *)
(*                                                                         *)
(* A mailbox is the queue that Mailbox implements.  A message handler is a *)
(* sequence of steps, each an operation of local_actor, that ends with     *)
(* Return; on_exit does nothing, as by default.  Links and monitors are in *)
(* ActorLifecycle, continuations of response handlers are left out.        *)
(***************************************************************************)
EXTENDS Integers, SeqOps

CONSTANTS Peers,
          Words,          \* what the messages of the actors hold
          Behaviors,      \* what become() may install: [tout, takes]
          Firsts,         \* possible values of what make_behavior returns
          Letters,        \* possible contents of the mailboxes at first: sequences
                          \* of <<op, is_high_priority>>
          Posts,          \* Posts[a]: what may be sent to a from outside later
          Prioritized,    \* peers that are spawned priority_aware
          AskPriorities,  \* is_high_priority() of the requests that are sent
          Throughput,     \* messages handled per resume
          MaxOps          \* messages from outside, requests, calls of become(),
                          \* unbecome() and forward_to(), and timeouts

ASSUME EventConstants ==
  /\ "outside" \notin Peers /\ Throughput \in Nat \ {0}
  /\ Behaviors \subseteq [tout : BOOLEAN, takes : SUBSET Words]
  /\ Firsts \subseteq [Peers -> [tout : BOOLEAN, takes : SUBSET Words]]
  /\ Letters \subseteq [Peers -> Seq(Words \X BOOLEAN)]
  /\ Posts \in [Peers -> SUBSET Words]
  /\ AskPriorities \subseteq BOOLEAN

VARIABLES box,         \* mailbox, oldest message first
          fetched,     \* how many of these, counted from the oldest, next_message()
                       \* has moved to m_high and m_low of the prioritizing policy
          skipped,     \* the cache of the priority policy
          bhvr,        \* m_bhvr_stack, top last
          pending,     \* m_pending_responses
          timeout_id, has_timeout,
          timers,      \* delayed messages at the timer actor
          stage,       \* "ready", "next", "handler", "cache", "blocked", "exited"
          current,     \* m_current_node
          run,         \* locals of resume: had_tout, tout, handled, left
          resets,      \* values of tout in calls still to be made after try_block
          promised,    \* requests kept in a response_promise
          asked,       \* auxiliary: who sent request n, timed or not, and whether it
                       \* was sent or forwarded with high priority
          lost,        \* auxiliary: the requests that were deleted without an answer
                       \* because they had left the mailbox of an actor that exits
          ops,         \* how many there were of what MaxOps bounds
          crashed      \* back() was called on an empty behavior stack

policyVars == <<fetched, skipped, lost>>
loopVars == <<policyVars, run, resets, stage, current>>
toutVars == <<timeout_id, has_timeout>>
reqVars == <<pending, promised, asked>>
evVars == <<box, loopVars, bhvr, toutVars, reqVars, timers, ops, crashed>>

(* op is what the message holds, n the request number or timeout id.       *)
Message(op, from, n, resp, high) ==
  [op |-> op, from |-> from, n |-> n, resp |-> resp, high |-> high]
Outside == "outside"
invalid_message_id == <<0, FALSE>>
is_request(m) == m.op # "timeout" /\ m.n # 0 /\ ~m.resp
response_id(m) == <<m.n, m.high>>
Response(op, m) == Message(op, Outside, m.n, TRUE, m.high)
NoNode == Message("none", Outside, 0, FALSE, FALSE)

Entry(b) == [id |-> invalid_message_id, tout |-> b.tout, takes |-> b.takes]
Handler(id) == [id |-> id, tout |-> FALSE, takes |-> {}]

Locals(tout, had) == [had_tout |-> had, tout |-> tout, handled |-> FALSE,
                      left |-> Throughput]
Idle == Locals(0, FALSE)

(* make_behavior has returned and the actors have used up their time, or   *)
(* blocked.                                                                *)
EventInit ==
  \E First \in Firsts, Letter \in Letters :
  /\ box = [a \in Peers |-> [i \in DOMAIN Letter[a] |->
                               Message(Letter[a][i][1], Outside, 0, FALSE, Letter[a][i][2])]]
  /\ fetched = [a \in Peers |-> 0] /\ skipped = [a \in Peers |-> <<>>] /\ lost = {}
  /\ bhvr = [a \in Peers |-> <<Entry(First[a])>>]
  /\ pending = [a \in Peers |-> {}] /\ promised = {} /\ asked = <<>>
  /\ timeout_id = [a \in Peers |-> IF First[a].tout THEN 1 ELSE 0]
  /\ has_timeout = [a \in Peers |-> First[a].tout]
  /\ timers = {<<a, Message("timeout", a, 1, FALSE, FALSE)>> :
                 a \in {b \in Peers : First[b].tout}}
  /\ stage = [a \in Peers |-> IF Letter[a] = <<>> THEN "blocked" ELSE "ready"]
  /\ current = [a \in Peers |-> NoNode]
  /\ run = [a \in Peers |-> Idle]
  /\ resets = [a \in Peers |-> {}]
  /\ ops = 0 /\ crashed = FALSE

-----------------------------------------------------------------------------
Exited(stages) == {a \in Peers : stages[a] = "exited"}

(* enqueue(): a message for a closed mailbox is deleted; a request is      *)
(* answered by the bouncer.  The result is the mailboxes.                  *)
Enqueue(boxes, gone, to, m) ==
  IF to \notin gone THEN [boxes EXCEPT ![to] = Append(@, m)]
  ELSE IF is_request(m) /\ m.from \in Peers \ gone
       THEN [boxes EXCEPT ![m.from] = Append(@, Response("exited", m))]
       ELSE boxes

(* The enqueue to a blocked actor schedules it.                            *)
Wake(stages) ==
  stage' = [a \in Peers |-> IF stages[a] = "blocked" /\ box'[a] # <<>>
                            THEN "ready" ELSE stages[a]]

(* The message next_message() takes: the first, or for a priority aware    *)
(* actor the first of high priority.                                       *)
NextIndex(a) ==
  LET high == {i \in DOMAIN box[a] : a \in Prioritized /\ box[a][i].high}
  IN  IF high = {} THEN 1 ELSE Min(high)

(* How many stay in m_high and m_low when it is taken: with no message of  *)
(* high priority at hand the whole mailbox is read first.                  *)
StillFetched(a) ==
  IF a \notin Prioritized THEN 0
  ELSE IF \E i \in 1..fetched[a] : box[a][i].high THEN fetched[a] - 1
  ELSE Len(box[a]) - 1

TakeNext(a) ==
  /\ box' = [box EXCEPT ![a] = RemoveAt(@, NextIndex(a))]
  /\ fetched' = [fetched EXCEPT ![a] = StillFetched(a)]
  /\ UNCHANGED lost

push_to_cache(a, m) ==
  LET low == {i \in DOMAIN skipped[a] : ~skipped[a][i].high}
  IN  IF a \in Prioritized /\ m.high /\ low # {}
      THEN InsertAt(skipped[a], Min(low), m)
      ELSE Append(skipped[a], m)

(* The last behavior that is no response handler is removed.               *)
pop_async_back(stack) ==
  LET async == {i \in DOMAIN stack : stack[i].id = invalid_message_id}
  IN  IF async = {} THEN stack ELSE RemoveAt(stack, Max(async))

(* A mutant of remove_handler: it is forgotten.                            *)
KeepHandler(stack, id) == stack

(* The first response handler for id is removed.                           *)
remove_handler(stack, id) ==
  LET found == {i \in DOMAIN stack : stack[i].id = id}
  IN  IF found = {} THEN stack ELSE RemoveAt(stack, Min(found))

(* request_timeout(), for a behavior with or without a timeout.            *)
request_timeout(a, tout) ==
  /\ has_timeout' = [has_timeout EXCEPT ![a] = tout]
  /\ timeout_id' = [timeout_id EXCEPT ![a] = IF tout THEN @ + 1 ELSE @]
  /\ timers' = timers \cup {<<a, Message("timeout", a, timeout_id'[a], FALSE, FALSE)>> :
                              x \in {1} \cap {IF tout THEN 1 ELSE 0}}

-----------------------------------------------------------------------------
(* filter_msg() and the dispatch of handle_message(): what becomes of m    *)
(* with the behavior on top of the stack.                                  *)
Verdict(a, m) ==
  LET top == Last(bhvr[a])
      awaited == top.id # invalid_message_id
      take == IF awaited /\ response_id(m) = top.id THEN "invoke" ELSE "cache"
  IN  CASE m.op = "exit" -> "exit"
        [] m.op = "timeout" -> IF has_timeout[a] /\ m.n = timeout_id[a]
                               THEN "invoke" ELSE "drop"
        [] m.op = "sync_timeout" -> take
        [] m.resp /\ m.op \notin {"exit", "timeout", "sync_timeout"} ->
             IF response_id(m) \in pending[a] THEN take ELSE "drop"
        [] OTHER -> IF ~awaited /\ m.op \in top.takes THEN "invoke" ELSE "cache"

(* resume() sets up its locals; from "ready" on a scheduler thread may run *)
(* the actor.                                                              *)
Run(a) == IF stage[a] = "ready" THEN Locals(timeout_id[a], has_timeout[a]) ELSE run[a]

(* The end of an iteration of the for loop, with locals r.  When the       *)
(* mailbox is empty, next_message() is null or has_next_message() false,   *)
(* try_block() succeeds and reset_timeout_if_needed() is still to be       *)
(* called; when it is not and time is up, the result is resume_later.      *)
(* (A message that arrives before this step is as one that arrives before  *)
(* the handler returns.)                                                   *)
EndIteration(a, r) ==
  /\ Wake([stage EXCEPT ![a] = IF box'[a] = <<>> THEN "blocked"
                               ELSE IF r.left = 1 THEN "ready" ELSE "next"])
  /\ run' = [run EXCEPT ![a] = IF stage'[a] = "next" THEN [r EXCEPT !.left = @ - 1]
                               ELSE Idle]
  /\ resets' = [resets EXCEPT ![a] =
       IF box'[a] = <<>> /\ r.had_tout /\ r.handled THEN @ \cup {r.tout} ELSE @]

(* A handler is called, with the behavior on top of the stack.  For a      *)
(* timeout, handle_timeout() has reset it by then, and the node holds the  *)
(* response that behavior waits for.                                       *)
Call(a, m) ==
  LET id == Last(bhvr[a]).id IN
  /\ stage' = [stage EXCEPT ![a] = "handler"]
  /\ run' = [run EXCEPT ![a] = Run(a)]
  /\ current' = [current EXCEPT ![a] =
       IF m.op = "timeout" THEN [m EXCEPT !.n = id[1], !.high = id[2]] ELSE m]
  /\ has_timeout' = [has_timeout EXCEPT ![a] = @ /\ m.op # "timeout"]
  /\ UNCHANGED resets

Requests(messages) == {m.n : m \in {x \in ToSet(messages) : is_request(x)}}

(* cleanup(): the mailbox is closed and the requests in it are bounced;    *)
(* the cache, and the f messages that were fetched, are deleted with the   *)
(* actor.                                                                  *)
Exit(a, boxes, f) ==
  LET inMailbox == SubSeq(boxes[a], f + 1, Len(boxes[a]))
      askedBy(p) == SelectSeq(inMailbox, LAMBDA m : is_request(m) /\ m.from = p)
      bounced(p) == [k \in DOMAIN askedBy(p) |-> Response("exited", askedBy(p)[k])]
  IN  /\ box' = [p \in Peers |-> IF p = a THEN <<>>
                               ELSE IF stage[p] = "exited" THEN boxes[p]
                               ELSE boxes[p] \o bounced(p)]
      /\ lost' = lost \cup Requests(skipped[a]) \cup Requests(SubSeq(boxes[a], 1, f))
      /\ Wake([stage EXCEPT ![a] = "exited"])
      /\ bhvr' = [bhvr EXCEPT ![a] = <<>>]
      /\ skipped' = [skipped EXCEPT ![a] = <<>>]
      /\ fetched' = [fetched EXCEPT ![a] = 0]
      /\ current' = [current EXCEPT ![a] = NoNode]
      /\ run' = [run EXCEPT ![a] = Idle]

(* invoke_message(next_message())                                          *)
Take(a) ==
  /\ stage[a] \in {"ready", "next"}
  /\ LET m == box[a][NextIndex(a)]
         rest == [box EXCEPT ![a] = RemoveAt(@, NextIndex(a))]
     IN  \/ /\ Verdict(a, m) = "invoke"
            /\ TakeNext(a) /\ Call(a, m) /\ UNCHANGED <<skipped, bhvr>>
         \/ /\ Verdict(a, m) = "drop"
            /\ TakeNext(a) /\ EndIteration(a, Run(a))
            /\ UNCHANGED <<skipped, bhvr, current, has_timeout>>
         \/ /\ Verdict(a, m) = "cache"
            /\ TakeNext(a) /\ EndIteration(a, Run(a))
            /\ skipped' = [skipped EXCEPT ![a] = push_to_cache(a, m)]
            /\ UNCHANGED <<bhvr, current, has_timeout>>
         \/ /\ Verdict(a, m) = "exit"
            /\ Exit(a, rest, StillFetched(a)) /\ UNCHANGED <<resets, has_timeout>>
  /\ UNCHANGED <<timeout_id, reqVars, timers, ops, crashed>>

(* A mutant of Reread: messages that would now be dropped are left.       *)
RereadInvoked(a) ==
  {i \in DOMAIN skipped[a] :
     a \notin Prioritized /\ Verdict(a, skipped[a][i]) = "invoke"}

(* The cached messages that would not be skipped again.  cache_end() of    *)
(* the prioritizing policy is its cache_begin().                           *)
Reread(a) ==
  {i \in DOMAIN skipped[a] :
     a \notin Prioritized /\ Verdict(a, skipped[a][i]) # "cache"}

(* invoke_message_from_cache(): the first of them.                         *)
TakeCached(a) ==
  LET found == Reread(a)
      m == skipped[a][Min(found)]
  IN  /\ stage[a] = "cache"
      /\ UNCHANGED <<box, fetched, lost>>
      /\ \/ /\ found = {}
            /\ EndIteration(a, run[a]) /\ UNCHANGED <<skipped, current, has_timeout>>
         \/ /\ found # {}
            /\ skipped' = [skipped EXCEPT ![a] = RemoveAt(@, Min(found))]
            /\ \/ Verdict(a, m) = "invoke" /\ Call(a, m)
               \/ /\ Verdict(a, m) = "drop"
                  /\ UNCHANGED <<stage, run, resets, current, has_timeout>>
      /\ UNCHANGED <<bhvr, timeout_id, reqVars, timers, ops, crashed>>

(* reset_timeout_if_needed(), by a thread that has already blocked the     *)
(* mailbox: another one may have resumed the actor.                        *)
ResetTimeout(a, tout) ==
  /\ tout \in resets[a]
  /\ resets' = [resets EXCEPT ![a] = @ \ {tout}]
  /\ IF tout # timeout_id[a] THEN UNCHANGED <<toutVars, timers, crashed>>
     ELSE IF bhvr[a] = <<>> THEN crashed' = TRUE /\ UNCHANGED <<toutVars, timers>>
     ELSE request_timeout(a, Last(bhvr[a]).tout) /\ UNCHANGED crashed
  /\ UNCHANGED <<box, policyVars, run, stage, current, bhvr, reqVars, ops>>

-----------------------------------------------------------------------------
(* User code runs; the timeout handler of a response handler is empty.     *)
InHandler(a) == stage[a] = "handler" /\ (current[a].op = "timeout" => current[a].n = 0)

(* sync_send(...).then(...) or timed_sync_send(...).then(...)              *)
sync_send(a, to, timed, high) ==
  LET n == Len(asked) + 1
      m == Message("a", a, n, FALSE, high)
  IN  /\ InHandler(a) /\ ops < MaxOps /\ ops' = ops + 1
      /\ asked' = Append(asked, [from |-> a, timed |-> timed, high |-> high])
      /\ pending' = [pending EXCEPT ![a] = @ \cup {<<n, FALSE>>}]
      /\ box' = Enqueue(box, Exited(stage), to, m)
      /\ Wake(stage)
      /\ timers' = IF timed THEN timers \cup {<<a, Response("sync_timeout", m)>>}
                   ELSE timers
      /\ bhvr' = [bhvr EXCEPT ![a] = Append(@, Handler(response_id(m)))]
      /\ UNCHANGED <<policyVars, run, resets, current, toutVars, promised, crashed>>

(* become(), with discard_behavior or keep_behavior.                       *)
become(a, b, keep) ==
  /\ InHandler(a) /\ ops < MaxOps
  /\ ops' = ops + 1
  /\ bhvr' = [bhvr EXCEPT ![a] = Append(IF keep THEN @ ELSE pop_async_back(@), Entry(b))]
  /\ request_timeout(a, b.tout)
  /\ UNCHANGED <<box, loopVars, reqVars, crashed>>

unbecome(a) ==
  /\ InHandler(a) /\ ops < MaxOps
  /\ ops' = ops + 1
  /\ bhvr' = [bhvr EXCEPT ![a] = pop_async_back(@)]
  /\ UNCHANGED <<box, loopVars, toutVars, reqVars, timers, crashed>>

(* make_response_promise(): the request is marked as answered.             *)
make_response_promise(a) ==
  /\ InHandler(a) /\ is_request(current[a])
  /\ promised' = promised \cup {current[a]}
  /\ current' = [current EXCEPT ![a] = NoNode]
  /\ UNCHANGED <<box, policyVars, run, resets, stage, bhvr, toutVars, pending, asked,
                 timers, ops, crashed>>

(* forward_message(): from here on the message is treated as asynchronous. *)
forward_message(a, to, high) ==
  /\ InHandler(a) /\ ops < MaxOps /\ is_request(current[a])
  /\ ops' = ops + 1
  /\ box' = Enqueue(box, Exited(stage), to, [current[a] EXCEPT !.high = high])
  /\ Wake(stage)
  /\ asked' = [asked EXCEPT ![current[a].n].high = @ \/ high]
  /\ current' = [current EXCEPT ![a] = NoNode]
  /\ UNCHANGED <<policyVars, run, resets, bhvr, toutVars, pending, promised, timers, crashed>>

(* deliver() of a response_promise, at any time.                           *)
deliver(m) ==
  /\ m \in promised
  /\ promised' = promised \ {m}
  /\ box' = Enqueue(box, Exited(stage), m.from, Response("reply", m))
  /\ Wake(stage)
  /\ UNCHANGED <<policyVars, run, resets, current, bhvr, toutVars, pending, asked,
                 timers, ops, crashed>>

(* The handler returns, having called quit() or not: a request that has no *)
(* answer yet gets one; the handler of a response is removed; a timeout    *)
(* that was not set again is; then actor_done() is asked.                  *)
Return(a, quit) ==
  LET m == current[a]
      id == response_id(m)
      response == m.n # 0 /\ ~is_request(m)
      stack == IF response THEN remove_handler(bhvr[a], id) ELSE bhvr[a]
      boxes == IF is_request(m)
               THEN Enqueue(box, Exited(stage), m.from, Response("reply", m)) ELSE box
  IN  /\ stage[a] = "handler" /\ (quit => InHandler(a))
      /\ pending' = [pending EXCEPT ![a] = IF response THEN @ \ {id} ELSE @]
      /\ IF m.op = "timeout" /\ ~has_timeout[a] /\ bhvr[a] # <<>>
         THEN request_timeout(a, Last(bhvr[a]).tout)
         ELSE UNCHANGED <<toutVars, timers>>
      /\ \/ /\ quit \/ stack = <<>>
            /\ Exit(a, boxes, fetched[a]) /\ UNCHANGED resets
         \/ /\ ~quit /\ stack # <<>>
            /\ bhvr' = [bhvr EXCEPT ![a] = stack]
            /\ box' = boxes
            /\ current' = [current EXCEPT ![a] = NoNode]
            /\ LET r == [run[a] EXCEPT !.handled = TRUE]
               IN  \/ skipped[a] = <<>> /\ EndIteration(a, r)
                  \/ /\ skipped[a] # <<>> /\ Wake([stage EXCEPT ![a] = "cache"])
                     /\ run' = [run EXCEPT ![a] = r] /\ UNCHANGED resets
            /\ UNCHANGED policyVars
      /\ UNCHANGED <<promised, asked, ops, crashed>>

-----------------------------------------------------------------------------
(* A message from outside: ordinary, or an exit message that kills.        *)
Post(a, op) ==
  /\ ops < MaxOps /\ stage[a] # "exited"
  /\ ops' = ops + 1
  /\ box' = [box EXCEPT ![a] = Append(@, Message(op, Outside, 0, FALSE, FALSE))]
  /\ Wake(stage)
  /\ UNCHANGED <<policyVars, run, resets, current, bhvr, toutVars, reqVars, timers, crashed>>

(* A mutant of Fire: the actor is not scheduled.                           *)
FireSilent(t) ==
  /\ t \in timers /\ (t[2].op = "timeout" => ops < MaxOps)
  /\ ops' = IF t[2].op = "timeout" THEN ops + 1 ELSE ops
  /\ timers' = timers \ {t}
  /\ box' = Enqueue(box, Exited(stage), t[1], t[2])
  /\ UNCHANGED <<loopVars, bhvr, toutVars, reqVars, crashed>>

(* The timer actor delivers.                                               *)
Fire(t) ==
  /\ t \in timers /\ (t[2].op = "timeout" => ops < MaxOps)
  /\ ops' = IF t[2].op = "timeout" THEN ops + 1 ELSE ops
  /\ timers' = timers \ {t}
  /\ box' = Enqueue(box, Exited(stage), t[1], t[2])
  /\ Wake(stage)
  /\ UNCHANGED <<policyVars, run, resets, current, bhvr, toutVars, reqVars, crashed>>

Loop(a) == Take(a) \/ TakeCached(a) \/ \E quit \in BOOLEAN : Return(a, quit)
UserCode(a) ==
  \/ \E to \in Peers \ {a}, high \in AskPriorities :
       \/ \E timed \in BOOLEAN : sync_send(a, to, timed, high)
       \/ forward_message(a, to, high)
  \/ \E b \in Behaviors, keep \in BOOLEAN : become(a, b, keep)
  \/ unbecome(a)
  \/ make_response_promise(a)

EventNext ==
  /\ ~crashed
  /\ \/ \E a \in Peers : \/ Loop(a) \/ UserCode(a)
                         \/ \E tout \in resets[a] : ResetTimeout(a, tout)
                         \/ \E op \in Posts[a] : Post(a, op)
     \/ \E m \in promised : deliver(m)
     \/ \E t \in timers : Fire(t)

EventSpec == EventInit /\ [][EventNext]_evVars

(* The scheduler runs the actors and the timer actor delivers.  Handlers   *)
(* return.                                                                 *)
EventFairSpec ==
  /\ EventSpec
  /\ \A a \in Peers : WF_evVars(~crashed /\ Loop(a))
  /\ WF_evVars(~crashed /\ \E t \in timers : Fire(t))

-----------------------------------------------------------------------------
(* The data keeps its types (event_based_resume.hpp:59).                   *)
EventTypeOK ==
  \A a \in Peers :
    /\ stage[a] \in {"ready", "next", "handler", "cache", "blocked", "exited"}
    /\ run[a].left \in 0..Throughput
    /\ fetched[a] \in 0..Len(box[a]) /\ (a \notin Prioritized => fetched[a] = 0)
    /\ bhvr[a] = <<>> => stage[a] \in {"handler", "exited"}
    /\ stage[a] = "exited" => box[a] \o skipped[a] = <<>>

(* Where a request or its answer can be found.                             *)
InBox(a, n) == {<<"box", a, i>> : i \in {j \in DOMAIN box[a] :
                   box[a][j].op \notin {"timeout", "sync_timeout"} /\ box[a][j].n = n}}
InCache(a, n) == {<<"cache", a, i>> : i \in {j \in DOMAIN skipped[a] :
                   skipped[a][j].op # "sync_timeout" /\ skipped[a][j].n = n}}
InHand(a, n) == {<<"hand", a>> : x \in {y \in {a} : /\ current[y].n = n
                                  /\ current[y].op \notin {"timeout", "sync_timeout"}}}
Places(n) ==
  (UNION {InBox(a, n) \cup InCache(a, n) \cup InHand(a, n) : a \in Peers})
  \cup {<<"promise", m>> : m \in {p \in promised : p.n = n}}

(* A response handler on the stack waits for a response that is still      *)
(* pending, and no two wait for the same one (behavior_stack.cpp:74,       *)
(* invoke_policy.hpp:251).  This is of requests with normal priority: the  *)
(* handler of one that is sent with high priority waits for an id that     *)
(* new_request_id() has not made pending (local_actor.cpp:208).            *)
HandlersPending ==
  \A a \in Peers : \A i, j \in DOMAIN bhvr[a] :
    LET id == bhvr[a][i].id
    IN  id # invalid_message_id => /\ id[2] \/ id \in pending[a]
                                   /\ bhvr[a][j].id = id => i = j

(* A request, or the answer to it, is never in two places, and while its   *)
(* sender lives and waits, it is somewhere, unless it had left the mailbox *)
(* of an actor that exited, for its cache, m_high or m_low: the bouncer    *)
(* answers what is in the mailbox only (invoke_policy.hpp:123,             *)
(* sync_request_bouncer.cpp:33).  Requests sent or forwarded with high     *)
(* priority are left out: their response is dropped as expired, since the  *)
(* pending id has no priority bit (local_actor.hpp:465,                    *)
(* invoke_policy.hpp:331).                                                 *)
RequestKept ==
  \A n \in DOMAIN asked :
    LET a == asked[n].from IN
    /\ Cardinality(Places(n)) <= 1
    /\ ~asked[n].high /\ stage[a] # "exited" /\ <<n, FALSE>> \in pending[a] =>
         Places(n) # {} \/ n \in lost

(* When an actor blocks, it has no skipped message that its behavior would *)
(* accept or drop, unless it is priority aware                             *)
(* (event_based_resume.hpp:118, not_prioritizing.hpp:51).                  *)
CacheReread ==
  \A a \in Peers \ Prioritized : stage[a] = "blocked" =>
    \A i \in DOMAIN skipped[a] : Verdict(a, skipped[a][i]) = "cache"

(* A timed request ends, whatever its priority: a response handler that is *)
(* on top of the stack when the handler that sent the request has returned *)
(* leaves it, whether the other side answers, exits, forwards or keeps the *)
(* request (local_actor.cpp:177, invoke_policy.hpp:299).  Priority aware   *)
(* actors are left out: one that skips the response never rereads it       *)
(* (prioritizing.hpp:73).                                                  *)
TimedEnds ==
  \A n \in 1..MaxOps, a \in Peers \ Prioritized :
    (/\ n \in DOMAIN asked /\ asked[n].timed
     /\ stage[a] \notin {"handler", "exited"} /\ Last(bhvr[a]).id[1] = n)
    ~> (crashed \/ \A i \in DOMAIN bhvr[a] : bhvr[a][i].id[1] # n)

(* No request is answered twice, and none of normal priority is lost       *)
(* before it left the mailbox of an actor that exits, nor does its handler *)
(* stay without a response to come (invoke_policy.hpp:123, 251).           *)
RequestsKept == EventTypeOK /\ HandlersPending /\ RequestKept
=============================================================================
