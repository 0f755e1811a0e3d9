------------------------- MODULE DiningPhilosophers -------------------------
(***************************************************************************)
(* The example program dining_philosophers: chopsticks and philosophers    *)
(* are actors that exchange take, taken, busy and put.  Sending is a step, *)
(* so that the messages of two philosophers interleave.                    *)
(***************************************************************************)
EXTENDS Naturals, Sequences

CONSTANT Seats    \* as many philosophers as chopsticks

ASSUME SeatsAssumption == Seats \in Nat /\ Seats > 1

VARIABLES mood,     \* mood[p]: the behavior of philosopher p
          outbox,   \* outbox[p]: what its handler has yet to send
          answers,  \* answers[p]: its mailbox, <<answer, chopstick>>
          requests, \* requests[c]: the mailbox of chopstick c, <<request, philosopher>>
          user      \* user[c]: the philosopher c awaits a put from, or NoOne

dineVars == <<mood, outbox, answers, requests, user>>

Round == 0 .. (Seats - 1)
NoOne == Seats
left(p) == p
right(p) == (p + 1) % Seats
OtherOf(p, c) == IF c = left(p) THEN right(p) ELSE left(p)

DineInit ==
  /\ mood = [p \in Round |-> <<"thinking">>]
  /\ outbox = [p \in Round |-> <<>>] /\ answers = [p \in Round |-> <<>>]
  /\ requests = [c \in Round |-> <<>>] /\ user = [c \in Round |-> NoOne]

(* The handler of p sends in order and becomes m.                          *)
Becomes(p, m, sends) == /\ mood' = [mood EXCEPT ![p] = m]
                        /\ outbox' = [outbox EXCEPT ![p] = sends]

SendNext(p) ==
  /\ outbox[p] # <<>>
  /\ LET m == Head(outbox[p])
     IN requests' = [requests EXCEPT ![m[2]] = Append(@, <<m[1], p>>)]
  /\ outbox' = [outbox EXCEPT ![p] = Tail(@)]
  /\ UNCHANGED <<mood, answers, user>>

-----------------------------------------------------------------------------
(* A free chopstick has no handler for put, a taken one takes the put of   *)
(* its user only; such messages would stay in the cache for ever.          *)
chopstick(c) ==
  /\ requests[c] # <<>>
  /\ LET r == Head(requests[c])
         p == r[2]
     IN /\ requests' = [requests EXCEPT ![c] = Tail(@)]
        /\ \/ /\ r[1] = "take" /\ user[c] = NoOne
              /\ user' = [user EXCEPT ![c] = p]
              /\ answers' = [answers EXCEPT ![p] = Append(@, <<"taken", c>>)]
           \/ /\ r[1] = "take" /\ user[c] # NoOne
              /\ answers' = [answers EXCEPT ![p] = Append(@, <<"busy", c>>)] /\ UNCHANGED user
           \/ /\ r[1] = "put" /\ user[c] = p
              /\ user' = [user EXCEPT ![c] = NoOne] /\ UNCHANGED answers
  /\ UNCHANGED <<mood, outbox>>

thinking(p) ==
  /\ mood[p] = <<"thinking">> /\ outbox[p] = <<>>
  /\ Becomes(p, <<"hungry">>, <<<<"take", left(p)>>, <<"take", right(p)>>>>)
  /\ UNCHANGED <<answers, requests, user>>

Got(p, m) ==
  /\ outbox[p] = <<>> /\ answers[p] # <<>> /\ mood[p] = m
  /\ answers' = [answers EXCEPT ![p] = Tail(@)]
  /\ UNCHANGED <<requests, user>>
Answer(p) == Head(answers[p])[1]
From(p) == Head(answers[p])[2]

hungry(p) ==
  /\ Got(p, <<"hungry">>)
  /\ \/ Answer(p) = "taken" /\ Becomes(p, <<"waiting_for", OtherOf(p, From(p))>>, <<>>)
     \/ Answer(p) = "busy" /\ Becomes(p, <<"denied">>, <<>>)

(* A mutant of denied: the chopstick that was taken is not put back.       *)
DeniedKeeps(p) == Got(p, <<"denied">>) /\ Becomes(p, <<"thinking">>, <<>>)

denied(p) ==
  /\ Got(p, <<"denied">>)
  /\ Becomes(p, <<"thinking">>, IF Answer(p) = "taken" THEN <<<<"put", From(p)>>>> ELSE <<>>)

waiting_for(p) == \E what \in Round :
  /\ Got(p, <<"waiting_for", what>>) /\ From(p) = what
  /\ \/ Answer(p) = "taken" /\ Becomes(p, <<"eating">>, <<>>)
     \/ Answer(p) = "busy" /\ Becomes(p, <<"thinking">>, <<<<"put", OtherOf(p, what)>>>>)

eating(p) ==
  /\ mood[p] = <<"eating">>
  /\ Becomes(p, <<"thinking">>, <<<<"put", left(p)>>, <<"put", right(p)>>>>)
  /\ UNCHANGED <<answers, requests, user>>

Philosopher(p) == SendNext(p) \/ thinking(p) \/ hungry(p) \/ denied(p) \/ waiting_for(p) \/ eating(p)

DineNext == \E i \in Round : Philosopher(i) \/ chopstick(i)
DineSpec == DineInit /\ [][DineNext]_dineVars

-----------------------------------------------------------------------------
(* A philosopher eats with two chopsticks that nobody else has: neighbours *)
(* never eat at the same time (dining_philosophers.cpp:22, 140).           *)
EatsWithBoth == \A p \in Round :
  mood[p] = <<"eating">> => \A q \in Round \ {p} :
    mood[q] = <<"eating">> => {left(p), right(p)} \cap {left(q), right(q)} = {}

(* No message is left over: a put meets the chopstick that awaits it, and  *)
(* an answer meets a philosopher that has a handler for it                 *)
(* (dining_philosophers.cpp:22, 89).                                       *)
NothingUnmatched == \A i \in Round :
  /\ requests[i] # <<>> /\ Head(requests[i])[1] = "put" => user[i] = Head(requests[i])[2]
  /\ answers[i] # <<>> =>
       \/ mood[i] \in {<<"hungry">>, <<"denied">>} \/ mood[i] = <<"waiting_for", From(i)>>

(* No chopstick is forgotten: while one awaits the put of p, p eats, waits *)
(* for the other one, or an answer or a put is on its way                  *)
(* (dining_philosophers.cpp:101).                                          *)
ChopstickAccounted == \A c, p \in Round : user[c] = p =>
  \/ mood[p] = <<"eating">> \/ mood[p] = <<"waiting_for", OtherOf(p, c)>>
  \/ \E i \in DOMAIN answers[p] : answers[p][i] = <<"taken", c>>
  \/ \E i \in DOMAIN outbox[p] : outbox[p][i] = <<"put", c>>
  \/ \E i \in DOMAIN requests[c] : requests[c][i] = <<"put", p>>

(* No chopstick is shared, forgotten or put back unexpectedly              *)
(* (dining_philosophers.cpp:22, 89, 140).                                  *)
ChopsticksSound == EatsWithBoth /\ NothingUnmatched /\ ChopstickAccounted
=============================================================================
