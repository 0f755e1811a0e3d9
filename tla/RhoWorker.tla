----------------------------- MODULE RhoWorker ------------------------------
(***************************************************************************)
(* One worker actor of vslab/src/main.cpp (function worker) running the    *)
(* Pollard rho method, with the mailbox it reads and an environment that   *)
(* puts calculate messages into it at any time (the worker group).  A      *)
(* handler runs to its end before the next message is taken, but messages  *)
(* arrive while it runs, so the loop over MAX_ITERATIONS is one step per   *)
(* iteration.  Random numbers are nondeterministic choices; they also      *)
(* cover what the unsynchronised sharing of random_gen may return.         *)
(***************************************************************************)
EXTENDS Factoring, Sequences

CONSTANTS Inputs,         \* numbers that calculate messages carry
          MaxIterations,  \* MAX_ITERATIONS
          IntModulus,     \* 2^512: int512_t arithmetic is unchecked and wraps
          MailboxBound    \* the environment fills the mailbox up to this length

ASSUME InputsAssumption == Inputs \subseteq Nat
ASSUME IterationsAssumption == MaxIterations \in Nat \ {0}
(* A mailbox never holds 2^512 messages.                                   *)
ASSUME BoundAssumption == /\ MailboxBound \in Nat /\ IntModulus \in Nat
                          /\ MailboxBound + 1 < IntModulus

VARIABLES state_id,   \* argument of the current behaviour
          mailbox,    \* messages waiting, oldest first
          loop,       \* locals of a running continue handler, or Idle
          alive,      \* FALSE once a handler has thrown
          current,    \* history: number of the last calculate handled, or 0
          out         \* history: last message sent to the worker group

vars == <<state_id, mailbox, loop, alive, current, out>>

Idle == [at |-> "idle"]
Nothing == [op |-> "none"]

(* A mutant of Succ: become() keeps the state.                             *)
SuccSame(s) == s

(* state_id + 1                                                            *)
Succ(s) == (s + 1) % IntModulus

(* Mutant of Limit: the limit grows with the number.                       *)
LimitOfN(n) == n

(* pow(n, 1/4): the exponent is the integer quotient 0.                    *)
Limit(n) == 1

Calculate(n) == [op |-> "calculate", n |-> n]
Continue(n, a, cycles, state) ==
  [op |-> "continue", n |-> n, a |-> a, cycles |-> cycles, state |-> state]

(* The messages to the group carry, for the properties only, the number n  *)
(* they were computed from.                                                *)
FactorMsg(n, p, cycles) == [op |-> "factor", n |-> n, p |-> p, cycles |-> cycles]
NofactorMsg(n, cycles) == [op |-> "nofactor", n |-> n, cycles |-> cycles]

Head1 == mailbox[1]
Ready(op) == alive /\ loop = Idle /\ mailbox # <<>> /\ Head1.op = op

Init ==
  /\ state_id = 0
  /\ mailbox = <<>>
  /\ loop = Idle
  /\ alive = TRUE
  /\ current = 0
  /\ out = Nothing

(***************************************************************************)
(* A calculate message arrives.                                            *)
(***************************************************************************)
Receive(n) ==
  /\ alive
  /\ Len(mailbox) < MailboxBound
  /\ mailbox' = Append(mailbox, Calculate(n))
  /\ UNCHANGED <<state_id, loop, alive, current, out>>

(***************************************************************************)
(* on(atom("calculate")): draw a, send the first continuation of the next  *)
(* state, become that state.                                               *)
(***************************************************************************)
HandleCalculate ==
  /\ Ready("calculate")
  /\ Head1.n > 0
  /\ \E a \in 1..Head1.n :
       mailbox' = Append(Tail(mailbox), Continue(Head1.n, a, 0, Succ(state_id)))
  /\ state_id' = Succ(state_id)
  /\ current' = Head1.n
  /\ UNCHANGED <<loop, alive, out>>

(* The same handler for n = 0: random_gen() % 0 throws, and an actor that  *)
(* throws exits.                                                           *)
HandleCalculateZero ==
  /\ Ready("calculate")
  /\ Head1.n = 0
  /\ alive' = FALSE
  /\ mailbox' = <<>>
  /\ UNCHANGED <<state_id, loop, current, out>>

(***************************************************************************)
(* on(atom("continue")): return at once if the message belongs to an       *)
(* earlier state, else draw x and enter the loop.                          *)
(***************************************************************************)
HandleObsolete ==
  /\ Ready("continue")
  /\ Head1.state # state_id
  /\ mailbox' = Tail(mailbox)
  /\ UNCHANGED <<state_id, loop, alive, current, out>>

(* Mutant of HandleContinue: the state of the message is not compared.     *)
HandleContinueUnchecked ==
  /\ Ready("continue")
  /\ \E x \in 1..Head1.n :
       loop' = [at |-> "loop", n |-> Head1.n, a |-> Head1.a,
                cycles |-> Head1.cycles, x |-> x, y |-> x, i |-> 0]
  /\ mailbox' = Tail(mailbox)
  /\ UNCHANGED <<state_id, alive, current, out>>

HandleContinue ==
  /\ Ready("continue")
  /\ Head1.state = state_id
  /\ \E x \in 1..Head1.n :
       loop' = [at |-> "loop", n |-> Head1.n, a |-> Head1.a,
                cycles |-> Head1.cycles, x |-> x, y |-> x, i |-> 0]
  /\ mailbox' = Tail(mailbox)
  /\ UNCHANGED <<state_id, alive, current, out>>

(***************************************************************************)
(* One iteration of the for loop.  f is x*x + a in int512_t, then % n.     *)
(***************************************************************************)
f(v) == ((v * v + loop.a) % IntModulus) % loop.n
NextX == f(loop.x)
NextY == f(f(loop.y))
Distance == LET x == NextX
                y == NextY
            IN  (IF y > x THEN y - x ELSE x - y) % loop.n
P == LET d == Distance IN Gcd(d, loop.n)

(* Mutant of FoundFactor: every p other than 1 is reported.                *)
FoundAnything ==
  /\ loop # Idle
  /\ P # 1
  /\ out' = FactorMsg(loop.n, P, loop.cycles + loop.i)
  /\ loop' = Idle
  /\ UNCHANGED <<state_id, mailbox, alive, current>>

(* p != 1 and p is a proper factor or a prime: report it.                  *)
FoundFactor ==
  /\ loop # Idle
  /\ P # 1
  /\ P # loop.n \/ is_probable_prime(P)
  /\ out' = FactorMsg(loop.n, P, loop.cycles + loop.i)
  /\ loop' = Idle
  /\ UNCHANGED <<state_id, mailbox, alive, current>>

(* p = n and not prime: try again with the same a.                         *)
Retry ==
  /\ loop # Idle
  /\ P # 1
  /\ P = loop.n /\ ~is_probable_prime(P)
  /\ mailbox' = Append(mailbox,
                       Continue(loop.n, loop.a, loop.cycles + loop.i, state_id))
  /\ loop' = Idle
  /\ UNCHANGED <<state_id, alive, current, out>>

(* p = 1 and cycles > limit: report failure, start over with a new a.      *)
GiveUp ==
  /\ loop # Idle
  /\ P = 1
  /\ loop.cycles > Limit(loop.n)
  /\ out' = NofactorMsg(loop.n, loop.cycles)
  /\ mailbox' = Append(mailbox, Calculate(loop.n))
  /\ loop' = Idle
  /\ UNCHANGED <<state_id, alive, current>>

(* p = 1 otherwise: next iteration, or after the last one a continuation.  *)
Iterate ==
  /\ loop # Idle
  /\ P = 1
  /\ loop.cycles <= Limit(loop.n)
  /\ \/ /\ loop.i + 1 < MaxIterations
        /\ loop' = [loop EXCEPT !.x = NextX, !.y = NextY, !.i = @ + 1]
        /\ UNCHANGED mailbox
     \/ /\ loop.i + 1 = MaxIterations
        /\ loop' = Idle
        /\ mailbox' = Append(mailbox, Continue(loop.n, loop.a,
                               loop.cycles + MaxIterations, state_id))
  /\ UNCHANGED <<state_id, alive, current, out>>

Step == \/ HandleCalculate \/ HandleCalculateZero
        \/ HandleObsolete \/ HandleContinue
        \/ FoundFactor \/ Retry \/ GiveUp \/ Iterate

Next == (\E n \in Inputs : Receive(n)) \/ Step

Spec == Init /\ [][Next]_vars

-----------------------------------------------------------------------------
Cycles == 0..(MaxIterations + 1)
States == 0..(IntModulus - 1)
Message ==
  [op : {"calculate"}, n : Inputs] \cup
  [op : {"continue"}, n : Inputs \ {0}, a : Nat, cycles : Cycles, state : States]
Loop ==
  [at : {"loop"}, n : Inputs \ {0}, a : Nat, cycles : Cycles,
   x : Nat, y : Nat, i : 0..(MaxIterations - 1)]
Report ==
  [op : {"factor"}, n : Inputs \ {0}, p : Nat, cycles : Cycles] \cup
  [op : {"nofactor"}, n : Inputs \ {0}, cycles : Cycles]

(* The state has its type; in particular no continuation is ever made for  *)
(* n = 0, on which % would throw, and state_id wraps.                      *)
TypeOK ==
  /\ state_id \in States
  /\ mailbox \in Seq(Message)
  /\ Len(mailbox) <= MailboxBound + 1
  /\ loop \in Loop \cup {Idle}
  /\ alive \in BOOLEAN
  /\ current \in Inputs \cup {0}
  /\ out \in Report \cup {Nothing}

(* Position i of the mailbox holds a continuation of the current state.    *)
Live(i) == mailbox[i].op = "continue" /\ mailbox[i].state = state_id

(* The worker never runs two computations: at most one continuation that   *)
(* it would accept is waiting, none while a continue handler runs.  The    *)
(* state_id test of main.cpp:112 must discard every other one, however     *)
(* many calculate messages restarted the worker in between.                *)
SingleContinuation ==
  /\ \A i, j \in 1..Len(mailbox) : Live(i) /\ Live(j) => i = j
  /\ loop # Idle => \A i \in 1..Len(mailbox) : ~Live(i)

(* What the worker computes is the number of the last calculate message it *)
(* took: a restarted worker never goes on with the number it was given     *)
(* before (main.cpp:113, "message is obsolete").                           *)
WorksOnCurrent ==
  /\ loop # Idle => loop.n = current
  /\ \A i \in 1..Len(mailbox) : Live(i) => mailbox[i].n = current

(* A factor message carries a divisor of the number being computed that is *)
(* not 1, and the number itself only if it is prime (main.cpp:140-143),    *)
(* whatever a and x were drawn and even when x*x + a has wrapped.          *)
FactorSound ==
  out.op = "factor" =>
    /\ out.p # 1
    /\ Divides(out.p, out.n)
    /\ out.p = out.n => IsPrime(out.n)

(* However often a computation is continued or retried, the cycles it      *)
(* reports never pass MAX_ITERATIONS + 1: the test of main.cpp:149 ends    *)
(* every second round after one iteration.                                 *)
CyclesBounded ==
  /\ out.op \in {"factor", "nofactor"} => out.cycles <= MaxIterations + 1
  /\ loop # Idle => loop.cycles + loop.i <= MaxIterations + 1
=============================================================================
