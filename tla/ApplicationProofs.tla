-------------------------- MODULE ApplicationProofs -------------------------
(***************************************************************************)
(* Proofs about two programs on top of the runtime: the worker of vslab,   *)
(* for every set of inputs, every iteration bound and every mailbox        *)
(* shorter than the modulus of state_id; and the client of                 *)
(* distributed_calculator, for any hosts and any number of failures,       *)
(* restarts and rebinds.                                                   *)
(***************************************************************************)
EXTENDS RhoWorker, DistributedCalculator, SequenceTheorems, WellFoundedInduction, TLAPS

USE SMT, Zenon, Z3

(* A non-empty set of natural numbers has a least element.                 *)
LEMMA LeastElement ==
  ASSUME NEW S \in SUBSET Nat, S # {}
  PROVE  \E m \in S : \A l \in S : m <= l
<1> DEFINE R == OpToRel(<, Nat)
<1>1. PICK m \in S : \A l \in S : ~(<<l, m>> \in R)
  <2>1. IsWellFoundedOn(R, Nat)
    BY NatLessThanWellFounded
  <2>. HIDE DEF R
  <2>2. QED
    BY <2>1, WFMin
<1>2. \A l \in S : m <= l
  <2>1. SUFFICES ASSUME NEW l \in S, l < m PROVE FALSE
    OBVIOUS
  <2>2. <<l, m>> \in R
    BY <2>1 DEF OpToRel
  <2>3. QED
    BY <1>1, <2>2
<1>3. QED
  BY <1>2

(* A non-empty set of numbers up to n has a greatest element.              *)
LEMMA GreatestElement ==
  ASSUME NEW n \in Nat, NEW S \in SUBSET (0..n), S # {}
  PROVE  \E g \in S : \A h \in S : h <= g
<1> DEFINE T == {t \in 0..n : n - t \in S}
<1>1. T \in SUBSET Nat /\ T # {}
  <2>1. PICK s \in S : TRUE
    OBVIOUS
  <2>2. n - s \in T
    OBVIOUS
  <2>3. QED
    BY <2>2
<1>2. PICK m \in T : \A l \in T : m <= l
  <2>. HIDE DEF T
  <2>. QED BY <1>1, LeastElement
<1>3. PICK g \in S : m = n - g
  OBVIOUS
<1>4. ASSUME NEW h \in S PROVE h <= g
  <2>1. n - h \in T
    OBVIOUS
  <2>2. m <= n - h
    BY <1>2, <2>1
  <2>3. QED
    BY <1>3, <2>2
<1>5. QED
  BY <1>4

(* The gcd of Boost divides both arguments, for every n > 0 and d.         *)
LEMMA GcdDivides ==
  ASSUME NEW n \in Nat \ {0}, NEW d \in Nat
  PROVE  /\ Gcd(d, n) \in 1..n
         /\ Divides(Gcd(d, n), n)
         /\ Divides(Gcd(d, n), d)
<1> DEFINE C == CommonDivisors(d, n)
<1>1. 1 \in C
  BY DEF CommonDivisors, Divisors, Divides
<1>2. C \in SUBSET (0..n)
  BY DEF CommonDivisors, Divisors
<1>3. \E g \in C : \A h \in C : h <= g
  <2>. HIDE DEF C
  <2>. QED BY <1>1, <1>2, GreatestElement
<1>4. Gcd(d, n) \in C
  BY <1>3 DEF Gcd
<1>5. QED
  BY <1>4 DEF CommonDivisors, Divisors

-----------------------------------------------------------------------------
(* The worker.                                                             *)
(* How often the worker changed state between s and id, modulo wrapping.   *)
Age(s, id) == IF s <= id THEN id - s ELSE id + IntModulus - s

(* A continuation that is g states old has g messages behind it: each of   *)
(* the g calculate messages that made it older put a continuation there.   *)
(* So its age stays below the mailbox length and cannot wrap to 0.         *)
AgeInv ==
  \A i \in 1..Len(mailbox) :
    mailbox[i].op = "continue" => Age(mailbox[i].state, state_id) <= Len(mailbox) - i

(* While a handler runs there is room for the message it ends with, and    *)
(* once cycles has passed the limit it never gets past iteration 0.        *)
LoopInv ==
  loop # Idle => /\ Len(mailbox) <= MailboxBound
                 /\ loop.cycles > 1 => loop.i = 0

IInv == /\ TypeOK /\ AgeInv /\ LoopInv
        /\ SingleContinuation /\ WorksOnCurrent /\ FactorSound

LEMMA SuccValue ==
  ASSUME NEW s \in States
  PROVE  Succ(s) = IF s + 1 = IntModulus THEN 0 ELSE s + 1
<1>1. CASE s + 1 = IntModulus
  BY <1>1, BoundAssumption DEF Succ, States
<1>2. CASE s + 1 # IntModulus
  BY <1>2, BoundAssumption DEF Succ, States
<1>3. QED
  BY <1>1, <1>2

LEMMA PDivides ==
  ASSUME TypeOK, loop # Idle
  PROVE  /\ P \in 1..loop.n /\ Divides(P, loop.n)
         /\ NextX \in Nat /\ NextY \in Nat
<1>1. /\ loop.n \in Nat \ {0} /\ loop.a \in Nat /\ loop.x \in Nat /\ loop.y \in Nat
      /\ IntModulus \in Nat \ {0}
  <2>1. loop \in Loop
    BY DEF TypeOK
  <2>2. loop.n \in Inputs \ {0} /\ loop.a \in Nat /\ loop.x \in Nat /\ loop.y \in Nat
    BY <2>1 DEF Loop
  <2>3. loop.n \in Nat \ {0}
    BY <2>2, InputsAssumption
  <2>4. IntModulus \in Nat \ {0}
    BY BoundAssumption
  <2>5. QED
    BY <2>2, <2>3, <2>4
<1>2. \A v \in Nat : f(v) \in Nat
  <2>1. SUFFICES ASSUME NEW v \in Nat PROVE f(v) \in Nat
    OBVIOUS
  <2>2. v * v + loop.a \in Nat
    BY <1>1
  <2>3. (v * v + loop.a) % IntModulus \in Nat
    BY <1>1, <2>2
  <2>4. QED
    BY <1>1, <2>3 DEF f
<1>3. NextX \in Nat /\ NextY \in Nat
  BY <1>1, <1>2 DEF NextX, NextY
<1>4. Distance \in Nat
  BY <1>1, <1>3 DEF Distance
<1>5. QED
  BY <1>1, <1>3, <1>4, GcdDivides DEF P

(* The message taken next, and what Tail and Append do to the mailbox.     *)
LEMMA MailboxFacts ==
  ASSUME TypeOK
  PROVE  /\ Len(mailbox) \in Nat
         /\ \A i \in 1..Len(mailbox) : mailbox[i] \in Message
         /\ \A m : /\ Len(Append(mailbox, m)) = Len(mailbox) + 1
                  /\ \A i \in 1..Len(mailbox) : Append(mailbox, m)[i] = mailbox[i]
                  /\ Append(mailbox, m)[Len(mailbox) + 1] = m
         /\ \A m \in Message : Append(mailbox, m) \in Seq(Message)
         /\ mailbox # <<>> =>
              /\ Len(mailbox) >= 1
              /\ Tail(mailbox) \in Seq(Message)
              /\ Len(Tail(mailbox)) = Len(mailbox) - 1
              /\ \A i \in 1..(Len(mailbox) - 1) : Tail(mailbox)[i] = mailbox[i + 1]
<1>1. mailbox \in Seq(Message)
  BY DEF TypeOK
<1>. HIDE DEF Message
<1>2. QED
  BY <1>1

LEMMA MessageFacts ==
  ASSUME NEW m \in Message
  PROVE  /\ m.op \in {"calculate", "continue"}
         /\ m.n \in Inputs /\ m.n \in Nat
         /\ m.op = "continue" => /\ m.n \in Inputs \ {0} /\ m.a \in Nat
                                 /\ m.cycles \in Cycles /\ m.state \in States
<1>1. CASE m \in [op : {"calculate"}, n : Inputs]
  BY <1>1, InputsAssumption
<1>2. CASE m \in [op : {"continue"}, n : Inputs \ {0}, a : Nat, cycles : Cycles,
                  state : States]
  BY <1>2, InputsAssumption
<1>3. QED
  BY <1>1, <1>2 DEF Message

LEMMA LoopFacts ==
  ASSUME TypeOK, loop # Idle
  PROVE  /\ loop \in Loop
         /\ loop.n \in Inputs \ {0} /\ loop.a \in Nat /\ loop.cycles \in Cycles
         /\ loop.x \in Nat /\ loop.y \in Nat /\ loop.i \in 0..(MaxIterations - 1)
<1>1. loop \in Loop
  BY DEF TypeOK
<1>2. QED
  BY <1>1 DEF Loop

LEMMA SuccInStates ==
  ASSUME NEW s \in States
  PROVE  Succ(s) \in States
BY SuccValue, BoundAssumption DEF States

-----------------------------------------------------------------------------
(* The type invariant, with the fact about cycles that keeps them bounded. *)
LEMMA TypeStep ==
  ASSUME TypeOK, LoopInv, [Next]_vars
  PROVE  TypeOK' /\ LoopInv'
<1> USE DEF Ready, Head1
<1>0. MaxIterations \in Nat \ {0} /\ MailboxBound \in Nat /\ 0 \in States
  BY IterationsAssumption, BoundAssumption DEF States
<1>1. ASSUME NEW n \in Inputs, Receive(n) PROVE TypeOK' /\ LoopInv'
  <2>1. Calculate(n) \in Message
    BY DEF Calculate, Message
  <2>2. QED
    BY <1>0, <1>1, <2>1, MailboxFacts DEF Receive, TypeOK, LoopInv
<1>2. CASE HandleCalculate
  <2>1. mailbox[1] \in Message
    BY <1>2, MailboxFacts DEF HandleCalculate
  <2>2. PICK a \in 1..mailbox[1].n :
          mailbox' = Append(Tail(mailbox), Continue(mailbox[1].n, a, 0, Succ(state_id)))
    BY <1>2 DEF HandleCalculate
  <2>3. Continue(mailbox[1].n, a, 0, Succ(state_id)) \in Message
    <3>1. Succ(state_id) \in States
      BY SuccInStates DEF TypeOK
    <3>2. mailbox[1].n \in Inputs \ {0} /\ a \in Nat
      BY <1>2, <2>1, MessageFacts DEF HandleCalculate
    <3>3. 0 \in Cycles
      BY <1>0 DEF Cycles
    <3>4. QED
      BY <3>1, <3>2, <3>3 DEF Continue, Message
  <2>4. mailbox' \in Seq(Message) /\ Len(mailbox') <= MailboxBound + 1
    <3>1. /\ Tail(mailbox) \in Seq(Message) /\ Len(Tail(mailbox)) = Len(mailbox) - 1
          /\ Len(mailbox) \in Nat /\ Len(mailbox) <= MailboxBound + 1
      BY <1>2, MailboxFacts DEF HandleCalculate, TypeOK
    <3>. HIDE DEF Message
    <3>2. QED
      BY <3>1, <2>2, <2>3
  <2>5. current' \in Inputs
    BY <1>2, <2>1, MessageFacts DEF HandleCalculate
  <2>6. QED
    BY <1>2, <2>4, <2>5, SuccInStates DEF HandleCalculate, TypeOK, LoopInv
<1>3. CASE HandleCalculateZero
  <2>1. mailbox' \in Seq(Message) /\ Len(mailbox') = 0
    BY <1>3 DEF HandleCalculateZero
  <2>2. alive' \in BOOLEAN
    BY <1>3 DEF HandleCalculateZero
  <2>3. QED
    BY <1>0, <1>3, <2>1, <2>2 DEF HandleCalculateZero, TypeOK, LoopInv
<1>4. CASE HandleObsolete
  BY <1>0, <1>4, MailboxFacts DEF HandleObsolete, TypeOK, LoopInv
<1>5. CASE HandleContinue
  <2>1. mailbox[1] \in Message /\ mailbox[1].op = "continue"
    BY <1>5, MailboxFacts DEF HandleContinue
  <2>2. PICK x \in 1..mailbox[1].n :
          loop' = [at |-> "loop", n |-> mailbox[1].n, a |-> mailbox[1].a,
                   cycles |-> mailbox[1].cycles, x |-> x, y |-> x, i |-> 0]
    BY <1>5 DEF HandleContinue
  <2>3. loop' \in Loop /\ loop'.i = 0
    <3>1. 0 \in 0..(MaxIterations - 1) /\ x \in Nat
      BY <1>0, <2>1, MessageFacts
    <3>2. QED
      BY <2>1, <2>2, <3>1, MessageFacts DEF Loop
  <2>4. QED
    BY <1>0, <1>5, <2>3, MailboxFacts DEF HandleContinue, TypeOK, LoopInv
<1>6. CASE FoundFactor
  <2>1. P \in Nat /\ loop.n \in Inputs \ {0}
    BY <1>6, PDivides, LoopFacts, InputsAssumption DEF FoundFactor
  <2>2. loop.cycles + loop.i \in Cycles
    BY <1>0, <1>6, LoopFacts DEF FoundFactor, LoopInv, Cycles
  <2>3. out' \in Report
    BY <1>6, <2>1, <2>2 DEF FoundFactor, FactorMsg, Report
  <2>4. QED
    BY <1>6, <2>3 DEF FoundFactor, TypeOK, LoopInv
<1>7. CASE Retry
  <2>1. loop.cycles + loop.i \in Cycles
    BY <1>0, <1>7, LoopFacts DEF Retry, LoopInv, Cycles
  <2>2. Continue(loop.n, loop.a, loop.cycles + loop.i, state_id) \in Message
    BY <1>7, <2>1, LoopFacts DEF Retry, Continue, Message, TypeOK
  <2>3. QED
    BY <1>0, <1>7, <2>2, MailboxFacts DEF Retry, TypeOK, LoopInv
<1>8. CASE GiveUp
  <2>1. Calculate(loop.n) \in Message
    BY <1>8, LoopFacts DEF GiveUp, Calculate, Message
  <2>2. out' \in Report
    BY <1>8, LoopFacts DEF GiveUp, NofactorMsg, Report
  <2>3. QED
    BY <1>0, <1>8, <2>1, <2>2, MailboxFacts DEF GiveUp, TypeOK, LoopInv
<1>9. CASE Iterate
  <2>1. CASE /\ loop.i + 1 < MaxIterations
             /\ loop' = [loop EXCEPT !.x = NextX, !.y = NextY, !.i = @ + 1]
             /\ UNCHANGED mailbox
    <3>1. NextX \in Nat /\ NextY \in Nat
      BY <1>9, PDivides DEF Iterate
    <3>2. loop.i + 1 \in 0..(MaxIterations - 1)
      BY <1>0, <1>9, <2>1, LoopFacts DEF Iterate
    <3>3. loop' \in Loop /\ loop'.cycles <= 1 /\ loop'.cycles \in Nat
      <4>1. loop \in Loop /\ loop.cycles <= 1 /\ loop.cycles \in Nat
        BY <1>0, <1>9, LoopFacts DEF Iterate, Limit, Cycles
      <4>2. loop'.cycles = loop.cycles
        BY <2>1, <4>1 DEF Loop
      <4>3. loop' \in Loop
        BY <2>1, <4>1, <3>1, <3>2 DEF Loop
      <4>4. QED
        BY <4>1, <4>2, <4>3
    <3>4. QED
      BY <1>9, <2>1, <3>3 DEF Iterate, TypeOK, LoopInv
  <2>2. CASE /\ loop' = Idle
             /\ mailbox' = Append(mailbox, Continue(loop.n, loop.a,
                                    loop.cycles + MaxIterations, state_id))
    <3>1. loop.cycles + MaxIterations \in Cycles
      BY <1>0, <1>9, LoopFacts DEF Iterate, Limit, Cycles
    <3>2. Continue(loop.n, loop.a, loop.cycles + MaxIterations, state_id) \in Message
      BY <1>9, <3>1, LoopFacts DEF Iterate, Continue, Message, TypeOK
    <3>3. QED
      BY <1>0, <1>9, <2>2, <3>2, MailboxFacts DEF Iterate, TypeOK, LoopInv
  <2>3. QED
    BY <1>9, <2>1, <2>2 DEF Iterate
<1>10. CASE UNCHANGED vars
  BY <1>10 DEF vars, TypeOK, LoopInv
<1>11. QED
  BY <1>1, <1>2, <1>3, <1>4, <1>5, <1>6, <1>7, <1>8, <1>9, <1>10 DEF Next, Step

-----------------------------------------------------------------------------
(* The protocol invariants: ages, the single continuation, its number.     *)
ProtocolInv == AgeInv /\ SingleContinuation /\ WorksOnCurrent

(* The age of a waiting continuation is a number, 0 only if it is live.    *)
LEMMA AgeFacts ==
  ASSUME TypeOK, NEW i \in 1..Len(mailbox), mailbox[i].op = "continue"
  PROVE  /\ mailbox[i].state \in States
         /\ Age(mailbox[i].state, state_id) \in 0..(IntModulus - 1)
         /\ Age(mailbox[i].state, state_id) = 0 <=> Live(i)
<1>1. mailbox[i].state \in States
  BY MailboxFacts, MessageFacts
<1>2. state_id \in States /\ IntModulus \in Nat
  BY BoundAssumption DEF TypeOK
<1>3. QED
  BY <1>1, <1>2 DEF Age, Live, States

(* Appending a message keeps the invariants if it is no continuation, or   *)
(* is the one a running handler ends with.                                 *)
LEMMA AppendStep ==
  ASSUME TypeOK, ProtocolInv, NEW m,
         mailbox' = Append(mailbox, m), state_id' = state_id, current' = current,
         \/ m.op # "continue" /\ (loop' = loop \/ loop' = Idle)
         \/ m.state = state_id /\ m.n = loop.n /\ loop # Idle /\ loop' = Idle
  PROVE  ProtocolInv'
<1>0. PICK k \in Nat : k = Len(mailbox) + 1
  BY MailboxFacts
<1>1. Len(mailbox') = k /\ Len(mailbox) \in Nat
  BY <1>0, MailboxFacts
<1>2. \A i \in 1..Len(mailbox) : mailbox'[i] = mailbox[i]
  BY MailboxFacts
<1>3. mailbox'[k] = m
  BY <1>0, MailboxFacts
<1>4. \A i \in 1..Len(mailbox') : i \in 1..Len(mailbox) \/ i = k
  BY <1>0, <1>1
<1>5. \A i \in 1..Len(mailbox) : Live(i)' <=> Live(i)
  BY <1>2 DEF Live
<1>6. AgeInv'
  <2>1. SUFFICES ASSUME NEW i \in 1..Len(mailbox'), mailbox'[i].op = "continue"
                 PROVE  Age(mailbox'[i].state, state_id') <= Len(mailbox') - i
    BY DEF AgeInv
  <2>2. CASE i \in 1..Len(mailbox)
    <3>1. Age(mailbox'[i].state, state_id') = Age(mailbox[i].state, state_id)
      BY <1>2, <2>2 DEF Age
    <3>2. Age(mailbox[i].state, state_id) <= Len(mailbox) - i
      BY <1>2, <2>1, <2>2 DEF ProtocolInv, AgeInv
    <3>3. Age(mailbox[i].state, state_id) \in 0..(IntModulus - 1)
      BY <1>2, <2>1, <2>2, AgeFacts
    <3>4. QED
      BY <1>0, <1>1, <2>2, <3>1, <3>2, <3>3, BoundAssumption
  <2>3. CASE i = k
    <3>1. m.state = state_id
      BY <1>3, <2>1, <2>3
    <3>2. Age(mailbox'[i].state, state_id') = 0
      <4>1. state_id \in Nat
        BY BoundAssumption DEF TypeOK, States
      <4>2. QED
        BY <1>3, <2>3, <3>1, <4>1 DEF Age
    <3>3. QED
      BY <1>1, <2>3, <3>2
  <2>4. QED
    BY <1>4, <2>2, <2>3
<1>7. SingleContinuation'
  <2>1. CASE m.op # "continue"
    <3>1. ~Live(k)'
      BY <1>3, <2>1 DEF Live
    <3>2. QED
      BY <1>4, <1>5, <2>1, <3>1 DEF ProtocolInv, SingleContinuation
  <2>2. CASE loop # Idle /\ loop' = Idle
    BY <1>4, <1>5, <2>2 DEF ProtocolInv, SingleContinuation
  <2>3. QED
    BY <2>1, <2>2
<1>8. WorksOnCurrent'
  <2>1. loop' # Idle => loop'.n = current'
    BY DEF ProtocolInv, WorksOnCurrent
  <2>2. \A i \in 1..Len(mailbox) : Live(i)' => mailbox'[i].n = current'
    BY <1>2, <1>5 DEF ProtocolInv, WorksOnCurrent
  <2>3. Live(k)' => mailbox'[k].n = current'
    BY <1>3 DEF ProtocolInv, WorksOnCurrent, Live
  <2>4. QED
    BY <1>4, <2>1, <2>2, <2>3 DEF WorksOnCurrent
<1>9. QED
  BY <1>6, <1>7, <1>8 DEF ProtocolInv

(* Taking the first message keeps them, also when it is the live one and   *)
(* the worker starts computing its number.                                 *)
LEMMA TailStep ==
  ASSUME TypeOK, ProtocolInv, mailbox # <<>>, loop = Idle,
         mailbox' = Tail(mailbox), state_id' = state_id, current' = current,
         \/ loop' = loop
         \/ Live(1) /\ loop'.n = mailbox[1].n
  PROVE  ProtocolInv'
<1>1. /\ Len(mailbox') = Len(mailbox) - 1 /\ Len(mailbox) \in Nat /\ Len(mailbox) >= 1
      /\ \A i \in 1..Len(mailbox') : mailbox'[i] = mailbox[i + 1]
  BY MailboxFacts
<1>2. \A i \in 1..Len(mailbox') : i + 1 \in 1..Len(mailbox) /\ i + 1 # 1
  BY <1>1
<1>3. \A i \in 1..Len(mailbox') : Live(i)' <=> Live(i + 1)
  BY <1>1 DEF Live
<1>4. AgeInv'
  <2>1. SUFFICES ASSUME NEW i \in 1..Len(mailbox'), mailbox'[i].op = "continue"
                 PROVE  Age(mailbox'[i].state, state_id') <= Len(mailbox') - i
    BY DEF AgeInv
  <2>2. Age(mailbox'[i].state, state_id') = Age(mailbox[i + 1].state, state_id)
    BY <1>1 DEF Age
  <2>3. Age(mailbox[i + 1].state, state_id) <= Len(mailbox) - (i + 1)
    BY <1>1, <1>2, <2>1 DEF ProtocolInv, AgeInv
  <2>4. QED
    BY <1>1, <2>2, <2>3
<1>5. SingleContinuation'
  <2>1. ASSUME NEW i \in 1..Len(mailbox'), NEW j \in 1..Len(mailbox'), Live(i)', Live(j)'
        PROVE  i = j
    <3>1. i + 1 = j + 1
      BY <1>2, <1>3, <2>1 DEF ProtocolInv, SingleContinuation
    <3>2. QED
      BY <3>1
  <2>2. ASSUME loop' # Idle, NEW i \in 1..Len(mailbox'), Live(i)' PROVE FALSE
    <3>1. Live(1) /\ Live(i + 1) /\ 1 \in 1..Len(mailbox)
      BY <1>1, <1>3, <2>2
    <3>2. QED
      BY <1>2, <3>1 DEF ProtocolInv, SingleContinuation
  <2>3. QED
    BY <2>1, <2>2 DEF SingleContinuation
<1>6. WorksOnCurrent'
  BY <1>1, <1>2, <1>3 DEF ProtocolInv, WorksOnCurrent
<1>7. QED
  BY <1>4, <1>5, <1>6 DEF ProtocolInv

LEMMA AgeOfSucc ==
  ASSUME NEW s \in States, NEW id \in States, Age(s, id) < IntModulus - 1
  PROVE  Age(s, Succ(id)) = Age(s, id) + 1 /\ s # Succ(id)
<1>1. IntModulus \in Nat /\ IntModulus > 1 /\ s \in Nat /\ id \in Nat
      /\ s < IntModulus /\ id < IntModulus
  BY BoundAssumption DEF States
<1>2. CASE id + 1 = IntModulus
  BY <1>1, <1>2, SuccValue DEF Age
<1>3. CASE id + 1 # IntModulus
  BY <1>1, <1>3, SuccValue DEF Age
<1>4. QED
  BY <1>2, <1>3

(* A calculate message makes every waiting continuation one state older,   *)
(* none of them live, and puts the new live one at the end.                *)
LEMMA CalculateStep ==
  ASSUME TypeOK, ProtocolInv, HandleCalculate
  PROVE  ProtocolInv'
<1>0. /\ mailbox # <<>> /\ loop = Idle /\ loop' = Idle
      /\ state_id' = Succ(state_id) /\ current' = mailbox[1].n
  BY DEF HandleCalculate, Ready, Head1
<1>1. PICK a \in 1..mailbox[1].n :
        mailbox' = Append(Tail(mailbox), Continue(mailbox[1].n, a, 0, Succ(state_id)))
  BY DEF HandleCalculate, Head1
<1> DEFINE c == Continue(mailbox[1].n, a, 0, Succ(state_id))
<1>2. PICK k \in Nat : k = Len(mailbox)
  BY MailboxFacts
<1>3. /\ Len(mailbox') = k /\ k >= 1 /\ k <= MailboxBound + 1
      /\ \A i \in 1..(k - 1) : mailbox'[i] = mailbox[i + 1]
      /\ mailbox'[k] = c
  <2>1. /\ Tail(mailbox) \in Seq(Message) /\ Len(Tail(mailbox)) = k - 1 /\ k >= 1
        /\ \A i \in 1..(k - 1) : Tail(mailbox)[i] = mailbox[i + 1]
    BY <1>0, <1>2, MailboxFacts
  <2>. HIDE DEF c, Message
  <2>2. mailbox' = Append(Tail(mailbox), c)
    BY <1>1 DEF c
  <2>3. QED
    BY <1>2, <2>1, <2>2 DEF TypeOK
<1>4. c.op = "continue" /\ c.state = Succ(state_id) /\ c.n = mailbox[1].n
  BY DEF Continue
<1>. HIDE DEF c
<1>5. /\ state_id \in States /\ Succ(state_id) \in States
      /\ IntModulus \in Nat /\ MailboxBound \in Nat /\ MailboxBound + 1 < IntModulus
  BY SuccInStates, BoundAssumption DEF TypeOK
<1>6. ASSUME NEW i \in 1..(k - 1), mailbox'[i].op = "continue"
      PROVE  /\ Age(mailbox'[i].state, state_id') <= k - i
             /\ mailbox'[i].state # state_id'
  <2>1. i + 1 \in 1..Len(mailbox) /\ mailbox[i + 1].op = "continue"
    BY <1>2, <1>3, <1>6
  <2>2. /\ mailbox[i + 1].state \in States
        /\ Age(mailbox[i + 1].state, state_id) \in 0..(IntModulus - 1)
    BY <2>1, AgeFacts
  <2>3. Age(mailbox[i + 1].state, state_id) <= k - (i + 1)
    BY <1>2, <2>1 DEF ProtocolInv, AgeInv
  <2>4. /\ Age(mailbox[i + 1].state, Succ(state_id))
              = Age(mailbox[i + 1].state, state_id) + 1
        /\ mailbox[i + 1].state # Succ(state_id)
    <3>1. Age(mailbox[i + 1].state, state_id) < IntModulus - 1
      BY <1>3, <1>5, <2>2, <2>3
    <3>2. QED
      BY <1>5, <2>2, <3>1, AgeOfSucc
  <2>5. QED
    BY <1>0, <1>3, <2>2, <2>3, <2>4
<1>7. \A i \in 1..Len(mailbox') : i \in 1..(k - 1) \/ i = k
  BY <1>3
<1>8. \A i \in 1..Len(mailbox') : Live(i)' => i = k
  BY <1>6, <1>7 DEF Live
<1>9. AgeInv'
  <2>1. Age(Succ(state_id), Succ(state_id)) = 0
    BY <1>5 DEF Age, States
  <2>2. QED
    BY <1>0, <1>3, <1>4, <1>6, <1>7, <2>1 DEF AgeInv
<1>10. SingleContinuation' /\ WorksOnCurrent'
  BY <1>0, <1>3, <1>4, <1>8 DEF SingleContinuation, WorksOnCurrent
<1>11. QED
  BY <1>9, <1>10 DEF ProtocolInv

LEMMA ProtocolStep ==
  ASSUME TypeOK, ProtocolInv, [Next]_vars
  PROVE  ProtocolInv'
<1> USE DEF Ready, Head1
<1>1. ASSUME NEW n \in Inputs, Receive(n) PROVE ProtocolInv'
  <2>1. Calculate(n) \in Message /\ Calculate(n).op # "continue"
    BY DEF Calculate, Message
  <2>2. QED
    BY <1>1, <2>1, AppendStep DEF Receive
<1>2. CASE HandleCalculate
  BY <1>2, CalculateStep
<1>3. CASE HandleCalculateZero
  <2>1. Len(mailbox') = 0 /\ loop' = Idle
    BY <1>3 DEF HandleCalculateZero
  <2>2. QED
    BY <2>1 DEF ProtocolInv, AgeInv, SingleContinuation, WorksOnCurrent
<1>4. CASE HandleObsolete
  BY <1>4, TailStep DEF HandleObsolete
<1>5. CASE HandleContinue
  <2>1. loop'.n = mailbox[1].n
    BY <1>5 DEF HandleContinue
  <2>2. Live(1)
    BY <1>5 DEF HandleContinue, Live
  <2>3. QED
    BY <1>5, <2>1, <2>2, TailStep DEF HandleContinue
<1>6. CASE FoundFactor
  BY <1>6 DEF FoundFactor, ProtocolInv, AgeInv, SingleContinuation, WorksOnCurrent, Live
<1>7. CASE Retry
  <2> DEFINE c == Continue(loop.n, loop.a, loop.cycles + loop.i, state_id)
  <2>1. c.state = state_id /\ c.n = loop.n
    BY DEF Continue
  <2>2. mailbox' = Append(mailbox, c)
    BY <1>7 DEF Retry
  <2>. HIDE DEF c
  <2>3. QED
    BY <1>7, <2>1, <2>2, AppendStep DEF Retry
<1>8. CASE GiveUp
  <2>1. Calculate(loop.n).op # "continue"
    BY DEF Calculate
  <2>2. QED
    BY <1>8, <2>1, AppendStep DEF GiveUp
<1>9. CASE Iterate
  <2>1. CASE /\ loop' = [loop EXCEPT !.x = NextX, !.y = NextY, !.i = @ + 1]
             /\ UNCHANGED mailbox
    <3>1. loop \in Loop
      BY <1>9, LoopFacts DEF Iterate
    <3>2. loop'.n = loop.n
      BY <2>1, <3>1 DEF Loop
    <3>3. QED
      BY <1>9, <2>1, <3>2 DEF Iterate, ProtocolInv, AgeInv, SingleContinuation,
                              WorksOnCurrent, Live
  <2>2. CASE /\ loop' = Idle
             /\ mailbox' = Append(mailbox, Continue(loop.n, loop.a,
                                    loop.cycles + MaxIterations, state_id))
    <3> DEFINE c == Continue(loop.n, loop.a, loop.cycles + MaxIterations, state_id)
    <3>1. c.state = state_id /\ c.n = loop.n
      BY DEF Continue
    <3>2. mailbox' = Append(mailbox, c)
      BY <2>2
    <3>. HIDE DEF c
    <3>3. QED
      BY <1>9, <2>2, <3>1, <3>2, AppendStep DEF Iterate
  <2>3. QED
    BY <1>9, <2>1, <2>2 DEF Iterate
<1>10. CASE UNCHANGED vars
  BY <1>10 DEF vars, ProtocolInv, AgeInv, SingleContinuation, WorksOnCurrent, Live
<1>11. QED
  BY <1>1, <1>2, <1>3, <1>4, <1>5, <1>6, <1>7, <1>8, <1>9, <1>10 DEF Next, Step

LEMMA FactorStep ==
  ASSUME TypeOK, FactorSound, [Next]_vars
  PROVE  FactorSound'
<1>1. CASE FoundFactor
  <2>1. out'.p = P /\ out'.n = loop.n
    BY <1>1 DEF FoundFactor, FactorMsg
  <2>2. P = loop.n => IsPrime(loop.n)
    BY <1>1 DEF FoundFactor, is_probable_prime
  <2>3. QED
    BY <1>1, <2>1, <2>2, PDivides DEF FoundFactor, FactorSound
<1>2. CASE GiveUp
  BY <1>2 DEF GiveUp, NofactorMsg, FactorSound
<1>3. CASE out' = out
  BY <1>3 DEF FactorSound
<1>4. QED
  BY <1>1, <1>2, <1>3 DEF Next, Step, Receive, HandleCalculate, HandleCalculateZero,
     HandleObsolete, HandleContinue, Retry, Iterate, vars

-----------------------------------------------------------------------------
LEMMA InitIInv == Init => IInv
<1> SUFFICES ASSUME Init PROVE IInv
  OBVIOUS
<1>1. 0 \in States /\ 0 <= MailboxBound + 1
  BY BoundAssumption DEF States
<1>2. mailbox \in Seq(Message) /\ Len(mailbox) = 0
  BY DEF Init
<1>3. TypeOK
  BY <1>1, <1>2 DEF Init, TypeOK
<1>4. QED
  BY <1>2, <1>3 DEF Init, IInv, AgeInv, LoopInv, SingleContinuation, WorksOnCurrent,
                    FactorSound, Nothing

LEMMA NextIInv == IInv /\ [Next]_vars => IInv'
BY TypeStep, ProtocolStep, FactorStep DEF IInv, ProtocolInv

LEMMA Invariance == Spec => []IInv
BY InitIInv, NextIInv, PTL DEF Spec

(* The worker never holds an ill-typed message, whatever numbers it is     *)
(* sent and however its counters wrap.                                     *)
THEOREM WorkerTypeCorrect == Spec => []TypeOK
BY Invariance, PTL DEF IInv

(* A worker runs at most one computation, for every mailbox length.        *)
THEOREM WorkerSingleContinuation == Spec => []SingleContinuation
BY Invariance, PTL DEF IInv

(* A worker only computes the number it was given last.                    *)
THEOREM WorkerWorksOnCurrent == Spec => []WorksOnCurrent
BY Invariance, PTL DEF IInv

(* What a worker reports is a factor, for every number and every width of  *)
(* the arithmetic.                                                         *)
THEOREM WorkerFactorSound == Spec => []FactorSound
BY Invariance, PTL DEF IInv

(* The cycle counts reported are bounded by MAX_ITERATIONS + 1.            *)
THEOREM WorkerCyclesBounded == Spec => []CyclesBounded
<1>1. IInv => CyclesBounded
  <2> SUFFICES ASSUME IInv PROVE CyclesBounded
    OBVIOUS
  <2>0. MaxIterations \in Nat \ {0}
    BY IterationsAssumption
  <2>1. loop # Idle => loop.cycles + loop.i <= MaxIterations + 1
    BY <2>0, LoopFacts DEF IInv, LoopInv, Cycles
  <2>2. out.op \in {"factor", "nofactor"} => out.cycles \in Cycles
    BY DEF IInv, TypeOK, Report, Nothing
  <2>3. QED
    BY <2>0, <2>1, <2>2 DEF CyclesBounded, Cycles
<1>2. QED
  BY <1>1, Invariance, PTL

-----------------------------------------------------------------------------
(* The client of distributed_calculator.  Its requests wait in the mailbox *)
(* in the order they were typed, behind the one that is being served; a    *)
(* server that is reachable is monitored, and one that was ever connected  *)
(* has set the host that the failure handler goes back to.                 *)
CalcMessages == {<<"start">>, <<"down">>, <<"reconnect">>}
                \cup ({"op"} \X (Nat \ {0})) \cup ({"rebind"} \X Hosts)

CalcTypeOK ==
  /\ monitors \in [Hosts -> Nat]
  /\ host \in Hosts /\ server \in Hosts \cup {NoServer}
  /\ failHost \in Hosts \cup {NoServer}
  /\ awaiting \in Nat /\ timers \in Nat /\ typed \in Nat
  /\ box \in Seq(CalcMessages) /\ printed \in Seq(Nat)

IsOp(m) == m[1] = "op"

OpsInOrder ==
  /\ awaiting <= typed
  /\ \A i \in DOMAIN box : IsOp(box[i]) =>
       /\ awaiting < box[i][2] /\ box[i][2] <= typed
       /\ \A k \in DOMAIN printed : printed[k] < box[i][2]
  /\ \A i, k \in DOMAIN box : i < k /\ IsOp(box[i]) /\ IsOp(box[k]) => box[i][2] < box[k][2]
  /\ \A k \in DOMAIN printed : printed[k] <= typed /\ (awaiting # 0 => printed[k] < awaiting)

CalcInv ==
  /\ CalcTypeOK /\ ServerTracked /\ OpsInOrder
  /\ server # NoServer => failHost # NoServer
  /\ awaiting # 0 => server # NoServer
  /\ reachable => server # NoServer /\ monitors[server] > 0
  /\ \/ replies = <<>>
     \/ awaiting # 0 /\ replies \in {<<<<"result", awaiting>>>>, <<<<"failure", awaiting>>>>}

LEMMA WithoutFacts ==
  ASSUME NEW S, NEW s \in Seq(S), NEW i \in 1..Len(s)
  PROVE  /\ Without(s, i) \in Seq(S) /\ Len(Without(s, i)) = Len(s) - 1
         /\ \A k \in 1..Len(s) - 1 : Without(s, i)[k] = s[IF k < i THEN k ELSE k + 1]
<1> DEFINE a == SubSeq(s, 1, i - 1)
           b == SubSeq(s, i + 1, Len(s))
<1>1. Len(s) \in Nat /\ i \in Nat /\ 1 <= i /\ i <= Len(s)
  OBVIOUS
<1>2. a \in Seq(S) /\ Len(a) = i - 1 /\ \A k \in 1..i - 1 : a[k] = s[k]
  BY <1>1
<1>3. b \in Seq(S) /\ Len(b) = Len(s) - i /\ \A k \in 1..Len(s) - i : b[k] = s[i + k]
  BY <1>1
<1>4. Without(s, i) = a \o b
  BY DEF Without
<1> HIDE DEF a, b
<1>5. a \o b \in Seq(S) /\ Len(a \o b) = Len(s) - 1
  <2>1. a \o b \in Seq(S) /\ Len(a \o b) = Len(a) + Len(b)
    BY <1>2, <1>3, ConcatProperties
  <2> QED
    BY <1>1, <1>2, <1>3, <2>1
<1>6. ASSUME NEW k \in 1..Len(s) - 1 PROVE (a \o b)[k] = s[IF k < i THEN k ELSE k + 1]
  <2>1. CASE k < i
    BY <1>1, <1>2, <1>3, <2>1
  <2>2. CASE ~(k < i)
    <3>1. (a \o b)[k] = b[k - (i - 1)] /\ k - (i - 1) \in 1..Len(s) - i
      BY <1>1, <1>2, <1>3, <2>2
    <3>2. PICK j \in 1..Len(s) - i : j = k - (i - 1)
      BY <3>1
    <3>3. b[j] = s[i + j] /\ i + j = k + 1
      BY <1>1, <1>3, <3>2
    <3> QED
      BY <2>2, <3>1, <3>2, <3>3
  <2> QED
    BY <2>1, <2>2
<1> QED
  BY <1>4, <1>5, <1>6

(* client_bhvr: a server that is connected, or another attempt.            *)
LEMMA ClientFacts ==
  ASSUME CalcTypeOK, NEW h \in Hosts, client_bhvr(h)
  PROVE  /\ host' \in Hosts /\ server' \in Hosts \cup {NoServer}
         /\ failHost' \in Hosts /\ failHost' # NoServer
         /\ monitors' \in [Hosts -> Nat] /\ timers' \in Nat
         /\ server' = NoServer => timers' > 0 /\ ~reachable'
         /\ server' # NoServer => reachable' /\ monitors'[server'] > 0
  BY HostsAssumption DEF CalcTypeOK, client_bhvr, Connected, ConnectLater, NoServer

LEMMA CalcInitInv == CalcInit => CalcInv
<1> SUFFICES ASSUME CalcInit PROVE CalcInv
  OBVIOUS
<1>1. box = <<<<"start">>>> /\ <<"start">> \in CalcMessages /\ Len(box) = 1 /\ box[1] = <<"start">>
      /\ DOMAIN box = {1}
  BY DEF CalcInit, CalcMessages
<1>2. box \in Seq(CalcMessages)
  BY <1>1
<1>3. CalcTypeOK
  BY <1>2, HostsAssumption DEF CalcTypeOK, CalcInit
<1>4. Pending("start") /\ ~IsOp(box[1])
  BY <1>1 DEF Pending, IsOp
<1>5. OpsInOrder
  BY <1>1, <1>4 DEF OpsInOrder, CalcInit
<1>6. ServerTracked
  BY <1>4 DEF ServerTracked, ReconnectDue, DownNoticed, InOrderTyped, CalcInit
<1> QED
  BY <1>3, <1>5, <1>6 DEF CalcInv, CalcInit, NoServer

(* What a longer mailbox keeps: its first messages and what is pending.    *)
LEMMA BoxGrows ==
  ASSUME CalcTypeOK, NEW t \in Seq(CalcMessages), box' = box \o t
  PROVE  /\ box' \in Seq(CalcMessages)
         /\ DOMAIN box = 1..Len(box) /\ DOMAIN box' = 1..Len(box) + Len(t) /\ Len(box) \in Nat /\ Len(t) \in Nat
         /\ \A i \in 1..Len(box) : box'[i] = box[i]
         /\ \A i \in 1..Len(t) : box'[Len(box) + i] = t[i]
         /\ \A kind : Pending(kind) => Pending(kind)'
<1>1. box \in Seq(CalcMessages)
  BY DEF CalcTypeOK
<1>2. /\ box' \in Seq(CalcMessages)
      /\ DOMAIN box = 1..Len(box) /\ DOMAIN box' = 1..Len(box) + Len(t) /\ Len(box) \in Nat /\ Len(t) \in Nat
  BY <1>1
<1>3. \A i \in 1..Len(box) : box'[i] = box[i] /\ i \in 1..Len(box) + Len(t)
  BY <1>1, <1>2
<1>4. \A i \in 1..Len(t) : box'[Len(box) + i] = t[i]
  BY <1>1, <1>2
<1>5. ASSUME NEW kind, Pending(kind) PROVE Pending(kind)'
  BY <1>2, <1>3, <1>5 DEF Pending
<1> QED
  BY <1>2, <1>3, <1>4, <1>5

LEMMA QuietMail ==
  ASSUME CalcTypeOK, OpsInOrder, NEW t \in Seq(CalcMessages), box' = box \o t,
         \A i \in 1..Len(t) : ~IsOp(t[i]), UNCHANGED <<typed, printed, awaiting>>
  PROVE  OpsInOrder'
<1>1. /\ DOMAIN box = 1..Len(box) /\ DOMAIN box' = 1..Len(box) + Len(t) /\ Len(box) \in Nat /\ Len(t) \in Nat
      /\ \A i \in 1..Len(box) : box'[i] = box[i]
      /\ \A i \in 1..Len(t) : box'[Len(box) + i] = t[i]
  BY BoxGrows
<1>2. \A i \in DOMAIN box' : IsOp(box'[i]) => i \in DOMAIN box /\ box'[i] = box[i]
  <2> SUFFICES ASSUME NEW i \in DOMAIN box', i \notin DOMAIN box PROVE ~IsOp(box'[i])
    BY <1>1
  <2>1. PICK j \in 1..Len(t) : i = Len(box) + j
    <3>1. i - Len(box) \in 1..Len(t) /\ i = Len(box) + (i - Len(box))
      BY <1>1
    <3> QED
      BY <3>1
  <2> QED
    BY <1>1, <2>1
<1> QED
  BY <1>2 DEF OpsInOrder

(* One message arrives.                                                    *)
LEMMA SingleFacts ==
  ASSUME NEW S, NEW s \in Seq(S), NEW m \in S
  PROVE  Append(s, m) = s \o <<m>> /\ <<m>> \in Seq(S) /\ Len(<<m>>) = 1 /\ <<m>>[1] = m
<1>1. <<m>> \in Seq(S) /\ Len(<<m>>) = 1 /\ <<m>>[1] = m
  OBVIOUS
<1>2. Append(s, m) = s \o <<m>>
  BY AppendIsConcat
<1> QED
  BY <1>1, <1>2

LEMMA OneArrives ==
  ASSUME CalcTypeOK, NEW m \in CalcMessages, box' = Append(box, m)
  PROVE  /\ box' \in Seq(CalcMessages)
         /\ DOMAIN box = 1..Len(box) /\ DOMAIN box' = 1..Len(box) + 1 /\ Len(box) \in Nat
         /\ \A i \in 1..Len(box) : box'[i] = box[i]
         /\ box'[Len(box) + 1] = m
         /\ \A kind : Pending(kind) => Pending(kind)'
         /\ Pending(m[1])'
         /\ OpsInOrder /\ ~IsOp(m) /\ UNCHANGED <<typed, printed, awaiting>> => OpsInOrder'
<1>1. box \in Seq(CalcMessages)
  BY DEF CalcTypeOK
<1>2. PICK t \in Seq(CalcMessages) : box' = box \o t /\ Len(t) = 1 /\ t[1] = m
  BY <1>1, SingleFacts
<1>3. /\ box' \in Seq(CalcMessages)
      /\ DOMAIN box = 1..Len(box) /\ DOMAIN box' = 1..Len(box) + Len(t) /\ Len(box) \in Nat
      /\ \A i \in 1..Len(box) : box'[i] = box[i]
      /\ \A i \in 1..Len(t) : box'[Len(box) + i] = t[i]
      /\ \A kind : Pending(kind) => Pending(kind)'
  BY <1>2, BoxGrows
<1>4. 1 \in 1..Len(t) /\ \A i \in 1..Len(t) : i = 1
  BY <1>2
<1>5. box'[Len(box) + 1] = m /\ Len(box) + 1 \in DOMAIN box'
  BY <1>2, <1>3, <1>4
<1>6. Pending(m[1])'
  BY <1>5 DEF Pending
<1>7. OpsInOrder /\ ~IsOp(m) /\ UNCHANGED <<typed, printed, awaiting>> => OpsInOrder'
  BY <1>2, <1>4, QuietMail
<1> QED
  BY <1>2, <1>3, <1>5, <1>6, <1>7

(* The user, the servers and the timer only add to the mailbox.            *)
LEMMA TypeInv == CalcInv /\ Type => CalcInv'
<1> SUFFICES ASSUME CalcInv, Type PROVE CalcInv'
  OBVIOUS
<1> DEFINE m == <<"op", typed + 1>>
           n == Len(box)
<1>1. CalcTypeOK /\ OpsInOrder /\ ServerTracked
  BY DEF CalcInv
<1>2. typed' = typed + 1 /\ m \in CalcMessages /\ IsOp(m) /\ m[2] = typed + 1
      /\ box' = Append(box, m) /\ box \in Seq(CalcMessages) /\ typed \in Nat /\ awaiting \in Nat
      /\ UNCHANGED <<monitors, host, server, reachable, failHost, awaiting, replies, timers, printed>>
  BY <1>1 DEF Type, CalcMessages, CalcTypeOK, IsOp
<1> HIDE DEF m
<1>4. /\ box' \in Seq(CalcMessages)
      /\ DOMAIN box = 1..n /\ DOMAIN box' = 1..n + 1 /\ n \in Nat
      /\ (\A i \in 1..n : box'[i] = box[i]) /\ box'[n + 1] = m
      /\ \A kind : Pending(kind) => Pending(kind)'
  BY <1>1, <1>2, OneArrives
<1>5. CalcTypeOK'
  BY <1>1, <1>2, <1>4 DEF CalcTypeOK
<1>6. ServerTracked'
  BY <1>1, <1>2, <1>4 DEF ServerTracked, ReconnectDue, DownNoticed, InOrderTyped
<1>7. OpsInOrder'
  <2>1. \A i \in DOMAIN box' : (i \in DOMAIN box /\ box'[i] = box[i]) \/ i = n + 1
    BY <1>4
  <2>2. \A i \in DOMAIN box : IsOp(box[i]) => box[i][2] \in Nat /\ box[i][2] < typed + 1
    <3> SUFFICES ASSUME NEW i \in DOMAIN box, IsOp(box[i]) PROVE box[i][2] \in Nat /\ box[i][2] < typed + 1
      OBVIOUS
    <3>1. box[i] \in CalcMessages /\ box[i][2] <= typed
      BY <1>1, <1>2 DEF OpsInOrder
    <3>2. box[i][2] \in Nat
      BY <3>1 DEF CalcMessages, IsOp
    <3> QED
      BY <1>2, <3>1, <3>2
  <2>3. \A k \in DOMAIN printed : printed[k] \in Nat /\ printed[k] < typed + 1
    BY <1>1, <1>2 DEF OpsInOrder, CalcTypeOK
  <2>4. awaiting' <= typed' /\ awaiting < typed + 1
    BY <1>1, <1>2 DEF OpsInOrder
  <2>5. \A i \in DOMAIN box' : IsOp(box'[i]) =>
          /\ awaiting' < box'[i][2] /\ box'[i][2] <= typed'
          /\ \A k \in DOMAIN printed' : printed'[k] < box'[i][2]
    <3> SUFFICES ASSUME NEW i \in DOMAIN box', IsOp(box'[i])
                 PROVE  /\ awaiting' < box'[i][2] /\ box'[i][2] <= typed'
                        /\ \A k \in DOMAIN printed' : printed'[k] < box'[i][2]
      OBVIOUS
    <3>1. CASE i \in DOMAIN box /\ box'[i] = box[i]
      BY <1>1, <1>2, <2>2, <3>1 DEF OpsInOrder
    <3>2. CASE i = n + 1
      BY <1>2, <1>4, <2>3, <2>4, <3>2
    <3> QED
      BY <2>1, <3>1, <3>2
  <2>6. \A i, k \in DOMAIN box' : i < k /\ IsOp(box'[i]) /\ IsOp(box'[k]) => box'[i][2] < box'[k][2]
    <3> SUFFICES ASSUME NEW i \in DOMAIN box', NEW k \in DOMAIN box', i < k, IsOp(box'[i]), IsOp(box'[k])
                 PROVE  box'[i][2] < box'[k][2]
      OBVIOUS
    <3>1. i \in DOMAIN box /\ box'[i] = box[i]
      BY <1>4
    <3>2. CASE k \in DOMAIN box /\ box'[k] = box[k]
      BY <1>1, <3>1, <3>2 DEF OpsInOrder
    <3>3. CASE k = n + 1
      BY <1>2, <1>4, <2>2, <3>1, <3>3
    <3> QED
      BY <2>1, <3>2, <3>3
  <2>7. \A k \in DOMAIN printed' : printed'[k] <= typed' /\ (awaiting' # 0 => printed'[k] < awaiting')
    BY <1>1, <1>2, <2>3 DEF OpsInOrder
  <2> QED
    BY <2>4, <2>5, <2>6, <2>7 DEF OpsInOrder
<1> QED
  BY <1>2, <1>5, <1>6, <1>7 DEF CalcInv

LEMMA RebindInv ==
  ASSUME CalcInv, NEW h \in Hosts, Rebind(h)
  PROVE  CalcInv'
<1>1. CalcTypeOK /\ OpsInOrder /\ ServerTracked
  BY DEF CalcInv
<1>2. PICK m \in CalcMessages : m = <<"rebind", h>>
  BY DEF CalcMessages
<1>3. box' = Append(box, m) /\ ~IsOp(m)
      /\ UNCHANGED <<monitors, host, server, reachable, failHost, awaiting, replies, timers, typed, printed>>
  BY <1>2 DEF IsOp, Rebind
<1>4. box' \in Seq(CalcMessages) /\ (\A kind : Pending(kind) => Pending(kind)') /\ OpsInOrder'
  BY <1>1, <1>3, OneArrives
<1>5. CalcTypeOK'
  BY <1>1, <1>3, <1>4 DEF CalcTypeOK
<1>6. ServerTracked'
  BY <1>1, <1>3, <1>4 DEF ServerTracked, ReconnectDue, DownNoticed, InOrderTyped
<1> QED
  BY <1>3, <1>4, <1>5, <1>6 DEF CalcInv

LEMMA TimerInv == CalcInv /\ Timer => CalcInv'
<1> SUFFICES ASSUME CalcInv, Timer PROVE CalcInv'
  OBVIOUS
<1>1. CalcTypeOK /\ OpsInOrder /\ ServerTracked
  BY DEF CalcInv
<1>2. PICK m \in CalcMessages : m = <<"reconnect">>
  BY DEF CalcMessages
<1>3. box' = Append(box, m) /\ ~IsOp(m) /\ m[1] = "reconnect" /\ timers' \in Nat
      /\ UNCHANGED <<monitors, host, server, reachable, failHost, awaiting, replies, typed, printed>>
  BY <1>1, <1>2 DEF IsOp, Timer, CalcTypeOK
<1>4. /\ box' \in Seq(CalcMessages) /\ (\A kind : Pending(kind) => Pending(kind)') /\ OpsInOrder'
      /\ Pending(m[1])'
  BY <1>1, <1>3, OneArrives
<1>5. Pending("reconnect")'
  BY <1>3, <1>4
<1>6. CalcTypeOK'
  BY <1>1, <1>3, <1>4 DEF CalcTypeOK
<1>7. ServerTracked'
  BY <1>1, <1>3, <1>4, <1>5 DEF ServerTracked, ReconnectDue, DownNoticed, InOrderTyped
<1> QED
  BY <1>3, <1>4, <1>6, <1>7 DEF CalcInv

(* Who goes down is monitored if it is the server, so a down_msg arrives.  *)
LEMMA GoDownInv ==
  ASSUME CalcInv, NEW h \in Hosts, GoDown(h)
  PROVE  CalcInv'
<1> DEFINE n == monitors[h]
           t == [i \in 1..n |-> <<"down">>]
<1>1. CalcTypeOK /\ OpsInOrder /\ ServerTracked
  BY DEF CalcInv
<1>2. n \in Nat /\ t \in Seq(CalcMessages) /\ Len(t) = n /\ (\A i \in 1..n : t[i] = <<"down">>)
  <2>1. n \in Nat /\ <<"down">> \in CalcMessages
    BY <1>1 DEF CalcTypeOK, CalcMessages
  <2> HIDE DEF n
  <2> QED
    BY <2>1
<1>3. /\ box' = box \o t /\ monitors' = [monitors EXCEPT ![h] = 0]
      /\ reachable' = (reachable /\ server # h)
      /\ replies' = IF awaiting # 0 /\ server = h /\ replies = <<>>
                    THEN <<<<"failure", awaiting>>>> ELSE replies
      /\ UNCHANGED <<host, server, failHost, awaiting, timers, typed, printed>>
  BY DEF GoDown
<1> HIDE DEF t
<1>4. \A i \in 1..Len(t) : ~IsOp(t[i])
  BY <1>2 DEF IsOp
<1>5. /\ box' \in Seq(CalcMessages) /\ (\A kind : Pending(kind) => Pending(kind)')
      /\ DOMAIN box' = 1..Len(box) + Len(t) /\ Len(box) \in Nat
      /\ \A i \in 1..Len(t) : box'[Len(box) + i] = t[i]
  BY <1>1, <1>2, <1>3, BoxGrows
<1>6. OpsInOrder'
  BY <1>1, <1>2, <1>3, <1>4, QuietMail
<1>7. CalcTypeOK'
  BY <1>1, <1>3, <1>5 DEF CalcTypeOK
<1>8. n > 0 => Pending("down")'
  <2> SUFFICES ASSUME n > 0 PROVE Pending("down")'
    OBVIOUS
  <2>1. 1 \in 1..Len(t) /\ Len(box) + 1 \in DOMAIN box'
    BY <1>2, <1>5
  <2>2. box'[Len(box) + 1][1] = "down"
    BY <1>2, <1>5, <2>1
  <2> QED
    BY <2>1, <2>2 DEF Pending
<1>9. /\ replies' # <<>> => Head(replies')[1] = "failure" \/ replies' = replies
      /\ \/ replies' = <<>>
         \/ awaiting # 0 /\ replies' \in {<<<<"result", awaiting>>>>, <<<<"failure", awaiting>>>>}
      /\ replies # <<>> => replies' = replies
  BY <1>3 DEF CalcInv
<1>10. ~reachable' => ~reachable \/ Pending("down")'
  BY <1>3, <1>8 DEF CalcInv
<1>11. DownNoticed'
  BY <1>1, <1>3, <1>5, <1>9, <1>10 DEF ServerTracked, DownNoticed
<1>12. ReconnectDue' /\ InOrderTyped'
  BY <1>1, <1>3, <1>5 DEF ServerTracked, ReconnectDue, InOrderTyped
<1>13. reachable' => server' # NoServer /\ monitors'[server'] > 0
  BY <1>1, <1>3 DEF CalcInv, CalcTypeOK
<1> QED
  BY <1>3, <1>6, <1>7, <1>9, <1>11, <1>12, <1>13 DEF CalcInv, ServerTracked

(* What the mailbox keeps when the message at i is taken.                  *)
OldIndex(i, k) == IF k < i THEN k ELSE k + 1

LEMMA TakenFacts ==
  ASSUME CalcTypeOK, NEW i \in DOMAIN box, box' = Without(box, i)
  PROVE  /\ box' \in Seq(CalcMessages) /\ DOMAIN box \subseteq Nat
         /\ \A k \in DOMAIN box' : OldIndex(i, k) \in DOMAIN box /\ OldIndex(i, k) # i /\ box'[k] = box[OldIndex(i, k)]
         /\ \A k, l \in DOMAIN box' : k < l => OldIndex(i, k) < OldIndex(i, l)
<1>1. box \in Seq(CalcMessages) /\ i \in 1..Len(box) /\ DOMAIN box = 1..Len(box) /\ Len(box) \in Nat
  BY DEF CalcTypeOK
<1>2. /\ box' \in Seq(CalcMessages) /\ Len(box') = Len(box) - 1
      /\ \A k \in 1..Len(box) - 1 : box'[k] = box[IF k < i THEN k ELSE k + 1]
  BY <1>1, WithoutFacts
<1>3. DOMAIN box' = 1..Len(box) - 1
  BY <1>2
<1> QED
  BY <1>1, <1>2, <1>3 DEF OldIndex

LEMMA TakenInOrder ==
  ASSUME CalcTypeOK, OpsInOrder, NEW i \in DOMAIN box, box' = Without(box, i), UNCHANGED <<typed, printed, awaiting>>
  PROVE  OpsInOrder'
<1>1. /\ DOMAIN box \subseteq Nat
      /\ \A k \in DOMAIN box' : OldIndex(i, k) \in DOMAIN box /\ OldIndex(i, k) # i /\ box'[k] = box[OldIndex(i, k)]
      /\ \A k, l \in DOMAIN box' : k < l => OldIndex(i, k) < OldIndex(i, l)
  BY TakenFacts
<1> QED
  BY <1>1 DEF OpsInOrder

(* A request is taken only with a server, and then it is the oldest        *)
(* message: those left in the mailbox are later ones.                      *)
LEMMA TakeOpInv ==
  ASSUME CalcInv, awaiting = 0, NEW i \in DOMAIN box, Taken(i), box' = Without(box, i),
         IsOp(box[i]), awaiting' = box[i][2],
         replies' = IF reachable THEN <<>> ELSE <<<<"failure", box[i][2]>>>>,
         UNCHANGED <<monitors, host, server, reachable, failHost, timers, typed, printed>>
  PROVE  CalcInv'
<1>1. CalcTypeOK /\ OpsInOrder /\ ServerTracked
  BY DEF CalcInv
<1>2. box[i] \in CalcMessages
  BY <1>1 DEF CalcTypeOK
<1>3. awaiting' \in Nat \ {0}
  BY <1>2 DEF CalcMessages, IsOp
<1>4. server # NoServer /\ \A k \in DOMAIN box : i <= k
  BY DEF Taken, Matches, IsOp
<1>5. /\ box' \in Seq(CalcMessages) /\ DOMAIN box \subseteq Nat
      /\ \A k \in DOMAIN box' : OldIndex(i, k) \in DOMAIN box /\ OldIndex(i, k) # i /\ box'[k] = box[OldIndex(i, k)]
      /\ \A k, l \in DOMAIN box' : k < l => OldIndex(i, k) < OldIndex(i, l)
  BY <1>1, TakenFacts
<1>6. \A k \in DOMAIN box' : i < OldIndex(i, k)
  BY <1>4, <1>5
<1>7. CalcTypeOK'
  BY <1>1, <1>3, <1>5 DEF CalcTypeOK
<1>8. OpsInOrder'
  BY <1>1, <1>3, <1>5, <1>6 DEF OpsInOrder
<1>9. ServerTracked'
  <2>1. ~reachable => replies' # <<>> /\ Head(replies')[1] = "failure"
    BY SMTT(30), Z3T(30)
  <2> QED
    BY <1>1, <1>4, <2>1 DEF ServerTracked, ReconnectDue, DownNoticed, InOrderTyped
<1> QED
  BY <1>3, <1>4, <1>7, <1>8, <1>9 DEF CalcInv

(* client_bhvr leaves a client that is connected or about to try again.    *)
LEMMA ReconnectInv ==
  ASSUME CalcInv, NEW h \in Hosts, client_bhvr(h), box' \in Seq(CalcMessages), OpsInOrder',
         awaiting' = 0, replies' = <<>>, UNCHANGED <<typed, printed>>
  PROVE  CalcInv'
<1>1. CalcTypeOK /\ ServerTracked
  BY DEF CalcInv
<1>2. /\ host' \in Hosts /\ server' \in Hosts \cup {NoServer}
      /\ failHost' \in Hosts /\ failHost' # NoServer
      /\ monitors' \in [Hosts -> Nat] /\ timers' \in Nat
      /\ server' = NoServer => timers' > 0 /\ ~reachable'
      /\ server' # NoServer => reachable' /\ monitors'[server'] > 0
  BY <1>1, ClientFacts
<1>3. CalcTypeOK'
  BY <1>1, <1>2 DEF CalcTypeOK
<1>4. ServerTracked'
  BY <1>1, <1>2 DEF ServerTracked, ReconnectDue, DownNoticed, InOrderTyped
<1> QED
  BY <1>2, <1>3, <1>4 DEF CalcInv

LEMMA CalcHandlesInv == CalcInv /\ CalcHandles => CalcInv'
<1> SUFFICES ASSUME CalcInv, CalcHandles PROVE CalcInv'
  OBVIOUS
<1>1. CalcTypeOK /\ OpsInOrder /\ awaiting = 0 /\ replies = <<>> /\ UNCHANGED <<typed, printed>>
  BY DEF CalcInv, CalcHandles
<1>2. PICK i \in DOMAIN box :
        /\ Taken(i) /\ box' = Without(box, i)
        /\ \/ /\ box[i][1] = "op" /\ awaiting' = box[i][2]
              /\ replies' = IF reachable THEN <<>> ELSE <<<<"failure", box[i][2]>>>>
              /\ UNCHANGED <<monitors, host, server, reachable, failHost, timers>>
           \/ /\ box[i][1] = "rebind" /\ client_bhvr(box[i][2])
              /\ UNCHANGED <<awaiting, replies>>
           \/ /\ client_bhvr(host)
              /\ UNCHANGED <<awaiting, replies>>
  BY DEF CalcHandles
<1>3. CASE box[i][1] = "op" /\ awaiting' = box[i][2]
           /\ replies' = (IF reachable THEN <<>> ELSE <<<<"failure", box[i][2]>>>>)
           /\ UNCHANGED <<monitors, host, server, reachable, failHost, timers>>
  BY <1>1, <1>2, <1>3, TakeOpInv DEF IsOp
<1>4. ASSUME NEW h \in Hosts, client_bhvr(h), UNCHANGED <<awaiting, replies>> PROVE CalcInv'
  <2>1. OpsInOrder'
    BY <1>1, <1>2, <1>4, TakenInOrder
  <2>2. box' \in Seq(CalcMessages)
    BY <1>1, <1>2, TakenFacts
  <2>3. awaiting' = 0 /\ replies' = <<>>
    BY <1>1, <1>4
  <2> QED
    BY <1>1, <1>4, <2>1, <2>2, <2>3, ReconnectInv
<1>5. host \in Hosts /\ (box[i][1] = "rebind" => box[i][2] \in Hosts)
  <2>1. box[i] \in CalcMessages /\ host \in Hosts
    BY <1>1 DEF CalcTypeOK
  <2> QED
    BY <2>1 DEF CalcMessages
<1> QED
  BY <1>2, <1>3, <1>4, <1>5

LEMMA ResponseInv == CalcInv /\ Response => CalcInv'
<1> SUFFICES ASSUME CalcInv, Response PROVE CalcInv'
  OBVIOUS
<1>1. CalcTypeOK /\ OpsInOrder /\ ServerTracked /\ awaiting # 0 /\ failHost # NoServer
      /\ replies \in {<<<<"result", awaiting>>>>, <<<<"failure", awaiting>>>>}
  BY DEF CalcInv, Response
<1>2. awaiting' = 0 /\ replies' = <<>> /\ UNCHANGED <<box, typed>>
  BY DEF Response
<1>3. CASE Head(replies)[1] = "result" /\ printed' = Append(printed, Head(replies)[2])
           /\ UNCHANGED <<monitors, host, server, reachable, failHost, timers>>
  <2>1. Head(replies)[2] = awaiting /\ Head(replies)[1] # "failure"
    BY <1>1, <1>3
  <2>2. printed' = Append(printed, awaiting) /\ printed \in Seq(Nat) /\ awaiting \in Nat
    BY <1>1, <1>3, <2>1 DEF CalcTypeOK
  <2>3. /\ printed' \in Seq(Nat) /\ Len(printed) \in Nat
        /\ DOMAIN printed' = 1..Len(printed) + 1 /\ DOMAIN printed = 1..Len(printed)
        /\ (\A k \in 1..Len(printed) : printed'[k] = printed[k]) /\ printed'[Len(printed) + 1] = awaiting
    BY <2>2
  <2>4. \A k \in DOMAIN printed' : \/ k \in DOMAIN printed /\ printed'[k] = printed[k]
                                   \/ k = Len(printed) + 1 /\ printed'[k] = awaiting
    BY <2>3
  <2>5. \A k \in DOMAIN printed : printed[k] \in Nat /\ printed[k] < awaiting
    BY <1>1, <2>2 DEF OpsInOrder
  <2>6. CalcTypeOK'
    BY <1>1, <1>2, <1>3, <2>3 DEF CalcTypeOK
  <2>7. OpsInOrder'
    <3>1. awaiting' <= typed' /\ awaiting <= typed /\ typed \in Nat
      BY <1>1, <1>2 DEF OpsInOrder, CalcTypeOK
    <3>2. \A k \in DOMAIN printed' : printed'[k] <= typed'
      BY <1>1, <1>2, <2>4, <3>1 DEF OpsInOrder
    <3>3. \A i \in DOMAIN box' : IsOp(box'[i]) =>
            /\ awaiting' < box'[i][2] /\ box'[i][2] <= typed'
            /\ \A k \in DOMAIN printed' : printed'[k] < box'[i][2]
      <4> SUFFICES ASSUME NEW i \in DOMAIN box, IsOp(box[i])
                   PROVE  /\ 0 < box[i][2] /\ box[i][2] <= typed
                          /\ \A k \in DOMAIN printed' : printed'[k] < box[i][2]
        BY <1>2
      <4>1. box[i] \in CalcMessages /\ awaiting < box[i][2] /\ box[i][2] <= typed
            /\ \A k \in DOMAIN printed : printed[k] < box[i][2]
        BY <1>1 DEF OpsInOrder, CalcTypeOK
      <4>2. box[i][2] \in Nat \ {0}
        BY <4>1 DEF CalcMessages, IsOp
      <4> QED
        BY <2>4, <4>1, <4>2
    <3> QED
      BY <1>1, <1>2, <3>1, <3>2, <3>3 DEF OpsInOrder
  <2>8. InOrderTyped'
    <3> SUFFICES ASSUME NEW j \in DOMAIN printed', NEW k \in DOMAIN printed', j < k
                 PROVE  printed'[j] < printed'[k]
      BY DEF InOrderTyped
    <3>1. j \in DOMAIN printed /\ printed'[j] = printed[j]
      BY <2>3
    <3> QED
      BY <1>1, <2>4, <2>5, <3>1 DEF ServerTracked, InOrderTyped
  <2>9. ReconnectDue' /\ DownNoticed'
    BY <1>1, <1>2, <1>3, <2>1 DEF ServerTracked, ReconnectDue, DownNoticed, Pending
  <2> QED
    BY <1>2, <1>3, <2>6, <2>7, <2>8, <2>9 DEF CalcInv, ServerTracked
<1>4. CASE client_bhvr(failHost) /\ UNCHANGED printed
  <2>1. box' \in Seq(CalcMessages) /\ failHost \in Hosts /\ awaiting \in Nat
    BY <1>1, <1>2 DEF CalcTypeOK
  <2>2. OpsInOrder'
    <3>1. \A i \in DOMAIN box : IsOp(box[i]) => 0 < box[i][2]
      <4> SUFFICES ASSUME NEW i \in DOMAIN box, IsOp(box[i]) PROVE 0 < box[i][2]
        OBVIOUS
      <4>1. box[i] \in CalcMessages
        BY <1>1 DEF CalcTypeOK
      <4> QED
        BY <4>1 DEF CalcMessages, IsOp
    <3>2. 0 <= typed
      BY <1>1 DEF CalcTypeOK
    <3> QED
      BY <1>1, <1>2, <1>4, <3>1, <3>2 DEF OpsInOrder
  <2> QED
    BY <1>1, <1>2, <1>4, <2>1, <2>2, ReconnectInv
<1> QED
  BY <1>3, <1>4 DEF Response

LEMMA QuietInv == CalcInv /\ (calculator \/ (\E h \in Hosts : Restart(h)) \/ UNCHANGED calcVars) => CalcInv'
<1> SUFFICES ASSUME CalcInv, calculator \/ (\E h \in Hosts : Restart(h)) \/ UNCHANGED calcVars PROVE CalcInv'
  OBVIOUS
<1>1. /\ \/ replies' = replies
         \/ replies = <<>> /\ reachable /\ awaiting # 0 /\ replies' = <<<<"result", awaiting>>>>
      /\ UNCHANGED <<monitors, host, server, reachable, failHost, awaiting, box, timers, typed, printed>>
  BY DEF calculator, Restart, calcVars
<1>2. CalcTypeOK' /\ OpsInOrder' /\ ReconnectDue' /\ InOrderTyped'
  BY <1>1 DEF CalcInv, CalcTypeOK, OpsInOrder, ServerTracked, ReconnectDue, InOrderTyped, Pending
<1>3. DownNoticed'
  BY <1>1 DEF CalcInv, ServerTracked, DownNoticed, Pending
<1> QED
  BY <1>1, <1>2, <1>3 DEF CalcInv, ServerTracked

LEMMA CalcStepInv == CalcInv /\ [CalcNext]_calcVars => CalcInv'
  BY TypeInv, RebindInv, TimerInv, GoDownInv, CalcHandlesInv, ResponseInv, QuietInv DEF CalcNext

(* The inductive invariant of the client (distributed_calculator.cpp:57).  *)
THEOREM CalcInvariant == CalcSpec => []CalcInv
  BY CalcInitInv, CalcStepInv, PTL DEF CalcSpec

(* A client of any number of hosts without a server has a reconnect due,   *)
(* one whose server is gone will be told, and results are printed in the   *)
(* order of the requests (distributed_calculator.cpp:69, 76, 89).          *)
THEOREM CalcServerTracked == CalcSpec => []ServerTracked
<1>1. CalcInv => ServerTracked
  BY DEF CalcInv
<1> QED
  BY <1>1, CalcInvariant, PTL
=============================================================================
