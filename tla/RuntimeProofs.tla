---------------------------- MODULE RuntimeProofs ---------------------------
(***************************************************************************)
(* Proofs about the mailbox of an actor, the gcd of the worker and the     *)
(* lookup of a group, each a component of its own, for any senders,        *)
(* arguments and callers.  The theory of finite sets comes in where it is  *)
(* first needed, so that the obligations before do not carry it.           *)
(***************************************************************************)
EXTENDS Mailbox, GroupLookup, EuclidGcd, TLAPS

USE SMT, Zenon, Z3

(* Facts about sequences.                                                  *)
LEMMA Joined ==
  ASSUME NEW S, NEW s \in Seq(S), NEW t \in Seq(S)
  PROVE  /\ s \o t \in Seq(S) /\ Len(s \o t) = Len(s) + Len(t)
         /\ \A i \in 1..Len(s) + Len(t) : (s \o t)[i] = IF i <= Len(s) THEN s[i] ELSE t[i - Len(s)]
OBVIOUS

LEMMA SameSeq ==
  ASSUME NEW S, NEW s \in Seq(S), NEW t \in Seq(S), Len(s) = Len(t),
         \A i \in 1..Len(s) : s[i] = t[i]
  PROVE  s = t
OBVIOUS

LEMMA TailFacts ==
  ASSUME NEW S, NEW s \in Seq(S), s # <<>>
  PROVE  /\ Tail(s) \in Seq(S) /\ Len(Tail(s)) = Len(s) - 1
         /\ \A i \in 1..Len(s) - 1 : Tail(s)[i] = s[i + 1]
OBVIOUS

(* Mailbox.  Control adds to the properties what ties the two sides        *)
(* together: the queue is closed exactly when the actor is done, a reader  *)
(* about to block has an empty m_head, the loop of resume has an iteration *)
(* left while it is in it, and a message is created before it is pushed.   *)
Control == /\ SingleCustody
           /\ NoLostWakeup
           /\ AssertionsHold
           /\ top = "closed" <=> pc = "done"
           /\ pc = "new" => jobs = 1
           /\ pc \in {"swap", "block", "lastblock"} => head = <<>>
           /\ pc \in {"pop", "swap", "block"} => left > 0
           /\ \A s \in Senders : sender[s] = "cas" => sent[s] > 0

IInv == TypeOK /\ Control

(* The dummies are not messages, and the pointer tells what m_stack is.    *)
LEMMA PointerFacts ==
  ASSUME TypeOK
  PROVE  /\ Pointer \in Pointers
         /\ Pointer = Empty <=> top = "empty"
         /\ Pointer = Blocked <=> top = "blocked"
         /\ Pointer = Closed <=> top = "closed"
<1>1. \A m \in Messages : m # Empty /\ m # Blocked /\ m # Closed
  BY DEF Messages, Empty, Blocked, Closed
<1>2. CASE top = "list"
  <2>1. stack \in Seq(Messages) /\ stack # <<>>
    BY <1>2 DEF TypeOK
  <2>2. stack[1] \in Messages
    BY <2>1
  <2> QED
    BY <1>1, <1>2, <2>2 DEF Pointer, Pointers
<1>3. CASE top # "list"
  <2>1. Pointer = <<top>> /\ top \in {"empty", "blocked", "closed"}
    BY <1>3 DEF TypeOK, Pointer
  <2> QED
    BY <2>1 DEF Pointers, Empty, Blocked, Closed
<1> QED
  BY <1>2, <1>3

LEMMA InitInv == Init => IInv
<1> SUFFICES ASSUME Init PROVE IInv
  OBVIOUS
<1> USE DEF Init
<1>1. TypeOK
  BY QuotaAssumption, ThroughputAssumption DEF TypeOK, Pointers
<1>2. SingleCustody
  BY DEF SingleCustody
<1>3. NoLostWakeup
  BY DEF NoLostWakeup, InCharge
<1>4. AssertionsHold
  BY DEF AssertionsHold
<1> QED
  BY <1>1, <1>2, <1>3, <1>4 DEF IInv, Control

(* Reverse keeps the type.                                                 *)
LEMMA ReverseType ==
  ASSUME NEW S, NEW q \in Seq(S)
  PROVE  Reverse(q) \in Seq(S)
<1>1. \A i \in 1..Len(q) : q[(Len(q) - i) + 1] \in S
  <2>1. \A i \in 1..Len(q) : (Len(q) - i) + 1 \in 1..Len(q)
    BY Len(q) \in Nat
  <2> QED
    BY <2>1
<1>2. Len(q) \in Nat
  OBVIOUS
<1> QED
  BY <1>1, <1>2 DEF Reverse

LEMMA TypeStep == IInv /\ [Next]_vars => TypeOK'
<1> SUFFICES ASSUME IInv, [Next]_vars PROVE TypeOK'
  OBVIOUS
<1> USE QuotaAssumption, ThroughputAssumption
<1>0. TypeOK /\ Pointer \in Pointers
  BY PointerFacts DEF IInv
<1>1. CASE UNCHANGED vars
  BY <1>0, <1>1 DEF TypeOK, vars
<1>2. ASSUME NEW s \in Senders, Send(s) PROVE TypeOK'
  <2>1. CASE Load(s)
    BY <1>0, <2>1 DEF TypeOK, Load
  <2>2. CASE Refused(s)
    BY <1>0, <2>2 DEF TypeOK, Refused
  <2>3. CASE Push(s)
    <3>1. <<s, sent[s]>> \in Messages
      BY <1>0, <2>3 DEF TypeOK, Push, Messages, IInv, Control
    <3> QED
      BY <1>0, <2>3, <3>1 DEF TypeOK, Push
  <2>4. CASE PushFails(s)
    BY <1>0, <2>4 DEF TypeOK, PushFails
  <2>5. CASE Notify(s)
    BY <1>0, <2>5 DEF TypeOK, Notify
  <2> QED
    BY <1>2, <2>1, <2>2, <2>3, <2>4, <2>5 DEF Send
<1>3. CASE Read
  <2>1. CASE Resume
    BY <1>0, <2>1 DEF TypeOK, Resume
  <2>2. CASE Pop
    <3>1. head[1] \in Messages /\ Tail(head) \in Seq(Messages)
      BY <1>0, <2>2 DEF TypeOK, Pop
    <3>2. taken' \in Seq(Messages)
      BY <1>0, <2>2, <3>1 DEF TypeOK, Pop
    <3>3. left' \in 0..MaxThroughput
      BY <1>0, <2>2 DEF TypeOK, Pop, EndIteration, IInv, Control
    <3>4. head' \in Seq(Messages)
      <4>1. head' = Tail(head) \/ head' = <<>>
        BY <2>2 DEF Pop
      <4>2. <<>> \in Seq(Messages)
        OBVIOUS
      <4> QED
        BY <3>1, <4>1, <4>2, Zenon
    <3>5. pc' \in {"check", "pop", "close", "later"}
      BY <2>2 DEF Pop, EndIteration
    <3> QED
      BY <1>0, <2>2, <3>2, <3>3, <3>4, <3>5 DEF TypeOK, Pop
  <2>3. CASE Fetch
    BY <1>0, <2>3 DEF TypeOK, Fetch
  <2>4. CASE Swap
    <3>1. Reverse(stack) \in Seq(Messages)
      BY <1>0, ReverseType DEF TypeOK
    <3> QED
      BY <1>0, <2>4, <3>1 DEF TypeOK, Swap
  <2>5. CASE SwapFails
    BY <1>0, <2>5 DEF TypeOK, SwapFails
  <2>6. CASE TryBlock
    BY <1>0, <2>6 DEF TypeOK, TryBlock, EndIteration, IInv, Control
  <2>7. CASE Check
    BY <1>0, <2>7 DEF TypeOK, Check
  <2>8. CASE LastBlock
    BY <1>0, <2>8 DEF TypeOK, LastBlock
  <2>9. CASE Later
    BY <1>0, <2>9 DEF TypeOK, Later
  <2>10. CASE CloseLoad
    BY <1>0, <2>10 DEF TypeOK, CloseLoad
  <2>11. CASE CloseSwap
    BY <1>0, <2>11 DEF TypeOK, CloseSwap
  <2> QED
    BY <1>3, <2>1, <2>2, <2>3, <2>4, <2>5, <2>6, <2>7, <2>8, <2>9, <2>10, <2>11 DEF Read
<1> QED
  BY <1>1, <1>2, <1>3 DEF Next

LEMMA ControlStep == IInv /\ [Next]_vars => Control'
<1> SUFFICES ASSUME IInv, [Next]_vars PROVE Control'
  OBVIOUS
<1>0. /\ TypeOK /\ TypeOK'
      /\ Pointer = Empty <=> top = "empty"
      /\ Pointer = Blocked <=> top = "blocked"
      /\ Pointer = Closed <=> top = "closed"
  BY PointerFacts, TypeStep DEF IInv
<1> USE DEF IInv, Control, TypeOK, SingleCustody, NoLostWakeup, AssertionsHold, InCharge, Running
<1>1. CASE UNCHANGED vars
  BY <1>0, <1>1 DEF vars
<1>2. ASSUME NEW s \in Senders, Send(s) PROVE Control'
  <2>1. CASE Load(s)
    BY <1>0, <2>1 DEF Load
  <2>2. CASE Refused(s)
    BY <1>0, <2>2 DEF Refused
  <2>3. CASE Push(s)
    BY <1>0, <2>3 DEF Push
  <2>4. CASE PushFails(s)
    BY <1>0, <2>4 DEF PushFails
  <2>5. CASE Notify(s)
    BY <1>0, <2>5 DEF Notify
  <2> QED
    BY <1>2, <2>1, <2>2, <2>3, <2>4, <2>5 DEF Send
<1>3. CASE Read
  <2>1. CASE Resume
    BY <1>0, <2>1, ThroughputAssumption DEF Resume
  <2>2. CASE Pop
    BY <1>0, <2>2 DEF Pop, EndIteration
  <2>3. CASE Fetch
    BY <1>0, <2>3 DEF Fetch
  <2>4. CASE Swap
    BY <1>0, <2>4 DEF Swap
  <2>5. CASE SwapFails
    BY <1>0, <2>5 DEF SwapFails
  <2>6. CASE TryBlock
    BY <1>0, <2>6 DEF TryBlock, EndIteration
  <2>7. CASE Check
    BY <1>0, <2>7 DEF Check
  <2>8. CASE LastBlock
    BY <1>0, <2>8 DEF LastBlock
  <2>9. CASE Later
    BY <1>0, <2>9 DEF Later
  <2>10. CASE CloseLoad
    BY <1>0, <2>10 DEF CloseLoad
  <2>11. CASE CloseSwap
    BY <1>0, <2>11 DEF CloseSwap
  <2> QED
    BY <1>3, <2>1, <2>2, <2>3, <2>4, <2>5, <2>6, <2>7, <2>8, <2>9, <2>10, <2>11 DEF Read
<1> QED
  BY <1>1, <1>2, <1>3 DEF Next

THEOREM MailboxInv == Spec => []IInv
<1>1. IInv /\ [Next]_vars => IInv'
  BY TypeStep, ControlStep DEF IInv
<1> QED
  BY InitInv, <1>1, PTL DEF Spec

(* No actor is queued twice, run by two threads or run after it exited:    *)
(* only the enqueue that replaced the blocked dummy schedules it.          *)
THEOREM MailboxSingleCustody == Spec => []SingleCustody
<1>1. IInv => SingleCustody
  BY DEF IInv, Control
<1> QED
  BY MailboxInv, <1>1, PTL

(* An idle actor has an empty mailbox marked blocked, whatever the         *)
(* interleaving of enqueue, can_fetch_more and try_block.                  *)
THEOREM MailboxNoLostWakeup == Spec => []NoLostWakeup
<1>1. IInv => NoLostWakeup
  BY DEF IInv, Control
<1> QED
  BY MailboxInv, <1>1, PTL

(* The CAF_REQUIRE assertions of single_reader_queue cannot fail.          *)
THEOREM MailboxAssertionsHold == Spec => []AssertionsHold
<1>1. IInv => AssertionsHold
  BY DEF IInv, Control
<1> QED
  BY MailboxInv, <1>1, PTL

(* The three together: for any number of senders and messages an actor is  *)
(* woken up exactly when it has to be.                                     *)
THEOREM MailboxWakeupExact == Spec => []WakeupExact
BY MailboxSingleCustody, MailboxNoLostWakeup, MailboxAssertionsHold, PTL DEF WakeupExact
-----------------------------------------------------------------------------
(* The refinement.  A message is put in once because its sender numbers    *)
(* them; a reader that leaves or closes has an empty m_head, and one that  *)
(* has not run has taken nothing.                                          *)
Pushed == {m \in Messages : /\ m[2] <= sent[m[1]]
                            /\ sender[m[1]] = "cas" => m[2] < sent[m[1]]}

QInv == /\ taken \in Seq(Pushed) /\ head \in Seq(Pushed) /\ stack \in Seq(Pushed)
        /\ pc = "new" => taken = <<>>
        /\ pc \in {"new", "close", "closing", "done"} => head = <<>>

(* Reverse, element by element.                                            *)
LEMMA ReverseFacts ==
  ASSUME NEW S, NEW q \in Seq(S)
  PROVE  /\ Reverse(q) \in Seq(S) /\ Len(Reverse(q)) = Len(q)
         /\ \A i \in 1..Len(q) : Reverse(q)[i] = q[(Len(q) - i) + 1]
<1>1. Reverse(q) \in Seq(S)
  BY ReverseType
<1>2. DOMAIN Reverse(q) = 1..Len(q) /\ Len(q) \in Nat
  BY DEF Reverse
<1>3. Len(Reverse(q)) = Len(q)
  BY <1>1, <1>2
<1> QED
  BY <1>1, <1>3 DEF Reverse

(* A message pushed on the stack is appended to its reverse.               *)
LEMMA ReversePush ==
  ASSUME NEW S, NEW q \in Seq(S), NEW e \in S
  PROVE  Reverse(<<e>> \o q) = Append(Reverse(q), e)
<1> DEFINE p == <<e>> \o q
<1>1. p \in Seq(S) /\ Len(p) = Len(q) + 1 /\ p[1] = e
      /\ \A i \in 2..Len(q) + 1 : p[i] = q[i - 1]
  <2>1. <<e>> \in Seq(S) /\ Len(<<e>>) = 1 /\ <<e>>[1] = e
    OBVIOUS
  <2> QED
    BY <2>1, Joined, Len(q) \in Nat
<1> HIDE DEF p
<1>2. Reverse(p) \in Seq(S) /\ Len(Reverse(p)) = Len(q) + 1
      /\ \A i \in 1..Len(q) + 1 : Reverse(p)[i] = p[(Len(q) + 1 - i) + 1]
  BY <1>1, ReverseFacts
<1>3. Reverse(q) \in Seq(S) /\ Len(Reverse(q)) = Len(q)
      /\ \A i \in 1..Len(q) : Reverse(q)[i] = q[(Len(q) - i) + 1]
  BY ReverseFacts
<1>4. ASSUME NEW i \in 1..Len(q) + 1
      PROVE  Reverse(p)[i] = Append(Reverse(q), e)[i]
  <2>1. CASE i = Len(q) + 1
    <3>1. Reverse(p)[i] = p[1]
      BY <1>2, <2>1, Len(q) \in Nat
    <3> QED
      BY <1>1, <1>3, <2>1, <3>1
  <2>2. CASE i \in 1..Len(q)
    <3>1. Reverse(p)[i] = p[(Len(q) + 1 - i) + 1] /\ (Len(q) + 1 - i) + 1 \in 2..Len(q) + 1
      BY <1>2, <2>2, Len(q) \in Nat
    <3>2. PICK j \in 2..Len(q) + 1 : j = (Len(q) + 1 - i) + 1
      BY <3>1
    <3>3. p[j] = q[j - 1] /\ j - 1 = (Len(q) - i) + 1
      BY <1>1, <2>2, <3>2, Len(q) \in Nat
    <3>4. Append(Reverse(q), e)[i] = Reverse(q)[i]
      BY <1>3, <2>2
    <3> QED
      BY <1>3, <2>2, <3>1, <3>2, <3>3, <3>4
  <2>3. i = Len(q) + 1 \/ i \in 1..Len(q)
    BY Len(q) \in Nat
  <2> QED
    BY <2>1, <2>2, <2>3, Zenon
<1>5. Append(Reverse(q), e) \in Seq(S) /\ Len(Append(Reverse(q), e)) = Len(q) + 1
  BY <1>3
<1>6. Reverse(p) = Append(Reverse(q), e)
  BY <1>2, <1>4, <1>5, SameSeq
<1> QED
  BY <1>6 DEF p

(* Three facts about h \o r, where h is m_head and r the reversed stack.   *)
LEMMA ConcatEmpty ==
  ASSUME NEW S, NEW q \in Seq(S)
  PROVE  q \o <<>> = q /\ <<>> \o q = q
  OBVIOUS

LEMMA ReverseEmpty == Reverse(<<>>) = <<>> /\ <<>> \o <<>> = <<>>
  BY DEF Reverse

LEMMA ConcatAppend ==
  ASSUME NEW S, NEW h \in Seq(S), NEW r \in Seq(S), NEW e \in S
  PROVE  h \o Append(r, e) = Append(h \o r, e)
  OBVIOUS

LEMMA ConcatHead ==
  ASSUME NEW S, NEW h \in Seq(S), NEW r \in Seq(S), h # <<>>
  PROVE  /\ h \o r # <<>>
         /\ (h \o r)[1] = h[1]
         /\ Tail(h \o r) = Tail(h) \o r
         /\ \E k \in 2..(Len(h \o r) + 1) : r = SubSeq(h \o r, k, Len(h \o r))
<1>1. Len(h) \in Nat \ {0} /\ Len(r) \in Nat /\ h \o r \in Seq(S) /\ Len(h \o r) = Len(h) + Len(r)
  OBVIOUS
<1>2. h \o r # <<>> /\ (h \o r)[1] = h[1]
  BY <1>1
<1>3. Tail(h \o r) = Tail(h) \o r
  <2>1. Tail(h) \in Seq(S) /\ Len(Tail(h)) = Len(h) - 1
        /\ \A i \in 1..Len(h) - 1 : Tail(h)[i] = h[i + 1]
    BY <1>1, TailFacts
  <2>2. Tail(h \o r) \in Seq(S) /\ Len(Tail(h \o r)) = Len(h) + Len(r) - 1
        /\ \A i \in 1..Len(h) + Len(r) - 1 : Tail(h \o r)[i] = (h \o r)[i + 1]
    BY <1>1, <1>2, TailFacts
  <2>3. Tail(h) \o r \in Seq(S) /\ Len(Tail(h) \o r) = Len(h) + Len(r) - 1
    BY <1>1, <2>1
  <2>4. ASSUME NEW i \in 1..Len(h) + Len(r) - 1
        PROVE  Tail(h \o r)[i] = (Tail(h) \o r)[i]
    BY <1>1, <2>1, <2>2
  <2> QED
    BY <2>2, <2>3, <2>4, SameSeq
<1>4. r = SubSeq(h \o r, Len(h) + 1, Len(h \o r))
  <2> DEFINE q == SubSeq(h \o r, Len(h) + 1, Len(h \o r))
  <2>1. q \in Seq(S) /\ Len(q) = Len(r)
        /\ \A i \in 1..Len(r) : q[i] = (h \o r)[Len(h) + i]
    BY <1>1
  <2>2. \A i \in 1..Len(r) : (h \o r)[Len(h) + i] = r[i]
    BY <1>1
  <2> QED
    BY <2>1, <2>2, SameSeq
<1>5. Len(h) + 1 \in 2..(Len(h \o r) + 1)
  BY <1>1
<1> QED
  BY <1>2, <1>3, <1>4, <1>5

LEMMA QInit == Init => QInv
  BY DEF Init, QInv

(* A message once pushed stays so; a new one differs from all of them.     *)
LEMMA PushedGrows ==
  ASSUME TypeOK, [Next]_vars
  PROVE  Pushed \subseteq Pushed'
<1> SUFFICES ASSUME NEW m \in Messages, m \in Pushed PROVE m \in Pushed'
  BY DEF Pushed, Messages
<1>1. m[1] \in Senders /\ m[2] \in Nat /\ sent[m[1]] \in Nat
  BY DEF Messages, TypeOK
<1>2. CASE UNCHANGED <<sent, sender>>
  BY <1>2 DEF Pushed, Messages
<1>3. ASSUME NEW s \in Senders, Send(s) PROVE m \in Pushed'
  <2>1. CASE Load(s)
    BY <1>1, <2>1 DEF Load, Pushed, Messages, TypeOK
  <2>2. CASE Refused(s)
    BY <1>1, <2>2 DEF Refused, Pushed, Messages, TypeOK
  <2>3. CASE Push(s)
    BY <1>1, <2>3 DEF Push, Pushed, Messages, TypeOK
  <2>4. CASE PushFails(s)
    BY <1>2, <2>4 DEF PushFails
  <2>5. CASE Notify(s)
    BY <1>1, <2>5 DEF Notify, Pushed, Messages, TypeOK
  <2> QED
    BY <1>3, <2>1, <2>2, <2>3, <2>4, <2>5 DEF Send
<1>4. CASE Read
  BY <1>2, <1>4 DEF Read, Resume, Pop, Fetch, Swap, SwapFails, TryBlock, Check,
                    LastBlock, Later, CloseLoad, CloseSwap
<1> QED
  BY <1>2, <1>3, <1>4 DEF Next, vars

LEMMA PushIsNew ==
  ASSUME IInv, NEW s \in Senders, Push(s)
  PROVE  /\ <<s, sent[s]>> \in Messages
         /\ <<s, sent[s]>> \notin Pushed
         /\ <<s, sent[s]>> \in Pushed'
<1>1. sent[s] \in 1..Quota
  BY QuotaAssumption DEF IInv, TypeOK, Control, Push
<1> QED
  BY <1>1 DEF IInv, TypeOK, Push, Pushed, Messages

LEMMA SeqMono ==
  ASSUME NEW S, NEW T, S \subseteq T, NEW q \in Seq(S)
  PROVE  q \in Seq(T)
  OBVIOUS

LEMMA QStep == IInv /\ QInv /\ [Next]_vars => QInv'
<1> SUFFICES ASSUME IInv, QInv, [Next]_vars PROVE QInv'
  OBVIOUS
<1> DEFINE P == Pushed  PP == Pushed'
<1>0. P \subseteq PP
  BY PushedGrows DEF IInv
<1>1. taken \in Seq(P) /\ head \in Seq(P) /\ stack \in Seq(P)
  BY DEF QInv
<1>2. taken \in Seq(PP) /\ head \in Seq(PP) /\ stack \in Seq(PP)
  <2> HIDE DEF P, PP
  <2> QED
    BY <1>0, <1>1, SeqMono
<1>3. ASSUME NEW s \in Senders, Send(s) PROVE QInv'
  <2>1. stack' \in Seq(PP)
    <3>1. CASE Push(s)
      <4>1. <<s, sent[s]>> \in PP
        BY <3>1, PushIsNew
      <4>2. stack' = <<<<s, sent[s]>>>> \o stack
        BY <3>1 DEF Push
      <4> HIDE DEF PP
      <4> QED
        BY <1>2, <4>1, <4>2
    <3>2. CASE UNCHANGED stack
      BY <1>2, <3>2
    <3> QED
      BY <1>3, <3>1, <3>2 DEF Send, Load, Refused, PushFails, Notify
  <2>2. UNCHANGED <<taken, head, pc>>
    BY <1>3 DEF Send, Load, Refused, Push, PushFails, Notify
  <2> QED
    BY <1>2, <2>1, <2>2 DEF QInv
<1>4. CASE Resume
  BY <1>2, <1>4 DEF Resume, QInv
<1>5. CASE Pop
  <2>1. head[1] \in PP /\ Tail(head) \in Seq(PP) /\ <<>> \in Seq(PP)
    <3> HIDE DEF PP
    <3> QED
      BY <1>2, <1>5 DEF Pop
  <2>2. taken' \in Seq(PP)
    <3> HIDE DEF PP
    <3> QED
      BY <1>2, <1>5, <2>1 DEF Pop
  <2>3. head' \in Seq(PP) /\ (pc' = "close" => head' = <<>>)
    BY <1>5, <2>1 DEF Pop, EndIteration
  <2>4. stack' \in Seq(PP) /\ pc' \in {"check", "pop", "close", "later"}
    BY <1>2, <1>5 DEF Pop, EndIteration
  <2> QED
    BY <2>2, <2>3, <2>4 DEF QInv
<1>6. CASE Swap
  <2>1. Reverse(stack) \in Seq(PP) /\ <<>> \in Seq(PP)
    <3> HIDE DEF PP
    <3> QED
      BY <1>2, ReverseType
  <2> QED
    BY <1>2, <1>6, <2>1 DEF Swap, QInv
<1>7. CASE CloseSwap
  <2>1. <<>> \in Seq(PP)
    OBVIOUS
  <2> QED
    BY <1>2, <1>7, <2>1 DEF CloseSwap, QInv
<1>8. CASE Fetch \/ SwapFails \/ TryBlock \/ Check \/ LastBlock \/ Later \/ CloseLoad
  BY <1>2, <1>8 DEF Fetch, SwapFails, TryBlock, Check, LastBlock, Later, CloseLoad,
                    EndIteration, QInv
<1>9. CASE UNCHANGED vars
  BY <1>2, <1>9 DEF vars, QInv
<1> QED
  BY <1>3, <1>4, <1>5, <1>6, <1>7, <1>8, <1>9 DEF Next, Read

(* Every step is one of MessageQueue, or leaves head \o Reverse(stack),    *)
(* taken and the phase alone.                                              *)
LEMMA StepRefines == IInv /\ QInv /\ [Next]_vars => [Queue!Next]_Queue!vars
<1> SUFFICES ASSUME IInv, QInv, [Next]_vars PROVE Queue!Next \/ UNCHANGED Queue!vars
  OBVIOUS
<1> DEFINE R == Reverse(stack)
<1>0. /\ head \in Seq(Messages) /\ stack \in Seq(Messages) /\ taken \in Seq(Messages)
      /\ R \in Seq(Messages) /\ Waiting = head \o R
  BY ReverseType DEF IInv, TypeOK, Waiting
<1>1. CASE UNCHANGED <<head, stack, taken, Phase>>
  BY <1>1 DEF Queue!vars, Waiting
<1>2. ASSUME NEW s \in Senders, Send(s) PROVE Queue!Next \/ UNCHANGED Queue!vars
  <2>1. CASE Push(s)
    <3> DEFINE m == <<s, sent[s]>>
    <3>1. m \in Messages /\ m \notin Pushed
      BY <2>1, PushIsNew
    <3>2. Waiting' = Append(Waiting, m)
      <4>1. Waiting' = head \o Reverse(<<m>> \o stack)
        BY <2>1 DEF Push, Waiting
      <4> HIDE DEF m
      <4>2. Reverse(<<m>> \o stack) = Append(R, m)
        BY <1>0, <3>1, ReversePush
      <4>3. head \o Append(R, m) = Append(head \o R, m)
        <5> HIDE DEF R
        <5> QED
          BY <1>0, <3>1, ConcatAppend
      <4> QED
        BY <1>0, <4>1, <4>2, <4>3
    <3>3. \A i \in DOMAIN (taken \o Waiting) : (taken \o Waiting)[i] # m
      <4>1. taken \o Waiting \in Seq(Pushed)
        <5>1. R \in Seq(Pushed)
          BY ReverseType DEF QInv
        <5> QED
          BY <1>0, <5>1 DEF QInv
      <4> HIDE DEF m
      <4> QED
        BY <3>1, <4>1
    <3>4. Phase # "closed"
      <4>1. top # "closed"
        BY <2>1, PointerFacts DEF Push, IInv
      <4> QED
        BY <4>1 DEF Phase, IInv, Control
    <3>5. UNCHANGED <<taken, Phase>>
      BY <2>1 DEF Push, Phase
    <3>6. Queue!Put(m)
      BY <3>2, <3>3, <3>4, <3>5 DEF Queue!Put
    <3> QED
      BY <3>1, <3>6 DEF Queue!Next
  <2>2. CASE Load(s) \/ Refused(s) \/ PushFails(s) \/ Notify(s)
    BY <1>1, <2>2 DEF Load, Refused, PushFails, Notify, Phase
  <2> QED
    BY <1>2, <2>1, <2>2 DEF Send
<1>3. CASE Resume
  <2>1. CASE pc = "new" /\ pc' = "close"
    <3>1. Phase = "open" /\ taken = <<>> /\ Phase' = "closing" /\ UNCHANGED <<Waiting, taken>>
      BY <1>3, <2>1 DEF Resume, Phase, QInv, Waiting
    <3> QED
      BY <3>1 DEF Queue!Next, Queue!Leave
  <2>2. CASE pc' \in {"pop", "later"} /\ pc \in {"new", "off"}
    BY <1>1, <1>3, <2>2 DEF Resume, Phase
  <2> QED
    BY <1>3, <2>1, <2>2 DEF Resume
<1>4. CASE Pop
  <2>1. head # <<>> /\ Phase = "open" /\ taken' = Append(taken, head[1]) /\ UNCHANGED stack
    BY <1>4 DEF Pop, Phase
  <2>2. /\ Waiting # <<>> /\ Waiting[1] = head[1] /\ Tail(Waiting) = Tail(head) \o R
        /\ \E k \in 2..(Len(Waiting) + 1) : R = SubSeq(Waiting, k, Len(Waiting))
    <3>1. head \in Seq(Pushed) /\ R \in Seq(Pushed) /\ Waiting = head \o R
      BY <1>0, ReverseType DEF QInv
    <3> HIDE DEF R
    <3>2. /\ head \o R # <<>>
          /\ (head \o R)[1] = head[1]
          /\ Tail(head \o R) = Tail(head) \o R
          /\ \E k \in 2..(Len(head \o R) + 1) : R = SubSeq(head \o R, k, Len(head \o R))
      BY <2>1, <3>1, ConcatHead, Zenon
    <3> QED
      BY <3>1, <3>2, Zenon
  <2>3. CASE head' = Tail(head) /\ pc' \in {"check", "pop", "later"}
    <3>1. Phase' = "open" /\ Waiting' = Tail(Waiting)
      BY <2>1, <2>2, <2>3 DEF Phase, Waiting
    <3> QED
      BY <2>1, <2>2, <3>1 DEF Queue!Next, Queue!Take
  <2>4. CASE head' = <<>> /\ pc' = "close"
    <3>1. Phase' = "closing"
      BY <2>4 DEF Phase
    <3>2. Waiting' = R
      <4>1. Waiting' = <<>> \o R
        BY <2>1, <2>4 DEF Waiting
      <4> HIDE DEF R
      <4> QED
        BY <1>0, <4>1, ConcatEmpty
    <3> QED
      BY <2>1, <2>2, <3>1, <3>2 DEF Queue!Next, Queue!TakeLast
  <2> QED
    BY <1>4, <2>3, <2>4 DEF Pop, EndIteration
<1>5. CASE Swap
  <2>1. head = <<>> /\ head' = R /\ stack' = <<>>
    BY <1>5 DEF Swap, IInv, Control
  <2>2. Waiting' = R \o Reverse(<<>>) /\ Waiting = <<>> \o R
    BY <2>1 DEF Waiting
  <2>3. Waiting' = Waiting
    <3> HIDE DEF R
    <3> QED
      BY <1>0, <2>2, ConcatEmpty, ReverseEmpty
  <2>4. UNCHANGED <<taken, Phase>>
    BY <1>5 DEF Swap, Phase
  <2> QED
    BY <2>3, <2>4 DEF Queue!vars
<1>6. CASE CloseSwap
  <2>1. head' = <<>> /\ stack' = <<>> /\ Phase = "closing" /\ Phase' = "closed" /\ UNCHANGED taken
    BY <1>6 DEF CloseSwap, QInv, Phase
  <2>2. Waiting' = <<>>
    BY <2>1, ReverseEmpty DEF Waiting
  <2> QED
    BY <2>1, <2>2 DEF Queue!Next, Queue!Close
<1>7. CASE Fetch \/ SwapFails \/ TryBlock \/ Check \/ LastBlock \/ Later \/ CloseLoad
  BY <1>1, <1>7 DEF Fetch, SwapFails, TryBlock, Check, LastBlock, Later, CloseLoad,
                    EndIteration, Phase
<1>8. CASE UNCHANGED vars
  BY <1>1, <1>8 DEF vars, Phase
<1> QED
  BY <1>2, <1>3, <1>4, <1>5, <1>6, <1>7, <1>8 DEF Next, Read

(* The lock-free queue of compare-exchange loops and two lists             *)
(* (single_reader_queue) behaves to senders and reader like one queue:     *)
(* first in, first out, no message lost or handed out twice, and none put  *)
(* in once the actor has closed it.                                        *)
THEOREM MailboxIsQueue == Spec => IsQueue
<1>1. Init => Queue!Init
  BY ReverseEmpty DEF Init, Queue!Init, Waiting, Phase
<1> QED
  BY <1>1, MailboxInv, QInit, QStep, StepRefines, PTL DEF Spec, IsQueue, Queue!Spec

-----------------------------------------------------------------------------
(* EuclidGcd: a and b always have the same common divisors as the          *)
(* arguments d and n, and are never both 0.                                *)
SameDivisors ==
  \A g \in Nat \ {0} : (Divides(g, a) /\ Divides(g, b)) <=> (Divides(g, d) /\ Divides(g, n))

GcdInv ==
  /\ d \in Nat /\ n \in Nat \ {0}
  /\ a \in Nat /\ b \in Nat /\ returned \in Nat
  /\ gcdPc \in {"a", "b", "done"}
  /\ gcdPc = "b" => b # 0
  /\ gcdPc = "a" => a # 0
  /\ SameDivisors
  /\ gcdPc = "done" => (a = 0 /\ returned = b /\ b # 0) \/ (b = 0 /\ returned = a /\ a # 0)

(* Divisibility without the bound on the quotient.                         *)
LEMMA DividesIff ==
  ASSUME NEW g \in Nat \ {0}, NEW w \in Nat
  PROVE  Divides(g, w) <=> \E k \in Nat : w = k * g
<1>1. ASSUME NEW k \in Nat, w = k * g PROVE k \in 0..w
  <2>1. k * g >= k
    OBVIOUS
  <2>2. QED
    BY <1>1, <2>1
<1>2. QED
  BY <1>1 DEF Divides

(* g divides u and w exactly when it divides u and w % u.                  *)
LEMMA DividesModulus ==
  ASSUME NEW u \in Nat \ {0}, NEW w \in Nat, NEW g \in Nat \ {0}, Divides(g, u)
  PROVE  Divides(g, w) <=> Divides(g, w % u)
<1>1. PICK j \in Nat : u = j * g
  BY DividesIff
<1> DEFINE q == w \div u
           r == w % u
<1>2. q \in Nat /\ r \in Nat /\ w = u * q + r
  OBVIOUS
<1> HIDE DEF q, r
<1>3. u * q = (j * q) * g /\ j * q \in Nat
  BY <1>1, <1>2
<1>4. ASSUME Divides(g, r) PROVE Divides(g, w)
  <2>1. PICK k \in Nat : r = k * g
    BY <1>2, <1>4, DividesIff
  <2>2. w = (j * q + k) * g /\ j * q + k \in Nat
    BY <1>2, <1>3, <2>1
  <2>3. QED
    BY <2>2, DividesIff
<1>5. ASSUME Divides(g, w) PROVE Divides(g, r)
  <2>1. PICK k \in Nat : w = k * g
    BY <1>5, DividesIff
  <2>2. r = (k - j * q) * g
    BY <1>2, <1>3, <2>1
  <2>3. k - j * q >= 0
    <3>1. SUFFICES ASSUME k - j * q <= -1 PROVE FALSE
      BY <1>3
    <3>2. (k - j * q) * g <= -1 * g
      BY <1>3, <3>1
    <3>3. QED
      BY <1>2, <2>2, <3>2
  <2>4. k - j * q \in Nat
    BY <1>3, <2>3
  <2>5. QED
    BY <1>2, <2>2, <2>4, DividesIff
<1>6. QED
  BY <1>4, <1>5 DEF r

LEMMA GcdStepInv ==
  ASSUME GcdInv, [GcdNext]_gcdVars
  PROVE  GcdInv'
<1>1. CASE ReturnB
  BY <1>1 DEF ReturnB, GcdInv, SameDivisors
<1>2. CASE ReturnA
  BY <1>2 DEF ReturnA, GcdInv, SameDivisors
<1>3. CASE ReduceB
  <2>1. a \in Nat \ {0} /\ b \in Nat
    BY <1>3 DEF GcdInv, ReduceB
  <2>2. b % a \in Nat
    BY <2>1
  <2>3. b' = b % a /\ UNCHANGED <<a, d, n>>
    BY <1>3 DEF ReduceB
  <2>4. \A g \in Nat \ {0} : Divides(g, a) => (Divides(g, b) <=> Divides(g, b % a))
    BY <2>1, DividesModulus
  <2>5. SameDivisors'
    BY <2>3, <2>4 DEF GcdInv, SameDivisors
  <2>6. QED
    BY <1>3, <2>1, <2>2, <2>3, <2>5 DEF GcdInv, ReduceB
<1>4. CASE ReduceA
  <2>1. b \in Nat \ {0} /\ a \in Nat
    BY <1>4 DEF GcdInv, ReduceA
  <2>2. a % b \in Nat
    BY <2>1
  <2>3. a' = a % b /\ UNCHANGED <<b, d, n>>
    BY <1>4 DEF ReduceA
  <2>4. \A g \in Nat \ {0} : Divides(g, b) => (Divides(g, a) <=> Divides(g, a % b))
    BY <2>1, DividesModulus
  <2>5. SameDivisors'
    BY <2>3, <2>4 DEF GcdInv, SameDivisors
  <2>6. QED
    BY <1>4, <2>1, <2>2, <2>3, <2>5 DEF GcdInv, ReduceA
<1>5. CASE UNCHANGED gcdVars
  BY <1>5 DEF gcdVars, GcdInv, SameDivisors
<1>6. QED
  BY <1>1, <1>2, <1>3, <1>4, <1>5 DEF GcdNext

(* A common divisor that every common divisor divides is the greatest.     *)
LEMMA GreatestByDivision ==
  ASSUME NEW D \in Nat, NEW N \in Nat \ {0}, NEW r \in Nat \ {0},
         \A g \in Nat \ {0} : Divides(g, r) <=> (Divides(g, D) /\ Divides(g, N))
  PROVE  r = Gcd(D, N)
<1> DEFINE C == CommonDivisors(D, N)
<1>1. \A g \in Nat \ {0}, w \in Nat \ {0} : Divides(g, w) => g \in 1..w
  <2>1. SUFFICES ASSUME NEW g \in Nat \ {0}, NEW w \in Nat \ {0}, Divides(g, w)
                 PROVE  g \in 1..w
    OBVIOUS
  <2>2. PICK k \in Nat : w = k * g
    BY <2>1, DividesIff
  <2>3. k # 0
    BY <2>1, <2>2
  <2>4. k * g >= g
    BY <2>1, <2>2, <2>3
  <2>5. QED
    BY <2>1, <2>2, <2>4
<1>2. Divides(r, r)
  <2>1. r = 1 * r
    OBVIOUS
  <2>2. QED
    BY <2>1, DividesIff
<1>3. r \in C
  BY <1>1, <1>2 DEF CommonDivisors, Divisors
<1>4. \A g \in C : g \in Nat \ {0} /\ g <= r
  <2>1. SUFFICES ASSUME NEW g \in C PROVE g \in Nat \ {0} /\ g <= r
    OBVIOUS
  <2>2. g \in Nat \ {0} /\ Divides(g, D) /\ Divides(g, N)
    BY <2>1 DEF CommonDivisors, Divisors
  <2>3. Divides(g, r)
    BY <2>2
  <2>4. QED
    BY <1>1, <2>2, <2>3
<1> HIDE DEF C
<1> DEFINE c == CHOOSE g \in C : \A h \in C : h <= g
<1>5. c \in C /\ \A h \in C : h <= c
  BY <1>3, <1>4
<1>6. c = r
  <2> HIDE DEF c
  <2>1. c <= r /\ r <= c /\ c \in Nat
    BY <1>3, <1>4, <1>5
  <2>2. QED
    BY <2>1
<1>7. QED
  BY <1>6 DEF Gcd, C

(* gcd_euclidean returns the greatest common divisor of all d and n > 0.   *)
THEOREM EuclidResultIsGcd == GcdSpec => []ResultIsGcd
<1>1. GcdInit => GcdInv
  BY MaxValueAssumption DEF GcdInit, GcdInv, SameDivisors
<1>2. GcdInv => ResultIsGcd
  <2>1. SUFFICES ASSUME GcdInv, gcdPc = "done" PROVE returned = Gcd(d, n)
    BY DEF ResultIsGcd
  <2>2. \A g \in Nat \ {0} : Divides(g, 0)
    BY DEF Divides
  <2>3. /\ d \in Nat /\ n \in Nat \ {0} /\ returned \in Nat \ {0}
        /\ \A g \in Nat \ {0} : Divides(g, returned) <=> (Divides(g, d) /\ Divides(g, n))
    BY <2>1, <2>2 DEF GcdInv, SameDivisors
  <2>4. QED
    BY <2>3, GreatestByDivision
<1>3. GcdInv /\ [GcdNext]_gcdVars => GcdInv'
  BY GcdStepInv
<1>4. QED
  BY <1>1, <1>2, <1>3, PTL DEF GcdSpec

-----------------------------------------------------------------------------
(* GroupLookup: the spinlock excludes and every caller of get() receives   *)
(* one group.  The invariant says what m_flag counts: the readers, or      *)
(* min_long while there is a writer.                                       *)
FlagCounts == /\ Writers = {} => flag = Cardinality(Readers)
              /\ Writers # {} => flag = MinLong

(* A thread that will insert has a group, and what was returned is what    *)
(* the map holds.                                                          *)
CallKept == \A t \in Callers :
          /\ at[t] \in {"upgrade", "load", "lock", "insert"} => mine[t] > 0
          /\ found[t] # 0 => found[t] = instance

LookInv == LookTypeOK /\ FlagCounts /\ MapExclusive /\ CallKept

INSTANCE FiniteSetTheorems

LEMMA ReadersFinite == IsFiniteSet(Readers) /\ Cardinality(Readers) \in Nat
  BY LookAssumption, FS_Subset, FS_CardinalityType DEF Readers

LEMMA LookInitInv == LookInit => LookInv
<1> SUFFICES ASSUME LookInit PROVE LookInv
  OBVIOUS
<1>1. Readers = {} /\ Writers = {}
  BY DEF LookInit, Readers, Writers
<1>2. LookTypeOK
  BY LookAssumption DEF LookInit, LookTypeOK, MinLong
<1>3. FlagCounts
  BY <1>1, FS_EmptySet DEF FlagCounts, LookInit
<1>4. MapExclusive /\ CallKept
  BY <1>1 DEF MapExclusive, CallKept, LookInit
<1> QED BY <1>2, <1>3, <1>4 DEF LookInv

(* Where a step of one thread leaves both sets of holders alone.           *)
LEMMA SameHolders ==
  ASSUME LookTypeOK, NEW t \in Callers, NEW w,
         Go(t, w), t \notin Readers, t \notin Writers,
         w \notin {"find", "return", "upgrade", "insert", "unlock"}
  PROVE  Readers' = Readers /\ Writers' = Writers
  BY DEF Go, Readers, Writers, LookTypeOK

LEMMA ReaderStays ==
  ASSUME LookTypeOK, NEW t \in Callers, NEW w,
         Go(t, w), t \in Readers, w \in {"find", "return", "upgrade"}
  PROVE  Readers' = Readers /\ Writers' = Writers
  BY DEF Go, Readers, Writers, LookTypeOK

LEMMA ReaderLeaves ==
  ASSUME LookTypeOK, NEW t \in Callers, NEW w,
         Go(t, w), t \in Readers,
         w \notin {"find", "return", "upgrade", "insert", "unlock"}
  PROVE  Readers' = Readers \ {t} /\ Writers' = Writers
  BY DEF Go, Readers, Writers, LookTypeOK

(* A reader that leaves takes one off the flag.                            *)
LEMMA ReleaseShared ==
  ASSUME LookInv, NEW t \in Callers, t \in Readers, flag' = flag - 1,
         Readers' = Readers \ {t}, Writers' = Writers
  PROVE  FlagCounts' /\ MapExclusive' /\ flag' \in Nat
<1>1. Writers = {}
  BY DEF LookInv, MapExclusive
<1>2. Cardinality(Readers \ {t}) = Cardinality(Readers) - 1
  BY ReadersFinite, FS_RemoveElement
<1>3. Cardinality(Readers \ {t}) \in Nat
  BY ReadersFinite, FS_Subset, FS_CardinalityType
<1>4. flag' = Cardinality(Readers')
  BY <1>1, <1>2 DEF LookInv, FlagCounts
<1> QED BY <1>1, <1>3, <1>4 DEF FlagCounts, MapExclusive

-----------------------------------------------------------------------------
(* Every step of get() keeps the invariant.                                *)
LEMMA LookStepInv == ASSUME LookInv, NEW t \in Callers, Step(t) PROVE LookInv'
<1> USE DEF LookInv
<1>0. LookTypeOK /\ MinLong < 0 /\ MinLong \in Int
  BY LookAssumption DEF MinLong
<1>1. CASE get(t)
  <2>1. Readers' = Readers /\ Writers' = Writers
    BY <1>1, SameHolders DEF get, Readers, Writers
  <2>2. LookTypeOK'
    BY <1>1 DEF get, LookTypeOK, Go, LoadFlag
  <2>3. FlagCounts' /\ MapExclusive'
    BY <1>1, <2>1 DEF get, FlagCounts, MapExclusive
  <2>4. CallKept'
    BY <1>1 DEF get, CallKept, Go, LookTypeOK
  <2> QED BY <2>2, <2>3, <2>4
<1>2. CASE lock_shared(t)
  <2>1. CASE v[t] < 0 \/ flag # v[t]
    BY <1>2, <2>1 DEF lock_shared, LookTypeOK, LoadFlag, FlagCounts, MapExclusive,
       CallKept, Readers, Writers
  <2>2. CASE ~(v[t] < 0 \/ flag # v[t])
    <3>1. flag' = flag + 1 /\ Go(t, "find") /\ UNCHANGED <<v, instance, made, mine, found>>
          /\ at[t] = "lock_shared"
      BY <1>2, <2>2 DEF lock_shared
    <3>2. flag \in Nat /\ Writers = {}
      BY <1>0, <2>2 DEF LookTypeOK, FlagCounts
    <3>3. Readers' = Readers \cup {t} /\ Writers' = {} /\ t \notin Readers
      BY <3>1, <3>2 DEF Go, Readers, Writers, LookTypeOK
    <3>4. Cardinality(Readers') = Cardinality(Readers) + 1
      BY <3>3, ReadersFinite, FS_AddElement
    <3>5. LookTypeOK'
      BY <3>1, <3>2 DEF LookTypeOK, Go
    <3>6. FlagCounts' /\ MapExclusive'
      BY <3>1, <3>2, <3>3, <3>4 DEF FlagCounts, MapExclusive
    <3>7. CallKept'
      BY <3>1 DEF CallKept, Go, LookTypeOK
    <3> QED BY <3>5, <3>6, <3>7
  <2> QED BY <2>1, <2>2
<1>3. CASE find(t)
  <2>1. Readers' = Readers /\ Writers' = Writers
    BY <1>3, ReaderStays DEF find, Readers
  <2>2. LookTypeOK'
    BY <1>3 DEF find, LookTypeOK, Go
  <2>3. FlagCounts' /\ MapExclusive'
    BY <1>3, <2>1 DEF find, FlagCounts, MapExclusive
  <2>4. CallKept'
    BY <1>3 DEF find, CallKept, Go, LookTypeOK
  <2> QED BY <2>2, <2>3, <2>4
<1>4. CASE Return(t)
  <2>1. t \in Readers /\ Readers' = Readers \ {t} /\ Writers' = Writers
    BY <1>4, ReaderLeaves DEF Return, Readers
  <2>2. FlagCounts' /\ MapExclusive' /\ flag' \in Nat
    BY <1>4, <2>1, ReleaseShared DEF Return, unlock_shared
  <2>3. LookTypeOK'
    BY <1>4, <2>2 DEF Return, LookTypeOK, Go
  <2>4. CallKept'
    BY <1>4 DEF Return, CallKept, Go, LookTypeOK
  <2> QED BY <2>2, <2>3, <2>4
<1>5. CASE upgrade(t)
  <2>1. CASE at[t] = "upgrade"
    <3>1. t \in Readers /\ Readers' = Readers \ {t} /\ Writers' = Writers
      BY <1>5, <2>1, ReaderLeaves DEF upgrade, Readers
    <3>2. FlagCounts' /\ MapExclusive' /\ flag' \in Nat
      BY <1>5, <2>1, <3>1, ReleaseShared DEF upgrade, unlock_shared
    <3>3. LookTypeOK'
      BY <1>5, <2>1, <3>2 DEF upgrade, LookTypeOK, Go
    <3>4. CallKept'
      BY <1>5, <2>1 DEF upgrade, CallKept, Go, LookTypeOK
    <3> QED BY <3>2, <3>3, <3>4
  <2>2. CASE at[t] = "load"
    <3>1. Readers' = Readers /\ Writers' = Writers
      BY <1>5, <2>2, SameHolders DEF upgrade, Readers, Writers
    <3>2. LookTypeOK'
      BY <1>5, <2>2 DEF upgrade, LookTypeOK, Go, LoadFlag
    <3>3. FlagCounts' /\ MapExclusive'
      BY <1>5, <2>2, <3>1 DEF upgrade, FlagCounts, MapExclusive
    <3>4. CallKept'
      BY <1>5, <2>2 DEF upgrade, CallKept, Go, LookTypeOK
    <3> QED BY <3>2, <3>3, <3>4
  <2> QED BY <1>5, <2>1, <2>2 DEF upgrade
<1>6. CASE lock(t)
  <2>1. CASE v[t] # 0 \/ flag # v[t]
    BY <1>6, <2>1 DEF lock, LookTypeOK, LoadFlag, FlagCounts, MapExclusive, CallKept,
       Readers, Writers
  <2>2. CASE ~(v[t] # 0 \/ flag # v[t])
    <3>1. flag = 0 /\ flag' = MinLong /\ Go(t, "insert") /\ at[t] = "lock"
          /\ UNCHANGED <<v, instance, made, mine, found>>
      BY <1>6, <2>2 DEF lock
    <3>2. Writers = {} /\ Cardinality(Readers) = 0
      BY <1>0, <3>1 DEF FlagCounts
    <3>3. Readers = {}
      BY <3>2, ReadersFinite, FS_EmptySet
    <3>4. Readers' = {} /\ Writers' = {t}
      BY <3>1, <3>2, <3>3 DEF Go, Readers, Writers, LookTypeOK
    <3>5. LookTypeOK'
      BY <3>1 DEF LookTypeOK, Go, MinLong
    <3>6. FlagCounts' /\ MapExclusive'
      BY <3>1, <3>4 DEF FlagCounts, MapExclusive, MinLong
    <3>7. CallKept'
      BY <3>1 DEF CallKept, Go, LookTypeOK
    <3> QED BY <3>5, <3>6, <3>7
  <2> QED BY <2>1, <2>2
<1>7. CASE insert(t)
  <2>1. Readers' = Readers /\ Writers' = Writers
    BY <1>7 DEF insert, Go, Readers, Writers, LookTypeOK
  <2>2. LookTypeOK'
    BY <1>7 DEF insert, Inserted, LookTypeOK, Go
  <2>3. FlagCounts' /\ MapExclusive'
    BY <1>7, <2>1 DEF insert, FlagCounts, MapExclusive
  <2>4. CallKept'
    BY <1>7 DEF insert, Inserted, CallKept, Go, LookTypeOK
  <2> QED BY <2>2, <2>3, <2>4
<1>8. CASE Unlock(t)
  <2>1. t \in Writers /\ Writers = {t} /\ Readers = {}
    BY <1>8 DEF Unlock, Writers, MapExclusive
  <2>2. Readers' = {} /\ Writers' = {}
    BY <1>8, <2>1 DEF Unlock, Go, Readers, Writers, LookTypeOK
  <2>3. LookTypeOK'
    BY <1>8 DEF Unlock, unlock, LookTypeOK, Go
  <2>4. FlagCounts' /\ MapExclusive'
    BY <1>8, <2>2, FS_EmptySet DEF Unlock, unlock, FlagCounts, MapExclusive
  <2>5. CallKept'
    BY <1>8 DEF Unlock, CallKept, Go, LookTypeOK
  <2> QED BY <2>3, <2>4, <2>5
<1> QED BY <1>1, <1>2, <1>3, <1>4, <1>5, <1>6, <1>7, <1>8 DEF Step

LEMMA LookInvAlways == LookSpec => []LookInv
<1>1. LookInv /\ [LookNext]_lookVars => LookInv'
  <2> SUFFICES ASSUME LookInv, [LookNext]_lookVars PROVE LookInv'
    OBVIOUS
  <2>1. CASE LookNext
    BY <2>1, LookStepInv DEF LookNext
  <2>2. CASE UNCHANGED lookVars
    BY <2>2 DEF lookVars, LookInv, LookTypeOK, FlagCounts, MapExclusive, CallKept,
       Readers, Writers
  <2> QED BY <2>1, <2>2
<1> QED BY <1>1, LookInitInv, PTL DEF LookSpec

-----------------------------------------------------------------------------
(* shared_spinlock excludes readers and other writers while a thread holds *)
(* it exclusively, however many threads call get().                        *)
THEOREM MapExclusiveAlways == LookSpec => []MapExclusive
  BY LookInvAlways, PTL DEF LookInv

(* All threads that ask the local group module for one identifier get the  *)
(* same group.                                                             *)
THEOREM OneGroupAlways == LookSpec => []OneGroup
<1>1. LookInv => OneGroup
  BY DEF LookInv, CallKept, OneGroup
<1> QED BY <1>1, LookInvAlways, PTL
=============================================================================
