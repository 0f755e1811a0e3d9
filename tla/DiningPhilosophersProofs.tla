----------------------- MODULE DiningPhilosophersProofs ----------------------
(***************************************************************************)
(* Neighbours never eat at the same time and no chopstick is lost, for any *)
(* number of seats at the table of dining_philosophers.                    *)
(***************************************************************************)
EXTENDS DiningPhilosophers, Functions, TLAPS

USE SMT, Zenon, Z3

(* e is in the queue s.                                                    *)
Contains(s, e) == \E i \in 1..Len(s) : s[i] = e

(* Between a philosopher p and a chopstick c beside it at most one take or *)
(* its answer is under way, and at most one put, which the next take does  *)
(* not overtake.                                                           *)
Sticks(p) == {left(p), right(p)}
OutTake(p, c) == Contains(outbox[p], <<"take", c>>)
OutPut(p, c) == Contains(outbox[p], <<"put", c>>)
ReqTake(p, c) == Contains(requests[c], <<"take", p>>)
ReqPut(p, c) == Contains(requests[c], <<"put", p>>)
GotTaken(p, c) == Contains(answers[p], <<"taken", c>>)
GotBusy(p, c) == Contains(answers[p], <<"busy", c>>)
Asked(p, c) == OutTake(p, c) \/ ReqTake(p, c) \/ GotTaken(p, c) \/ GotBusy(p, c)
Held(p, c) == mood[p] = <<"eating">> \/ mood[p] = <<"waiting_for", OtherOf(p, c)>>

Before(s, x, y) == \A i, j \in 1..Len(s) : s[i] = x /\ s[j] = y => i < j

PairInv(p, c) ==
  /\ user[c] = p <=> GotTaken(p, c) \/ OutPut(p, c) \/ ReqPut(p, c) \/ Held(p, c)
  /\ OutTake(p, c) => mood[p] = <<"hungry">> /\ ~ReqTake(p, c)
  /\ GotTaken(p, c) \/ GotBusy(p, c) => ~OutTake(p, c) /\ ~ReqTake(p, c)
  /\ ~(GotTaken(p, c) /\ GotBusy(p, c))
  /\ OutPut(p, c) => mood[p] = <<"thinking">> /\ ~ReqPut(p, c)
  /\ ReqPut(p, c) => mood[p] = <<"thinking">> \/ OutTake(p, c) \/ ReqTake(p, c)
  /\ Before(requests[c], <<"put", p>>, <<"take", p>>)

(* What p still waits for in each of its behaviors.                        *)
MoodInv(p) ==
  \/ mood[p] \in {<<"thinking">>, <<"eating">>} /\ \A c \in Sticks(p) : ~Asked(p, c)
  \/ mood[p] = <<"hungry">> /\ \A c \in Sticks(p) : Asked(p, c)
  \/ \E c \in Sticks(p) : /\ mood[p] \in {<<"denied">>, <<"waiting_for", c>>}
                          /\ Asked(p, c) /\ ~Asked(p, OtherOf(p, c))

Moods == {<<"thinking">>, <<"hungry">>, <<"denied">>, <<"eating">>}
         \cup {<<"waiting_for", c>> : c \in Round}

DineTypeOK ==
  /\ mood \in [Round -> Moods]
  /\ outbox \in [Round -> Seq({"take", "put"} \X Round)]
  /\ answers \in [Round -> Seq({"taken", "busy"} \X Round)]
  /\ requests \in [Round -> Seq({"take", "put"} \X Round)]
  /\ user \in [Round -> Round \cup {NoOne}]
  /\ \A i \in Round : /\ IsInjective(outbox[i]) /\ IsInjective(answers[i]) /\ IsInjective(requests[i])
                      /\ \A k \in 1..Len(outbox[i]) : outbox[i][k][2] \in Sticks(i)
                      /\ \A k \in 1..Len(answers[i]) : answers[i][k][2] \in Sticks(i)
                      /\ \A k \in 1..Len(requests[i]) : i \in Sticks(requests[i][k][2])

DineInv == /\ DineTypeOK
           /\ \A p \in Round : MoodInv(p) /\ \A c \in Sticks(p) : PairInv(p, c)
           /\ \A c, p \in Round : user[c] = p => c \in Sticks(p)
-----------------------------------------------------------------------------
(* What append, tail and a pair do to membership and to the order.         *)
LEMMA AppendFacts ==
  ASSUME NEW S, NEW s \in Seq(S), NEW e \in S
  PROVE  /\ Append(s, e) \in Seq(S)
         /\ \A x : Contains(Append(s, e), x) <=> Contains(s, x) \/ x = e
         /\ IsInjective(s) /\ ~Contains(s, e) => IsInjective(Append(s, e))
         /\ \A x, y : Before(s, x, y) /\ (x = e => ~Contains(s, y)) /\ x # y
                        => Before(Append(s, e), x, y)
<1> DEFINE t == Append(s, e)
<1>1. t \in Seq(S) /\ Len(s) \in Nat /\ Len(t) = Len(s) + 1 /\ DOMAIN t = 1..Len(t)
      /\ DOMAIN s = 1..Len(s)
  OBVIOUS
<1>2. (\A i \in 1..Len(s) : t[i] = s[i]) /\ t[Len(s) + 1] = e
  OBVIOUS
<1> HIDE DEF t
<1>3. \A i \in 1..Len(t) : i \in 1..Len(s) \/ i = Len(s) + 1
  BY <1>1
<1>4. 1..Len(s) \subseteq 1..Len(t) /\ Len(s) + 1 \in 1..Len(t)
      /\ \A i \in 1..Len(s) : i < Len(s) + 1
  BY <1>1
<1>5. ASSUME NEW x PROVE Contains(t, x) <=> Contains(s, x) \/ x = e
  BY <1>2, <1>3, <1>4, Zenon DEF Contains
<1>6. ASSUME IsInjective(s), ~Contains(s, e) PROVE IsInjective(t)
  BY <1>1, <1>2, <1>3, <1>6, Zenon DEF IsInjective, Contains
<1>7. ASSUME NEW x, NEW y, Before(s, x, y), x = e => ~Contains(s, y), x # y
      PROVE  Before(t, x, y)
  BY <1>2, <1>3, <1>4, <1>7, Zenon DEF Before, Contains
<1>8. t \in Seq(S)
  BY <1>1
<1> QED
  BY <1>5, <1>6, <1>7, <1>8 DEF t

LEMMA TailFacts ==
  ASSUME NEW S, NEW s \in Seq(S), s # <<>>, IsInjective(s)
  PROVE  /\ Tail(s) \in Seq(S) /\ Head(s) \in S
         /\ \A x : Contains(Tail(s), x) <=> Contains(s, x) /\ x # Head(s)
         /\ Contains(s, Head(s))
         /\ IsInjective(Tail(s))
         /\ \A x, y : Before(s, x, y) => Before(Tail(s), x, y)
         /\ \A x : Before(s, x, Head(s)) => x = Head(s) \/ ~Contains(s, x)
<1> DEFINE t == Tail(s)
           n == Len(s)
<1>1. t \in Seq(S) /\ n \in Nat \ {0} /\ Len(t) = n - 1 /\ DOMAIN t = 1..Len(t) /\ DOMAIN s = 1..n
      /\ Head(s) \in S /\ Head(s) = s[1]
  OBVIOUS
<1>2. \A i \in 1..n - 1 : t[i] = s[i + 1] /\ i + 1 \in 1..n /\ i + 1 # 1
  BY <1>1
<1>3. \A i \in 1..n : i = 1 \/ \E k \in 1..n - 1 : i = k + 1
  <2> SUFFICES ASSUME NEW i \in 1..n, i # 1 PROVE \E k \in 1..n - 1 : i = k + 1
    OBVIOUS
  <2>1. i - 1 \in 1..n - 1 /\ i = (i - 1) + 1
    BY <1>1
  <2> QED
    BY <2>1
<1>4. 1 \in 1..n /\ \A i, k \in 1..n - 1 : (i + 1 = k + 1 => i = k) /\ (i + 1 < k + 1 => i < k)
  BY <1>1
<1>9. \A i \in 1..n : ~(i < 1)
  BY <1>1
<1> HIDE DEF t, n
<1>5. ASSUME NEW x PROVE Contains(t, x) <=> Contains(s, x) /\ x # Head(s)
  <2>1. ASSUME Contains(t, x) PROVE Contains(s, x) /\ x # Head(s)
    <3>1. PICK k \in 1..n - 1 : t[k] = x
      BY <1>1, <2>1 DEF Contains
    <3>2. s[k + 1] = x /\ k + 1 \in 1..n /\ k + 1 # 1
      BY <1>2, <3>1
    <3> QED
      BY <1>1, <1>4, <3>2 DEF Contains, IsInjective, n
  <2>2. ASSUME Contains(s, x), x # Head(s) PROVE Contains(t, x)
    <3>1. PICK i \in 1..n : s[i] = x
      BY <2>2 DEF Contains, n
    <3>2. PICK k \in 1..n - 1 : i = k + 1
      BY <1>1, <1>3, <2>2, <3>1
    <3> QED
      BY <1>1, <1>2, <3>1, <3>2 DEF Contains
  <2> QED
    BY <2>1, <2>2
<1>6. Contains(s, Head(s))
  BY <1>1, <1>4 DEF Contains, n
<1>7. IsInjective(t)
  BY <1>1, <1>2, <1>4 DEF IsInjective
<1>8. ASSUME NEW x, NEW y, Before(s, x, y) PROVE Before(t, x, y)
  <2> SUFFICES ASSUME NEW i \in 1..n - 1, NEW j \in 1..n - 1, t[i] = x, t[j] = y PROVE i < j
    BY <1>1 DEF Before
  <2>1. s[i + 1] = x /\ s[j + 1] = y /\ i + 1 \in 1..n /\ j + 1 \in 1..n
    BY <1>2
  <2>2. i + 1 < j + 1
    BY <1>8, <2>1 DEF Before, n
  <2> QED
    BY <1>4, <2>2
<1>10. ASSUME NEW x, Before(s, x, Head(s)), Contains(s, x) PROVE x = Head(s)
  BY <1>1, <1>4, <1>9, <1>10 DEF Before, Contains, n
<1>11. t \in Seq(S) /\ Head(s) \in S
  BY <1>1
<1> QED
  BY <1>5, <1>6, <1>7, <1>8, <1>10, <1>11 DEF t

LEMMA PairFacts ==
  ASSUME NEW S, NEW a \in S, NEW b \in S, a # b
  PROVE  /\ <<a, b>> \in Seq(S) /\ IsInjective(<<a, b>>)
         /\ \A x : Contains(<<a, b>>, x) <=> x = a \/ x = b
<1>1. Len(<<a, b>>) = 2 /\ DOMAIN <<a, b>> = {1, 2} /\ 1..2 = {1, 2} /\ <<a, b>>[1] = a /\ <<a, b>>[2] = b
  OBVIOUS
<1>2. \A x : Contains(<<a, b>>, x) <=> x = a \/ x = b
  BY <1>1 DEF Contains
<1>3. IsInjective(<<a, b>>)
  BY <1>1 DEF IsInjective
<1>4. <<a, b>> \in Seq(S)
  OBVIOUS
<1> QED
  BY <1>2, <1>3, <1>4

(* The two chopsticks beside a philosopher.                                *)
LEMMA SticksFacts ==
  ASSUME NEW p \in Round
  PROVE  /\ left(p) \in Round /\ right(p) \in Round /\ left(p) # right(p)
         /\ Sticks(p) \subseteq Round
         /\ \A c \in Sticks(p) : /\ OtherOf(p, c) \in Sticks(p) /\ OtherOf(p, c) # c
                                 /\ OtherOf(p, OtherOf(p, c)) = c
                                 /\ Sticks(p) = {c, OtherOf(p, c)}
<1>1. CASE p + 1 < Seats
  <2>1. (p + 1) % Seats = p + 1
    BY <1>1, SeatsAssumption DEF Round
  <2> QED
    BY <1>1, <2>1, SeatsAssumption DEF Round, left, right, Sticks, OtherOf
<1>2. CASE p + 1 = Seats
  <2>1. (p + 1) % Seats = 0
    BY <1>2, SeatsAssumption DEF Round
  <2> QED
    BY <1>2, <2>1, SeatsAssumption DEF Round, left, right, Sticks, OtherOf
<1> QED
  BY <1>1, <1>2, SeatsAssumption DEF Round

LEMMA DineInitInv == DineInit => DineInv
<1> SUFFICES ASSUME DineInit PROVE DineInv
  OBVIOUS
<1>1. \A x : ~Contains(<<>>, x)
  BY DEF Contains
<1>2. IsInjective(<<>>)
  BY DEF IsInjective
<1>3. DineTypeOK
  BY <1>2 DEF DineInit, DineTypeOK, Moods
<1>4. \A p, c \in Round : user[c] # p
  BY SeatsAssumption DEF DineInit, NoOne, Round
<1>5. ASSUME NEW p \in Round
      PROVE  MoodInv(p) /\ \A c \in Sticks(p) : PairInv(p, c)
  <2>1. \A c \in Sticks(p) : c \in Round
    BY SticksFacts
  <2>2. mood[p] = <<"thinking">> /\ outbox[p] = <<>> /\ answers[p] = <<>>
        /\ \A c \in Sticks(p) : requests[c] = <<>>
    BY <2>1 DEF DineInit
  <2>3. ASSUME NEW c \in Sticks(p)
        PROVE  /\ ~OutTake(p, c) /\ ~OutPut(p, c) /\ ~ReqTake(p, c) /\ ~ReqPut(p, c)
               /\ ~GotTaken(p, c) /\ ~GotBusy(p, c) /\ ~Held(p, c)
    BY <1>1, <2>2 DEF OutTake, OutPut, ReqTake, ReqPut, GotTaken, GotBusy, Held
  <2>4. ASSUME NEW c \in Sticks(p) PROVE Before(requests[c], <<"put", p>>, <<"take", p>>)
    BY <2>2 DEF Before
  <2>5. MoodInv(p)
    BY <2>2, <2>3 DEF MoodInv, Asked
  <2>6. ASSUME NEW c \in Sticks(p) PROVE PairInv(p, c)
    BY <1>4, <2>1, <2>3, <2>4 DEF PairInv
  <2> QED
    BY <2>5, <2>6
<1> QED
  BY <1>3, <1>4, <1>5 DEF DineInv

(* The bookkeeping of one list: what a membership in it says.              *)
LEMMA Kinds ==
  ASSUME DineInv, NEW i \in Round
  PROVE  /\ \A x : Contains(outbox[i], x) => x \in {"take", "put"} \X Sticks(i)
         /\ \A x : Contains(answers[i], x) => x \in {"taken", "busy"} \X Sticks(i)
         /\ \A x : Contains(requests[i], x) => x \in {"take", "put"} \X Round /\ i \in Sticks(x[2])
<1>1. Sticks(i) \subseteq Round
  BY SticksFacts
<1>2. outbox[i] \in Seq({"take", "put"} \X Round) /\ answers[i] \in Seq({"taken", "busy"} \X Round)
      /\ requests[i] \in Seq({"take", "put"} \X Round)
  BY DEF DineInv, DineTypeOK
<1>3. ASSUME NEW x, Contains(outbox[i], x) PROVE x \in {"take", "put"} \X Sticks(i)
  <2>1. PICK k \in 1..Len(outbox[i]) : outbox[i][k] = x
    BY <1>3 DEF Contains
  <2>2. x \in {"take", "put"} \X Round /\ x[2] \in Sticks(i)
    BY <1>2, <2>1 DEF DineInv, DineTypeOK
  <2> QED
    BY <2>2
<1>4. ASSUME NEW x, Contains(answers[i], x) PROVE x \in {"taken", "busy"} \X Sticks(i)
  <2>1. PICK k \in 1..Len(answers[i]) : answers[i][k] = x
    BY <1>4 DEF Contains
  <2>2. x \in {"taken", "busy"} \X Round /\ x[2] \in Sticks(i)
    BY <1>2, <2>1 DEF DineInv, DineTypeOK
  <2> QED
    BY <2>2
<1>5. ASSUME NEW x, Contains(requests[i], x)
      PROVE  x \in {"take", "put"} \X Round /\ i \in Sticks(x[2])
  <2>1. PICK k \in 1..Len(requests[i]) : requests[i][k] = x
    BY <1>5 DEF Contains
  <2> QED
    BY <1>2, <2>1 DEF DineInv, DineTypeOK
<1> QED
  BY <1>3, <1>4, <1>5

(* The types again, from memberships.                                      *)
LEMMA TypeFromKinds ==
  ASSUME mood' \in [Round -> Moods], user' \in [Round -> Round \cup {NoOne}],
         outbox' \in [Round -> Seq({"take", "put"} \X Round)],
         answers' \in [Round -> Seq({"taken", "busy"} \X Round)],
         requests' \in [Round -> Seq({"take", "put"} \X Round)],
         \A i \in Round : /\ IsInjective(outbox'[i]) /\ IsInjective(answers'[i])
                          /\ IsInjective(requests'[i]),
         \A i \in Round : \A x :
           /\ Contains(outbox'[i], x) => x[2] \in Sticks(i)
           /\ Contains(answers'[i], x) => x[2] \in Sticks(i)
           /\ Contains(requests'[i], x) => i \in Sticks(x[2])
  PROVE  DineTypeOK'
<1>1. \A s : \A k \in 1..Len(s) : Contains(s, s[k])
  BY DEF Contains
<1>2. ASSUME NEW i \in Round
      PROVE  /\ \A k \in 1..Len(outbox'[i]) : outbox'[i][k][2] \in Sticks(i)
             /\ \A k \in 1..Len(answers'[i]) : answers'[i][k][2] \in Sticks(i)
             /\ \A k \in 1..Len(requests'[i]) : i \in Sticks(requests'[i][k][2])
  BY <1>1
<1> QED
  BY <1>2 DEF DineTypeOK

(* A list of p's outbox reaches a chopstick.                               *)
LEMMA SendNextInv ==
  ASSUME DineInv, NEW p \in Round, SendNext(p)
  PROVE  DineInv'
<1> DEFINE m == Head(outbox[p])
           k == m[1]
           c == m[2]
<1>1. /\ outbox \in [Round -> Seq({"take", "put"} \X Round)]
      /\ requests \in [Round -> Seq({"take", "put"} \X Round)]
      /\ outbox[p] \in Seq({"take", "put"} \X Round) /\ outbox[p] # <<>> /\ IsInjective(outbox[p])
  BY DEF DineInv, DineTypeOK, SendNext
<1>2. /\ Tail(outbox[p]) \in Seq({"take", "put"} \X Round) /\ m \in {"take", "put"} \X Round
      /\ \A x : Contains(Tail(outbox[p]), x) <=> Contains(outbox[p], x) /\ x # m
      /\ Contains(outbox[p], m) /\ IsInjective(Tail(outbox[p]))
  BY <1>1, TailFacts
<1>3. m = <<k, c>> /\ k \in {"take", "put"} /\ c \in Sticks(p) /\ c \in Round
  <2>1. m \in {"take", "put"} \X Sticks(p)
    BY <1>2, Kinds
  <2> QED
    BY <1>2, <2>1
<1>4. requests[c] \in Seq({"take", "put"} \X Round) /\ IsInjective(requests[c])
      /\ <<k, p>> \in {"take", "put"} \X Round
  BY <1>1, <1>3 DEF DineInv, DineTypeOK
<1>5. ~Contains(requests[c], <<k, p>>) /\ (k = "put" => ~Contains(requests[c], <<"take", p>>))
  <2>1. PairInv(p, c) /\ MoodInv(p)
    BY <1>3 DEF DineInv
  <2>2. CASE k = "take"
    BY <1>2, <1>3, <2>1, <2>2 DEF PairInv, OutTake, ReqTake
  <2>3. CASE k = "put"
    <3>1. OutPut(p, c)
      BY <1>2, <1>3, <2>3 DEF OutPut
    <3>2. mood[p] = <<"thinking">> /\ ~ReqPut(p, c)
      BY <2>1, <3>1 DEF PairInv
    <3>3. ~ReqTake(p, c)
      BY <1>3, <2>1, <3>2 DEF MoodInv, Asked
    <3> QED
      BY <2>3, <3>2, <3>3 DEF ReqPut, ReqTake
  <2> QED
    BY <1>3, <2>2, <2>3
<1> DEFINE R == Append(requests[c], <<k, p>>)
<1>6. /\ R \in Seq({"take", "put"} \X Round) /\ IsInjective(R)
      /\ \A x : Contains(R, x) <=> Contains(requests[c], x) \/ x = <<k, p>>
      /\ \A q \in Round : Before(requests[c], <<"put", q>>, <<"take", q>>)
                            => Before(R, <<"put", q>>, <<"take", q>>)
  <2>1. \A q \in Round : <<"put", q>> = <<k, p>> => ~Contains(requests[c], <<"take", q>>)
    BY <1>5
  <2>2. \A q : <<"put", q>> # <<"take", q>>
    OBVIOUS
  <2> DEFINE e == <<k, p>>
             r == requests[c]
             M == {"take", "put"} \X Round
  <2>3. r \in Seq(M) /\ e \in M /\ IsInjective(r)
        /\ ~Contains(r, e) /\ \A q \in Round : <<"put", q>> = e => ~Contains(r, <<"take", q>>)
    BY <1>4, <1>5, <2>1
  <2> HIDE DEF e, r, M
  <2>4. /\ Append(r, e) \in Seq(M) /\ (IsInjective(r) /\ ~Contains(r, e) => IsInjective(Append(r, e)))
        /\ \A x : Contains(Append(r, e), x) <=> Contains(r, x) \/ x = e
        /\ \A x, y : Before(r, x, y) /\ (x = e => ~Contains(r, y)) /\ x # y
                       => Before(Append(r, e), x, y)
    BY <2>3, AppendFacts
  <2>5. \A q \in Round : Before(r, <<"put", q>>, <<"take", q>>)
                            => Before(Append(r, e), <<"put", q>>, <<"take", q>>)
    BY <2>2, <2>3, <2>4
  <2> QED
    BY <2>3, <2>4, <2>5 DEF e, r, M
<1>7. outbox' = [outbox EXCEPT ![p] = Tail(outbox[p])] /\ requests' = [requests EXCEPT ![c] = R]
      /\ UNCHANGED <<mood, answers, user>>
  BY DEF SendNext
<1> HIDE DEF m, k, c, R
<1>8. /\ \A i \in Round : outbox'[i] = IF i = p THEN Tail(outbox[p]) ELSE outbox[i]
      /\ \A i \in Round : requests'[i] = IF i = c THEN R ELSE requests[i]
      /\ answers' = answers /\ mood' = mood /\ user' = user
  BY <1>1, <1>3, <1>7
<1>9. DineTypeOK'
  <2>1. /\ outbox' \in [Round -> Seq({"take", "put"} \X Round)]
        /\ requests' \in [Round -> Seq({"take", "put"} \X Round)]
    BY <1>1, <1>2, <1>3, <1>6, <1>7
  <2>2. \A i \in Round : IsInjective(outbox'[i]) /\ IsInjective(answers'[i]) /\ IsInjective(requests'[i])
    BY <1>2, <1>6, <1>8 DEF DineInv, DineTypeOK
  <2>3. ASSUME NEW i \in Round, NEW x
        PROVE  /\ Contains(outbox'[i], x) => x[2] \in Sticks(i)
               /\ Contains(answers'[i], x) => x[2] \in Sticks(i)
               /\ Contains(requests'[i], x) => i \in Sticks(x[2])
    <3>1. /\ Contains(outbox[i], x) => x[2] \in Sticks(i)
          /\ Contains(answers[i], x) => x[2] \in Sticks(i)
          /\ Contains(requests[i], x) => i \in Sticks(x[2])
      BY Kinds
    <3>2. <<k, p>>[2] = p
      OBVIOUS
    <3> QED
      BY <1>2, <1>3, <1>6, <1>8, <3>1, <3>2
  <2>4. /\ mood' \in [Round -> Moods] /\ user' \in [Round -> Round \cup {NoOne}]
        /\ answers' \in [Round -> Seq({"taken", "busy"} \X Round)]
    BY <1>8 DEF DineInv, DineTypeOK
  <2> QED
    BY <2>1, <2>2, <2>3, <2>4, TypeFromKinds
<1>10. ASSUME NEW q \in Round, NEW d \in Sticks(q)
       PROVE  /\ OutTake(q, d)' <=> OutTake(q, d) /\ ~(k = "take" /\ q = p /\ d = c)
              /\ OutPut(q, d)' <=> OutPut(q, d) /\ ~(k = "put" /\ q = p /\ d = c)
              /\ ReqTake(q, d)' <=> ReqTake(q, d) \/ (k = "take" /\ q = p /\ d = c)
              /\ ReqPut(q, d)' <=> ReqPut(q, d) \/ (k = "put" /\ q = p /\ d = c)
              /\ (GotTaken(q, d)' <=> GotTaken(q, d)) /\ (GotBusy(q, d)' <=> GotBusy(q, d))
              /\ (Held(q, d)' <=> Held(q, d))
              /\ Before(requests[d], <<"put", q>>, <<"take", q>>)
                   => Before(requests'[d], <<"put", q>>, <<"take", q>>)
  <2>1. d \in Round
    BY SticksFacts
  <2>2. \A x, y, z, w : <<x, y>> = <<z, w>> <=> x = z /\ y = w
    OBVIOUS
  <2>3. /\ OutTake(q, d)' <=> OutTake(q, d) /\ ~(k = "take" /\ q = p /\ d = c)
        /\ OutPut(q, d)' <=> OutPut(q, d) /\ ~(k = "put" /\ q = p /\ d = c)
    BY <1>2, <1>3, <1>8, <2>2 DEF OutTake, OutPut
  <2>4. /\ ReqTake(q, d)' <=> ReqTake(q, d) \/ (k = "take" /\ q = p /\ d = c)
        /\ ReqPut(q, d)' <=> ReqPut(q, d) \/ (k = "put" /\ q = p /\ d = c)
    BY <1>3, <1>6, <1>8, <2>1, <2>2 DEF ReqTake, ReqPut
  <2> QED
    BY <1>6, <1>8, <2>1, <2>3, <2>4 DEF GotTaken, GotBusy, Held
<1>11. OutTake(p, c) <=> k = "take"
  <2>1. \A x, y, z, w : <<x, y>> = <<z, w>> <=> x = z /\ y = w
    OBVIOUS
  <2>2. PairInv(p, c) /\ MoodInv(p) /\ (k = "take" => OutTake(p, c)) /\ (k = "put" => OutPut(p, c))
    BY <1>2, <1>3 DEF DineInv, OutTake, OutPut
  <2>3. OutPut(p, c) => mood[p] = <<"thinking">>
    BY <2>2 DEF PairInv
  <2>4. OutTake(p, c) => mood[p] = <<"hungry">>
    BY <2>2 DEF PairInv
  <2> QED
    BY <1>3, <2>2, <2>3, <2>4
<1>12. ASSUME NEW q \in Round, NEW d \in Sticks(q)
       PROVE  PairInv(q, d)' /\ (Asked(q, d)' <=> Asked(q, d))
  <2>1. PairInv(q, d)
    BY DEF DineInv
  <2>2. k = "put" => OutPut(p, c)
    BY <1>2, <1>3 DEF OutPut
  <2>3. (Asked(q, d)' <=> Asked(q, d))
    BY <1>10, <1>11 DEF Asked
  <2>4. PairInv(q, d)'
    BY <1>3, <1>8, <1>10, <1>11, <2>1, <2>2 DEF PairInv
  <2> QED
    BY <2>3, <2>4
<1>13. ASSUME NEW q \in Round PROVE MoodInv(q)'
  <2>1. \A d \in Sticks(q) : OtherOf(q, d) \in Sticks(q)
    BY SticksFacts
  <2> QED
    BY <1>8, <1>12, <2>1 DEF MoodInv, DineInv
<1> QED
  BY <1>8, <1>9, <1>12, <1>13 DEF DineInv

(* Whoever waits for an answer of c neither thinks nor has c already.      *)
LEMMA AskedMood ==
  ASSUME DineInv, NEW p \in Round, NEW c \in Sticks(p), Asked(p, c)
  PROVE  mood[p] # <<"thinking">> /\ ~Held(p, c)
<1>1. MoodInv(p)
  BY DEF DineInv
<1>2. CASE mood[p] = <<"hungry">>
  BY <1>2 DEF Held
<1>3. ASSUME NEW d \in Sticks(p), mood[p] \in {<<"denied">>, <<"waiting_for", d>>},
             Asked(p, d), ~Asked(p, OtherOf(p, d))
      PROVE  mood[p] # <<"thinking">> /\ ~Held(p, c)
  <2>1. d = c /\ OtherOf(p, c) # c
    BY <1>3, SticksFacts
  <2> QED
    BY <1>3, <2>1 DEF Held
<1> QED
  BY <1>1, <1>2, <1>3 DEF MoodInv

(* The chopstick c answers a request: what changes is between it and p.    *)
LEMMA ChopstickInv ==
  ASSUME DineInv, NEW c \in Round, chopstick(c)
  PROVE  DineInv'
<1> DEFINE r == Head(requests[c])
           k == r[1]
           p == r[2]
           a == IF k = "put" THEN "none" ELSE IF user[c] = NoOne THEN "taken" ELSE "busy"
<1>1. /\ requests \in [Round -> Seq({"take", "put"} \X Round)]
      /\ answers \in [Round -> Seq({"taken", "busy"} \X Round)]
      /\ user \in [Round -> Round \cup {NoOne}]
      /\ requests[c] \in Seq({"take", "put"} \X Round) /\ requests[c] # <<>> /\ IsInjective(requests[c])
  BY DEF DineInv, DineTypeOK, chopstick
<1> DEFINE R == Tail(requests[c])
<1>2. /\ R \in Seq({"take", "put"} \X Round) /\ r \in {"take", "put"} \X Round
      /\ \A x : Contains(R, x) <=> Contains(requests[c], x) /\ x # r
      /\ Contains(requests[c], r) /\ IsInjective(R)
      /\ \A x, y : Before(requests[c], x, y) => Before(R, x, y)
      /\ \A x : Before(requests[c], x, r) => x = r \/ ~Contains(requests[c], x)
  BY <1>1, TailFacts
<1>3. r = <<k, p>> /\ k \in {"take", "put"} /\ p \in Round /\ c \in Sticks(p)
  <2>1. c \in Sticks(r[2])
    BY <1>2, Kinds
  <2> QED
    BY <1>2, <2>1
<1>4. PairInv(p, c) /\ MoodInv(p)
  BY <1>3 DEF DineInv
<1>5. /\ k = "take" => ReqTake(p, c) /\ ~ReqPut(p, c)
      /\ k = "put" => ReqPut(p, c)
  <2>1. k = "take" => ReqTake(p, c)
    BY <1>2, <1>3 DEF ReqTake
  <2>2. k = "put" => ReqPut(p, c)
    BY <1>2, <1>3 DEF ReqPut
  <2>3. ASSUME k = "take" PROVE ~ReqPut(p, c)
    <3>1. Before(requests[c], <<"put", p>>, r)
      BY <1>3, <1>4, <2>3 DEF PairInv
    <3>2. <<"put", p>> # r
      BY <1>3, <2>3
    <3> QED
      BY <1>2, <3>1, <3>2 DEF ReqPut
  <2> QED
    BY <2>1, <2>2, <2>3
<1>6. k = "take" => /\ ~OutTake(p, c) /\ ~GotTaken(p, c) /\ ~GotBusy(p, c)
                    /\ ~OutPut(p, c) /\ ~Held(p, c) /\ user[c] # p
  <2> SUFFICES ASSUME k = "take"
               PROVE  /\ ~OutTake(p, c) /\ ~GotTaken(p, c) /\ ~GotBusy(p, c)
                      /\ ~OutPut(p, c) /\ ~Held(p, c) /\ user[c] # p
    OBVIOUS
  <2>1. ReqTake(p, c) /\ Asked(p, c)
    BY <1>5 DEF Asked
  <2>2. ~OutTake(p, c) /\ ~GotTaken(p, c) /\ ~GotBusy(p, c)
    BY <1>4, <2>1 DEF PairInv
  <2>3. mood[p] # <<"thinking">> /\ ~Held(p, c)
    BY <1>3, <2>1, AskedMood
  <2> QED
    BY <1>4, <1>5, <2>2, <2>3 DEF PairInv
<1>7. k = "put" => user[c] = p
  BY <1>4, <1>5 DEF PairInv
<1>8. p # NoOne
  BY <1>3, SeatsAssumption DEF Round, NoOne
<1>9. /\ requests' = [requests EXCEPT ![c] = R]
      /\ answers' = IF k = "put" THEN answers
                    ELSE [answers EXCEPT ![p] = Append(answers[p], <<a, c>>)]
      /\ user' = IF k = "put" THEN [user EXCEPT ![c] = NoOne]
                 ELSE IF a = "taken" THEN [user EXCEPT ![c] = p] ELSE user
      /\ UNCHANGED <<mood, outbox>>
  BY DEF chopstick
<1> DEFINE A == IF k = "put" THEN answers[p] ELSE Append(answers[p], <<a, c>>)
<1>10. /\ A \in Seq({"taken", "busy"} \X Round) /\ IsInjective(A)
       /\ \A x : Contains(A, x) <=> Contains(answers[p], x) \/ (k = "take" /\ x = <<a, c>>)
  <2>1. answers[p] \in Seq({"taken", "busy"} \X Round) /\ IsInjective(answers[p])
    BY <1>1, <1>3 DEF DineInv, DineTypeOK
  <2>2. CASE k = "put"
    BY <2>1, <2>2
  <2>3. CASE k = "take"
    <3> DEFINE e == <<a, c>>
               v == answers[p]
               M == {"taken", "busy"} \X Round
    <3>1. e \in M /\ v \in Seq(M) /\ IsInjective(v) /\ ~Contains(v, e)
      BY <1>6, <2>1, <2>3 DEF GotTaken, GotBusy
    <3>2. A = Append(v, e)
      BY <2>3
    <3> HIDE DEF e, v, M, A
    <3>3. /\ Append(v, e) \in Seq(M) /\ (IsInjective(v) /\ ~Contains(v, e) => IsInjective(Append(v, e)))
          /\ \A x : Contains(Append(v, e), x) <=> Contains(v, x) \/ x = e
      BY <3>1, AppendFacts
    <3> QED
      BY <2>3, <3>1, <3>2, <3>3 DEF e, v, M
  <2> QED
    BY <1>3, <2>2, <2>3
<1> HIDE DEF r, k, p, R, A
<1>11. /\ \A i \in Round : requests'[i] = IF i = c THEN R ELSE requests[i]
       /\ \A i \in Round : answers'[i] = IF i = p THEN A ELSE answers[i]
       /\ \A i \in Round : user'[i] = IF i # c THEN user[i] ELSE IF k = "put" THEN NoOne
                                      ELSE IF a = "taken" THEN p ELSE user[c]
       /\ outbox' = outbox /\ mood' = mood
  BY <1>1, <1>3, <1>9 DEF A
<1>12. DineTypeOK'
  <2>1. /\ requests' \in [Round -> Seq({"take", "put"} \X Round)]
        /\ user' \in [Round -> Round \cup {NoOne}]
    BY <1>1, <1>2, <1>3, <1>9
  <2>2. answers' \in [Round -> Seq({"taken", "busy"} \X Round)]
    BY <1>1, <1>3, <1>9, <1>10 DEF A
  <2>3. \A i \in Round : IsInjective(outbox'[i]) /\ IsInjective(answers'[i]) /\ IsInjective(requests'[i])
    BY <1>2, <1>10, <1>11 DEF DineInv, DineTypeOK
  <2>4. ASSUME NEW i \in Round, NEW x
        PROVE  /\ Contains(outbox'[i], x) => x[2] \in Sticks(i)
               /\ Contains(answers'[i], x) => x[2] \in Sticks(i)
               /\ Contains(requests'[i], x) => i \in Sticks(x[2])
    <3>1. /\ Contains(outbox[i], x) => x[2] \in Sticks(i)
          /\ Contains(answers[i], x) => x[2] \in Sticks(i)
          /\ Contains(requests[i], x) => i \in Sticks(x[2])
      BY Kinds
    <3>2. <<a, c>>[2] = c
      OBVIOUS
    <3> QED
      BY <1>2, <1>3, <1>10, <1>11, <3>1, <3>2
  <2>5. /\ mood' \in [Round -> Moods]
        /\ outbox' \in [Round -> Seq({"take", "put"} \X Round)]
    BY <1>11 DEF DineInv, DineTypeOK
  <2> QED
    BY <2>1, <2>2, <2>3, <2>4, <2>5, TypeFromKinds
<1>13. ASSUME NEW q \in Round, NEW d \in Sticks(q)
       PROVE  /\ (OutTake(q, d)' <=> OutTake(q, d)) /\ (OutPut(q, d)' <=> OutPut(q, d))
              /\ ReqTake(q, d)' <=> ReqTake(q, d) /\ ~(k = "take" /\ q = p /\ d = c)
              /\ ReqPut(q, d)' <=> ReqPut(q, d) /\ ~(k = "put" /\ q = p /\ d = c)
              /\ GotTaken(q, d)' <=> GotTaken(q, d) \/ (k = "take" /\ a = "taken" /\ q = p /\ d = c)
              /\ GotBusy(q, d)' <=> GotBusy(q, d) \/ (k = "take" /\ a = "busy" /\ q = p /\ d = c)
              /\ (Held(q, d)' <=> Held(q, d))
              /\ Before(requests[d], <<"put", q>>, <<"take", q>>)
                   => Before(requests'[d], <<"put", q>>, <<"take", q>>)
  <2>1. d \in Round
    BY SticksFacts
  <2>2. \A x, y, z, w : <<x, y>> = <<z, w>> <=> x = z /\ y = w
    OBVIOUS
  <2>3. /\ ReqTake(q, d)' <=> ReqTake(q, d) /\ ~(k = "take" /\ q = p /\ d = c)
        /\ ReqPut(q, d)' <=> ReqPut(q, d) /\ ~(k = "put" /\ q = p /\ d = c)
    BY <1>2, <1>3, <1>11, <2>1, <2>2 DEF ReqTake, ReqPut
  <2>4. /\ GotTaken(q, d)' <=> GotTaken(q, d) \/ (k = "take" /\ a = "taken" /\ q = p /\ d = c)
        /\ GotBusy(q, d)' <=> GotBusy(q, d) \/ (k = "take" /\ a = "busy" /\ q = p /\ d = c)
    <3> HIDE DEF a
    <3> QED
      BY <1>3, <1>10, <1>11, <2>2 DEF GotTaken, GotBusy
  <2> QED
    BY <1>2, <1>11, <2>1, <2>3, <2>4 DEF OutTake, OutPut, Held
<1>14. ASSUME NEW q \in Round, NEW d \in Sticks(q)
       PROVE  Asked(q, d)' <=> Asked(q, d)
  BY <1>3, <1>5, <1>13 DEF Asked
<1>15. ASSUME NEW q \in Round, NEW d \in Sticks(q)
       PROVE  PairInv(q, d)'
  <2>1. PairInv(q, d) /\ d \in Round /\ q # NoOne
    BY SticksFacts, SeatsAssumption DEF DineInv, Round, NoOne
  <2>2. CASE q = p /\ d = c
    <3>1. CASE k = "take"
      BY <1>3, <1>4, <1>5, <1>6, <1>8, <1>11, <1>13, <2>2, <3>1 DEF PairInv
    <3>2. CASE k = "put"
      <4>1. /\ ~GotTaken(p, c) /\ ~GotBusy(p, c) /\ ~OutPut(p, c)
        BY <1>3, <1>4, <1>5, <3>2 DEF PairInv, MoodInv, Asked
      <4>2. ~Held(p, c)
        <5>1. mood[p] = <<"thinking">> \/ Asked(p, c)
          BY <1>4, <1>5, <3>2 DEF PairInv, Asked
        <5>2. Asked(p, c) => ~Held(p, c)
          BY <1>3, AskedMood
        <5>3. mood[p] = <<"thinking">> => ~Held(p, c)
          BY DEF Held
        <5> QED
          BY <5>1, <5>2, <5>3
      <4> QED
        BY <1>3, <1>4, <1>5, <1>8, <1>11, <1>13, <2>2, <3>2, <4>1, <4>2 DEF PairInv
    <3> QED
      BY <1>3, <3>1, <3>2
  <2>3. CASE q # p \/ d # c
    <3>1. user'[d] = q <=> user[d] = q
      BY <1>7, <1>11, <2>1, <2>3
    <3> QED
      BY <1>11, <1>13, <2>1, <2>3, <3>1 DEF PairInv
  <2> QED
    BY <2>2, <2>3
<1>16. ASSUME NEW q \in Round PROVE MoodInv(q)'
  <2>1. \A d \in Sticks(q) : OtherOf(q, d) \in Sticks(q)
    BY SticksFacts
  <2> QED
    BY <1>11, <1>14, <2>1 DEF MoodInv, DineInv
<1>17. \A d, q \in Round : user'[d] = q => d \in Sticks(q)
  BY <1>3, <1>8, <1>11, SeatsAssumption DEF DineInv, Round, NoOne
<1> QED
  BY <1>12, <1>15, <1>16, <1>17 DEF DineInv

(* A handler of p: nothing changes between the others and the chopsticks.  *)
LEMMA HandlerInv ==
  ASSUME DineInv, NEW p \in Round, NEW m \in Moods, UNCHANGED <<requests, user>>,
         NEW o \in Seq({"take", "put"} \X Round), NEW a \in Seq({"taken", "busy"} \X Round),
         Becomes(p, m, o), answers' = [answers EXCEPT ![p] = a],
         IsInjective(o), IsInjective(a),
         \A x : (Contains(o, x) => x[2] \in Sticks(p)) /\ (Contains(a, x) => x[2] \in Sticks(p)),
         MoodInv(p)', \A c \in Sticks(p) : PairInv(p, c)'
  PROVE  DineInv'
<1>1. /\ mood \in [Round -> Moods] /\ user \in [Round -> Round \cup {NoOne}]
      /\ outbox \in [Round -> Seq({"take", "put"} \X Round)]
      /\ answers \in [Round -> Seq({"taken", "busy"} \X Round)]
      /\ requests \in [Round -> Seq({"take", "put"} \X Round)]
  BY DEF DineInv, DineTypeOK
<1>2. /\ \A q \in Round : mood'[q] = IF q = p THEN m ELSE mood[q]
      /\ \A q \in Round : outbox'[q] = IF q = p THEN o ELSE outbox[q]
      /\ \A q \in Round : answers'[q] = IF q = p THEN a ELSE answers[q]
      /\ requests' = requests /\ user' = user
  BY <1>1 DEF Becomes
<1>3. DineTypeOK'
  <2>1. /\ mood' \in [Round -> Moods] /\ user' \in [Round -> Round \cup {NoOne}]
        /\ outbox' \in [Round -> Seq({"take", "put"} \X Round)]
        /\ answers' \in [Round -> Seq({"taken", "busy"} \X Round)]
        /\ requests' \in [Round -> Seq({"take", "put"} \X Round)]
    BY <1>1 DEF Becomes
  <2>2. \A i \in Round : IsInjective(outbox'[i]) /\ IsInjective(answers'[i]) /\ IsInjective(requests'[i])
    BY <1>2 DEF DineInv, DineTypeOK
  <2>3. ASSUME NEW i \in Round, NEW x
        PROVE  /\ Contains(outbox'[i], x) => x[2] \in Sticks(i)
               /\ Contains(answers'[i], x) => x[2] \in Sticks(i)
               /\ Contains(requests'[i], x) => i \in Sticks(x[2])
    <3>1. /\ Contains(outbox[i], x) => x[2] \in Sticks(i)
          /\ Contains(answers[i], x) => x[2] \in Sticks(i)
          /\ Contains(requests[i], x) => i \in Sticks(x[2])
      BY Kinds
    <3> QED
      BY <1>2, <3>1
  <2> QED
    BY <2>1, <2>2, <2>3, TypeFromKinds
<1>4. ASSUME NEW q \in Round, q # p
      PROVE  MoodInv(q)' /\ \A c \in Sticks(q) : PairInv(q, c)'
  <2>1. mood'[q] = mood[q] /\ outbox'[q] = outbox[q] /\ answers'[q] = answers[q]
    BY <1>2, <1>4
  <2>2. ASSUME NEW c \in Sticks(q)
        PROVE  /\ (Asked(q, c)' <=> Asked(q, c))
               /\ (OutTake(q, c)' <=> OutTake(q, c)) /\ (OutPut(q, c)' <=> OutPut(q, c))
               /\ (ReqTake(q, c)' <=> ReqTake(q, c)) /\ (ReqPut(q, c)' <=> ReqPut(q, c))
               /\ (GotTaken(q, c)' <=> GotTaken(q, c)) /\ (GotBusy(q, c)' <=> GotBusy(q, c))
               /\ (Held(q, c)' <=> Held(q, c))
    BY <1>2, <2>1 DEF Asked, OutTake, OutPut, ReqTake, ReqPut, GotTaken, GotBusy, Held
  <2>3. \A c \in Sticks(q) : OtherOf(q, c) \in Sticks(q)
    BY SticksFacts
  <2>4. MoodInv(q) /\ \A c \in Sticks(q) : PairInv(q, c)
    BY DEF DineInv
  <2>5. MoodInv(q)'
    BY <2>1, <2>2, <2>3, <2>4 DEF MoodInv
  <2>6. ASSUME NEW c \in Sticks(q) PROVE PairInv(q, c)'
    BY <1>2, <2>1, <2>2, <2>4 DEF PairInv
  <2> QED
    BY <2>5, <2>6
<1> QED
  BY <1>2, <1>3, <1>4 DEF DineInv

(* What p finds when it takes the first answer from its mailbox.           *)
LEMMA GotFacts ==
  ASSUME DineInv, NEW p \in Round, NEW m, Got(p, m)
  PROVE  /\ Tail(answers[p]) \in Seq({"taken", "busy"} \X Round) /\ IsInjective(Tail(answers[p]))
         /\ \A x : Contains(Tail(answers[p]), x) => x[2] \in Sticks(p)
         /\ From(p) \in Sticks(p) /\ Answer(p) \in {"taken", "busy"}
         /\ Answer(p) = "taken" => GotTaken(p, From(p))
         /\ Answer(p) = "busy" => GotBusy(p, From(p))
         /\ answers' = [answers EXCEPT ![p] = Tail(answers[p])] /\ UNCHANGED <<requests, user>>
         /\ mood[p] = m
         /\ \A c \in Sticks(p) :
              /\ ~OutTake(p, c) /\ ~OutPut(p, c)
              /\ (ReqTake(p, c)' <=> ReqTake(p, c)) /\ (ReqPut(p, c)' <=> ReqPut(p, c))
              /\ GotTaken(p, c)' <=> GotTaken(p, c) /\ c # From(p)
              /\ GotBusy(p, c)' <=> GotBusy(p, c) /\ c # From(p)
<1> DEFINE v == answers[p]
           h == Head(v)
<1>1. v \in Seq({"taken", "busy"} \X Round) /\ v # <<>> /\ IsInjective(v) /\ outbox[p] = <<>>
      /\ answers \in [Round -> Seq({"taken", "busy"} \X Round)]
  BY DEF DineInv, DineTypeOK, Got
<1>2. /\ Tail(v) \in Seq({"taken", "busy"} \X Round)
      /\ \A x : Contains(Tail(v), x) <=> Contains(v, x) /\ x # h
      /\ Contains(v, h) /\ IsInjective(Tail(v))
  BY <1>1, TailFacts
<1>3. h = <<Answer(p), From(p)>> /\ Answer(p) \in {"taken", "busy"} /\ From(p) \in Sticks(p)
  <2>1. h \in {"taken", "busy"} \X Sticks(p)
    BY <1>2, Kinds
  <2> QED
    BY <2>1 DEF Answer, From
<1>4. \A x : Contains(Tail(v), x) => x[2] \in Sticks(p)
  <2>1. \A x : Contains(v, x) => x[2] \in Sticks(p)
    BY Kinds
  <2> QED
    BY <1>2, <2>1
<1>5. answers' = [answers EXCEPT ![p] = Tail(v)] /\ UNCHANGED <<requests, user>> /\ mood[p] = m
      /\ answers'[p] = Tail(v)
  BY <1>1 DEF Got
<1>6. (Answer(p) = "taken" => GotTaken(p, From(p))) /\ (Answer(p) = "busy" => GotBusy(p, From(p)))
  BY <1>2, <1>3 DEF GotTaken, GotBusy
<1>7. ASSUME NEW c \in Sticks(p)
      PROVE  /\ ~OutTake(p, c) /\ ~OutPut(p, c)
             /\ (ReqTake(p, c)' <=> ReqTake(p, c)) /\ (ReqPut(p, c)' <=> ReqPut(p, c))
             /\ GotTaken(p, c)' <=> GotTaken(p, c) /\ c # From(p)
             /\ GotBusy(p, c)' <=> GotBusy(p, c) /\ c # From(p)
  <2>1. \A x : ~Contains(<<>>, x)
    BY DEF Contains
  <2>2. ~OutTake(p, c) /\ ~OutPut(p, c)
    BY <1>1, <2>1 DEF OutTake, OutPut
  <2>3. (ReqTake(p, c)' <=> ReqTake(p, c)) /\ (ReqPut(p, c)' <=> ReqPut(p, c))
    BY <1>5 DEF ReqTake, ReqPut
  <2>4. ~(GotTaken(p, From(p)) /\ GotBusy(p, From(p)))
    BY <1>3 DEF DineInv, PairInv
  <2>5. /\ GotTaken(p, c)' <=> GotTaken(p, c) /\ <<"taken", c>> # h
        /\ GotBusy(p, c)' <=> GotBusy(p, c) /\ <<"busy", c>> # h
    BY <1>2, <1>5 DEF GotTaken, GotBusy
  <2>6. \A x, y, z, w : <<x, y>> = <<z, w>> <=> x = z /\ y = w
    OBVIOUS
  <2>7. /\ <<"taken", c>> = h <=> Answer(p) = "taken" /\ c = From(p)
        /\ <<"busy", c>> = h <=> Answer(p) = "busy" /\ c = From(p)
    BY <1>3, <2>6
  <2> HIDE DEF h
  <2> QED
    BY <1>3, <1>6, <2>2, <2>3, <2>4, <2>5, <2>7
<1> QED
  BY <1>2, <1>3, <1>4, <1>5, <1>6, <1>7

(* Two messages to the chopsticks of p, or one at most.                    *)
SendsBoth(p, k, o) == o = <<<<k, left(p)>>, <<k, right(p)>>>>
PutsAtMost(e, o) == o \in {<<>>, <<<<"put", e>>>>}

LEMMA SendsBothFacts ==
  ASSUME NEW p \in Round, NEW k \in {"take", "put"}, NEW o, SendsBoth(p, k, o)
  PROVE  /\ o \in Seq({"take", "put"} \X Round) /\ IsInjective(o)
         /\ \A x : Contains(o, x) => x[2] \in Sticks(p)
         /\ \A j, d : Contains(o, <<j, d>>) <=> j = k /\ d \in Sticks(p)
<1> DEFINE M == {"take", "put"} \X Round
           l == <<k, left(p)>>
           r == <<k, right(p)>>
<1>1. l \in M /\ r \in M /\ l # r /\ o = <<l, r>>
  BY SticksFacts DEF SendsBoth
<1>2. l[2] \in Sticks(p) /\ r[2] \in Sticks(p)
  BY DEF Sticks
<1>3. ASSUME NEW j, NEW d PROVE (<<j, d>> = l \/ <<j, d>> = r) <=> j = k /\ d \in Sticks(p)
  BY DEF Sticks
<1> HIDE DEF M, l, r
<1>4. o \in Seq(M) /\ IsInjective(o) /\ \A x : Contains(o, x) <=> x = l \/ x = r
  BY <1>1, PairFacts
<1> QED
  BY <1>2, <1>3, <1>4 DEF M

LEMMA PutFacts ==
  ASSUME NEW p \in Round, NEW e \in Sticks(p), NEW o, PutsAtMost(e, o)
  PROVE  /\ o \in Seq({"take", "put"} \X Round) /\ IsInjective(o)
         /\ \A x : Contains(o, x) => x[2] \in Sticks(p)
         /\ \A x : ~Contains(o, <<"take", x>>) /\ (Contains(o, <<"put", x>>) <=> o # <<>> /\ x = e)
<1> DEFINE M == {"take", "put"} \X Round
           u == <<"put", e>>
           t == <<"take", e>>
<1>1. u \in M /\ t \in M /\ u # t /\ (o = <<>> \/ o = <<u>>) /\ <<u>> # <<>>
  BY SticksFacts DEF PutsAtMost
<1>2. u[2] = e /\ \A x : <<"take", x>> # u /\ (<<"put", x>> = u <=> x = e)
  OBVIOUS
<1> HIDE DEF M, u, t
<1>3. \A x : ~Contains(<<>>, x)
  BY DEF Contains
<1>4. <<>> \in Seq(M) /\ IsInjective(<<>>)
  BY DEF IsInjective
<1>5. <<u>> \in Seq(M) /\ IsInjective(<<u>>) /\ \A x : Contains(<<u>>, x) <=> x = u
  <2>1. <<u>> \in Seq(M) /\ Len(<<u>>) = 1 /\ DOMAIN <<u>> = {1} /\ 1..1 = {1} /\ <<u>>[1] = u
    BY <1>1
  <2> QED
    BY <2>1 DEF IsInjective, Contains
<1> QED
  BY <1>1, <1>2, <1>3, <1>4, <1>5 DEF M

(* What a pair of philosopher and chopstick says of the user.              *)
LEMMA PairReads ==
  ASSUME NEW p, NEW c, PairInv(p, c)
  PROVE  /\ GotTaken(p, c) \/ Held(p, c) => user[c] = p
         /\ ~Held(p, c) /\ ~OutPut(p, c) => (user[c] = p <=> GotTaken(p, c) \/ ReqPut(p, c))
         /\ GotTaken(p, c) \/ GotBusy(p, c) => ~OutTake(p, c) /\ ~ReqTake(p, c)
         /\ ~(GotTaken(p, c) /\ GotBusy(p, c))
         /\ mood[p] # <<"thinking">> => ~OutPut(p, c)
         /\ mood[p] # <<"thinking">> /\ ReqPut(p, c) => OutTake(p, c) \/ ReqTake(p, c)
         /\ mood[p] # <<"thinking">> /\ ~Asked(p, c) => ~ReqPut(p, c)
  BY DEF PairInv, Asked

LEMMA ThinkingInv ==
  ASSUME DineInv, NEW p \in Round, thinking(p)
  PROVE  DineInv'
<1> DEFINE o == <<<<"take", left(p)>>, <<"take", right(p)>>>>
<1>1. SendsBoth(p, "take", o)
  BY DEF SendsBoth
<1>2. /\ o \in Seq({"take", "put"} \X Round) /\ IsInjective(o)
      /\ \A x : Contains(o, x) => x[2] \in Sticks(p)
      /\ \A j, d : Contains(o, <<j, d>>) <=> j = "take" /\ d \in Sticks(p)
  <2> HIDE DEF o
  <2> QED
    BY <1>1, SendsBothFacts
<1>3. /\ mood \in [Round -> Moods] /\ outbox \in [Round -> Seq({"take", "put"} \X Round)]
      /\ answers \in [Round -> Seq({"taken", "busy"} \X Round)] /\ IsInjective(answers[p])
  BY DEF DineInv, DineTypeOK
<1>4. /\ mood[p] = <<"thinking">> /\ outbox[p] = <<>> /\ UNCHANGED <<answers, requests, user>>
      /\ Becomes(p, <<"hungry">>, o) /\ mood'[p] = <<"hungry">> /\ outbox'[p] = o
  BY <1>3 DEF thinking, Becomes
<1> HIDE DEF o
<1>5. ASSUME NEW c \in Sticks(p)
      PROVE  /\ ~OutPut(p, c) /\ ~Asked(p, c) /\ OutTake(p, c)' /\ ~OutPut(p, c)'
             /\ ~Held(p, c) /\ ~Held(p, c)'
             /\ (ReqTake(p, c)' <=> ReqTake(p, c)) /\ (ReqPut(p, c)' <=> ReqPut(p, c))
             /\ (GotTaken(p, c)' <=> GotTaken(p, c)) /\ (GotBusy(p, c)' <=> GotBusy(p, c))
  <2>1. \A x : ~Contains(<<>>, x)
    BY DEF Contains
  <2>2. ~OutPut(p, c) /\ ~Held(p, c) /\ ~Held(p, c)'
    BY <1>4, <2>1 DEF OutPut, Held
  <2>3. ~Asked(p, c)
    BY <1>4, AskedMood
  <2>4. OutTake(p, c)' /\ ~OutPut(p, c)'
    BY <1>2, <1>4 DEF OutTake, OutPut
  <2> QED
    BY <1>4, <2>2, <2>3, <2>4 DEF ReqTake, ReqPut, GotTaken, GotBusy
<1>6. MoodInv(p)'
  BY <1>4, <1>5 DEF MoodInv, Asked
<1>7. ASSUME NEW c \in Sticks(p) PROVE PairInv(p, c)'
  <2>1. PairInv(p, c)
    BY DEF DineInv
  <2> QED
    BY <1>4, <1>5, <2>1 DEF PairInv, Asked
<1>8. answers' = [answers EXCEPT ![p] = answers[p]] /\ answers[p] \in Seq({"taken", "busy"} \X Round)
      /\ \A x : Contains(answers[p], x) => x[2] \in Sticks(p)
  BY <1>3, <1>4, Kinds
<1>9. <<"hungry">> \in Moods
  BY DEF Moods
<1> QED
  BY <1>2, <1>3, <1>4, <1>6, <1>7, <1>8, <1>9, HandlerInv

LEMMA EatingInv ==
  ASSUME DineInv, NEW p \in Round, eating(p)
  PROVE  DineInv'
<1> DEFINE o == <<<<"put", left(p)>>, <<"put", right(p)>>>>
<1>1. SendsBoth(p, "put", o)
  BY DEF SendsBoth
<1>2. /\ o \in Seq({"take", "put"} \X Round) /\ IsInjective(o)
      /\ \A x : Contains(o, x) => x[2] \in Sticks(p)
      /\ \A j, d : Contains(o, <<j, d>>) <=> j = "put" /\ d \in Sticks(p)
  <2> HIDE DEF o
  <2> QED
    BY <1>1, SendsBothFacts
<1>3. /\ mood \in [Round -> Moods] /\ outbox \in [Round -> Seq({"take", "put"} \X Round)]
      /\ answers \in [Round -> Seq({"taken", "busy"} \X Round)] /\ IsInjective(answers[p])
  BY DEF DineInv, DineTypeOK
<1>4. /\ mood[p] = <<"eating">> /\ UNCHANGED <<answers, requests, user>>
      /\ Becomes(p, <<"thinking">>, o) /\ mood'[p] = <<"thinking">> /\ outbox'[p] = o
  BY <1>3 DEF eating, Becomes
<1> HIDE DEF o
<1>5. ASSUME NEW c \in Sticks(p)
      PROVE  /\ Held(p, c) /\ ~Asked(p, c) /\ ~OutTake(p, c)' /\ OutPut(p, c)' /\ ~Held(p, c)'
             /\ (ReqTake(p, c)' <=> ReqTake(p, c)) /\ (ReqPut(p, c)' <=> ReqPut(p, c))
             /\ (GotTaken(p, c)' <=> GotTaken(p, c)) /\ (GotBusy(p, c)' <=> GotBusy(p, c))
  <2>1. Held(p, c) /\ ~Held(p, c)'
    BY <1>4 DEF Held
  <2>2. ~Asked(p, c)
    BY <2>1, AskedMood
  <2>3. ~OutTake(p, c)' /\ OutPut(p, c)'
    BY <1>2, <1>4 DEF OutTake, OutPut
  <2> QED
    BY <1>4, <2>1, <2>2, <2>3 DEF ReqTake, ReqPut, GotTaken, GotBusy
<1>6. MoodInv(p)'
  BY <1>4, <1>5 DEF MoodInv, Asked
<1>7. ASSUME NEW c \in Sticks(p) PROVE PairInv(p, c)'
  <2>1. PairInv(p, c)
    BY DEF DineInv
  <2>2. ~ReqPut(p, c) /\ user[c] = p
    <3>1. mood[p] # <<"thinking">>
      BY <1>4
    <3> QED
      BY <1>5, <2>1, <3>1, PairReads
  <2> QED
    BY <1>4, <1>5, <2>1, <2>2 DEF PairInv, Asked
<1>8. answers' = [answers EXCEPT ![p] = answers[p]] /\ answers[p] \in Seq({"taken", "busy"} \X Round)
      /\ \A x : Contains(answers[p], x) => x[2] \in Sticks(p)
  BY <1>3, <1>4, Kinds
<1>9. <<"thinking">> \in Moods
  BY DEF Moods
<1> QED
  BY <1>2, <1>3, <1>4, <1>6, <1>7, <1>8, <1>9, HandlerInv

(* After an answer of c the philosopher p becomes n and sends o; the other *)
(* chopstick is d.  What remains to be shown is about these two.           *)
LEMMA AnswerInv ==
  ASSUME DineInv, NEW p \in Round, NEW m, Got(p, m), NEW n \in Moods,
         NEW e \in Sticks(p), NEW o, PutsAtMost(e, o), Becomes(p, n, o),
         NEW c \in Sticks(p), c = From(p),
         LET d == OtherOf(p, c)
             HeldBy(x) == n = <<"eating">> \/ n = <<"waiting_for", OtherOf(p, x)>>
             Puts(x) == o # <<>> /\ x = e
         IN /\ user[c] = p <=> HeldBy(c) \/ Puts(c)
            /\ user[d] = p <=> GotTaken(p, d) \/ ReqPut(p, d) \/ HeldBy(d) \/ Puts(d)
            /\ o # <<>> => n = <<"thinking">> /\ ~ReqPut(p, e)
            /\ ReqPut(p, d) => n = <<"thinking">> \/ ReqTake(p, d)
            /\ \/ n \in {<<"thinking">>, <<"eating">>} /\ ~Asked(p, d)
               \/ n \in {<<"denied">>, <<"waiting_for", d>>} /\ Asked(p, d)
  PROVE  DineInv'
<1> DEFINE d == OtherOf(p, c)
<1>1. /\ Tail(answers[p]) \in Seq({"taken", "busy"} \X Round) /\ IsInjective(Tail(answers[p]))
      /\ \A x : Contains(Tail(answers[p]), x) => x[2] \in Sticks(p)
      /\ Answer(p) \in {"taken", "busy"}
      /\ Answer(p) = "taken" => GotTaken(p, c)
      /\ Answer(p) = "busy" => GotBusy(p, c)
      /\ answers' = [answers EXCEPT ![p] = Tail(answers[p])] /\ UNCHANGED <<requests, user>>
  BY GotFacts
<1>2. \A x \in Sticks(p) :
        /\ ~OutTake(p, x) /\ ~OutPut(p, x)
        /\ (ReqTake(p, x)' <=> ReqTake(p, x)) /\ (ReqPut(p, x)' <=> ReqPut(p, x))
        /\ GotTaken(p, x)' <=> GotTaken(p, x) /\ x # c
        /\ GotBusy(p, x)' <=> GotBusy(p, x) /\ x # c
  BY GotFacts
<1>3. d \in Sticks(p) /\ d # c /\ OtherOf(p, d) = c /\ Sticks(p) = {c, d}
  BY <1>1, SticksFacts
<1>4. /\ o \in Seq({"take", "put"} \X Round) /\ IsInjective(o)
      /\ \A x : Contains(o, x) => x[2] \in Sticks(p)
      /\ \A x : ~Contains(o, <<"take", x>>) /\ (Contains(o, <<"put", x>>) <=> o # <<>> /\ x = e)
  BY PutFacts
<1>5. mood'[p] = n /\ outbox'[p] = o
  BY DEF Becomes, DineInv, DineTypeOK
<1>6. \A x \in Sticks(p) : /\ ~OutTake(p, x)'
                           /\ OutPut(p, x)' <=> o # <<>> /\ x = e
                           /\ Held(p, x)' <=> n = <<"eating">> \/ n = <<"waiting_for", OtherOf(p, x)>>
  BY <1>4, <1>5 DEF OutTake, OutPut, Held
<1>7. PairInv(p, c) /\ PairInv(p, d) /\ (GotTaken(p, c) \/ GotBusy(p, c)) /\ Asked(p, c)
  BY <1>1, <1>3 DEF DineInv, Asked
<1>8. ~ReqTake(p, c) /\ ~ReqPut(p, c)
  <2>1. mood[p] # <<"thinking">>
    BY <1>1, <1>7, AskedMood
  <2> QED
    BY <1>1, <1>2, <1>7, <2>1 DEF PairInv
<1>9. ~Asked(p, c)' /\ (Asked(p, d)' <=> Asked(p, d))
  BY <1>2, <1>3, <1>6, <1>8 DEF Asked
<1>10. MoodInv(p)'
  BY <1>3, <1>5, <1>9 DEF MoodInv
<1>11. user'[c] = user[c] /\ user'[d] = user[d] /\ requests' = requests
  BY <1>1
<1>12. PairInv(p, c)'
  BY <1>1, <1>2, <1>3, <1>5, <1>6, <1>7, <1>8, <1>11 DEF PairInv
<1>13. PairInv(p, d)'
  BY <1>1, <1>2, <1>3, <1>5, <1>6, <1>7, <1>8, <1>11 DEF PairInv
<1>14. \A x \in Sticks(p) : PairInv(p, x)'
  BY <1>3, <1>12, <1>13
<1> QED
  BY <1>1, <1>4, <1>10, <1>14, HandlerInv

(* Its handlers, one by one.                                               *)
LEMMA HungryInv ==
  ASSUME DineInv, NEW p \in Round, hungry(p)
  PROVE  DineInv'
<1>1. Got(p, <<"hungry">>)
  BY DEF hungry
<1>2. PICK c \in Sticks(p) : c = From(p)
  BY <1>1, GotFacts
<1> DEFINE d == OtherOf(p, c)
<1>3. /\ mood[p] = <<"hungry">> /\ ~OutTake(p, c) /\ ~OutPut(p, c)
      /\ Answer(p) = "taken" => GotTaken(p, c)
      /\ Answer(p) = "busy" => GotBusy(p, c)
      /\ \A x \in Sticks(p) : ~OutTake(p, x) /\ ~OutPut(p, x)
  BY <1>1, <1>2, GotFacts
<1>4. d \in Sticks(p) /\ d \in Round /\ d # c /\ OtherOf(p, d) = c
  BY <1>3, SticksFacts
<1>5. PairInv(p, c) /\ PairInv(p, d) /\ Asked(p, d) /\ ~Held(p, c) /\ ~Held(p, d)
  BY <1>3, <1>4 DEF DineInv, MoodInv, Held
<1>6. PutsAtMost(c, <<>>)
  BY DEF PutsAtMost
<1>7. mood[p] # <<"thinking">>
  BY <1>3
<1>8. CASE Answer(p) = "taken"
  <2>1. user[c] = p /\ (user[d] = p <=> GotTaken(p, d) \/ ReqPut(p, d)) /\ (ReqPut(p, d) => ReqTake(p, d))
    BY <1>3, <1>4, <1>5, <1>7, <1>8, PairReads
  <2>2. PICK n \in Moods : n = <<"waiting_for", d>>
    BY <1>4 DEF Moods
  <2>3. n # <<"eating">> /\ n # <<"waiting_for", c>> /\ n = <<"waiting_for", OtherOf(p, c)>> /\ Becomes(p, n, <<>>)
    BY <1>2, <1>4, <1>8, <2>2 DEF hungry
  <2>4. n # <<"waiting_for", OtherOf(p, d)>>
    BY <1>4, <2>3
  <2> HIDE DEF d
  <2> QED
    BY <1>1, <1>2, <1>4, <1>5, <1>6, <2>1, <2>2, <2>3, <2>4, AnswerInv DEF d
<1>9. CASE Answer(p) = "busy"
  <2>1. user[c] # p /\ (user[d] = p <=> GotTaken(p, d) \/ ReqPut(p, d)) /\ (ReqPut(p, d) => ReqTake(p, d))
    <3>1. ~ReqPut(p, c)
      BY <1>3, <1>5, <1>7, <1>9, PairReads
    <3> QED
      BY <1>3, <1>4, <1>5, <1>7, <1>9, <3>1, PairReads
  <2>2. PICK n \in Moods : n = <<"denied">>
    BY DEF Moods
  <2>3. ~(n = <<"eating">> \/ n = <<"waiting_for", d>> \/ n = <<"waiting_for", OtherOf(p, d)>>)
        /\ n \in {<<"denied">>, <<"waiting_for", d>>} /\ Becomes(p, n, <<>>)
    BY <1>9, <2>2 DEF hungry
  <2> QED
    BY <1>1, <1>2, <1>3, <1>4, <1>5, <1>6, <2>1, <2>3, AnswerInv
<1> QED
  BY <1>8, <1>9 DEF hungry

LEMMA DeniedInv ==
  ASSUME DineInv, NEW p \in Round, denied(p)
  PROVE  DineInv'
<1>1. Got(p, <<"denied">>)
  BY DEF denied
<1>2. PICK c \in Sticks(p) : c = From(p)
  BY <1>1, GotFacts
<1> DEFINE d == OtherOf(p, c)
<1>3. /\ mood[p] = <<"denied">> /\ Answer(p) \in {"taken", "busy"}
      /\ Answer(p) = "taken" => GotTaken(p, c)
      /\ Answer(p) = "busy" => GotBusy(p, c)
      /\ \A x \in Sticks(p) : ~OutTake(p, x) /\ ~OutPut(p, x)
  BY <1>1, <1>2, GotFacts
<1>4. d \in Sticks(p) /\ d # c /\ OtherOf(p, d) = c /\ Sticks(p) = {c, d}
  BY <1>3, SticksFacts
<1>5. PairInv(p, c) /\ PairInv(p, d) /\ Asked(p, c) /\ ~Held(p, c) /\ ~Held(p, d)
  BY <1>3, <1>4 DEF DineInv, Held, Asked
<1>6. ~Asked(p, d)
  BY <1>3, <1>4, <1>5 DEF DineInv, MoodInv
<1>7. mood[p] # <<"thinking">> /\ ~GotTaken(p, d)
  BY <1>3, <1>6 DEF Asked
<1>8. ~ReqPut(p, d) /\ user[d] # p
  BY <1>3, <1>4, <1>5, <1>6, <1>7, PairReads
<1>9. ~ReqPut(p, c) /\ (user[c] = p <=> Answer(p) = "taken")
  <2>1. ~ReqPut(p, c)
    BY <1>3, <1>5, <1>7, PairReads
  <2> QED
    BY <1>3, <1>5, <1>7, <2>1, PairReads
<1>10. PutsAtMost(c, <<>>) /\ PutsAtMost(c, <<<<"put", c>>>>)
      /\ <<<<"put", c>>>> # <<>> /\ <<"thinking">> \in Moods
  BY DEF PutsAtMost, Moods
<1>11. CASE Answer(p) = "taken"
  <2>1. Becomes(p, <<"thinking">>, <<<<"put", c>>>>)
    BY <1>2, <1>11 DEF denied
  <2> QED
    BY <1>1, <1>2, <1>3, <1>4, <1>6, <1>8, <1>9, <1>10, <1>11, <2>1, AnswerInv DEF Asked
<1>12. CASE Answer(p) = "busy"
  <2>1. Becomes(p, <<"thinking">>, <<>>)
    BY <1>12 DEF denied
  <2> QED
    BY <1>1, <1>2, <1>3, <1>4, <1>6, <1>8, <1>9, <1>10, <1>12, <2>1, AnswerInv DEF Asked
<1> QED
  BY <1>3, <1>11, <1>12

LEMMA WaitingInv ==
  ASSUME DineInv, NEW p \in Round, waiting_for(p)
  PROVE  DineInv'
<1>1. Got(p, <<"waiting_for", From(p)>>)
  BY DEF waiting_for
<1>2. PICK c \in Sticks(p) : c = From(p)
  BY <1>1, GotFacts
<1> DEFINE d == OtherOf(p, c)
<1>3. /\ mood[p] = <<"waiting_for", c>>
      /\ Answer(p) = "taken" => GotTaken(p, c)
      /\ Answer(p) = "busy" => GotBusy(p, c)
      /\ \A x \in Sticks(p) : ~OutTake(p, x) /\ ~OutPut(p, x)
  BY <1>1, <1>2, GotFacts
<1>4. d \in Sticks(p) /\ d # c /\ OtherOf(p, d) = c /\ Sticks(p) = {c, d}
  BY <1>3, SticksFacts
<1>5. PairInv(p, c) /\ PairInv(p, d) /\ ~Held(p, c) /\ Held(p, d)
  BY <1>3, <1>4 DEF DineInv, Held
<1>6. ~Asked(p, d)
  BY <1>4, <1>5, AskedMood
<1>7. mood[p] # <<"thinking">>
  BY <1>3
<1>8. ~ReqPut(p, d) /\ user[d] = p
  BY <1>3, <1>4, <1>5, <1>6, <1>7, PairReads
<1>9. /\ Answer(p) = "taken" => user[c] = p
      /\ Answer(p) = "busy" => user[c] # p
  <2>1. Answer(p) \in {"taken", "busy"} => ~ReqPut(p, c)
    BY <1>3, <1>5, <1>7, PairReads
  <2> QED
    BY <1>3, <1>5, <1>7, <2>1, PairReads
<1>10. <<"thinking">> \in Moods /\ <<"eating">> \in Moods
      /\ PutsAtMost(d, <<>>) /\ PutsAtMost(d, <<<<"put", d>>>>) /\ <<<<"put", d>>>> # <<>>
  BY DEF PutsAtMost, Moods
<1>11. CASE Answer(p) = "taken" /\ Becomes(p, <<"eating">>, <<>>)
  BY <1>1, <1>2, <1>3, <1>4, <1>6, <1>8, <1>9, <1>10, <1>11, AnswerInv DEF Asked
<1>12. CASE Answer(p) = "busy" /\ Becomes(p, <<"thinking">>, <<<<"put", d>>>>)
  <2>1. PICK n, o : n \in Moods /\ n = <<"thinking">> /\ o = <<<<"put", d>>>>
    BY <1>10
  <2>2. n # <<"eating">> /\ (\A x : n # <<"waiting_for", x>>) /\ o # <<>> /\ PutsAtMost(d, o) /\ Becomes(p, n, o)
    BY <1>10, <1>12, <2>1
  <2>3. n \in {<<"thinking">>, <<"eating">>} /\ user[c] # p /\ c # d
    BY <1>4, <1>9, <1>12, <2>1
  <2> QED
    BY <1>1, <1>2, <1>4, <1>6, <1>8, <2>1, <2>2, <2>3, AnswerInv
<1> QED
  BY <1>2, <1>11, <1>12 DEF waiting_for

LEMMA DineStepInv == DineInv /\ [DineNext]_dineVars => DineInv'
<1> SUFFICES ASSUME DineInv, [DineNext]_dineVars PROVE DineInv'
  OBVIOUS
<1>1. CASE UNCHANGED dineVars
  <2>1. mood' = mood /\ outbox' = outbox /\ answers' = answers /\ requests' = requests /\ user' = user
    BY <1>1 DEF dineVars
  <2>2. DineTypeOK'
    BY <2>1 DEF DineInv, DineTypeOK
  <2>3. \A p, c : /\ (Asked(p, c)' <=> Asked(p, c)) /\ (Held(p, c)' <=> Held(p, c))
                  /\ (OutTake(p, c)' <=> OutTake(p, c)) /\ (OutPut(p, c)' <=> OutPut(p, c))
                  /\ (ReqTake(p, c)' <=> ReqTake(p, c)) /\ (ReqPut(p, c)' <=> ReqPut(p, c))
                  /\ (GotTaken(p, c)' <=> GotTaken(p, c)) /\ (GotBusy(p, c)' <=> GotBusy(p, c))
    BY <2>1 DEF Asked, Held, OutTake, OutPut, ReqTake, ReqPut, GotTaken, GotBusy
  <2>4. ASSUME NEW p \in Round PROVE MoodInv(p)' /\ \A c \in Sticks(p) : PairInv(p, c)'
    <3>1. MoodInv(p)'
      BY <2>1, <2>3 DEF MoodInv, DineInv
    <3>2. ASSUME NEW c \in Sticks(p) PROVE PairInv(p, c)'
      <4>1. PairInv(p, c)
        BY DEF DineInv
      <4> QED
        BY <2>1, <2>3, <4>1 DEF PairInv
    <3> QED
      BY <3>1, <3>2
  <2> QED
    BY <2>1, <2>2, <2>4 DEF DineInv
<1>2. ASSUME NEW i \in Round, Philosopher(i) \/ chopstick(i) PROVE DineInv'
  BY <1>2, SendNextInv, ThinkingInv, HungryInv, DeniedInv, WaitingInv, EatingInv, ChopstickInv
     DEF Philosopher
<1> QED
  BY <1>1, <1>2 DEF DineNext

(* The messages under way between a philosopher and its two chopsticks, as *)
(* DineInv describes them, in every state (dining_philosophers.cpp:22).    *)
THEOREM DineInvariant == DineSpec => []DineInv
<1> QED
  BY DineInitInv, DineStepInv, PTL DEF DineSpec

(* Whatever the order in which takes, answers and puts travel, and for any *)
(* number of seats: neighbours never eat at the same time, every put meets *)
(* the chopstick that awaits it and every answer a handler, and a taken    *)
(* chopstick is held or on its way back (dining_philosophers.cpp:22-140).  *)
THEOREM DineChopsticksSound == DineSpec => []ChopsticksSound
<1>1. ASSUME DineInv PROVE EatsWithBoth
  <2> SUFFICES ASSUME NEW p \in Round, NEW q \in Round, mood[p] = <<"eating">>, mood[q] = <<"eating">>,
                      NEW c \in Sticks(p), c \in Sticks(q)
               PROVE  p = q
    BY DEF EatsWithBoth, Sticks
  <2>1. Held(p, c) /\ Held(q, c)
    BY DEF Held
  <2>2. PairInv(p, c) /\ PairInv(q, c)
    BY <1>1 DEF DineInv
  <2> QED
    BY <2>1, <2>2 DEF PairInv
<1>2. ASSUME DineInv PROVE NothingUnmatched
  <2> SUFFICES ASSUME NEW i \in Round
               PROVE  /\ requests[i] # <<>> /\ Head(requests[i])[1] = "put"
                           => user[i] = Head(requests[i])[2]
                      /\ answers[i] # <<>> => \/ mood[i] \in {<<"hungry">>, <<"denied">>}
                                              \/ mood[i] = <<"waiting_for", From(i)>>
    BY DEF NothingUnmatched
  <2>1. ASSUME requests[i] # <<>>, Head(requests[i])[1] = "put"
        PROVE  user[i] = Head(requests[i])[2]
    <3> DEFINE r == Head(requests[i])
    <3>1. Contains(requests[i], r)
      BY <1>2, <2>1, TailFacts DEF DineInv, DineTypeOK
    <3>2. r \in {"take", "put"} \X Round /\ i \in Sticks(r[2])
      BY <1>2, <3>1, Kinds
    <3>3. r = <<"put", r[2]>> /\ r[2] \in Round
      BY <2>1, <3>2
    <3>4. ReqPut(r[2], i)
      BY <3>1, <3>3 DEF ReqPut
    <3> HIDE DEF r
    <3>5. user[i] = r[2]
      BY <1>2, <3>2, <3>3, <3>4 DEF DineInv, PairInv
    <3> QED
      BY <3>5 DEF r
  <2>2. ASSUME answers[i] # <<>>
        PROVE  mood[i] \in {<<"hungry">>, <<"denied">>} \/ mood[i] = <<"waiting_for", From(i)>>
    <3> DEFINE a == Head(answers[i])
    <3>1. Contains(answers[i], a)
      BY <1>2, <2>2, TailFacts DEF DineInv, DineTypeOK
    <3>2. a \in {"taken", "busy"} \X Sticks(i)
      BY <1>2, <3>1, Kinds
    <3>3. a = <<Answer(i), From(i)>> /\ From(i) \in Sticks(i) /\ Answer(i) \in {"taken", "busy"}
      BY <3>2 DEF Answer, From
    <3>4. Asked(i, From(i))
      BY <3>1, <3>3 DEF Asked, GotTaken, GotBusy
    <3>5. PICK c \in Sticks(i) : c = From(i)
      BY <3>3
    <3>6. MoodInv(i) /\ Asked(i, c)
      BY <1>2, <3>4, <3>5 DEF DineInv
    <3>7. \A d \in Sticks(i) : d = c \/ c = OtherOf(i, d)
      BY SticksFacts
    <3> QED
      BY <3>5, <3>6, <3>7 DEF MoodInv
  <2> QED
    BY <2>1, <2>2
<1>3. ASSUME DineInv PROVE ChopstickAccounted
  <2> SUFFICES ASSUME NEW c \in Round, NEW p \in Round, user[c] = p
               PROVE  \/ mood[p] = <<"eating">> \/ mood[p] = <<"waiting_for", OtherOf(p, c)>>
                      \/ \E i \in DOMAIN answers[p] : answers[p][i] = <<"taken", c>>
                      \/ \E i \in DOMAIN outbox[p] : outbox[p][i] = <<"put", c>>
                      \/ \E i \in DOMAIN requests[c] : requests[c][i] = <<"put", p>>
    BY DEF ChopstickAccounted
  <2>1. GotTaken(p, c) \/ OutPut(p, c) \/ ReqPut(p, c) \/ Held(p, c)
    BY <1>3 DEF DineInv, PairInv
  <2>2. DOMAIN answers[p] = 1..Len(answers[p]) /\ DOMAIN outbox[p] = 1..Len(outbox[p])
        /\ DOMAIN requests[c] = 1..Len(requests[c])
    BY <1>3 DEF DineInv, DineTypeOK
  <2> QED
    BY <2>1, <2>2 DEF GotTaken, OutPut, ReqPut, Held, Contains
<1> QED
  BY DineInvariant, <1>1, <1>2, <1>3, PTL DEF ChopsticksSound
=============================================================================
