---------------------------- MODULE VslabProofs -----------------------------
(***************************************************************************)
(* The invariants of Vslab for every number of managers, workers and       *)
(* clients, all inputs, all bounds, and every factoring method whose       *)
(* factors are divisors other than 1 (RhoAssumption).                      *)
(***************************************************************************)
EXTENDS Vslab, WellFoundedInduction, TLAPS

USE SMT, Zenon, Z3

(* A non-empty set of natural numbers has a least element.                 *)
LEMMA LeastElement ==
  ASSUME NEW S \in SUBSET Nat, S # {}
  PROVE  \E m \in S : \A l \in S : m <= l
<1> DEFINE R == OpToRel(<, Nat)
<1>1. PICK m \in S : \A l \in S : ~(<<l, m>> \in R)
  <2>1. IsWellFoundedOn(R, Nat)
    BY NatLessThanWellFounded
  <2>. HIDE DEF R
  <2>2. QED
    BY <2>1, WFMin
<1>2. \A l \in S : m <= l
  <2>1. SUFFICES ASSUME NEW l \in S, l < m PROVE FALSE
    OBVIOUS
  <2>2. <<l, m>> \in R
    BY <2>1 DEF OpToRel
  <2>3. QED
    BY <1>1, <2>2
<1>3. QED
  BY <1>2

(* What the client's division loop leaves is a divisor of n.               *)
LEMMA StripFactorDivides ==
  ASSUME NEW n \in Nat \ {0}, NEW p \in Nat
  PROVE  /\ StripFactor(n, p) \in 1..n
         /\ Divides(StripFactor(n, p), n)
<1> DEFINE Q == Quotients(n, p)
<1>1. n \in Q
  BY DEF Quotients
<1>2. Q \in SUBSET Nat
  BY DEF Quotients
<1>3. \E m \in Q : \A l \in Q : m <= l
  <2>. HIDE DEF Q
  <2>. QED BY <1>1, <1>2, LeastElement
<1>4. StripFactor(n, p) \in Q
  BY <1>3 DEF StripFactor
<1>5. PICK q \in 1..n : n = StripFactor(n, p) * q
  BY <1>4 DEF Quotients
<1>6. StripFactor(n, p) \in 1..n
  BY <1>4 DEF Quotients
<1>7. n = q * StripFactor(n, p)
  BY <1>5, <1>6
<1>8. QED
  BY <1>6, <1>7 DEF Divides

(* Divisibility is transitive.                                             *)
LEMMA DividesTransitive ==
  ASSUME NEW a \in Nat, NEW b \in Nat, NEW c \in Nat \ {0},
         Divides(a, b), Divides(b, c)
  PROVE  Divides(a, c)
<1>1. PICK j \in 0..b : b = j * a
  BY DEF Divides
<1>2. PICK k \in 0..c : c = k * b
  BY DEF Divides
<1>3. c = (k * j) * a
  BY <1>1, <1>2
<1>4. k * j \in Nat
  OBVIOUS
<1>5. a # 0
  BY <1>3, <1>4
<1>6. k * j <= c
  BY <1>3, <1>4, <1>5
<1>7. k * j \in 0..c
  BY <1>4, <1>6
<1>8. QED
  BY <1>3, <1>7 DEF Divides

-----------------------------------------------------------------------------
(* A client's number is 0 exactly when 0 was typed in; a positive one      *)
(* divides the input.                                                      *)
NumInv ==
  \A c \in Clients :
    IF Input[c] = 0 THEN num[c] = 0
    ELSE num[c] \in 1..Input[c] /\ Divides(num[c], Input[c])

(* Before it connects a node has sent nothing, and nobody is connected     *)
(* before the server is up.                                                *)
LinkInv ==
  /\ \A x \in Nodes : status[x] = "init" => up[x] = <<>> /\ x \notin joined
  /\ server = "off" => \A x \in Nodes : status[x] \in {"init", "quit"}

IInv == TypeOK /\ NumInv /\ NobodyFails /\ LinkInv /\ RepliesReach

-----------------------------------------------------------------------------
(* Numbers                                                                 *)

LEMMA NumbersNat ==
  /\ Numbers \subseteq Nat
  /\ (\A c \in Clients : Input[c] > 0) => 0 \notin Numbers
<1>1. Numbers \subseteq Nat
  BY InputAssumption DEF Numbers
<1>2. ASSUME \A c \in Clients : Input[c] > 0, 0 \in Numbers PROVE FALSE
  <2>1. PICK c \in Clients : Divides(0, Input[c])
    BY <1>2 DEF Numbers
  <2>2. PICK k \in 0..Input[c] : Input[c] = k * 0
    BY <2>1 DEF Divides
  <2>3. Input[c] = 0
    BY <2>2, InputAssumption
  <2>4. QED
    BY <1>2, <2>3
<1>3. QED
  BY <1>1, <1>2

(* The number of a client is one of Numbers.                               *)
LEMMA NumInNumbers ==
  ASSUME NumInv, NEW c \in Clients
  PROVE  num[c] \in Numbers
<1>1. Input[c] \in Nat
  BY InputAssumption
<1>2. CASE Input[c] = 0
  <2>1. Divides(0, Input[c])
    BY <1>2 DEF Divides
  <2>2. num[c] = 0
    BY <1>2 DEF NumInv
  <2>3. 0 \in UNION {0..Input[d] : d \in Clients}
    BY <1>1
  <2>4. QED
    BY <2>1, <2>2, <2>3 DEF Numbers
<1>3. CASE Input[c] # 0
  <2>1. num[c] \in 1..Input[c] /\ Divides(num[c], Input[c])
    BY <1>3 DEF NumInv
  <2>2. num[c] \in UNION {0..Input[d] : d \in Clients}
    BY <2>1, <1>1
  <2>3. QED
    BY <2>1, <2>2 DEF Numbers
<1>4. QED
  BY <1>2, <1>3

(* What a positive number leaves after the division loop is a positive     *)
(* divisor of the client's input again.                                    *)
LEMMA RemainingDivides ==
  ASSUME NumInv, NEW c \in Clients, num[c] > 0, NEW p \in Nat
  PROVE  /\ Input[c] # 0
         /\ Remaining(num[c], p) \in 1..Input[c]
         /\ Divides(Remaining(num[c], p), Input[c])
         /\ Remaining(num[c], p) \in Numbers
<1>1. Input[c] \in Nat
  BY InputAssumption
<1>2. Input[c] # 0 /\ num[c] \in 1..Input[c] /\ Divides(num[c], Input[c])
  BY <1>1 DEF NumInv
<1>3. num[c] \in Nat \ {0}
  BY <1>1, <1>2
<1> DEFINE r == Remaining(num[c], p)
<1>4. r \in 1..num[c] /\ Divides(r, num[c])
  BY <1>3, StripFactorDivides DEF Remaining
<1>5. r \in Nat /\ num[c] \in Nat /\ Input[c] \in Nat \ {0}
  BY <1>1, <1>2, <1>3, <1>4
<1> HIDE DEF r
<1>6. Divides(r, Input[c])
  BY <1>2, <1>4, <1>5, DividesTransitive
<1>7. r \in 1..Input[c]
  BY <1>2, <1>4, <1>5
<1>8. r \in UNION {0..Input[d] : d \in Clients}
  BY <1>5, <1>7
<1>9. r \in Numbers
  BY <1>6, <1>8 DEF Numbers
<1>10. QED
  BY <1>2, <1>6, <1>7, <1>9 DEF r

(* A factor that Rho gives for a number of Numbers is one of Factors.      *)
LEMMA RhoFactor ==
  ASSUME NEW n \in Numbers \ {0}, NEW cycles \in Cycles,
         NEW o \in Rho[n][cycles], o.op = "factor"
  PROVE  o.v \in Factors
<1>1. o.v \in 2..n /\ Divides(o.v, n)
  BY RhoAssumption
<1>2. PICK c \in Clients : Divides(n, Input[c]) /\ n \in Nat
  BY NumbersNat DEF Numbers
<1>3. PICK d \in Clients : n \in 0..Input[d]
  BY DEF Numbers
<1>4. o.v \in Nat /\ n \in Nat \ {0} /\ Input[c] \in Nat /\ Input[d] \in Nat
  BY <1>1, <1>2, InputAssumption
<1>5. o.v \in 0..Input[d]
  BY <1>1, <1>3, <1>4
<1>6. Divides(o.v, Input[c])
  <2>1. CASE Input[c] = 0
    <3>1. Input[c] = 0 * o.v
      BY <2>1, <1>4
    <3>2. QED
      BY <3>1, <1>4 DEF Divides
  <2>2. CASE Input[c] # 0
    BY <2>2, <1>1, <1>2, <1>4, DividesTransitive
  <2>3. QED
    BY <2>1, <2>2
<1>7. o.v \in UNION {0..Input[e] : e \in Clients}
  BY <1>5
<1>8. o.v \in Numbers
  BY <1>6, <1>7 DEF Numbers
<1>9. QED
  BY <1>1, <1>4, <1>8 DEF Factors

-----------------------------------------------------------------------------
(* Messages and mailboxes                                                  *)

LEMMA MessageFacts ==
  /\ \A op \in Plain : Atom(op) \in NodeMessage
  /\ \A p \in Factors : Msg("factor", p) \in NodeMessage
  /\ \A n \in Numbers : Msg("calculate", n) \in NodeMessage \cap WorkerMessage
  /\ \A n \in Numbers \ {0}, cycles \in Cycles, state \in States :
       Continue(n, cycles, state) \in WorkerMessage
BY DEF Atom, Msg, Continue, NodeMessage, WorkerMessage

LEMMA NodeMessageFacts ==
  ASSUME NEW m \in NodeMessage
  PROVE  /\ m.op \notin {"continue", "suicide"}
         /\ m.op = "calculate" => m \in WorkerMessage /\ m.v \in Numbers
         /\ m.op = "factor" => m.v \in Factors
BY DEF NodeMessage, WorkerMessage, Plain

LEMMA WorkerMessageFacts ==
  ASSUME NEW m \in WorkerMessage
  PROVE  /\ m.v \in Numbers
         /\ m.op = "continue" => m.v # 0 /\ m.cycles \in Cycles /\ m.state \in States
BY DEF WorkerMessage

(* Taking the first message of a mailbox.                                  *)
LEMMA TakeFacts ==
  ASSUME NEW S, NEW q \in Seq(S), q # <<>>
  PROVE  q[1] \in S /\ Tail(q) \in Seq(S)
OBVIOUS

LEMMA AppendFacts ==
  ASSUME NEW S, NEW q \in Seq(S), NEW e \in S
  PROVE  Append(q, e) \in Seq(S)
OBVIOUS

LEMMA RestType ==
  ASSUME BoxOK(mail), NEW x \in Actors, mail[x] # <<>>
  PROVE  /\ BoxOK(Rest(x))
         /\ x \in Nodes => mail[x][1] \in NodeMessage
         /\ x \in Workers => mail[x][1] \in WorkerMessage
<1> DEFINE A == NodeMessage \cup WorkerMessage
<1>1. mail \in [Actors -> Seq(A)] /\ Tail(mail[x]) \in Seq(A)
  <2>1. mail \in [Actors -> Seq(A)] BY DEF BoxOK
  <2>2. mail[x] \in Seq(A) BY <2>1
  <2> HIDE DEF A
  <2>3. QED BY <2>1, <2>2, TakeFacts
<1>2. ASSUME x \in Nodes
      PROVE  mail[x][1] \in NodeMessage /\ Tail(mail[x]) \in Seq(NodeMessage)
  BY <1>2, TakeFacts DEF BoxOK
<1>3. ASSUME x \in Workers
      PROVE  mail[x][1] \in WorkerMessage /\ Tail(mail[x]) \in Seq(WorkerMessage)
  BY <1>3, TakeFacts DEF BoxOK
<1>4. Rest(x) \in [Actors -> Seq(A)]
  <2> HIDE DEF A
  <2> QED BY <1>1 DEF Rest
<1>5. \A y \in Actors : Rest(x)[y] = IF y = x THEN Tail(mail[x]) ELSE mail[y]
  BY <1>1 DEF Rest
<1>6. \A y \in Nodes : Rest(x)[y] \in Seq(NodeMessage)
  BY <1>2, <1>5 DEF BoxOK, Actors
<1>7. \A y \in Workers : Rest(x)[y] \in Seq(WorkerMessage)
  BY <1>3, <1>5 DEF BoxOK, Actors
<1>8. QED
  BY <1>2, <1>3, <1>4, <1>6, <1>7 DEF BoxOK

LEMMA AppendType ==
  ASSUME NEW box, BoxOK(box), NEW x \in Actors, NEW m,
         x \in Nodes => m \in NodeMessage, x \in Workers => m \in WorkerMessage
  PROVE  BoxOK([box EXCEPT ![x] = Append(@, m)])
<1> DEFINE A == NodeMessage \cup WorkerMessage
           b == [box EXCEPT ![x] = Append(@, m)]
<1>1. m \in A
  BY DEF Actors
<1>2. box \in [Actors -> Seq(A)]
  BY DEF BoxOK
<1>3. b \in [Actors -> Seq(A)]
  <2> HIDE DEF A
  <2> QED BY <1>1, <1>2
<1>4. \A y \in Actors : b[y] = IF y = x THEN Append(box[x], m) ELSE box[y]
  BY <1>2
<1> HIDE DEF b
<1>5. \A y \in Nodes : b[y] \in Seq(NodeMessage)
  BY <1>4, AppendFacts DEF BoxOK, Actors
<1>6. \A y \in Workers : b[y] \in Seq(WorkerMessage)
  BY <1>4, AppendFacts DEF BoxOK, Actors
<1>7. QED
  BY <1>3, <1>5, <1>6 DEF BoxOK, b

LEMMA EmptyType ==
  ASSUME BoxOK(mail), NEW x \in Actors
  PROVE  BoxOK([mail EXCEPT ![x] = <<>>])
BY DEF BoxOK, Actors

(* A broadcast of a message between nodes keeps every mailbox typed: a     *)
(* worker only takes the calculate messages.                               *)
LEMMA DeliverType ==
  ASSUME NEW box, BoxOK(box), NEW xs, NEW m \in NodeMessage
  PROVE  BoxOK(Deliver(box, xs, m))
<1> DEFINE A == NodeMessage \cup WorkerMessage
           b == Deliver(box, xs, m)
<1>1. box \in [Actors -> Seq(A)] /\ m \in A
  BY DEF BoxOK
<1>2. b \in [Actors -> Seq(A)]
  <2> HIDE DEF A
  <2> QED BY <1>1 DEF Deliver
<1>3. \A y \in Actors : b[y] = IF y \in xs /\ Receives(y, m)
                              THEN Append(box[y], m) ELSE box[y]
  BY DEF Deliver
<1> HIDE DEF b
<1>4. \A y \in Nodes : b[y] \in Seq(NodeMessage)
  BY <1>3, AppendFacts DEF BoxOK, Actors
<1>5. \A y \in Workers : Receives(y, m) => m \in WorkerMessage
  <2>1. \A y \in Workers : Handles(y) = {"calculate", "continue"}
    BY SortsAssumption DEF Handles, Nodes
  <2>2. QED
    BY <2>1, NodeMessageFacts DEF Receives
<1>6. \A y \in Workers : b[y] \in Seq(WorkerMessage)
  BY <1>3, <1>5, AppendFacts DEF BoxOK, Actors
<1>7. QED
  BY <1>2, <1>4, <1>6 DEF BoxOK, b

(* suicide has no handler.                                                 *)
LEMMA SuicideIgnored ==
  ASSUME NEW box, BoxOK(box), NEW xs
  PROVE  Deliver(box, xs, Atom("suicide")) = box
<1>1. \A x \in Actors : "suicide" \notin Handles(x)
  BY DEF Handles, Actors, Nodes
<1>2. \A x \in Actors : ~Receives(x, Atom("suicide"))
  BY <1>1 DEF Receives, Atom, Msg
<1>3. QED
  BY <1>2 DEF Deliver, BoxOK

LEMMA SendType ==
  ASSUME TypeOK, NEW x \in Nodes, NEW m \in NodeMessage, SendServer(x, m)
  PROVE  up' \in [Nodes -> Seq(NodeMessage)]
<1>1. up \in [Nodes -> Seq(NodeMessage)]
  BY DEF TypeOK
<1>2. Append(up[x], m) \in Seq(NodeMessage)
  BY <1>1, AppendFacts
<1>3. up' = up \/ up' = [up EXCEPT ![x] = Append(up[x], m)]
  BY DEF SendServer
<1>4. QED
  BY <1>1, <1>2, <1>3

LEMMA SortFacts ==
  /\ Managers \subseteq Nodes /\ Clients \subseteq Nodes
  /\ Nodes \subseteq Actors /\ Workers \subseteq Actors
  /\ {"JOIN", "LEAVE", "ping", "pong", "sWorkers", "kWorkers", "nofactor"} \subseteq Plain
BY DEF Nodes, Actors, Plain

(* What an actor finds in its mailbox when it has a message.               *)
LEMMA HasFacts ==
  ASSUME TypeOK, NEW x \in Actors, NEW op, Has(x, op)
  PROVE  /\ BoxOK(Rest(x)) /\ mail[x] # <<>> /\ mail[x][1].op = op
         /\ x \in Nodes => mail[x][1] \in NodeMessage
         /\ x \in Workers => mail[x][1] \in WorkerMessage
BY RestType DEF Has, TypeOK

-----------------------------------------------------------------------------
(* Type correctness, action by action.                                     *)

LEMMA QuitType ==
  ASSUME TypeOK, NEW x \in Nodes, Quit(x)
  PROVE  TypeOK'
<1>1. BoxOK(mail')
  BY EmptyType, SortFacts DEF Quit, TypeOK
<1>2. up' \in [Nodes -> Seq(NodeMessage)]
  BY SendType, MessageFacts, SortFacts DEF Quit
<1>3. QED
  BY <1>1, <1>2 DEF TypeOK, Quit

LEMMA ManagerType ==
  ASSUME TypeOK, NEW m \in Managers, ManagerConnect(m) \/ ManagerStep(m)
  PROVE  TypeOK'
<1> USE SortFacts
<1>0. m \in Nodes /\ m \in Actors
  OBVIOUS
<1>1. CASE ManagerConnect(m)
  <2>1. BoxOK(mail')
    <3>1. Atom("sWorkers") \in NodeMessage /\ m \notin Workers
      BY MessageFacts, SortsAssumption
    <3>2. QED
      BY <1>0, <1>1, <3>1, AppendType DEF ManagerConnect, TypeOK
  <2>2. up' \in [Nodes -> Seq(NodeMessage)]
    BY <1>0, <1>1, SendType, MessageFacts DEF ManagerConnect
  <2>3. QED
    BY <1>1, <2>1, <2>2 DEF TypeOK, ManagerConnect
<1>2. CASE ManagerSpawn(m)
  BY <1>0, <1>2, HasFacts DEF TypeOK, ManagerSpawn
<1>3. CASE ManagerKill(m)
  <2>1. BoxOK(mail')
    BY <1>0, <1>3, HasFacts, SuicideIgnored DEF ManagerKill
  <2>2. QED
    BY <1>3, <2>1 DEF TypeOK, ManagerKill
<1>4. CASE ManagerPing(m)
  <2>1. up' \in [Nodes -> Seq(NodeMessage)]
    BY <1>0, <1>4, SendType, MessageFacts DEF ManagerPing
  <2>2. QED
    BY <1>0, <1>4, <2>1, HasFacts DEF TypeOK, ManagerPing
<1>5. CASE ManagerReport(m)
  <2>1. BoxOK(mail') /\ mail[m][1] \in NodeMessage
    BY <1>0, <1>5, HasFacts DEF ManagerReport
  <2>2. up' \in [Nodes -> Seq(NodeMessage)]
    BY <1>0, <1>5, <2>1, SendType DEF ManagerReport
  <2>3. QED
    BY <1>5, <2>1, <2>2 DEF TypeOK, ManagerReport
<1>6. CASE ManagerCalculate(m)
  <2>1. BoxOK(Rest(m)) /\ mail[m][1] \in NodeMessage
    BY <1>0, <1>6, HasFacts DEF ManagerCalculate
  <2>2. BoxOK(mail')
    BY <1>6, <2>1, DeliverType DEF ManagerCalculate
  <2>3. QED
    BY <1>6, <2>2 DEF TypeOK, ManagerCalculate
<1>7. CASE ManagerQuit(m)
  BY <1>0, <1>7, QuitType DEF ManagerQuit
<1>8. QED
  BY <1>1, <1>2, <1>3, <1>4, <1>5, <1>6, <1>7 DEF ManagerStep

LEMMA ClientType ==
  ASSUME TypeOK, NumInv, NEW c \in Clients, ClientConnect(c) \/ ClientStep(c)
  PROVE  TypeOK'
<1> USE SortFacts
<1>0. c \in Nodes /\ c \in Actors
  OBVIOUS
<1>1. CASE ClientConnect(c)
  <2>1. Atom("JOIN") \in NodeMessage /\ Msg("calculate", num[c]) \in NodeMessage
    BY MessageFacts, NumInNumbers
  <2>2. up' \in [Nodes -> Seq(NodeMessage)]
    <3>1. <<Atom("JOIN"), Msg("calculate", num[c])>> \in Seq(NodeMessage)
      BY <2>1
    <3>2. up[c] \o <<Atom("JOIN"), Msg("calculate", num[c])>> \in Seq(NodeMessage)
      BY <1>0, <3>1 DEF TypeOK
    <3>3. QED
      BY <1>1, <3>2 DEF ClientConnect, TypeOK
  <2>3. QED
    BY <1>1, <2>2 DEF TypeOK, ClientConnect
<1>2. CASE ClientResult(c)
  BY <1>0, <1>2, QuitType DEF ClientResult
<1>3. CASE ClientPong(c)
  <2>1. up' \in [Nodes -> Seq(NodeMessage)]
    BY <1>0, <1>3, SendType, MessageFacts DEF ClientPong
  <2>2. QED
    BY <1>0, <1>3, <2>1, HasFacts DEF TypeOK, ClientPong
<1>4. CASE ClientFactor(c)
  <2>1. BoxOK(mail') /\ Arg(c) \in Nat
    <3>1. Has(c, "factor") /\ mail' = Rest(c)
      BY <1>4 DEF ClientFactor
    <3>2. BoxOK(Rest(c)) /\ mail[c][1] \in NodeMessage /\ mail[c][1].op = "factor"
      BY <1>0, <3>1, HasFacts
    <3>3. mail[c][1].v \in Factors
      BY <3>2, NodeMessageFacts
    <3>4. QED
      BY <3>1, <3>2, <3>3, NumbersNat DEF Arg, Factors
  <2> DEFINE r == Remaining(num[c], Arg(c))
  <2>2. r \in Numbers /\ r \in Nat
    BY <1>4, <2>1, RemainingDivides, NumbersNat DEF ClientFactor
  <2>3. \/ announced' = [announced EXCEPT ![c] = r] /\ UNCHANGED <<num, up>>
        \/ /\ SendServer(c, Msg("calculate", r))
           /\ num' = [num EXCEPT ![c] = r] /\ UNCHANGED announced
    BY <1>4 DEF ClientFactor
  <2> HIDE DEF r
  <2>4. num' \in [Clients -> Nat] /\ announced' \in [Clients -> Nat]
    BY <2>2, <2>3 DEF TypeOK
  <2>5. up' \in [Nodes -> Seq(NodeMessage)]
    <3>1. CASE UNCHANGED up
      BY <3>1 DEF TypeOK
    <3>2. CASE SendServer(c, Msg("calculate", r))
      BY <1>0, <2>2, <3>2, SendType, MessageFacts
    <3>3. QED
      BY <2>3, <3>1, <3>2
  <2>6. QED
    BY <1>4, <2>1, <2>4, <2>5 DEF TypeOK, ClientFactor
<1>5. CASE ClientFactorZero(c)
  BY <1>0, <1>5 DEF TypeOK, ClientFactorZero
<1>6. CASE ClientNofactor(c)
  BY <1>0, <1>6, HasFacts DEF TypeOK, ClientNofactor
<1>7. QED
  BY <1>1, <1>2, <1>3, <1>4, <1>5, <1>6 DEF ClientStep

LEMMA WorkerType ==
  ASSUME TypeOK, NEW w \in Workers, WorkerStep(w)
  PROVE  TypeOK'
<1> USE SortFacts
<1>0. w \in Actors /\ w \notin Nodes /\ state_id[w] \in States
  BY SortsAssumption DEF TypeOK
<1>1. ASSUME NEW op, Has(w, op)
      PROVE  /\ BoxOK(Rest(w)) /\ mail[w][1] \in WorkerMessage /\ Arg(w) \in Numbers
             /\ op = "continue" => Arg(w) # 0 /\ mail[w][1].cycles \in Cycles
  <2>1. BoxOK(Rest(w)) /\ mail[w][1] \in WorkerMessage /\ mail[w][1].op = op
    BY <1>0, <1>1, HasFacts
  <2>2. QED
    BY <2>1, WorkerMessageFacts DEF Arg
<1>2. ASSUME NEW e \in WorkerMessage, BoxOK(Rest(w))
      PROVE  BoxOK([mail EXCEPT ![w] = Append(Tail(@), e)])
  <2>1. [Rest(w) EXCEPT ![w] = Append(@, e)] = [mail EXCEPT ![w] = Append(Tail(@), e)]
    BY <1>0 DEF Rest, TypeOK, BoxOK
  <2>2. BoxOK([Rest(w) EXCEPT ![w] = Append(@, e)])
    BY <1>0, <1>2, AppendType
  <2>3. QED
    BY <2>1, <2>2
<1>3. CASE WorkerCalculate(w)
  <2> DEFINE state == NextState(state_id[w])
  <2>1. state \in States
    BY <1>0, BoundsAssumption DEF NextState, States
  <2> HIDE DEF state
  <2>2. BoxOK(Rest(w)) /\ Arg(w) \in Numbers \ {0}
    <3>1. Has(w, "calculate") /\ Arg(w) > 0
      BY <1>3 DEF WorkerCalculate
    <3>2. QED
      BY <1>1, <3>1, NumbersNat
  <2>3. Continue(Arg(w), 0, state) \in WorkerMessage
    BY <2>1, <2>2, MessageFacts, BoundsAssumption DEF Cycles
  <2>4. /\ mail' = [mail EXCEPT ![w] = Append(Tail(@), Continue(Arg(w), 0, state))]
        /\ state_id' = [state_id EXCEPT ![w] = state]
    BY <1>3 DEF WorkerCalculate, state
  <2>5. BoxOK(mail')
    BY <1>2, <2>2, <2>3, <2>4
  <2>6. QED
    BY <1>3, <2>1, <2>4, <2>5 DEF TypeOK, WorkerCalculate
<1>4. CASE WorkerCalculateZero(w)
  <2>1. BoxOK(mail')
    BY <1>0, <1>4, EmptyType DEF WorkerCalculateZero, TypeOK
  <2>2. QED
    BY <1>4, <2>1 DEF TypeOK, WorkerCalculateZero
<1>5. CASE WorkerObsolete(w)
  BY <1>1, <1>5 DEF TypeOK, WorkerObsolete
<1>6. CASE WorkerFactor(w)
  <2>1. PICK o \in Outcomes(w) :
          /\ o.op = "factor"
          /\ mail' = Deliver(Rest(w), Wgroup(Host[w]), Msg("factor", o.v))
    BY <1>6 DEF WorkerFactor
  <2>2. BoxOK(Rest(w)) /\ Arg(w) \in Numbers \ {0} /\ mail[w][1].cycles \in Cycles
    BY <1>1, <1>6 DEF WorkerFactor, Live
  <2>3. o.v \in Factors
    BY <2>1, <2>2, RhoFactor DEF Outcomes
  <2>4. BoxOK(mail')
    BY <2>1, <2>2, <2>3, MessageFacts, DeliverType
  <2>5. QED
    BY <1>6, <2>4 DEF TypeOK, WorkerFactor
<1>7. CASE WorkerNofactor(w)
  <2>1. BoxOK(Rest(w)) /\ Arg(w) \in Numbers
    BY <1>1, <1>7 DEF WorkerNofactor, Live
  <2> DEFINE box == [mail EXCEPT ![w] = Append(Tail(@), Msg("calculate", Arg(w)))]
  <2>2. BoxOK(box)
    BY <1>2, <2>1, MessageFacts
  <2>3. mail' = Deliver(box, Wgroup(Host[w]), Atom("nofactor"))
    BY <1>7 DEF WorkerNofactor
  <2> HIDE DEF box
  <2>4. BoxOK(mail')
    BY <2>2, <2>3, MessageFacts, DeliverType
  <2>5. QED
    BY <1>7, <2>4 DEF TypeOK, WorkerNofactor
<1>8. CASE WorkerAgain(w)
  <2>1. PICK o \in Outcomes(w) :
          /\ o.op = "continue"
          /\ mail' = [mail EXCEPT ![w] =
                        Append(Tail(@), Continue(Arg(w), o.v, state_id[w]))]
    BY <1>8 DEF WorkerAgain
  <2>2. BoxOK(Rest(w)) /\ Arg(w) \in Numbers \ {0} /\ mail[w][1].cycles \in Cycles
    BY <1>1, <1>8 DEF WorkerAgain, Live
  <2>3. o.v \in Cycles
    BY <2>1, <2>2, RhoAssumption DEF Outcomes
  <2>4. BoxOK(mail')
    BY <1>0, <1>2, <2>1, <2>2, <2>3, MessageFacts
  <2>5. QED
    BY <1>8, <2>4 DEF TypeOK, WorkerAgain
<1>9. QED
  BY <1>3, <1>4, <1>5, <1>6, <1>7, <1>8 DEF WorkerStep

LEMMA BrokerType ==
  ASSUME TypeOK, NEW x \in Nodes, Broker(x)
  PROVE  TypeOK'
<1>1. up[x] # <<>> /\ up' = [up EXCEPT ![x] = Tail(@)]
  BY DEF Broker, BrokerJoin, BrokerLeave, BrokerForward, Take
<1>2. up[x] \in Seq(NodeMessage) /\ up \in [Nodes -> Seq(NodeMessage)]
  BY DEF TypeOK
<1>3. up[x][1] \in NodeMessage /\ up' \in [Nodes -> Seq(NodeMessage)]
  BY <1>1, <1>2, TakeFacts
<1>4. BoxOK(mail')
  <2>1. CASE BrokerForward(x)
    BY <2>1, <1>3, DeliverType DEF BrokerForward, send_to_acquaintances, TypeOK
  <2>2. CASE mail' = mail
    BY <2>2 DEF TypeOK
  <2>3. QED
    BY <2>1, <2>2 DEF Broker, BrokerJoin, BrokerLeave
<1>5. QED
  BY <1>3, <1>4 DEF TypeOK, Broker, BrokerJoin, BrokerLeave, BrokerForward

LEMMA TypeStep ==
  ASSUME TypeOK, NumInv, [Next]_vars
  PROVE  TypeOK'
<1>1. CASE ServerStart \/ ServerQuit
  <2>1. [x \in Nodes |-> <<>>] \in [Nodes -> Seq(NodeMessage)]
    OBVIOUS
  <2>2. CASE ServerStart
    BY <2>2 DEF TypeOK, ServerStart
  <2>3. CASE ServerQuit
    BY <2>1, <2>3 DEF TypeOK, ServerQuit
  <2>4. QED
    BY <1>1, <2>2, <2>3
<1>2. CASE \E m \in Managers : ManagerConnect(m) \/ ManagerStep(m)
  BY <1>2, ManagerType
<1>3. CASE \E c \in Clients : ClientConnect(c) \/ ClientStep(c)
  BY <1>3, ClientType
<1>4. CASE \E w \in Workers : WorkerStep(w)
  BY <1>4, WorkerType
<1>5. CASE \E x \in Nodes : ConnectFails(x)
  BY <1>5 DEF TypeOK, ConnectFails
<1>6. CASE \E x \in Nodes : Broker(x)
  BY <1>6, BrokerType
<1>7. CASE \E x \in Nodes, op \in Injected : Inject(x, op)
  <2>1. PICK x \in Nodes, op \in Injected : Inject(x, op)
    BY <1>7
  <2>2. Atom(op) \in NodeMessage /\ x \in Actors /\ x \notin Workers
    BY MessageFacts, InjectedAssumption, SortFacts, SortsAssumption
  <2>3. BoxOK(mail')
    BY <2>1, <2>2, AppendType DEF Inject, TypeOK
  <2>4. QED
    BY <2>1, <2>3 DEF TypeOK, Inject
<1>8. CASE UNCHANGED vars
  BY <1>8 DEF TypeOK, vars
<1>9. QED
  BY <1>1, <1>2, <1>3, <1>4, <1>5, <1>6, <1>7, <1>8 DEF Next

-----------------------------------------------------------------------------
(* The clients' numbers.  Only ClientFactor changes one.                   *)

LEMMA NumStep ==
  ASSUME TypeOK, NumInv, [Next]_vars
  PROVE  NumInv'
<1>1. CASE UNCHANGED num
  BY <1>1 DEF NumInv
<1>2. ASSUME NEW c \in Clients, ClientFactor(c), ~UNCHANGED num
      PROVE  NumInv'
  <2>1. Has(c, "factor") /\ num[c] > 0
    BY <1>2 DEF ClientFactor
  <2>2. mail[c][1] \in NodeMessage /\ mail[c][1].op = "factor"
    BY <2>1, HasFacts, SortFacts
  <2>3. Arg(c) \in Nat
    BY <2>2, NodeMessageFacts, NumbersNat DEF Arg, Factors
  <2> DEFINE r == Remaining(num[c], Arg(c))
  <2>4. num' = [num EXCEPT ![c] = r]
    BY <1>2 DEF ClientFactor
  <2>5. Input[c] # 0 /\ r \in 1..Input[c] /\ Divides(r, Input[c])
    BY <2>1, <2>3, RemainingDivides
  <2> HIDE DEF r
  <2>6. QED
    BY <2>4, <2>5 DEF NumInv, TypeOK
<1>3. UNCHANGED num \/ \E c \in Clients : ClientFactor(c)
  BY DEF Next, vars, ServerStart, ServerQuit, ConnectFails, ManagerConnect,
    ManagerStep, ManagerSpawn, ManagerKill, ManagerPing, ManagerReport,
    ManagerCalculate, ManagerQuit, Quit, ClientConnect, ClientStep, ClientResult,
    ClientPong, ClientFactorZero, ClientNofactor, WorkerStep, WorkerCalculate,
    WorkerCalculateZero, WorkerObsolete, WorkerFactor, WorkerNofactor, WorkerAgain,
    Broker, BrokerJoin, BrokerLeave, BrokerForward, Inject
<1>4. QED
  BY <1>1, <1>2, <1>3

(* Nobody fails: the two handlers that do are not reached.                 *)
LEMMA FailStep ==
  ASSUME TypeOK, NumInv, NobodyFails, [Next]_vars
  PROVE  NobodyFails'
<1>0. status \in [Actors -> {"init", "running", "quit", "dead", "hung"}]
  BY DEF TypeOK
<1>1. ASSUME NEW w \in Workers, WorkerCalculateZero(w)
      PROVE  \E c \in Clients : Input[c] = 0
  <2>1. Has(w, "calculate") /\ Arg(w) = 0
    BY <1>1 DEF WorkerCalculateZero
  <2>2. mail[w][1] \in WorkerMessage
    BY <2>1, HasFacts, SortFacts
  <2>3. 0 \in Numbers
    BY <2>1, <2>2, WorkerMessageFacts DEF Arg
  <2>4. QED
    BY <2>3, NumbersNat, InputAssumption
<1>2. ASSUME NEW c \in Clients, ClientFactorZero(c) PROVE Input[c] = 0
  <2>1. num[c] = 0 /\ Input[c] \in Nat
    BY <1>2, InputAssumption DEF ClientFactorZero
  <2>2. Input[c] # 0 => num[c] \in 1..Input[c]
    BY DEF NumInv
  <2>3. QED
    BY <2>1, <2>2, SMTT(30), Z3T(30)
<1>3. \/ UNCHANGED status
      \/ \E y \in Actors : status' = [status EXCEPT ![y] = "running"]
      \/ \E y \in Actors : status' = [status EXCEPT ![y] = "quit"]
      \/ \E m \in Managers : ManagerSpawn(m)
      \/ \E w \in Workers : WorkerCalculateZero(w)
      \/ \E c \in Clients : ClientFactorZero(c)
  <2>1. CASE ServerStart \/ ServerQuit \/ UNCHANGED vars
    BY <2>1 DEF ServerStart, ServerQuit, vars
  <2>2. QED
    BY <2>1, SortFacts DEF Next, ConnectFails, ManagerConnect,
      ManagerStep, ManagerKill, ManagerPing, ManagerReport, ManagerCalculate,
      ManagerQuit, Quit, ClientConnect, ClientStep, ClientResult, ClientPong,
      ClientFactor, ClientNofactor, WorkerStep, WorkerCalculate, WorkerObsolete,
      WorkerFactor, WorkerNofactor, WorkerAgain, Broker, BrokerJoin, BrokerLeave,
      BrokerForward, Inject
<1>4. CASE \E w \in Workers : WorkerCalculateZero(w)
  <2>1. PICK w \in Workers : WorkerCalculateZero(w)
    BY <1>4
  <2>2. status' = [status EXCEPT ![w] = "dead"] /\ w \notin Clients
    BY <2>1, SortsAssumption DEF WorkerCalculateZero, Nodes
  <2>3. ~\A c \in Clients : Input[c] > 0
    BY <1>1, <2>1
  <2>4. QED
    BY <1>0, <2>2, <2>3, SortFacts DEF NobodyFails
<1>5. CASE \E c \in Clients : ClientFactorZero(c)
  <2>1. PICK c \in Clients : ClientFactorZero(c)
    BY <1>5
  <2>2. status' = [status EXCEPT ![c] = "hung"] /\ Input[c] = 0
    BY <1>2, <2>1 DEF ClientFactorZero
  <2>3. QED
    BY <1>0, <2>2, SortFacts DEF NobodyFails
<1>6. QED
  BY <1>0, <1>3, <1>4, <1>5, SortFacts DEF ManagerSpawn, NobodyFails
-----------------------------------------------------------------------------
(* The links to the broker                                                 *)

LEMMA LinkAppend ==
  ASSUME NEW q \in Seq(NodeMessage), NEW m \in NodeMessage,
         m.op \notin {"JOIN", "LEAVE"}
  PROVE  /\ Settled(q) => Settled(Append(q, m))
         /\ JoinFirst(q) => JoinFirst(Append(q, m))
<1>1. Len(Append(q, m)) = Len(q) + 1 /\ Len(q) \in Nat
      /\ \A i \in 1..(Len(q) + 1) :
            Append(q, m)[i] = IF i = Len(q) + 1 THEN m ELSE q[i]
  <2> HIDE DEF NodeMessage
  <2> QED OBVIOUS
<1>2. Settled(q) => Settled(Append(q, m))
  BY <1>1 DEF Settled
<1>3. ASSUME JoinFirst(q) PROVE JoinFirst(Append(q, m))
  <2>1. Len(q) >= 1 /\ Append(q, m) # <<>>
    BY <1>1, <1>3 DEF JoinFirst
  <2>2. QED
    BY <1>1, <1>3, <2>1 DEF JoinFirst
<1>4. QED
  BY <1>2, <1>3

LEMMA LinkTail ==
  ASSUME NEW q \in Seq(NodeMessage), q # <<>>, Settled(q) \/ JoinFirst(q)
  PROVE  Settled(Tail(q))
<1>1. Len(q) \in Nat /\ Len(Tail(q)) = Len(q) - 1
      /\ \A i \in 1..(Len(q) - 1) : Tail(q)[i] = q[i + 1]
  <2> HIDE DEF NodeMessage
  <2> QED OBVIOUS
<1>2. QED
  BY <1>1 DEF Settled, JoinFirst

(* Steps that leave the links alone: no node starts running.               *)
LEMMA LinkQuiet ==
  ASSUME LinkInv, RepliesReach, UNCHANGED <<server, joined, up>>,
         \A x \in Nodes : \/ status'[x] = status[x]
                          \/ status[x] = "init" /\ status'[x] = "quit"
                          \/ status[x] = "running" /\ status'[x] = "hung"
  PROVE  LinkInv' /\ RepliesReach'
BY DEF LinkInv, RepliesReach

(* A running node sends an ordinary message.                               *)
LEMMA LinkSend ==
  ASSUME TypeOK, LinkInv, RepliesReach, UNCHANGED <<server, joined, status>>,
         NEW x \in Nodes, status[x] = "running", NEW m \in NodeMessage,
         m.op \notin {"JOIN", "LEAVE"}, SendServer(x, m)
  PROVE  LinkInv' /\ RepliesReach'
<1>1. CASE server # "up"
  BY <1>1 DEF SendServer, LinkInv, RepliesReach
<1>2. CASE server = "up"
  <2>1. up \in [Nodes -> Seq(NodeMessage)] /\ up' = [up EXCEPT ![x] = Append(up[x], m)]
    BY <1>2 DEF TypeOK, SendServer
  <2>2. \A y \in Nodes : up'[y] = IF y = x THEN Append(up[x], m) ELSE up[y]
    BY <2>1
  <2>3. /\ Settled(up[x]) => Settled(up'[x])
        /\ JoinFirst(up[x]) => JoinFirst(up'[x])
    BY <2>1, <2>2, LinkAppend
  <2>4. LinkInv'
    BY <2>2 DEF LinkInv
  <2>5. RepliesReach'
    BY <2>2, <2>3 DEF RepliesReach
  <2>6. QED
    BY <2>4, <2>5
<1>3. QED
  BY <1>1, <1>2

LEMMA LinkQuit ==
  ASSUME TypeOK, LinkInv, RepliesReach, NEW x \in Nodes, Quit(x), status[x] = "running"
  PROVE  LinkInv' /\ RepliesReach'
<1>1. /\ status \in [Actors -> {"init", "running", "quit", "dead", "hung"}]
      /\ status' = [status EXCEPT ![x] = "quit"] /\ UNCHANGED <<server, joined>>
  BY DEF TypeOK, Quit
<1>2. \A y \in Nodes : status'[y] = IF y = x THEN "quit" ELSE status[y]
  BY <1>1, SortFacts
<1>3. \A y \in Nodes : y # x => up'[y] = up[y]
  BY DEF Quit, SendServer, TypeOK
<1>4. LinkInv'
  BY <1>1, <1>2, <1>3 DEF LinkInv
<1>5. RepliesReach'
  BY <1>1, <1>2, <1>3 DEF RepliesReach
<1>6. QED
  BY <1>4, <1>5

(* A node connects: what it sends first is its JOIN.                       *)
LEMMA LinkConnect ==
  ASSUME TypeOK, LinkInv, RepliesReach, NEW x \in Nodes, status[x] = "init", server = "up",
         UNCHANGED <<server, joined>>, status' = [status EXCEPT ![x] = "running"],
         NEW q, JoinFirst(q), up' = [up EXCEPT ![x] = q]
  PROVE  LinkInv' /\ RepliesReach'
<1>1. \A y \in Nodes : /\ status'[y] = IF y = x THEN "running" ELSE status[y]
                       /\ up'[y] = IF y = x THEN q ELSE up[y]
  BY SortFacts DEF TypeOK
<1>2. LinkInv'
  BY <1>1 DEF LinkInv
<1>3. RepliesReach'
  BY <1>1 DEF RepliesReach, LinkInv
<1>4. QED
  BY <1>2, <1>3

LEMMA LinkBroker ==
  ASSUME TypeOK, LinkInv, RepliesReach, NEW x \in Nodes, Broker(x)
  PROVE  LinkInv' /\ RepliesReach'
<1>1. /\ up[x] # <<>> /\ up' = [up EXCEPT ![x] = Tail(up[x])]
      /\ UNCHANGED <<server, status>>
  BY DEF Broker, BrokerJoin, BrokerLeave, BrokerForward, Take
<1>2. up[x] \in Seq(NodeMessage) /\ up \in [Nodes -> Seq(NodeMessage)]
  BY DEF TypeOK
<1>3. \A y \in Nodes : up'[y] = IF y = x THEN Tail(up[x]) ELSE up[y]
  BY <1>1, <1>2
<1>4. status[x] # "init"
  BY <1>1 DEF LinkInv
<1>5. \A y \in Nodes : y # x => (y \in joined' <=> y \in joined)
  BY DEF Broker, BrokerJoin, BrokerLeave, BrokerForward
<1>6. LinkInv'
  BY <1>1, <1>3, <1>4, <1>5 DEF LinkInv
<1>7. ASSUME status[x] \in {"running", "hung"}, server = "up"
      PROVE  x \in joined' /\ Settled(up'[x])
  <2>1. \/ x \in joined /\ Settled(up[x])
        \/ x \notin joined /\ JoinFirst(up[x])
    BY <1>7 DEF RepliesReach
  <2>2. Settled(up'[x])
    BY <1>1, <1>2, <1>3, <2>1, LinkTail
  <2>3. Settled(up[x]) => up[x][1].op \notin {"JOIN", "LEAVE"}
    BY <1>1, <1>2 DEF Settled
  <2>4. x \in joined'
    BY <2>1, <2>3 DEF JoinFirst, Broker, BrokerJoin, BrokerLeave, BrokerForward
  <2>5. QED
    BY <2>2, <2>4
<1>8. RepliesReach'
  BY <1>1, <1>3, <1>5, <1>7 DEF RepliesReach
<1>9. QED
  BY <1>6, <1>8

LEMMA LinkStep ==
  ASSUME TypeOK, NumInv, LinkInv, RepliesReach, [Next]_vars
  PROVE  LinkInv' /\ RepliesReach'
<1> USE SortFacts
<1>0. status \in [Actors -> {"init", "running", "quit", "dead", "hung"}]
  BY DEF TypeOK
<1>1. CASE ServerStart \/ ServerQuit
  <2>1. CASE ServerStart
    BY <2>1 DEF ServerStart, LinkInv, RepliesReach
  <2>2. CASE ServerQuit
    BY <2>2 DEF ServerQuit, LinkInv, RepliesReach
  <2>3. QED
    BY <1>1, <2>1, <2>2
<1>2. ASSUME NEW m \in Managers, ManagerConnect(m) \/ ManagerStep(m)
      PROVE  LinkInv' /\ RepliesReach'
  <2>1. CASE ManagerConnect(m)
    <3>1. status[m] = "init" /\ server = "up" /\ up[m] = <<>> /\ m \in Nodes
      BY <2>1 DEF ManagerConnect, LinkInv
    <3>2. up' = [up EXCEPT ![m] = <<Atom("JOIN")>>]
      BY <2>1, <3>1 DEF ManagerConnect, SendServer, TypeOK
    <3>3. JoinFirst(<<Atom("JOIN")>>)
      BY DEF JoinFirst, Atom, Msg
    <3>4. QED
      BY <2>1, <3>1, <3>2, <3>3, LinkConnect DEF ManagerConnect
  <2>2. CASE ManagerSpawn(m)
    <3>1. \A x \in Nodes : status'[x] = status[x]
      BY <2>2, SortsAssumption DEF ManagerSpawn
    <3>2. QED
      BY <2>2, <3>1, LinkQuiet DEF ManagerSpawn
  <2>3. CASE ManagerKill(m) \/ ManagerCalculate(m)
    BY <2>3, LinkQuiet DEF ManagerKill, ManagerCalculate
  <2>4. CASE ManagerPing(m)
    <3>1. Atom("pong") \in NodeMessage /\ Atom("pong").op = "pong"
      BY MessageFacts DEF Atom, Msg
    <3>2. QED
      BY <2>4, <3>1, LinkSend DEF ManagerPing, Has
  <2>5. CASE ManagerReport(m)
    <3>1. mail[m][1] \in NodeMessage /\ mail[m][1].op \in {"factor", "nofactor"}
      BY <2>5, HasFacts DEF ManagerReport
    <3>2. QED
      BY <2>5, <3>1, LinkSend DEF ManagerReport, Has
  <2>6. CASE ManagerQuit(m)
    BY <2>6, LinkQuit DEF ManagerQuit, Has
  <2>7. QED
    BY <1>2, <2>1, <2>2, <2>3, <2>4, <2>5, <2>6 DEF ManagerStep
<1>3. ASSUME NEW c \in Clients, ClientConnect(c) \/ ClientStep(c)
      PROVE  LinkInv' /\ RepliesReach'
  <2>1. CASE ClientConnect(c)
    <3> DEFINE q == <<Atom("JOIN"), Msg("calculate", num[c])>>
    <3>1. status[c] = "init" /\ server = "up" /\ up[c] = <<>> /\ c \in Nodes
      BY <2>1 DEF ClientConnect, LinkInv
    <3>2. up' = [up EXCEPT ![c] = q]
      BY <2>1, <3>1 DEF ClientConnect, TypeOK
    <3>3. JoinFirst(q)
      BY DEF JoinFirst, Atom, Msg
    <3> HIDE DEF q
    <3>4. QED
      BY <2>1, <3>1, <3>2, <3>3, LinkConnect DEF ClientConnect
  <2>2. CASE ClientResult(c)
    BY <2>2, LinkQuit DEF ClientResult, Has
  <2>3. CASE ClientPong(c)
    <3>1. Atom("ping") \in NodeMessage /\ Atom("ping").op = "ping"
      BY MessageFacts DEF Atom, Msg
    <3>2. QED
      BY <2>3, <3>1, LinkSend DEF ClientPong, Has
  <2>4. CASE ClientFactor(c)
    <3>1. Has(c, "factor") /\ num[c] > 0 /\ UNCHANGED <<server, status, joined>>
      BY <2>4 DEF ClientFactor
    <3>2. Arg(c) \in Nat
      <4>1. mail[c][1] \in NodeMessage /\ mail[c][1].op = "factor"
        BY <3>1, HasFacts
      <4>2. QED
        BY <4>1, NodeMessageFacts, NumbersNat DEF Arg, Factors
    <3> DEFINE r == Remaining(num[c], Arg(c))
               e == Msg("calculate", r)
    <3>3. e \in NodeMessage /\ e.op = "calculate"
      BY <3>1, <3>2, RemainingDivides, MessageFacts DEF Msg
    <3>4. UNCHANGED up \/ SendServer(c, e)
      BY <2>4 DEF ClientFactor
    <3> HIDE DEF e
    <3>5. CASE UNCHANGED up
      BY <3>1, <3>5, LinkQuiet
    <3>6. CASE SendServer(c, e)
      BY <3>1, <3>3, <3>6, LinkSend DEF Has
    <3>7. QED
      BY <3>4, <3>5, <3>6
  <2>5. CASE ClientFactorZero(c)
    BY <1>0, <2>5, LinkQuiet DEF ClientFactorZero, Has
  <2>6. CASE ClientNofactor(c)
    BY <2>6, LinkQuiet DEF ClientNofactor
  <2>7. QED
    BY <1>3, <2>1, <2>2, <2>3, <2>4, <2>5, <2>6 DEF ClientStep
<1>4. ASSUME NEW w \in Workers, WorkerStep(w)
      PROVE  LinkInv' /\ RepliesReach'
  <2>1. UNCHANGED <<server, joined, up>> /\ \A x \in Nodes : status'[x] = status[x]
    BY <1>0, <1>4, SortsAssumption DEF WorkerStep, WorkerCalculate,
      WorkerCalculateZero, WorkerObsolete, WorkerFactor, WorkerNofactor, WorkerAgain
  <2>2. QED
    BY <2>1, LinkQuiet
<1>5. ASSUME NEW x \in Nodes, ConnectFails(x)
      PROVE  LinkInv' /\ RepliesReach'
  BY <1>0, <1>5, LinkQuiet DEF ConnectFails
<1>6. ASSUME NEW x \in Nodes, Broker(x)
      PROVE  LinkInv' /\ RepliesReach'
  BY <1>6, LinkBroker
<1>7. ASSUME NEW x \in Nodes, NEW op \in Injected, Inject(x, op)
      PROVE  LinkInv' /\ RepliesReach'
  BY <1>7, LinkQuiet DEF Inject
<1>8. CASE UNCHANGED vars
  BY <1>8, LinkQuiet DEF vars
<1>9. QED
  BY <1>1, <1>2, <1>3, <1>4, <1>5, <1>6, <1>7, <1>8 DEF Next

-----------------------------------------------------------------------------
LEMMA InitIInv == Init => IInv
<1> SUFFICES ASSUME Init PROVE IInv
  OBVIOUS
<1>1. BoxOK(mail)
  BY DEF Init, BoxOK, Actors
<1>2. up \in [Nodes -> Seq(NodeMessage)]
  BY DEF Init
<1>3. TypeOK
  BY <1>1, <1>2, InputAssumption, BoundsAssumption DEF Init, TypeOK, States
<1>4. NumInv
  <2>1. \A c \in Clients : Input[c] \in Nat
    BY InputAssumption
  <2>2. \A n \in Nat \ {0} : n \in 1..n /\ Divides(n, n)
    <3>1. \A n \in Nat \ {0} : 1 \in 0..n /\ n = 1 * n
      OBVIOUS
    <3>2. QED
      BY <3>1 DEF Divides
  <2>3. QED
    BY <2>1, <2>2 DEF Init, NumInv
<1>5. NobodyFails /\ LinkInv /\ RepliesReach
  BY SortFacts DEF Init, NobodyFails, LinkInv, RepliesReach
<1>6. QED
  BY <1>3, <1>4, <1>5 DEF IInv

LEMMA NextIInv == IInv /\ [Next]_vars => IInv'
BY TypeStep, NumStep, FailStep, LinkStep DEF IInv

LEMMA Invariance == Spec => []IInv
BY InitIInv, NextIInv, PTL DEF Spec

(* Every number that is computed, forwarded or kept divides a client's     *)
(* input, every factor is such a divisor other than 0 and 1: for any       *)
(* managers, workers and clients, and any factoring method that only       *)
(* reports divisors.                                                       *)
THEOREM VslabTypeCorrect == Spec => []TypeOK
<1>1. IInv => TypeOK
  BY DEF IInv
<1>2. QED
  BY <1>1, Invariance, PTL

(* The number of a client always divides what was typed in there, whatever *)
(* factors of other clients or of earlier numbers reach it.                *)
THEOREM VslabKeepsDivisor == Spec => []ClientKeepsDivisor
<1>1. IInv => ClientKeepsDivisor
  <2>1. \A c \in Clients : Input[c] = 0 => Divides(0, Input[c])
    BY DEF Divides
  <2>2. QED
    BY <2>1 DEF IInv, NumInv, ClientKeepsDivisor
<1>2. QED
  BY <1>1, Invariance, PTL

(* With positive inputs no worker divides by zero and no client hangs.     *)
THEOREM VslabNobodyFails == Spec => []NobodyFails
<1>1. IInv => NobodyFails
  BY DEF IInv
<1>2. QED
  BY <1>1, Invariance, PTL

(* While the server is up, a running node is in cmgroup or its JOIN is     *)
(* ahead of everything it has sent.                                        *)
THEOREM VslabRepliesReach == Spec => []RepliesReach
<1>1. IInv => RepliesReach
  BY DEF IInv
<1>2. QED
  BY <1>1, Invariance, PTL
=============================================================================
