------------------------------ MODULE MCVslab -------------------------------
(* Small instances of Vslab.  Rho is what the continue handler can send,   *)
(* with MAX_ITERATIONS = 2, as a table that PollardRho confirms.           *)
EXTENDS Vslab, TLC

CONSTANTS m1, m2, w1, w2, c1, c2, c3, c4

Method == INSTANCE PollardRho WITH MaxIterations <- 2, IntModulus <- 2048

(* The factors that can be found, and the iterations that can end in a     *)
(* continuation.  After the limit only one iteration is made.              *)
Row(factors, ends) ==
  [cycles \in Cycles |->
     {Msg("factor", p) : p \in factors} \cup
     IF cycles > 1
     THEN {Atom("nofactor")} \cup {Msg("continue", cycles) : i \in ends \cap {0}}
     ELSE {Msg("continue", cycles + i) : i \in ends}]

RhoTable ==
  [n \in Numbers \ {0} |->
     CASE n = 1       -> Row({}, {2})
       [] n \in {2,4} -> Row({}, {0, 1})
       [] n = 3       -> Row({3}, {})
       [] n = 5       -> Row({5}, {2})
       [] n = 9       -> Row({3}, {0, 1})
       [] OTHER       -> Row({p \in Numbers : 1 < p /\ p < n /\ Divides(p, n)}, {0, 1})]

(* Every number that is ever asked for divides a positive input.           *)
ASSUME TableAssumption ==
  \A n \in UNION {Divisors(Input[c]) : c \in Clients}, cycles \in Cycles :
    RhoTable[n][cycles] = Method!Outcomes(n, cycles)

OneHost == [w \in {w1} |-> m1]
TwoHosts == [w \in {w1, w2} |-> IF w = w1 THEN m1 ELSE m2]
Input3 == [c \in {c1} |-> 3]
Input30 == [c \in {c1} |-> 30]
Inputs == (c1 :> 15) @@ (c2 :> 9) @@ (c3 :> 0) @@ (c4 :> 3)

(* One manager with the client that has 15, with those that have 9 and 0,  *)
(* or with the one that has 3 and a manager that quits; or two managers.   *)
(* The others were started before there was a server and have quit.        *)
Casts == {[nodes |-> {m1, c1}, atoms |-> {"pong", "result"}],
          [nodes |-> {m1, c2, c3}, atoms |-> {"kWorkers"}],
          [nodes |-> {m1, c4}, atoms |-> {"quit"}],
          [nodes |-> {m1, m2, c4}, atoms |-> {}]}
CastInit ==
  \E cast \in Casts :
    /\ status = [x \in Actors |-> IF x \in Nodes \ cast.nodes THEN "quit" ELSE "init"]
    /\ pending = cast.atoms
    /\ server = "off" /\ joined = {} /\ num = Input
    /\ mail = [x \in Actors |-> <<>>] /\ up = [x \in Nodes |-> <<>>]
    /\ state_id = [w \in Workers |-> 0] /\ computing = [w \in Workers |-> FALSE]
    /\ announced = [c \in Clients |-> 0]
CastSpec == CastInit /\ [][Next]_vars
=============================================================================
