----------------------------- MODULE PollardRho -----------------------------
(***************************************************************************)
(* The continue handler of worker() in vslab/src/main.cpp as a function:   *)
(* the loop from the draw of x to the message that ends it, for every a    *)
(* and x that may be drawn.                                                *)
(***************************************************************************)
EXTENDS Factoring

CONSTANTS MaxIterations, IntModulus

(* Loop(n, a, cycles)[i, x, y]: what the handler sends when it is at       *)
(* iteration i.                                                            *)
Loop(n, a, cycles) ==
  LET f(v) == ((v * v + a) % IntModulus) % n
      run[i \in 0..MaxIterations, x \in 0..n, y \in 0..n] ==
        IF i = MaxIterations
        THEN [op |-> "continue", v |-> cycles + MaxIterations]
        ELSE LET x1 == f(x)
                 y1 == f(f(y))
                 p  == Gcd((IF y1 > x1 THEN y1 - x1 ELSE x1 - y1) % n, n)
             IN  CASE p # 1 /\ (p # n \/ is_probable_prime(p)) ->
                        [op |-> "factor", v |-> p]
                   [] p # 1 /\ p = n /\ ~is_probable_prime(p) ->
                        [op |-> "continue", v |-> cycles + i]
                   [] p = 1 /\ cycles > 1 -> [op |-> "nofactor", v |-> 0]
                   [] p = 1 /\ cycles <= 1 -> run[i + 1, x1, y1]
  IN  run

Outcomes(n, cycles) ==
  {Loop(n, a, cycles)[0, x, x] : a \in 1..n, x \in 1..n}
=============================================================================
