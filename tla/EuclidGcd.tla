------------------------------ MODULE EuclidGcd -----------------------------
(***************************************************************************)
(* boost::math::gcd(d, n) as worker() calls it on int512_t values: the     *)
(* loop of gcd_euclidean, one half of its body per step.  d is a distance  *)
(* modulo n, so neither is negative and n > 0.                             *)
(***************************************************************************)
EXTENDS Factoring

CONSTANT MaxValue  \* bound on the arguments
ASSUME MaxValueAssumption == MaxValue \in Nat

VARIABLES d, n,    \* the arguments
          a, b,    \* the values being reduced
          gcdPc,      \* "b" or "a": which one is reduced next; "done"
          returned

gcdVars == <<d, n, a, b, gcdPc, returned>>

GcdInit ==
  /\ d \in 0..MaxValue /\ n \in 1..MaxValue
  /\ a = d /\ b = n
  /\ gcdPc = "b" /\ returned = 0

ReturnB ==
  /\ gcdPc = "b" /\ a = 0
  /\ returned' = b /\ gcdPc' = "done"
  /\ UNCHANGED <<d, n, a, b>>

(* Mutant of ReduceB: quotient for remainder.                              *)
QuotientB ==
  /\ gcdPc = "b" /\ a # 0
  /\ b' = b \div a /\ gcdPc' = "a"
  /\ UNCHANGED <<d, n, a, returned>>

ReduceB ==
  /\ gcdPc = "b" /\ a # 0
  /\ b' = b % a /\ gcdPc' = "a"
  /\ UNCHANGED <<d, n, a, returned>>

ReturnA ==
  /\ gcdPc = "a" /\ b = 0
  /\ returned' = a /\ gcdPc' = "done"
  /\ UNCHANGED <<d, n, a, b>>

ReduceA ==
  /\ gcdPc = "a" /\ b # 0
  /\ a' = a % b /\ gcdPc' = "b"
  /\ UNCHANGED <<d, n, b, returned>>

GcdNext == ReturnB \/ ReduceB \/ ReturnA \/ ReduceA

GcdSpec == GcdInit /\ [][GcdNext]_gcdVars

(* The function runs on until it returns.                                  *)
GcdFairSpec == GcdSpec /\ WF_gcdVars(GcdNext)

-----------------------------------------------------------------------------
(* The loop of gcd_euclidean returns the greatest common divisor, which is *)
(* how main.cpp:138 obtains p and how every other module describes it.     *)
ResultIsGcd == gcdPc = "done" => returned = Gcd(d, n)

(* Whenever gcd_euclidean is entered, its reduction comes to an end.       *)
GcdTerminates == gcdPc = "b" ~> gcdPc = "done"
=============================================================================
