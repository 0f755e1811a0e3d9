----------------------------- MODULE DivisionLoop ---------------------------
(***************************************************************************)
(* The loop of the client's factor handler (vslab/src/main.cpp) that       *)
(* divides a factor out of the client's number.                            *)
(***************************************************************************)
EXTENDS Factoring

CONSTANT MaxDividend  \* bound on the client's number and on the factor

VARIABLES number, p,  \* the client's number n, the factor received
          tmp_n,    \* what is left of n
          divPc     \* "loop" or "done"

divVars == <<number, p, tmp_n, divPc>>

(* A factor may be stale and not divide n.                                 *)
DivInit ==
  /\ number \in 1..MaxDividend /\ p \in 2..MaxDividend
  /\ tmp_n = number
  /\ divPc = "loop"

(* A mutant of Divide: divides once.                                       *)
DivideOnce ==
  /\ divPc = "loop" /\ tmp_n % p = 0
  /\ tmp_n' = tmp_n \div p
  /\ divPc' = "done"
  /\ UNCHANGED <<number, p>>

Divide ==
  /\ divPc = "loop" /\ tmp_n % p = 0
  /\ tmp_n' = tmp_n \div p
  /\ UNCHANGED <<number, p, divPc>>

DivExit ==
  /\ divPc = "loop" /\ tmp_n % p # 0
  /\ divPc' = "done"
  /\ UNCHANGED <<number, p, tmp_n>>

DivNext == Divide \/ DivExit

(* The handler runs on until it returns.                                   *)
DivSpec == DivInit /\ [][DivNext]_divVars /\ WF_divVars(DivNext)

-----------------------------------------------------------------------------
(* The loop leaves what StripFactor describes (main.cpp:353-356), for any  *)
(* factor, prime or not, dividing or not.                                  *)
LeavesStripFactor == divPc = "done" => tmp_n = StripFactor(number, p)

(* The loop ends for every positive number.                                *)
DivTerminates == divPc = "loop" ~> divPc = "done"
=============================================================================
