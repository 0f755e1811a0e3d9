---------------------------- MODULE MCRhoWorker -----------------------------
(* Small instances of RhoWorker, and its comparison with PollardRho.       *)
EXTENDS RhoWorker

Method == INSTANCE PollardRho

(* <<n, cycles, what a continue handler may end with>>                     *)
HandlerOutcomes ==
  UNION {{<<n, cycles, o>> : o \in Method!Outcomes(n, cycles)} :
           n \in Inputs \ {0}, cycles \in Cycles}

(* What the step that ends a handler sent.                                 *)
Ended ==
  IF mailbox' = mailbox THEN [op |-> "factor", v |-> out'.p]
  ELSE LET last == mailbox'[Len(mailbox')]
       IN  IF last.op = "calculate" THEN [op |-> "nofactor", v |-> 0]
           ELSE [op |-> "continue", v |-> last.cycles]

(* A continue handler that runs in steps, with messages arriving between   *)
(* them, ends with a message that the loop of main.cpp:119-156 can end     *)
(* with as a function of n and cycles: what the composition uses as Rho.   *)
HandlerIsFunction ==
  [][loop # Idle /\ loop' = Idle => <<loop.n, loop.cycles, Ended>> \in HandlerOutcomes]_vars
=============================================================================
