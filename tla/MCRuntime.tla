----------------------------- MODULE MCRuntime ------------------------------
(***************************************************************************)
(* Small instances of the parts of the runtime that run on threads of      *)
(* their own, and of the two loops of the program, checked side by side.   *)
(* phase says which one runs; the others stay where they start, the loops  *)
(* where they end.                                                         *)
(***************************************************************************)
EXTENDS Mailbox, Scheduler, GroupLookup, EuclidGcd, DivisionLoop

CONSTANTS s1, s2, a1, a2, a3

VARIABLE phase

GcdReturned == d = 0 /\ n = 1 /\ a = 0 /\ b = 1 /\ gcdPc = "done" /\ returned = 1
LoopLeft == number = 1 /\ p = 2 /\ tmp_n = 1 /\ divPc = "done"

RuntimeInit ==
  /\ phase \in {"mailbox", "scheduler", "lookup", "gcd", "divide"}
  /\ Init /\ SchedInit /\ LookInit
  /\ IF phase = "gcd" THEN GcdInit ELSE GcdReturned
  /\ IF phase = "divide" THEN DivInit ELSE LoopLeft

RuntimeNext ==
  /\ UNCHANGED phase
  /\ \/ /\ phase = "mailbox" /\ Next
        /\ UNCHANGED <<schedVars, lookVars, gcdVars, divVars>>
     \/ /\ phase = "scheduler" /\ SchedNext
        /\ UNCHANGED <<vars, lookVars, gcdVars, divVars>>
     \/ /\ phase = "lookup" /\ LookNext
        /\ UNCHANGED <<vars, schedVars, gcdVars, divVars>>
     \/ /\ phase = "gcd" /\ GcdNext
        /\ UNCHANGED <<vars, schedVars, lookVars, divVars>>
     \/ /\ phase = "divide" /\ DivNext
        /\ UNCHANGED <<vars, schedVars, lookVars, gcdVars>>

RuntimeVars == <<phase, vars, schedVars, lookVars, gcdVars, divVars>>

(* The fairness of the modules, for the one that runs.                     *)
RuntimeSpec ==
  /\ RuntimeInit /\ [][RuntimeNext]_RuntimeVars
  /\ WF_vars(phase = "mailbox" /\ Read)
  /\ SF_vars(phase = "mailbox" /\ Swap)
  /\ SF_vars(phase = "mailbox" /\ CloseSwap)
  /\ \A x \in Senders :
       /\ WF_vars(phase = "mailbox" /\ (Refused(x) \/ PushFails(x) \/ Notify(x)))
       /\ SF_vars(phase = "mailbox" /\ Push(x))
  /\ \A w \in Workers : WF_schedVars(phase = "scheduler" /\ WorkerStep(w))
  /\ WF_schedVars(phase = "scheduler" /\ StopStep)
  /\ \A t \in Callers : WF_lookVars(phase = "lookup" /\ Step(t))
  /\ WF_gcdVars(phase = "gcd" /\ GcdNext)
  /\ WF_divVars(phase = "divide" /\ DivNext)

(* Nobody waits for ever: stop() of the coordinator, get() of the group    *)
(* module, the gcd of a worker and the division loop of a client return    *)
(* (coordinator.hpp:110, locks.hpp:30, common_factor_rt.hpp:97,            *)
(* main.cpp:353).                                                          *)
CallsReturn == StopReturns /\ GetReturns /\ GcdTerminates /\ DivTerminates
=============================================================================
