---------------------------- MODULE MCLifecycle -----------------------------
(***************************************************************************)
(* Small instances of the life of actors, of the map of types and of the   *)
(* event loop of the network, checked side by side.  phase says which one  *)
(* runs.                                                                   *)
(***************************************************************************)
EXTENDS MCActorLifecycle, TypeMap, Multiplexer

VARIABLE phase

(* The names of tuples lie between those of the announced types.           *)
TwoTuples == <<<<5, 1>>, <<1, 4>>>>
TupleElements == [x \in {2, 3} |-> TwoTuples[x - 1]]

(* Receive policies of a broker.                                           *)
SomePolicies == {[flag |-> "exactly", max |-> 2], [flag |-> "at_least", max |-> 1]}

LivesInit ==
  phase \in {"actors", "types", "network"} /\ LifeInit /\ TypesInit /\ MuxInit

LivesNext ==
  /\ UNCHANGED phase
  /\ \/ phase = "actors" /\ LifeNext /\ UNCHANGED <<typeVars, muxVars>>
     \/ phase = "types" /\ TypesNext /\ UNCHANGED <<lifeVars, muxVars>>
     \/ phase = "network" /\ MuxNext /\ UNCHANGED <<lifeVars, typeVars>>

(* The threads of actors go on, and so does the thread of the multiplexer  *)
(* until it is stopped.                                                    *)
LivesSpec ==
  /\ LivesInit /\ [][LivesNext]_<<phase, lifeVars, typeVars, muxVars>>
  /\ \A t \in Threads : WF_lifeVars(phase = "actors" /\ Proceed(t))
  /\ WF_lifeVars(phase = "actors" /\ await_running_count_equal)
  /\ WF_muxVars(phase = "network" /\ run_loop)
  /\ WF_muxVars(phase = "network" /\ quitting = 1 /\ stop_middleman)
=============================================================================
