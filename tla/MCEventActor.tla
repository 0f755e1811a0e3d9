---------------------------- MODULE MCEventActor ----------------------------
(***************************************************************************)
(* Small instances of event-based actors and of the timer actor, checked   *)
(* side by side.  phase says which one runs.                               *)
(***************************************************************************)
EXTENDS EventActor, TimerActor

CONSTANTS p1, p2, d1, d2, stopper

VARIABLE phase

(* Behaviours, and what is in the mailboxes of the two actors at first.    *)
Plain == [tout |-> FALSE, takes |-> {"a", "b"}]
Picky == [tout |-> FALSE, takes |-> {"b"}]
Timed == [tout |-> TRUE, takes |-> {"a"}]
Both(x, y) == [a \in {p1, p2} |-> IF a = p1 THEN x ELSE y]

SomeBehaviors == {Plain, Timed}
SomeFirsts == {Both(Timed, Plain), Both(Plain, Picky)}
SomeLetters == {Both(<<<<"a", FALSE>>>>, <<>>),
                Both(<<>>, <<<<"a", FALSE>>, <<"b", TRUE>>>>)}
SomePosts == Both({}, {"exit"})

(* Two instances: an actor with a timeout that has letters, and a priority *)
(* aware one that has them.                                                *)
ActorsInit ==
  /\ phase \in {"actors", "timer"}
  /\ EventInit /\ TimerInit
  /\ timers = {} <=> box[p1] = <<>>
  /\ phase = "timer" => timers = {}

ActorsNext ==
  /\ UNCHANGED phase
  /\ \/ phase = "actors" /\ EventNext /\ UNCHANGED timerVars
     \/ phase = "timer" /\ TimerNext /\ UNCHANGED evVars

(* The scheduler runs the actors, and handlers return.  The timer's thread *)
(* goes on, and so do the threads that notify it or wait for its end, and  *)
(* time.                                                                   *)
ActorsSpec ==
  /\ ActorsInit /\ [][ActorsNext]_<<phase, evVars, timerVars>>
  /\ \A a \in Peers : WF_evVars(phase = "actors" /\ ~crashed /\ Loop(a))
  /\ WF_evVars(phase = "actors" /\ ~crashed /\ \E t \in timers : Fire(t))
  /\ WF_timerVars(phase = "timer" /\ ReaderStep)
  /\ WF_timerVars(phase = "timer" /\ stopped)
  /\ \A t \in Posters : WF_timerVars(phase = "timer" /\ notify_one(t))
  /\ \A t \in Delayers : WF_timerVars(phase = "timer" /\ Elapse(t))
=============================================================================
