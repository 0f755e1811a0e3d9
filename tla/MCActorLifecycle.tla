-------------------------- MODULE MCActorLifecycle --------------------------
(* Small instances of ActorLifecycle.                                      *)
EXTENDS ActorLifecycle

CONSTANTS a1, a2, p1, mm

(* Links are requested in one direction only, or in both.                  *)
OneWay == {<<a1, a2>>, <<p1, a1>>}
BothWays == {<<a1, a2>>, <<a2, a1>>}
=============================================================================
