---------------------------- MODULE MCProtocols -----------------------------
(***************************************************************************)
(* Small instances of the protocols between nodes and actors and of the    *)
(* data structures behind them, checked side by side.  phase says which    *)
(* one runs; the others stay where they start.                             *)
(***************************************************************************)
EXTENDS Basp, Groups, DiningPhilosophers, CurlFuse, DistributedCalculator, PatternMatch,
        Codecs, WorkerDeque, CowMessage

CONSTANTS na, nb, nc, m1, m2, m3, home, r1, r2, j1, j2, n1, n2, n3, n4

VARIABLE phase

(* In Star, na and nc dial nb, and nb tells na about nc.  Other worlds: an *)
(* older release, a typed actor, a node that dials itself, two nodes that  *)
(* dial each other.                                                        *)
World(ds, ts) == [dials |-> ds, talks |-> ts, typed |-> {}, published |-> {nb},
                  exits |-> {na, nb, nc}, version |-> [n \in {na, nb, nc} |-> 1]]
Star == World({<<na, nb>>, <<nc, nb>>}, {<<nc, nb, NoNode>>, <<nb, na, nc>>, <<na, nc, NoNode>>})
OldRelease == [World({<<na, nb>>, <<nc, nb>>}, {}) EXCEPT !.version[na] = 0]
TypedActor == [World({<<na, nb>>, <<nc, nb>>}, {}) EXCEPT !.typed = {nb}]
SelfDial == [World({<<nb, nb>>, <<na, nb>>}, {<<na, nb, NoNode>>}) EXCEPT !.exits = {na, nb}]
Mutual == [World({<<na, nb>>, <<nb, na>>}, {<<na, nb, NoNode>>})
             EXCEPT !.published = {na, nb}, !.exits = {na}]
SomeWorlds == {Star, OldRelease, TypedActor, SelfDial, Mutual}

(* One member of the group on every node.                                  *)
Spread == (m1 :> home) @@ (m2 :> r1) @@ (m3 :> r2)

(* A new message has two elements.                                         *)
TwoElements == <<0, 0>>

ProtocolsInit ==
  /\ phase \in {"basp", "groups", "dine", "curl", "calc", "match", "codec", "deque", "cow"}
  /\ BaspInit /\ (phase # "basp" => world = Star)
  /\ GroupsInit /\ DineInit /\ CurlInit /\ DequeInit /\ CowInit
  /\ CalcInit /\ (phase # "calc" => \A h \in Hosts : up[h])
  /\ IF phase = "match" THEN MatchInit ELSE tup = <<>> /\ pattern = <<Anything>> /\ matched = <<>>
  /\ IF phase = "codec" THEN CodecInit ELSE input = <<"atom", <<>>>> /\ coded = <<>>

ProtocolsNext ==
  /\ UNCHANGED phase
  /\ \/ /\ phase = "basp" /\ BaspNext
        /\ UNCHANGED <<grpVars, dineVars, curlVars, calcVars, matchVars, codecVars, dequeVars, cowVars>>
     \/ /\ phase = "groups" /\ GroupsNext
        /\ UNCHANGED <<baspVars, dineVars, curlVars, calcVars, matchVars, codecVars, dequeVars, cowVars>>
     \/ /\ phase = "dine" /\ DineNext
        /\ UNCHANGED <<baspVars, grpVars, curlVars, calcVars, matchVars, codecVars, dequeVars, cowVars>>
     \/ /\ phase = "curl" /\ CurlNext
        /\ UNCHANGED <<baspVars, grpVars, dineVars, calcVars, matchVars, codecVars, dequeVars, cowVars>>
     \/ /\ phase = "calc" /\ CalcNext
        /\ UNCHANGED <<baspVars, grpVars, dineVars, curlVars, matchVars, codecVars, dequeVars, cowVars>>
     \/ /\ phase = "match" /\ MatchNext
        /\ UNCHANGED <<baspVars, grpVars, dineVars, curlVars, calcVars, codecVars, dequeVars, cowVars>>
     \/ /\ phase = "codec" /\ CodecNext
        /\ UNCHANGED <<baspVars, grpVars, dineVars, curlVars, calcVars, matchVars, dequeVars, cowVars>>
     \/ /\ phase = "deque" /\ DequeNext
        /\ UNCHANGED <<baspVars, grpVars, dineVars, curlVars, calcVars, matchVars, codecVars, cowVars>>
     \/ /\ phase = "cow" /\ CowNext
        /\ UNCHANGED <<baspVars, grpVars, dineVars, curlVars, calcVars, matchVars, codecVars, dequeVars>>

ProtocolsSpec ==
  ProtocolsInit /\ [][ProtocolsNext]_<<phase, baspVars, grpVars, dineVars, curlVars, calcVars,
                                        matchVars, codecVars, dequeVars, cowVars>>
=============================================================================
