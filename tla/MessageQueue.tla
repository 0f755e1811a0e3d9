---------------------------- MODULE MessageQueue ----------------------------
(***************************************************************************)
(* What a mailbox promises to the actors: a queue into which anyone puts   *)
(* messages and from which one reader takes them in that order, until the  *)
(* reader exits.  From then on it takes nothing, deletes what is there and *)
(* closes the queue, after which nothing can be put in.                    *)
(***************************************************************************)
EXTENDS Naturals, Sequences

CONSTANT Messages
VARIABLES queue, taken, phase

vars == <<queue, taken, phase>>

Init == queue = <<>> /\ taken = <<>> /\ phase = "open"

(* No message is put in twice.                                             *)
Put(m) ==
  /\ phase # "closed"
  /\ \A i \in DOMAIN (taken \o queue) : (taken \o queue)[i] # m
  /\ queue' = Append(queue, m)
  /\ UNCHANGED <<taken, phase>>

Take ==
  /\ phase = "open" /\ queue # <<>>
  /\ taken' = Append(taken, queue[1])
  /\ queue' = Tail(queue)
  /\ UNCHANGED phase

(* The reader takes its last message and begins to delete.                 *)
TakeLast ==
  /\ phase = "open" /\ queue # <<>>
  /\ taken' = Append(taken, queue[1])
  /\ \E k \in 2..(Len(queue) + 1) : queue' = SubSeq(queue, k, Len(queue))
  /\ phase' = "closing"

(* It exits before the first message.                                      *)
Leave == phase = "open" /\ taken = <<>> /\ phase' = "closing" /\ UNCHANGED <<queue, taken>>

Close ==
  /\ phase = "closing"
  /\ queue' = <<>>
  /\ phase' = "closed"
  /\ UNCHANGED taken

Next == (\E m \in Messages : Put(m)) \/ Take \/ TakeLast \/ Leave \/ Close

Spec == Init /\ [][Next]_vars
=============================================================================
