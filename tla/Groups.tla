------------------------------- MODULE Groups -------------------------------
(***************************************************************************)
(* A group of the "local" module: its subscribers on the node that owns    *)
(* it, its broker, and the proxies of the group on remote nodes, which     *)
(* join the broker as long as they have subscribers of their own.          *)
(*                                                                         *)
(* A remote node and the broker are connected in both directions by        *)
(* channels in order (Basp).  The mailbox of the broker is any merge of    *)
(* what the channels and the threads of the owner put into it, so the      *)
(* broker takes the next message of any of them.                           *)
(***************************************************************************)
EXTENDS Naturals, SequencesExt, FiniteSetsExt

CONSTANTS Home, Remotes,   \* nodes
          Members,
          NodeOf,           \* NodeOf[m]: where member m runs
          Speakers, MaxSends, \* members that send to the group, how often in all
          MaxChanges,       \* calls of join and leave
          MaxDrops          \* connections that get lost

GroupNodes == {Home} \cup Remotes

VARIABLES subscribers,   \* m_subscribers of the group or of its proxy on a node
          acquaintances, \* m_acquaintances of the broker: nodes of the proxies
          doing,         \* doing[m]: what the call m is in still has to send
          toBroker,      \* toBroker[n]: messages from node n to the broker
          fromBroker,    \* fromBroker[n]: messages to the proxy broker of n
          lost,          \* remote nodes whose connection is gone
          got,           \* history: got[m], what m received from the group
          due,           \* history: pairs of a message and a member to get it
          count,         \* count[m]: what m has sent
          changes

grpVars == <<subscribers, acquaintances, doing, toBroker, fromBroker, lost, got,
             due, count, changes>>

Note(op, what) == [op |-> op, what |-> what]
NoMessage == <<>>

GroupsInit ==
  /\ subscribers = [n \in GroupNodes |-> {}] /\ acquaintances = {}
  /\ doing = [m \in Members |-> <<>>]
  /\ toBroker = [n \in GroupNodes |-> <<>>] /\ fromBroker = [n \in Remotes |-> <<>>]
  /\ lost = {} /\ got = [m \in Members |-> <<>>] /\ due = {}
  /\ count = [m \in Members |-> 0] /\ changes = 0

-----------------------------------------------------------------------------
(* send_all_subscribers holds a shared lock for the whole loop.            *)
SentToAll(n, k) == [m \in Members |-> IF m \in subscribers[n] THEN Append(got[m], k)
                                                              ELSE got[m]]

Deliver(n, msgs) == IF n \in lost THEN UNCHANGED toBroker
                    ELSE toBroker' = [toBroker EXCEPT ![n] = @ \o msgs]

(* join: the set of subscribers changes under the lock; what is to be sent *)
(* to the broker is decided by its new size and sent without the lock.     *)
subscribe(m) ==
  LET n == NodeOf[m]
  IN /\ doing[m] = <<>> /\ m \notin subscribers[n] /\ changes < MaxChanges
     /\ changes' = changes + 1
     /\ subscribers' = [subscribers EXCEPT ![n] = @ \cup {m}]
     /\ doing' = [doing EXCEPT ![m] = IF n # Home /\ subscribers[n] = {}
                                      THEN <<Note("JOIN", NoMessage)>> ELSE <<>>]
     /\ UNCHANGED <<acquaintances, toBroker, fromBroker, lost, got, due, count>>

(* leave, or the exit of a member that is subscribed.                      *)
unsubscribe(m) ==
  LET n == NodeOf[m]
  IN /\ doing[m] = <<>> /\ m \in subscribers[n] /\ changes < MaxChanges
     /\ changes' = changes + 1
     /\ subscribers' = [subscribers EXCEPT ![n] = @ \ {m}]
     /\ doing' = [doing EXCEPT ![m] = IF n # Home /\ subscribers[n] = {m}
                                      THEN <<Note("LEAVE", NoMessage)>> ELSE <<>>]
     /\ due' = {d \in due : d[2] # m}
     /\ UNCHANGED <<acquaintances, toBroker, fromBroker, lost, got, count>>

(* Those who must get what is sent now: the subscribers of the owner and   *)
(* of the proxies that have joined and are not about to leave.             *)
Leaving(n) == \E note \in Range(toBroker[n]) \cup UNION {Range(doing[m]) :
                             m \in {x \in Members : NodeOf[x] = n}} : note.op = "LEAVE"
Expected == UNION {subscribers[n] :
                     n \in {Home} \cup {x \in acquaintances \ lost : ~Leaving(x)}}

FirstCopies(n, k) == IF n = Home THEN SentToAll(Home, k) ELSE got

(* enqueue of the group: to the local subscribers first, then to the       *)
(* broker.  enqueue of a proxy: to the broker, as something to forward.    *)
enqueue(m) ==
  LET n == NodeOf[m]
      k == <<m, count[m] + 1>>
  IN /\ doing[m] = <<>> /\ m \in Speakers /\ MapThenSumSet(LAMBDA x : count[x], Members) < MaxSends
     /\ count' = [count EXCEPT ![m] = @ + 1]
     /\ due' = IF n \in lost THEN due ELSE due \cup ({k} \X Expected)
     /\ got' = FirstCopies(n, k)
     /\ IF n = Home
        THEN doing' = [doing EXCEPT ![m] = <<Note("others", k)>>] /\ UNCHANGED toBroker
        ELSE Deliver(n, <<Note("_Forward", k)>>) /\ UNCHANGED doing
     /\ UNCHANGED <<subscribers, acquaintances, fromBroker, lost, changes>>

(* The call of m goes on: anon_send to the broker, or m_broker->enqueue.   *)
FinishCall(m) ==
  /\ doing[m] # <<>> /\ doing' = [doing EXCEPT ![m] = <<>>]
  /\ Deliver(NodeOf[m], doing[m])
  /\ UNCHANGED <<subscribers, acquaintances, fromBroker, lost, got, due, count, changes>>

-----------------------------------------------------------------------------
(* A mutant of send_to_acquaintances: not to where the message came from.  *)
SendToOthers(k) ==
  fromBroker' = [n \in Remotes |-> IF n \in acquaintances \ ({NodeOf[k[1]]} \cup lost)
                                   THEN Append(fromBroker[n], k) ELSE fromBroker[n]]

send_to_acquaintances(k) ==
  fromBroker' = [n \in Remotes |-> IF n \in acquaintances \ lost
                                   THEN Append(fromBroker[n], k) ELSE fromBroker[n]]

down_msg(n) == acquaintances' = acquaintances \ {n}

(* monitor() of an actor that is gone is answered at once.                 *)
Answered(n) == IF n \in lost \ acquaintances THEN <<Note("down_msg", NoMessage)>> ELSE <<>>

(* The behavior of local_broker.                                           *)
local_broker(n) ==
  /\ toBroker[n] # <<>>
  /\ LET note == Head(toBroker[n])
     IN /\ toBroker' = [toBroker EXCEPT ![n] =
             Tail(@) \o IF note.op = "JOIN" THEN Answered(n) ELSE <<>>]
        /\ \/ /\ note.op = "JOIN" /\ acquaintances' = acquaintances \cup {n}
              /\ UNCHANGED <<fromBroker, got>>
           \/ /\ note.op = "LEAVE" /\ acquaintances' = acquaintances \ {n}
              /\ UNCHANGED <<fromBroker, got>>
           \/ /\ note.op = "_Forward" /\ got' = SentToAll(Home, note.what)
              /\ send_to_acquaintances(note.what) /\ UNCHANGED acquaintances
           \/ /\ note.op = "down_msg" /\ down_msg(n)
              /\ UNCHANGED <<fromBroker, got>>
           \/ /\ note.op = "others" /\ send_to_acquaintances(note.what)
              /\ UNCHANGED <<got, acquaintances>>
  /\ UNCHANGED <<subscribers, doing, lost, due, count, changes>>

proxy_broker(n) ==
  /\ fromBroker[n] # <<>> /\ fromBroker' = [fromBroker EXCEPT ![n] = Tail(@)]
  /\ got' = SentToAll(n, Head(fromBroker[n]))
  /\ UNCHANGED <<subscribers, acquaintances, doing, toBroker, lost, due, count, changes>>

(* The connection of n is lost: what has not arrived yet, in either        *)
(* direction, never does.  A broker that monitors the proxy broker of n    *)
(* gets a down_msg.                                                        *)
Drop(n) ==
  /\ n \notin lost /\ Cardinality(lost) < MaxDrops /\ lost' = lost \cup {n}
  /\ \E i \in 0..Len(toBroker[n]), j \in 0..Len(fromBroker[n]) :
       /\ toBroker' = [toBroker EXCEPT ![n] = SubSeq(@, 1, i) \o
            IF n \in acquaintances THEN <<Note("down_msg", NoMessage)>> ELSE <<>>]
       /\ fromBroker' = [fromBroker EXCEPT ![n] = SubSeq(@, 1, j)]
  /\ due' = {d \in due : n \notin {NodeOf[d[2]], NodeOf[d[1][1]]}}
  /\ UNCHANGED <<subscribers, acquaintances, doing, got, count, changes>>

-----------------------------------------------------------------------------
GroupsNext ==
  \/ \E m \in Members : subscribe(m) \/ unsubscribe(m) \/ enqueue(m) \/ FinishCall(m)
  \/ \E n \in GroupNodes : local_broker(n)
  \/ \E n \in Remotes : proxy_broker(n) \/ Drop(n)

GroupsSpec == GroupsInit /\ [][GroupsNext]_grpVars

GroupsSettled == /\ \A m \in Members : doing[m] = <<>>
                 /\ \A n \in GroupNodes : toBroker[n] = <<>>
                 /\ \A n \in Remotes : fromBroker[n] = <<>>

(* No member gets a message of the group twice, and it gets the messages   *)
(* of one sender in the order in which they were sent, wherever both are   *)
(* (group_manager.cpp:64, 139, 231).                                       *)
InOrder ==
  \A m \in Members : \A i, j \in DOMAIN got[m] :
    i < j /\ got[m][i][1] = got[m][j][1] => got[m][i][2] < got[m][j][2]

(* A member that was subscribed when a message was sent, on a node that    *)
(* had joined, gets it unless it unsubscribes or its node or the sender's  *)
(* is disconnected (group_manager.cpp:172).                                *)
AllHear == GroupsSettled => \A d \in due : d[1] \in Range(got[d[2]])

(* Once every call has ended and every message is handled, the broker      *)
(* knows exactly the connected nodes with subscribers                      *)
(* (group_manager.cpp:125, 147, 207).                                      *)
JoinedIfSubscribed ==
  GroupsSettled => acquaintances = {n \in Remotes \ lost : subscribers[n] # {}}

(* With one member per remote node everyone who is subscribed hears        *)
(* everything once and in order, and the broker ends up knowing the nodes  *)
(* to send to, lost connections included (group_manager.cpp:64, 125, 147). *)
GroupDelivers == InOrder /\ AllHear /\ JoinedIfSubscribed
=============================================================================
