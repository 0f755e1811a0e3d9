----------------------- MODULE DistributedCalculator ------------------------
(***************************************************************************)
(* The client of the example program distributed_calculator: it keeps the  *)
(* user's requests while it has no server, reconnects when the server goes *)
(* down and changes the server on rebind.  While a request is unanswered   *)
(* its response handler is on top and every other message waits.           *)
(***************************************************************************)
EXTENDS Naturals, Sequences

CONSTANTS Hosts, FirstHost,
          MaxOps,      \* bound: requests of the user
          MaxEvents    \* bound: crashes, restarts and rebinds

NoServer == 0

ASSUME HostsAssumption == FirstHost \in Hosts /\ NoServer \notin Hosts

VARIABLES up,         \* up[h]: a calculator is published at h
          monitors,   \* monitors[h]: how often the client monitors the actor at h
          host,       \* host of the current behavior
          server,     \* its server, NoServer for invalid_actor
          reachable,  \* server has not gone down since it was connected
          failHost,   \* host that on_sync_failure captured, NoServer if not set
          awaiting,   \* the request whose response is outstanding, or 0
          replies,    \* responses on their way: <<"result", n>> or <<"failure", n>>
          box,        \* the client's mailbox
          timers,     \* delayed reconnect messages
          typed,      \* requests of the user so far
          printed,    \* results in the order they were printed
          events      \* rebinds, failures and restarts so far

calcVars == <<up, monitors, host, server, reachable, failHost, awaiting, replies, box, timers,
              typed, printed, events>>

CalcInit ==
  /\ up \in [Hosts -> BOOLEAN] /\ monitors = [h \in Hosts |-> 0]
  /\ host = FirstHost /\ server = NoServer /\ reachable = FALSE /\ failHost = NoServer
  /\ awaiting = 0 /\ replies = <<>> /\ box = <<<<"start">>>> /\ timers = 0
  /\ typed = 0 /\ printed = <<>> /\ events = 0

(* A mutant of ConnectLater: no further attempt.                                  *)
ConnectNever == server' = NoServer /\ reachable' = FALSE /\ UNCHANGED <<monitors, timers>>

Connected(h) == /\ server' = h /\ reachable' = TRUE /\ UNCHANGED timers
                /\ monitors' = [monitors EXCEPT ![h] = @ + 1]
ConnectLater == server' = NoServer /\ reachable' = FALSE /\ timers' = timers + 1 /\ UNCHANGED monitors

(* client_bhvr with invalid_actor: the failure handler is set once.        *)
client_bhvr(h) ==
  /\ host' = h /\ failHost' = IF failHost = NoServer THEN h ELSE failHost
  /\ IF up[h] THEN Connected(h) ELSE ConnectLater

-----------------------------------------------------------------------------
(* The user and the servers.                                               *)
Type == /\ typed < MaxOps /\ typed' = typed + 1 /\ box' = Append(box, <<"op", typed'>>)
        /\ UNCHANGED <<up, monitors, host, server, reachable, failHost, awaiting, replies, timers,
                       printed, events>>
Rebind(h) == /\ events < MaxEvents /\ events' = events + 1 /\ box' = Append(box, <<"rebind", h>>)
             /\ UNCHANGED <<up, monitors, host, server, reachable, failHost, awaiting, replies,
                            timers, typed, printed>>
Restart(h) == /\ ~up[h] /\ events < MaxEvents /\ events' = events + 1 /\ up' = [up EXCEPT ![h] = TRUE]
              /\ UNCHANGED <<monitors, host, server, reachable, failHost, awaiting, replies, box,
                             timers, typed, printed>>

(* The proxy of a calculator that goes down sends a down_msg per monitor   *)
(* and answers what it has not answered with sync_exited_msg.              *)
GoDown(h) ==
  /\ up[h] /\ events < MaxEvents /\ events' = events + 1 /\ up' = [up EXCEPT ![h] = FALSE]
  /\ box' = box \o [i \in 1 .. monitors[h] |-> <<"down">>]
  /\ monitors' = [monitors EXCEPT ![h] = 0]
  /\ reachable' = (reachable /\ server # h)
  /\ replies' = IF awaiting # 0 /\ server = h /\ replies = <<>>
                THEN <<<<"failure", awaiting>>>> ELSE replies
  /\ UNCHANGED <<host, server, failHost, awaiting, timers, typed, printed>>

calculator == /\ awaiting # 0 /\ reachable /\ replies = <<>> /\ replies' = <<<<"result", awaiting>>>>
             /\ UNCHANGED <<up, monitors, host, server, reachable, failHost, awaiting, box, timers,
                            typed, printed, events>>

Timer == /\ timers > 0 /\ timers' = timers - 1 /\ box' = Append(box, <<"reconnect">>)
         /\ UNCHANGED <<up, monitors, host, server, reachable, failHost, awaiting, replies, typed,
                        printed, events>>

-----------------------------------------------------------------------------
Matches(m) == m[1] = "op" => server # NoServer

(* The client takes the first message it has a handler for.                *)
Taken(i) == Matches(box[i]) /\ \A k \in DOMAIN box : Matches(box[k]) => i <= k

Without(mailbox, i) ==
  SubSeq(mailbox, 1, i - 1) \o SubSeq(mailbox, i + 1, Len(mailbox))

CalcHandles ==
  /\ awaiting = 0
  /\ \E i \in DOMAIN box :
          /\ Taken(i) /\ box' = Without(box, i)
          /\ LET m == box[i]
             IN \/ /\ m[1] = "op" /\ awaiting' = m[2]
                   /\ replies' = IF reachable THEN <<>> ELSE <<<<"failure", m[2]>>>>
                   /\ UNCHANGED <<monitors, host, server, reachable, failHost, timers>>
                \/ /\ m[1] = "rebind" /\ client_bhvr(m[2])
                   /\ UNCHANGED <<awaiting, replies>>
                \/ /\ m[1] \in {"start", "down", "reconnect"} /\ client_bhvr(host)
                   /\ UNCHANGED <<awaiting, replies>>
  /\ UNCHANGED <<up, typed, printed, events>>

Response ==
  /\ replies # <<>> /\ replies' = <<>> /\ awaiting' = 0
  /\ \/ /\ Head(replies)[1] = "result" /\ printed' = Append(printed, Head(replies)[2])
        /\ UNCHANGED <<monitors, host, server, reachable, failHost, timers>>
     \/ Head(replies)[1] = "failure" /\ client_bhvr(failHost) /\ UNCHANGED printed
  /\ UNCHANGED <<up, box, typed, events>>

CalcNext == \/ Type \/ calculator \/ Timer \/ CalcHandles \/ Response
            \/ \E h \in Hosts : Rebind(h) \/ Restart(h) \/ GoDown(h)
CalcSpec == CalcInit /\ [][CalcNext]_calcVars

-----------------------------------------------------------------------------
Pending(kind) == \E i \in DOMAIN box : box[i][1] = kind

(* A client without a server tries again: a reconnect is due               *)
(* (distributed_calculator.cpp:76).                                        *)
ReconnectDue == server = NoServer => timers > 0 \/ Pending("reconnect") \/ Pending("start")

(* A client whose server went down will notice: a down_msg, the failed     *)
(* request or a rebind is on its way (distributed_calculator.cpp:69, 98).  *)
DownNoticed == server # NoServer /\ ~reachable =>
  Pending("down") \/ Pending("rebind") \/ Pending("reconnect")
  \/ (replies # <<>> /\ Head(replies)[1] = "failure")

(* Results are printed in the order the user typed the requests            *)
(* (distributed_calculator.cpp:89).                                        *)
InOrderTyped == \A i, k \in DOMAIN printed : i < k => printed[i] < printed[k]

(* The client neither gives up nor trusts a dead server, and keeps the     *)
(* order of the requests it serves (distributed_calculator.cpp:69, 76, 89).*)
ServerTracked == ReconnectDue /\ DownNoticed /\ InOrderTyped
=============================================================================
