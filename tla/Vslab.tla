------------------------------- MODULE Vslab --------------------------------
(***************************************************************************)
(* The processes of vslab/src/main.cpp: one server that publishes the      *)
(* group cmgroup, managers with their workers, and clients, each started   *)
(* and connected at any time.  A manager and its workers share a local     *)
(* group (wgroup); every manager and client joins cmgroup.                 *)
(*                                                                         *)
(* cmgroup is the local_group of the server process with its local_broker, *)
(* reached by a local_group_proxy in every other process.  up[x] holds     *)
(* what the proxy in the process of x has sent to the broker (TCP keeps    *)
(* the order) and the broker has not handled.  The broker forwards to all  *)
(* nodes that have joined, in one step: nodes read their copies in their   *)
(* own time, and two copies of one message are never compared.             *)
(*                                                                         *)
(* A message that the receiver has no handler for stays in its cache for   *)
(* ever and is not represented.  Random choices of a worker are abstracted *)
(* to the set Rho[n][cycles] of what a continue handler may do; RhoWorker  *)
(* models them one by one.  CPU times and the client's sum of cycles are   *)
(* only printed and left out.                                              *)
(***************************************************************************)
EXTENDS Factoring, Sequences

CONSTANTS Managers, Workers, Clients,
          Host,          \* Host[w]: the manager that spawns worker w
          Input,         \* Input[c]: the number typed in at client c
          MaxCycles,     \* bound on the cycles of a continuation
          Rho,           \* Rho[n][cycles]: outcomes of a continue handler
          StateModulus,  \* state_id is an int512_t and wraps
          MailBound,     \* messages in a mailbox
          LinkBound,     \* messages in up[x]
          Injected       \* atoms with a handler that no actor sends

VARIABLES server,    \* the server process: "off", "up" or "down"
          status,    \* actor: "init", "running", "quit", "dead" or "hung"
          mail,      \* mailboxes, oldest message first
          num,       \* argument n of the client's behaviour
          state_id,  \* argument of the worker's behaviour
          joined,    \* m_acquaintances of the broker of cmgroup
          up,        \* what the nodes have sent to that broker
          pending,   \* atoms of Injected not injected yet
          announced, \* history: tmp_n when PRIME FACTORISATION was printed
          computing  \* history: worker took a number and sent no result yet

vars == <<server, status, mail, num, state_id, joined, up, pending, announced,
          computing>>

Nodes == Managers \cup Clients
Actors == Nodes \cup Workers
Cycles == 0..MaxCycles
Numbers == {k \in UNION {0..Input[c] : c \in Clients} :
              \E c \in Clients : Divides(k, Input[c])}

ASSUME SortsAssumption ==
  /\ Managers \cap Clients = {} /\ Nodes \cap Workers = {}
  /\ Host \in [Workers -> Managers]
ASSUME InputAssumption == Input \in [Clients -> Nat]
ASSUME BoundsAssumption ==
  /\ MailBound \in Nat /\ LinkBound \in Nat /\ MaxCycles \in Nat
  /\ StateModulus \in Nat /\ MailBound + 1 < StateModulus

(* The atoms of messages between nodes that carry no number.               *)
Plain == {"JOIN", "LEAVE", "ping", "pong", "sWorkers", "kWorkers", "nofactor",
          "quit", "result"}
ASSUME InjectedAssumption == Injected \subseteq Plain

(* What RhoWorker establishes about a continue handler: a factor is a      *)
(* divisor other than 1.                                                   *)
ASSUME RhoAssumption ==
  \A n \in Numbers \ {0}, cycles \in Cycles : \A o \in Rho[n][cycles] :
    \/ o.op = "factor" /\ o.v \in 2..n /\ Divides(o.v, n)
    \/ o.op = "nofactor"
    \/ o.op = "continue" /\ o.v \in Cycles

Msg(op, v) == [op |-> op, v |-> v]
Atom(op) == Msg(op, 0)
Continue(n, cycles, state) ==
  [op |-> "continue", v |-> n, cycles |-> cycles, state |-> state]

(* The atoms in the message handlers of the three behaviours.              *)
Handles(x) ==
  CASE x \in Managers -> {"ping", "sWorkers", "kWorkers", "factor", "nofactor",
                          "calculate", "quit"}
    [] x \in Clients  -> {"result", "pong", "factor", "nofactor"}
    [] x \in Workers  -> {"calculate", "continue"}

Receives(x, m) == status[x] = "running" /\ m.op \in Handles(x)

(* send_all_subscribers: box with m in the mailbox of every member of xs.  *)
Deliver(box, xs, m) ==
  [x \in Actors |-> IF x \in xs /\ Receives(x, m) THEN Append(box[x], m) ELSE box[x]]
Room(box, xs, m) == \A x \in xs : Receives(x, m) => Len(box[x]) < MailBound

Wgroup(m) == {m} \cup {w \in Workers : Host[w] = m}

(* self->send(server, m): through the proxy to the broker, lost when the   *)
(* server process is gone.                                                 *)
SendServer(x, m) ==
  IF server = "up"
  THEN Len(up[x]) < LinkBound /\ up' = [up EXCEPT ![x] = Append(@, m)]
  ELSE up' = up

Has(x, op) == status[x] = "running" /\ mail[x] # <<>> /\ mail[x][1].op = op
Rest(x) == [mail EXCEPT ![x] = Tail(@)]
Arg(x) == mail[x][1].v

Init ==
  /\ server = "off"
  /\ status = [x \in Actors |-> "init"]
  /\ mail = [x \in Actors |-> <<>>]
  /\ num = Input
  /\ state_id = [w \in Workers |-> 0]
  /\ joined = {}
  /\ up = [x \in Nodes |-> <<>>]
  /\ pending = Injected
  /\ announced = [c \in Clients |-> 0]
  /\ computing = [w \in Workers |-> FALSE]

-----------------------------------------------------------------------------
(* run_server: publish_local_groups, until "quit" is typed in or the       *)
(* process dies.  No actor monitors it: the others only lose their link.   *)
ServerStart ==
  /\ server = "off"
  /\ server' = "up"
  /\ UNCHANGED <<status, mail, num, state_id, joined, up, pending, announced, computing>>

ServerQuit ==
  /\ server = "up"
  /\ server' = "down"
  /\ joined' = {}
  /\ up' = [x \in Nodes |-> <<>>]
  /\ UNCHANGED <<status, mail, num, state_id, pending, announced, computing>>

(* remote_group throws when there is no server, and the actor quits.       *)
ConnectFails(x) ==
  /\ status[x] = "init" /\ server # "up"
  /\ status' = [status EXCEPT ![x] = "quit"]
  /\ UNCHANGED <<server, mail, num, state_id, joined, up, pending, announced, computing>>

-----------------------------------------------------------------------------
(* manager()                                                               *)

(* The first call: join cmgroup (the proxy sends JOIN), then send sWorkers *)
(* to itself.                                                              *)
ManagerConnect(m) ==
  /\ status[m] = "init" /\ server = "up"
  /\ status' = [status EXCEPT ![m] = "running"]
  /\ SendServer(m, Atom("JOIN"))
  /\ mail' = [mail EXCEPT ![m] = Append(@, Atom("sWorkers"))]
  /\ UNCHANGED <<server, num, state_id, joined, pending, announced, computing>>

(* on(atom("sWorkers")): spawn_in_group in a loop.                         *)
ManagerSpawn(m) ==
  /\ Has(m, "sWorkers")
  /\ mail' = Rest(m)
  /\ status' = [x \in Actors |-> IF x \in Workers /\ Host[x] = m
                                THEN "running" ELSE status[x]]
  /\ UNCHANGED <<server, num, state_id, joined, up, pending, announced, computing>>

(* on(atom("kWorkers")): suicide goes to the worker group, one copy per    *)
(* worker; no behaviour handles it, so one copy stands for all.            *)
ManagerKill(m) ==
  /\ Has(m, "kWorkers")
  /\ mail' = Deliver(Rest(m), Wgroup(m), Atom("suicide"))
  /\ UNCHANGED <<server, status, num, state_id, joined, up, pending, announced, computing>>

ManagerPing(m) ==
  /\ Has(m, "ping")
  /\ SendServer(m, Atom("pong"))
  /\ mail' = Rest(m)
  /\ UNCHANGED <<server, status, num, state_id, joined, pending, announced, computing>>

(* on(atom("factor")) and on(atom("nofactor")): forward to cmgroup.        *)
ManagerReport(m) ==
  /\ Has(m, "factor") \/ Has(m, "nofactor")
  /\ SendServer(m, mail[m][1])
  /\ mail' = Rest(m)
  /\ UNCHANGED <<server, status, num, state_id, joined, pending, announced, computing>>

(* on(atom("calculate")): forward to the worker group, of which the        *)
(* manager is a member itself.                                             *)
ManagerCalculate(m) ==
  /\ Has(m, "calculate")
  /\ Room(Rest(m), Wgroup(m), mail[m][1])
  /\ mail' = Deliver(Rest(m), Wgroup(m), mail[m][1])
  /\ UNCHANGED <<server, status, num, state_id, joined, up, pending, announced, computing>>

(* self->quit(): the subscriptions end, the proxy sends LEAVE.             *)
Quit(x) ==
  /\ SendServer(x, Atom("LEAVE"))
  /\ status' = [status EXCEPT ![x] = "quit"]
  /\ mail' = [mail EXCEPT ![x] = <<>>]
  /\ UNCHANGED <<server, num, state_id, joined, pending, announced, computing>>

ManagerQuit(m) == Has(m, "quit") /\ Quit(m)

-----------------------------------------------------------------------------
(* client()                                                                *)

(* Mutant of ClientConnect: the number is sent before the group is joined. *)
ClientConnectLate(c) ==
  /\ status[c] = "init" /\ server = "up"
  /\ status' = [status EXCEPT ![c] = "running"]
  /\ up' = [up EXCEPT ![c] = @ \o <<Msg("calculate", num[c]), Atom("JOIN")>>]
  /\ UNCHANGED <<server, mail, num, state_id, joined, pending, announced, computing>>

(* The first call: join cmgroup, then send the number to it.               *)
ClientConnect(c) ==
  /\ status[c] = "init" /\ server = "up"
  /\ status' = [status EXCEPT ![c] = "running"]
  /\ up' = [up EXCEPT ![c] = @ \o <<Atom("JOIN"), Msg("calculate", num[c])>>]
  /\ UNCHANGED <<server, mail, num, state_id, joined, pending, announced, computing>>

ClientResult(c) == Has(c, "result") /\ Quit(c)

ClientPong(c) ==
  /\ Has(c, "pong")
  /\ SendServer(c, Atom("ping"))
  /\ mail' = Rest(c)
  /\ UNCHANGED <<server, status, num, state_id, joined, pending, announced, computing>>

(* A mutant of Remaining: divides once, whether or not p divides n.        *)
RemainingUnchecked(n, p) == n \div p

(* tmp_n after the division loop.                                          *)
Remaining(n, p) == StripFactor(n, p)

(* on(atom("factor")): divide p out of n; announce the factorisation when  *)
(* one p is left, else go on with the remaining number.                    *)
ClientFactor(c) ==
  /\ Has(c, "factor") /\ num[c] > 0
  /\ LET tmp_n == Remaining(num[c], Arg(c))
     IN  IF tmp_n \div Arg(c) = 1
         THEN announced' = [announced EXCEPT ![c] = tmp_n] /\ UNCHANGED <<num, up>>
         ELSE /\ SendServer(c, Msg("calculate", tmp_n))
              /\ num' = [num EXCEPT ![c] = tmp_n]
              /\ UNCHANGED announced
  /\ mail' = Rest(c)
  /\ UNCHANGED <<server, status, state_id, joined, pending, computing>>

(* The same handler for n = 0: 0 % p is 0 for ever.                        *)
ClientFactorZero(c) ==
  /\ Has(c, "factor") /\ num[c] = 0
  /\ status' = [status EXCEPT ![c] = "hung"]
  /\ UNCHANGED <<server, mail, num, state_id, joined, up, pending, announced, computing>>

(* on(atom("nofactor")): becomes itself with the CPU time added.           *)
ClientNofactor(c) ==
  /\ Has(c, "nofactor")
  /\ mail' = Rest(c)
  /\ UNCHANGED <<server, status, num, state_id, joined, up, pending, announced, computing>>

-----------------------------------------------------------------------------
(* worker(): each handler in one step, RhoWorker has the loop.             *)

(* state_id + 1                                                            *)
NextState(s) == (s + 1) % StateModulus

WorkerCalculate(w) ==
  /\ Has(w, "calculate") /\ Arg(w) > 0
  /\ LET state == NextState(state_id[w])
     IN  /\ mail' = [mail EXCEPT ![w] = Append(Tail(@), Continue(Arg(w), 0, state))]
         /\ state_id' = [state_id EXCEPT ![w] = state]
  /\ computing' = [computing EXCEPT ![w] = TRUE]
  /\ UNCHANGED <<server, status, num, joined, up, pending, announced>>

(* random_gen() % 0 throws: the worker exits.                              *)
WorkerCalculateZero(w) ==
  /\ Has(w, "calculate") /\ Arg(w) = 0
  /\ status' = [status EXCEPT ![w] = "dead"]
  /\ mail' = [mail EXCEPT ![w] = <<>>]
  /\ UNCHANGED <<server, num, state_id, joined, up, pending, announced, computing>>

WorkerObsolete(w) ==
  /\ Has(w, "continue") /\ mail[w][1].state # state_id[w]
  /\ mail' = Rest(w)
  /\ UNCHANGED <<server, status, num, state_id, joined, up, pending, announced, computing>>

Live(w) == Has(w, "continue") /\ mail[w][1].state = state_id[w]
Outcomes(w) == Rho[Arg(w)][mail[w][1].cycles]

WorkerFactor(w) ==
  /\ Live(w)
  /\ \E o \in Outcomes(w) :
       /\ o.op = "factor"
       /\ Room(Rest(w), Wgroup(Host[w]), Msg("factor", o.v))
       /\ mail' = Deliver(Rest(w), Wgroup(Host[w]), Msg("factor", o.v))
  /\ computing' = [computing EXCEPT ![w] = FALSE]
  /\ UNCHANGED <<server, status, num, state_id, joined, up, pending, announced>>

(* nofactor goes to the group, and the number to the worker itself.        *)
WorkerNofactor(w) ==
  /\ Live(w)
  /\ \E o \in Outcomes(w) : o.op = "nofactor"
  /\ LET box == [mail EXCEPT ![w] = Append(Tail(@), Msg("calculate", Arg(w)))]
     IN  /\ Room(box, Wgroup(Host[w]), Atom("nofactor"))
         /\ mail' = Deliver(box, Wgroup(Host[w]), Atom("nofactor"))
  /\ computing' = [computing EXCEPT ![w] = FALSE]
  /\ UNCHANGED <<server, status, num, state_id, joined, up, pending, announced>>

WorkerAgain(w) ==
  /\ Live(w)
  /\ \E o \in Outcomes(w) :
       /\ o.op = "continue"
       /\ mail' = [mail EXCEPT ![w] = Append(Tail(@), Continue(Arg(w), o.v, state_id[w]))]
  /\ UNCHANGED <<server, status, num, state_id, joined, up, pending, announced, computing>>

-----------------------------------------------------------------------------
(* The local_broker of cmgroup handles what the proxy of x sent.           *)
Take(x) == up' = [up EXCEPT ![x] = Tail(@)]

BrokerJoin(x) ==
  /\ up[x] # <<>> /\ up[x][1].op = "JOIN"
  /\ Take(x)
  /\ joined' = joined \cup {x}
  /\ UNCHANGED <<server, status, mail, num, state_id, pending, announced, computing>>

BrokerLeave(x) ==
  /\ up[x] # <<>> /\ up[x][1].op = "LEAVE"
  /\ Take(x)
  /\ joined' = joined \ {x}
  /\ UNCHANGED <<server, status, mail, num, state_id, pending, announced, computing>>

(* Every proxy that has joined passes its copy on to its subscriber.       *)
send_to_acquaintances(m) == Deliver(mail, joined, m)

BrokerForward(x) ==
  /\ up[x] # <<>> /\ up[x][1].op \notin {"JOIN", "LEAVE"}
  /\ Room(mail, joined, up[x][1])
  /\ Take(x)
  /\ mail' = send_to_acquaintances(up[x][1])
  /\ UNCHANGED <<server, status, num, state_id, joined, pending, announced, computing>>

(* An atom that no code sends is sent to a node from outside, once.        *)
Inject(x, op) ==
  /\ op \in pending /\ Receives(x, Atom(op))
  /\ Len(mail[x]) < MailBound
  /\ mail' = [mail EXCEPT ![x] = Append(@, Atom(op))]
  /\ pending' = pending \ {op}
  /\ UNCHANGED <<server, status, num, state_id, joined, up, announced, computing>>

ManagerStep(m) == \/ ManagerSpawn(m) \/ ManagerKill(m) \/ ManagerPing(m)
                  \/ ManagerReport(m) \/ ManagerCalculate(m) \/ ManagerQuit(m)
ClientStep(c) == \/ ClientResult(c) \/ ClientPong(c) \/ ClientFactor(c)
                 \/ ClientFactorZero(c) \/ ClientNofactor(c)
WorkerStep(w) == \/ WorkerCalculate(w) \/ WorkerCalculateZero(w)
                 \/ WorkerObsolete(w) \/ WorkerFactor(w) \/ WorkerNofactor(w)
                 \/ WorkerAgain(w)
Broker(x) == BrokerJoin(x) \/ BrokerLeave(x) \/ BrokerForward(x)

Next ==
  \/ ServerStart \/ ServerQuit
  \/ \E m \in Managers : ManagerConnect(m) \/ ManagerStep(m)
  \/ \E c \in Clients : ClientConnect(c) \/ ClientStep(c)
  \/ \E w \in Workers : WorkerStep(w)
  \/ \E x \in Nodes : ConnectFails(x) \/ Broker(x)
  \/ \E x \in Nodes, op \in Injected : Inject(x, op)

Spec == Init /\ [][Next]_vars

(* An actor with a message is resumed (cooperative scheduling, one         *)
(* mailbox each), and TCP delivers while the server is up.  A draw that    *)
(* ends a computation comes up if it is possible again and again.          *)
(* Processes need not be started, and nothing is injected by force.        *)
FairSpec ==
  /\ Spec
  /\ \A m \in Managers : WF_vars(ManagerStep(m))
  /\ \A c \in Clients : WF_vars(ClientStep(c))
  /\ \A w \in Workers : /\ WF_vars(WorkerStep(w))
                         /\ SF_vars(WorkerFactor(w))
                         /\ SF_vars(WorkerNofactor(w))
  /\ \A x \in Nodes : WF_vars(Broker(x))

-----------------------------------------------------------------------------
Factors == Numbers \ {0, 1}
States == 0..(StateModulus - 1)

(* Messages by the mailbox they can be in.                                 *)
NodeMessage == [op : Plain, v : {0}] \cup [op : {"factor"}, v : Factors]
               \cup [op : {"calculate"}, v : Numbers]
WorkerMessage == [op : {"calculate"}, v : Numbers]
                 \cup [op : {"continue"}, v : Numbers \ {0}, cycles : Cycles,
                       state : States]

BoxOK(box) ==
  /\ box \in [Actors -> Seq(NodeMessage \cup WorkerMessage)]
  /\ \A x \in Nodes : box[x] \in Seq(NodeMessage)
  /\ \A w \in Workers : box[w] \in Seq(WorkerMessage)

(* The state has its type: every number that is computed, forwarded or     *)
(* kept by a client divides the input of a client, and every factor is     *)
(* such a divisor other than 0 and 1, however stale it is when it arrives  *)
(* and whichever client it was computed for.                               *)
TypeOK ==
  /\ server \in {"off", "up", "down"}
  /\ status \in [Actors -> {"init", "running", "quit", "dead", "hung"}]
  /\ BoxOK(mail)
  /\ num \in [Clients -> Nat]
  /\ state_id \in [Workers -> States]
  /\ joined \subseteq Nodes
  /\ up \in [Nodes -> Seq(NodeMessage)]
  /\ pending \subseteq Injected
  /\ announced \in [Clients -> Nat]
  /\ computing \in [Workers -> BOOLEAN]

(* The number a client works on always divides the number typed in at that *)
(* client, also when it divides out factors computed for another client or *)
(* for a number it has left behind (main.cpp:353-356).                     *)
ClientKeepsDivisor == \A c \in Clients : Divides(num[c], Input[c])

(* A client whose number is positive never hangs in its division loop      *)
(* (main.cpp:353), whatever the others ask for; and while all numbers are  *)
(* positive no worker dies on a division by zero (main.cpp:102 and 119).   *)
NobodyFails ==
  /\ \A c \in Clients : Input[c] > 0 => status[c] # "hung"
  /\ (\A c \in Clients : Input[c] > 0) => \A x \in Actors : status[x] # "dead"

(* No JOIN and no LEAVE on the way; a JOIN ahead of everything else.       *)
Settled(q) == \A i \in 1..Len(q) : q[i].op \notin {"JOIN", "LEAVE"}
JoinFirst(q) == /\ q # <<>> /\ q[1].op = "JOIN"
                /\ \A i \in 2..Len(q) : q[i].op \notin {"JOIN", "LEAVE"}

(* Whoever asks is there to hear the answer: while the server is up, a     *)
(* running node has joined cmgroup, or its JOIN is ahead of everything     *)
(* else it has sent (main.cpp:323-324 joins before it sends).              *)
RepliesReach ==
  \A x \in Nodes : status[x] \in {"running", "hung"} /\ server = "up" =>
    \/ x \in joined /\ Settled(up[x])
    \/ x \notin joined /\ JoinFirst(up[x])

-----------------------------------------------------------------------------
(* What the program prints or its assignment asks for and TLC refutes.     *)

(* main.cpp:359, "***** PRIME FACTORISATION *****": when it is announced,  *)
(* what is left of the number is 1 or at least a prime.                    *)
AnnouncedComplete ==
  \A c \in Clients : announced[c] > 1 => IsPrime(announced[c])

(* main.cpp:115, "calculate factor and send result to manager": a worker   *)
(* that has taken a number ends up sending a result.                       *)
WorkerAnswers == \A w \in Workers : computing[w] ~> ~computing[w]

(* lab2.pdf, page 4, a worker that comes up at run time is included in the *)
(* distribution of the work: it gets a number while a client waits.        *)
NewWorkerIncluded ==
  \A w \in Workers, c \in Clients :
    status[w] = "running" /\ status[c] = "running" /\ c \in joined ~>
      computing[w] \/ server = "down" \/ status[Host[w]] = "quit"
=============================================================================
