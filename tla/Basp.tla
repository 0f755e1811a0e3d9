-------------------------------- MODULE Basp --------------------------------
(***************************************************************************)
(* The broker of the Binary Actor System Protocol on every node: dialling  *)
(* and handshakes, the routing table, proxies for remote actors and the    *)
(* announce and kill messages that tell the owner of a proxy that its      *)
(* actor has terminated, forwarding, and connections that go down.         *)
(*                                                                         *)
(* Every node has one actor that others may hold, known by the name of the *)
(* node.  The two ends of connection c are the handles <<c, "client">> and *)
(* <<c, "server">>; a connection carries whole messages in order (Stream). *)
(* A broker runs on the thread of its multiplexer; whatever other threads  *)
(* ask of it is a task in the queue of that thread.  Links over a proxy    *)
(* (_Link, _Unlink) and the hooks are left out.                            *)
(***************************************************************************)
EXTENDS Integers, SequencesExt, FiniteSetsExt

CONSTANTS Nodes,
          Worlds,        \* what the programs of the nodes do, one of [published, exits,
                         \* dials, talks, typed, version]:
                         \* published: nodes whose actor is published,
                         \* exits: nodes whose actor may exit,
                         \* <<n, m>> in dials: n calls remote_actor for the port of m,
                         \* <<n, m, x>> in talks: n sends its proxy of m a handle of x,
                         \* typed: nodes whose actor has a typed interface,
                         \* version[n]: basp::version of n
          MaxConns, MaxLosses

NoNode == "no node"
NoHandle == <<0, "none">>
Handles == (1..MaxConns) \X {"client", "server"}

VARIABLES world,
          alive,      \* the actor of the node has not exited
          port,       \* m_acceptors, m_open_ports: the port accepts
          caller,     \* remote_actor_impl: "idle", "waiting", "done", "failed"
          tasks,      \* runnables in the pipe of the multiplexer
          watchers,   \* nodes that asked to be told when the actor exits
          conns,      \* sequence of <<client, server>>
          down,       \* connections that are broken or closed by one end
          scribe,     \* m_scribes: "none", "backlog", "open", "closed"
          ctx,        \* m_ctx
          wr,         \* wr_buf of a handle: not yet flushed
          net,        \* messages on their way to a handle
          broker,     \* broker[n]: [up, routes, space, proxies]
          talks,      \* what has been sent; everything is sent once
          losses

baspVars == <<world, alive, port, caller, tasks, watchers, conns, down, scribe, ctx,
              wr, net, broker, talks, losses>>

Dials == world.dials
Version == world.version

Owner(h) == IF h[2] = "client" THEN conns[h[1]][1] ELSE conns[h[1]][2]
Other(h) == <<h[1], IF h[2] = "client" THEN "server" ELSE "client">>
Used == {h \in Handles : h[1] <= Len(conns)}
Of(n) == {h \in Used : Owner(h) = n}

Msg(op, src, dst, data) == [op |-> op, src |-> src, dst |-> dst, data |-> data]
Task(op, to, data) == [op |-> op, to |-> to, data |-> data]
NoCall == <<NoNode, NoNode>>
NoCtx == [known |-> FALSE, remote |-> NoNode, handshake |-> NoCall, pub |-> 0]
NewCtx(call) == [NoCtx EXCEPT !.known = TRUE, !.handshake = call]

BaspInit ==
  /\ world \in Worlds
  /\ alive = [n \in Nodes |-> TRUE] /\ port = [n \in Nodes |-> n \in world.published]
  /\ caller = [d \in Dials |-> "idle"] /\ tasks = [n \in Nodes |-> <<>>]
  /\ watchers = [n \in Nodes |-> {}] /\ conns = <<>> /\ down = {}
  /\ scribe = [h \in Handles |-> "none"] /\ ctx = [h \in Handles |-> NoCtx]
  /\ wr = [h \in Handles |-> <<>>] /\ net = [h \in Handles |-> <<>>]
  /\ broker = [n \in Nodes |->
       [up |-> TRUE, proxies |-> <<>>, space |-> [m \in Nodes |-> 0],
        routes |-> [m \in Nodes |-> [dflt |-> NoHandle, alts |-> {}]]]]
  /\ talks = {} /\ losses = 0

-----------------------------------------------------------------------------
(***************************************************************************)
(* The state a handler of one broker works on: its tables b, its output    *)
(* buffers out and the handles flush it has flushed.  Writing to a handle  *)
(* without a scribe throws: the broker quits.                              *)
(***************************************************************************)
Work(n) == [b |-> broker[n], out |-> wr, flush |-> {}]

Write(w, h, m) ==
  IF scribe[h] = "open" THEN [w EXCEPT !.out[h] = Append(@, m)]
                        ELSE [w EXCEPT !.b.up = FALSE]
Flush(w, h) == [w EXCEPT !.flush = @ \cup {h}]

get_route(w, m) ==
  LET r == w.b.routes[m]
  IN IF r.dflt # NoHandle \/ r.alts = {} THEN r.dflt
     ELSE CHOOSE h \in r.alts : \A g \in r.alts : h[1] <= g[1]

add_route(w, m, h) == [w EXCEPT !.b.routes[m].alts = @ \cup {h}]

has_default_route(w, m) == w.b.routes[m].dflt # NoHandle
set_default_route(w, m, h) == [w EXCEPT !.b.routes[m].dflt = h]

(* Both writes of send_kill_proxy_instance and dispatch are dropped when   *)
(* there is no route.                                                      *)
SendVia(w, m, msg) ==
  LET h == get_route(w, m)
  IN IF h = NoHandle THEN w ELSE Flush(Write(w, h, msg), h)

(* A mutant of send_kill_proxy_instance: the message is not flushed.       *)
KillUnflushed(w, n, m) ==
  IF get_route(w, m) = NoHandle THEN w
  ELSE Write(w, get_route(w, m), Msg("kill", n, m, NoNode))

send_kill_proxy_instance(w, n, m) == SendVia(w, m, Msg("kill", n, m, NoNode))

(* remote is the remote_id of the context of h, the handle being read.     *)
(* The announcement goes out with the next flush of the route.             *)
make_proxy(w, n, m, h, remote) ==
  LET w1 == IF m = remote THEN w ELSE add_route(w, m, h)
      w2 == Write(w1, get_route(w1, m), Msg("announce", n, m, NoNode))
  IN [w2 EXCEPT !.b.proxies = Append(@, [to |-> m, live |-> TRUE]),
                !.b.space[m] = Len(w2.b.proxies) + 1]

get_or_put(w, n, m, h, remote) ==
  IF m \in {n, NoNode} \/ w.b.space[m] # 0 THEN w ELSE make_proxy(w, n, m, h, remote)

erase_proxy(w, m) == [w EXCEPT !.b.space[m] = 0]

kill_proxy(w, m) ==
  IF w.b.space[m] = 0 THEN w
  ELSE [erase_proxy(w, m) EXCEPT !.b.proxies[w.b.space[m]].live = FALSE]

(* What a handler of n leaves behind: in is what is left to be read, known *)
(* the contexts, shut the handles it closes.  If it threw, the broker      *)
(* quits and closes everything.                                            *)
Finish(n, w, in, known, shut) ==
  LET gone == IF w.b.up THEN shut ELSE {h \in Of(n) : scribe[h] = "open"}
  IN /\ broker' = [broker EXCEPT ![n] = w.b]
     /\ wr' = [h \in Handles |-> IF h \in w.flush \cup gone THEN <<>> ELSE w.out[h]]
     /\ net' = [h \in Handles |->
          CASE h \in gone -> <<>>
            [] h \in Used \ gone /\ scribe[h] # "closed" /\ Other(h) \in w.flush ->
                 in[h] \o w.out[Other(h)]
            [] OTHER -> in[h]]
     /\ ctx' = [h \in Handles |-> IF h \in gone THEN NoCtx ELSE known[h]]
     /\ scribe' = [h \in Handles |-> IF h \in gone THEN "closed" ELSE scribe[h]]
     /\ down' = down \cup {h[1] : h \in gone}

-----------------------------------------------------------------------------
(* Threads of a node: calling remote_actor, sending to a proxy, an actor   *)
(* that terminates, the last reference to a dead proxy going away.         *)
Post(n, t) == tasks' = [tasks EXCEPT ![n] = Append(@, t)]

remote_actor(d) ==
  /\ caller[d] = "idle" /\ caller' = [caller EXCEPT ![d] = "waiting"]
  /\ Post(d[1], Task("connect", d[2], NoNode))
  /\ UNCHANGED <<world, alive, port, watchers, conns, down, scribe, ctx, wr, net, broker,
                 talks, losses>>

(* forward_msg of the proxy.                                               *)
Talk(t) ==
  /\ t \notin talks /\ alive[t[1]]
  /\ {t[2], t[3]} \subseteq {t[1], NoNode} \cup {p.to : p \in Range(broker[t[1]].proxies)}
  /\ talks' = talks \cup {t} /\ Post(t[1], Task("dispatch", t[2], t[3]))
  /\ UNCHANGED <<world, alive, port, caller, watchers, conns, down, scribe, ctx, wr, net,
                 broker, losses>>

(* cleanup runs the attached functors.                                     *)
Exit(n) ==
  /\ n \in world.exits /\ alive[n] /\ alive' = [alive EXCEPT ![n] = FALSE]
  /\ \E order \in SetToAllKPermutations(watchers[n]) :
       /\ Len(order) = Cardinality(watchers[n])
       /\ tasks' = [tasks EXCEPT ![n] = @ \o (IF n \in world.published
                       THEN <<Task("unpublish", n, NoNode)>> ELSE <<>>)
                     \o [i \in DOMAIN order |-> Task("kill", order[i], NoNode)]]
  /\ watchers' = [watchers EXCEPT ![n] = {}]
  /\ UNCHANGED <<world, port, caller, conns, down, scribe, ctx, wr, net, broker, talks, losses>>

(* A proxy refers to itself until it is killed; the context of a           *)
(* connection refers to the proxy of the published actor.                  *)
Expire(n, i) ==
  /\ ~broker[n].proxies[i].live /\ broker[n].proxies[i].to # NoNode
  /\ \A h \in Of(n) : ctx[h].pub # i
  /\ broker' = [broker EXCEPT ![n].proxies[i].to = NoNode]
  /\ Post(n, Task("delproxy", broker[n].proxies[i].to, NoNode))
  /\ UNCHANGED <<world, alive, port, caller, watchers, conns, down, scribe, ctx, wr, net,
                 talks, losses>>

-----------------------------------------------------------------------------
(* The runnables of the multiplexer.                                       *)
Listening(m) == port[m] /\ broker[m].up

connect(n, m) ==
  LET c == Len(conns) + 1
      hdl == <<c, "client">>
  IN IF Listening(m)
     THEN /\ conns' = Append(conns, <<n, m>>)
          /\ scribe' = [scribe EXCEPT ![hdl] = "open", ![Other(hdl)] = "backlog"]
          /\ ctx' = [ctx EXCEPT ![hdl] = NewCtx(<<n, m>>)]
          /\ UNCHANGED <<caller, port, down, wr, net, broker>>
     ELSE /\ caller' = [caller EXCEPT ![<<n, m>>] = "failed"]
          /\ UNCHANGED <<conns, scribe, ctx, port, down, wr, net, broker>>

Quiet(n, w) == /\ Finish(n, w, net, ctx, {}) /\ UNCHANGED <<conns, caller>>

RunTask(n) ==
  /\ tasks[n] # <<>> /\ broker[n].up
  /\ tasks' = [tasks EXCEPT ![n] = Tail(@)]
  /\ LET t == Head(tasks[n])
     IN \/ t.op = "connect" /\ connect(n, t.to)
        \/ /\ t.op = "dispatch"
           /\ Quiet(n, SendVia(Work(n), t.to, Msg("dispatch", n, t.to, t.data)))
           /\ UNCHANGED port
        \/ /\ t.op = "kill" /\ Quiet(n, send_kill_proxy_instance(Work(n), n, t.to))
           /\ UNCHANGED port
        \/ /\ t.op = "delproxy" /\ Quiet(n, erase_proxy(Work(n), t.to))
           /\ UNCHANGED port
        \/ /\ t.op = "unpublish" /\ port' = [port EXCEPT ![n] = FALSE]
           /\ Quiet(n, Work(n))
  /\ UNCHANGED <<world, alive, watchers, talks, losses>>

-----------------------------------------------------------------------------
(* new_connection_msg, or the reset the client sees when nobody accepts.   *)
Accept(h) ==
  LET n == Owner(h)
  IN /\ scribe[h] = "backlog"
     /\ \/ /\ Listening(n)
           /\ scribe' = [scribe EXCEPT ![h] = "open"]
           /\ ctx' = [ctx EXCEPT ![h] = NewCtx(NoCall)]
           /\ net' = [net EXCEPT ![Other(h)] =
                        Append(@, Msg("server_handshake", n, NoNode, Version[n]))]
           /\ UNCHANGED down
        \/ /\ ~Listening(n)
           /\ scribe' = [scribe EXCEPT ![h] = "closed"] /\ down' = down \cup {h[1]}
           /\ UNCHANGED <<ctx, net>>
  /\ UNCHANGED <<world, alive, port, caller, tasks, watchers, conns, wr, broker, talks, losses>>

(* A mutant of break_handshake: nobody tells the caller.                   *)
BreakSilent(h) == UNCHANGED caller

break_handshake(h) ==
  caller' = [d \in Dials |-> IF ctx[h].handshake = d THEN "failed" ELSE caller[d]]

(* connection_closed_msg.                                                  *)
connection_closed(h) ==
  LET n == Owner(h)
      Purged == [m \in Nodes |->
        [dflt |-> IF broker[n].routes[m].dflt = h THEN NoHandle ELSE broker[n].routes[m].dflt,
         alts |-> broker[n].routes[m].alts \ {h}]]
      Lost == {m \in Nodes : Purged[m].dflt = NoHandle /\ Purged[m].alts = {}}
      w == [Work(n) EXCEPT !.b.routes = Purged,
              !.b.proxies = [i \in DOMAIN @ |-> IF @[i].to \in Lost /\ broker[n].space[@[i].to] = i
                                                THEN [@[i] EXCEPT !.live = FALSE] ELSE @[i]],
              !.b.space = [m \in Nodes |-> IF m \in Lost THEN 0 ELSE @[m]]]
  IN /\ scribe[h] = "open" /\ h[1] \in down /\ broker[n].up
     /\ break_handshake(h)
     /\ Finish(n, w, net, ctx, {h})
     /\ UNCHANGED <<world, alive, port, tasks, watchers, conns, talks, losses>>

Lose(c) ==
  /\ losses < MaxLosses /\ c <= Len(conns) /\ c \notin down
  /\ losses' = losses + 1 /\ down' = down \cup {c}
  /\ UNCHANGED <<world, alive, port, caller, tasks, watchers, conns, scribe, ctx, wr, net,
                 broker, talks>>

-----------------------------------------------------------------------------
(***************************************************************************)
(* new_data: a header and its payload, and the implicit flush of the       *)
(* handle when the scribe has consumed them.                               *)
(***************************************************************************)
Incoming(h, op) ==
  /\ scribe[h] = "open" /\ net[h] # <<>> /\ broker[Owner(h)].up
  /\ Head(net[h]).dst \in {NoNode, Owner(h)} /\ Head(net[h]).op = op

Consumed(h, w, known, shut) ==
  /\ Finish(Owner(h), Flush(w, h), [net EXCEPT ![h] = Tail(@)], known, shut)
  /\ UNCHANGED <<world, alive, port, tasks, conns, talks, losses>>

(* A message for another node; without a route the connection it came on   *)
(* is closed.                                                              *)
Forward(h) ==
  LET n == Owner(h)
      m == Head(net[h])
      w == Work(n)
  IN /\ scribe[h] = "open" /\ net[h] # <<>> /\ broker[n].up
     /\ m.dst \notin {NoNode, n}
     /\ Consumed(h, SendVia(w, m.dst, m), ctx, IF get_route(w, m.dst) = NoHandle THEN {h} ELSE {})
     /\ UNCHANGED <<caller, watchers>>

(* Reading the payload makes proxies for the handles in it, dispatch then  *)
(* makes one for the sender.                                               *)
Dispatched(h) ==
  LET n == Owner(h)
      m == Head(net[h])
      r == ctx[h].remote
  IN /\ Incoming(h, "dispatch")
     /\ Consumed(h, get_or_put(get_or_put(Work(n), n, m.data, h, r), n, m.src, h, r), ctx, {})
     /\ UNCHANGED <<caller, watchers>>

announce_proxy_instance(h) ==
  LET n == Owner(h)
      m == Head(net[h])
  IN /\ Incoming(h, "announce")
     /\ \/ /\ ~alive[n] /\ UNCHANGED watchers
           /\ Consumed(h, send_kill_proxy_instance(Work(n), n, m.src), ctx, {})
        \/ /\ alive[n] /\ watchers' = [watchers EXCEPT ![n] = @ \cup {m.src}]
           /\ Consumed(h, Work(n), ctx, {})
     /\ UNCHANGED caller

kill_proxy_instance(h) ==
  /\ Incoming(h, "kill")
  /\ Consumed(h, kill_proxy(Work(Owner(h)), Head(net[h]).src), ctx, {})
  /\ UNCHANGED <<caller, watchers>>

client_handshake(h) ==
  LET n == Owner(h)
      m == Head(net[h]).src
      w == Work(n)
  IN /\ Incoming(h, "client_handshake")
     /\ IF ctx[h].remote # NoNode \/ m = n \/ has_default_route(w, m)
        THEN Consumed(h, w, ctx, {h})
        ELSE Consumed(h, set_default_route(w, m, h), [ctx EXCEPT ![h].remote = m], {})
     /\ UNCHANGED <<caller, watchers>>

Established(c, m, i) == [c EXCEPT !.remote = m, !.pub = i, !.handshake = NoCall]

(* A version the broker does not know closes the connection and leaves the *)
(* promise of the caller alone.                                            *)
server_handshake(h) ==
  LET n == Owner(h)
      m == Head(net[h]).src
      d == ctx[h].handshake
      w == Work(n)
      Answer(how) == caller' = [caller EXCEPT ![d] = how]
      w1 == set_default_route(w, m, h)
      w2 == get_or_put(Write(w1, h, Msg("client_handshake", n, m, NoNode)), n, m, h, m)
  IN /\ Incoming(h, "server_handshake")
     /\ \/ /\ d = NoCall \/ Head(net[h]).data # Version[n]
           /\ Consumed(h, w, ctx, {h}) /\ UNCHANGED caller
        \/ /\ d # NoCall /\ Head(net[h]).data = Version[n]
           /\ \/ m \in world.typed /\ Answer("failed") /\ Consumed(h, w, ctx, {h})
              \/ /\ m \notin world.typed /\ Answer("done")
                 /\ IF m = n \/ has_default_route(w, m)
                    THEN Consumed(h, get_or_put(w, n, m, h, m), ctx, {h})
                    ELSE Consumed(h, w2, [ctx EXCEPT ![h] = Established(@, m, w2.b.space[m])], {})
     /\ UNCHANGED watchers

-----------------------------------------------------------------------------
Event(h) == \/ Forward(h) \/ Dispatched(h) \/ announce_proxy_instance(h)
            \/ kill_proxy_instance(h) \/ client_handshake(h) \/ server_handshake(h)
            \/ Accept(h) \/ connection_closed(h)

BaspNext ==
  \/ \E d \in Dials : remote_actor(d)
  \/ \E t \in world.talks : Talk(t)
  \/ \E n \in Nodes : Exit(n) \/ RunTask(n) \/ \E i \in DOMAIN broker[n].proxies : Expire(n, i)
  \/ \E h \in Used : Event(h)
  \/ \E c \in 1..MaxConns : Lose(c)

BaspSpec == BaspInit /\ [][BaspNext]_baspVars

-----------------------------------------------------------------------------
(* Every variable has its type; a context belongs to an open connection,   *)
(* and a proxy of the namespace to a live entry (basp_broker.cpp:547).     *)
BaspTypeOK ==
  /\ alive \in [Nodes -> BOOLEAN] /\ port \in [Nodes -> BOOLEAN]
  /\ caller \in [Dials -> {"idle", "waiting", "done", "failed"}]
  /\ watchers \in [Nodes -> SUBSET Nodes] /\ Len(conns) <= MaxConns
  /\ down \subseteq 1..Len(conns)
  /\ scribe \in [Handles -> {"none", "backlog", "open", "closed"}]
  /\ \A h \in Handles : ctx[h].known => h \in Used /\ scribe[h] = "open"
  /\ \A n \in Nodes : \A m \in Nodes :
       /\ broker[n].space[m] # 0 =>
            broker[n].proxies[broker[n].space[m]] = [to |-> m, live |-> TRUE]
       /\ {broker[n].routes[m].dflt} \cup broker[n].routes[m].alts \subseteq
            Of(n) \cup {NoHandle}

(* A context points to the handshake data on the stack of remote_actor     *)
(* only while that call waits, and no two contexts share it: the promise   *)
(* is set once and nothing is written through a pointer to a call that has *)
(* returned (basp_broker.cpp:74, 417).                                     *)
HandshakeDataAlive ==
  \A g, h \in Handles :
    ctx[h].handshake # NoCall =>
      /\ caller[ctx[h].handshake] = "waiting"
      /\ ctx[g].handshake = ctx[h].handshake => g = h

(* Nothing is left to do for the multiplexers: no task, no message to be   *)
(* read, no connection to be accepted or reported closed.                  *)
Settled ==
  /\ \A n \in Nodes : broker[n].up => tasks[n] = <<>>
  /\ \A h \in Used : /\ scribe[h] # "backlog"
                     /\ broker[Owner(h)].up /\ scribe[h] = "open" =>
                          net[h] = <<>> /\ h[1] \notin down

(* remote_actor has returned or thrown once everything has settled, if     *)
(* both sides speak the same version, whatever connections were lost or    *)
(* actors exited during the handshake (remote_actor.cpp:42,                *)
(* basp_broker.cpp:69).                                                    *)
DialReturns ==
  Settled => \A d \in Dials :
    caller[d] = "waiting" => ~broker[d[1]].up \/ Version[d[1]] # Version[d[2]]

(* make_proxy writes the announcement to the buffer of the route and does  *)
(* not flush it.  If the route is not the handle being read, which happens *)
(* when two nodes dial each other, it waits for somebody else to flush.    *)
AnnouncementWaits(n, m) ==
  \E h \in Of(n) : Msg("announce", n, m, NoNode) \in Range(wr[h])

(* The namespace has lost a live proxy: the task that removes an earlier   *)
(* proxy of the actor, which died with a connection and is released by     *)
(* now, removes whatever is filed under its name.                          *)
ErasedForEarlier(n, i) ==
  /\ broker[n].space[broker[n].proxies[i].to] # i
  /\ \E j \in 1..(i - 1) : broker[n].proxies[j] = [to |-> NoNode, live |-> FALSE]

(* A proxy of a node with an open direct connection is killed once its     *)
(* actor has exited and everything has settled, so that links and monitors *)
(* of the proxy are told.  There are two exceptions: its announcement      *)
(* still waits in an output buffer, or the namespace has lost the proxy to *)
(* the late removal of an earlier one.  Without them no proxy of an exited *)
(* actor stays alive (basp_broker.cpp:131, 366, 517, 583).                 *)
DirectProxyTold ==
  Settled => \A n, m \in Nodes :
    /\ ~alive[m] /\ broker[n].up /\ broker[m].up
    /\ broker[n].routes[m].dflt \in Used /\ scribe[broker[n].routes[m].dflt] = "open"
    => \A i \in DOMAIN broker[n].proxies :
         broker[n].proxies[i] = [to |-> m, live |-> TRUE] =>
           AnnouncementWaits(n, m) \/ ErasedForEarlier(n, i)

(* A call of remote_actor comes back, and nobody uses its data afterwards  *)
(* (remote_actor.cpp:42, basp_broker.cpp:74, 417).                         *)
DialSound == BaspTypeOK /\ HandshakeDataAlive /\ DialReturns
=============================================================================
