----------------------------- MODULE Multiplexer ----------------------------
(***************************************************************************)
(* The epoll() based default_multiplexer with its pipe, the doorman of a   *)
(* named broker, and the scribe of the connection that doorman accepts.    *)
(* The loop's thread runs all handlers; peer, kernel and the thread that   *)
(* posts work and calls middleman::stop act between any two of its steps.  *)
(* The kernel takes at least one byte of a send.  epoll reports an error   *)
(* of a TCP socket together with what the socket is registered for, so     *)
(* that propagate_error does not happen.                                   *)
(***************************************************************************)
EXTENDS Naturals, Sequences, FiniteSets, SeqOps

CONSTANTS Policies,   \* receive policies a handler may choose: [flag, max]
          Slack,      \* what at_least allows beyond its threshold
          MaxIn,      \* bound: bytes the peer sends
          MaxOut      \* bound: bytes the broker writes

(* Any threshold, zero included; Threshold says what becomes of it.        *)
ASSUME MuxConstants ==
  /\ Policies \subseteq [flag : {"at_most", "exactly", "at_least"}, max : Nat]
  /\ Slack \in Nat /\ MaxIn \in Nat /\ MaxOut \in Nat

VARIABLES received,   \* bytes of the peer that recv returned; they count 1, 2, ..
          arrived,    \* bytes of the peer that are or were in the socket
          peer,       \* "none", "waiting" in the backlog, "there", "gone", "reset"
          out,        \* bytes the kernel took from send
          produced,   \* bytes the broker wrote to wr_buf
          s,          \* the scribe with its stream, see Fresh
          doorman,    \* "open" until stop_reading; m_mgr is released later
          held,       \* the doorman's m_mgr is set
          bf,         \* bf[fd]: eventbf, what epoll watches
          events,     \* m_events[fd]: the new mask, or None
          shadow,     \* m_shadow
          ready,      \* what is left of the batch: <<fd, operation>>
          loop,       \* "wait", "batch", "done"
          pipe,       \* runnables in the pipe
          quitting,   \* middleman::stop: 0 not called, 1 dispatched, 2 joins
          chunk       \* what consume got last, and the policy it was read with

muxVars == <<received, arrived, peer, out, produced, s, doorman, held, bf, events, shadow,
             ready, loop, pipe, quitting, chunk>>
netVars == <<arrived, peer>>
muxLoopVars == <<received, out, produced, s, doorman, held, bf, events, shadow, ready, loop, chunk>>

None == {"none"}   \* not a mask
Fds == {"pipe", "doorman", "stream"}
AtMost == [flag |-> "at_most", max |-> 1024]

(* reader, writer: m_reader and m_writer are set.  wr is what is left of   *)
(* m_wr_buf, off is m_wr_offline_buf, got is what m_rd_buf has collected.  *)
(* policy is what configure_read asked for, reading what read_loop set.    *)
Fresh == [reader |-> FALSE, writer |-> FALSE, writing |-> FALSE, wr |-> <<>>,
          off |-> <<>>, got |-> <<>>, policy |-> AtMost, reading |-> AtMost,
          open |-> FALSE, shut |-> FALSE]

MuxInit ==
  /\ received = 0 /\ arrived = 0 /\ peer = "none" /\ out = <<>> /\ produced = 0
  /\ s = Fresh /\ doorman = "open" /\ held = TRUE
  /\ bf = [fd \in Fds |-> IF fd = "stream" THEN {} ELSE {"read"}]
  /\ events = [fd \in Fds |-> None] /\ shadow = 2
  /\ ready = <<>> /\ loop = "wait" /\ pipe = <<>> /\ quitting = 0
  /\ chunk = [policy |-> AtMost, before |-> 0, bytes |-> <<>>]

-----------------------------------------------------------------------------
(* new_event: events of a batch are squashed.                              *)
Mask(ev, fd) == IF ev[fd] = None THEN bf[fd] ELSE ev[fd]
new_event(ev, fd, mask) == [ev EXCEPT ![fd] = IF mask = bf[fd] THEN None ELSE mask]

add(op, ev, fd) == new_event(ev, fd, Mask(ev, fd) \cup {op})
del(op, ev, fd) == new_event(ev, fd, Mask(ev, fd) \ {op})

(* Operations of the stream change the pair of stream x and events ev.     *)
Pair(x, ev) == [x |-> x, ev |-> ev]

read_loop(p) == [p EXCEPT !.x.got = <<>>, !.x.reading = p.x.policy]

(* A mutant of write_loop: it stops although there is more to send.        *)
WriteLoopStops(p) ==
  [p EXCEPT !.x.wr = p.x.off, !.x.off = <<>>, !.x.writing = p.x.off # <<>>,
            !.ev = del("write", p.ev, "stream")]

write_loop(p) ==
  IF p.x.off = <<>>
  THEN [p EXCEPT !.x.wr = <<>>, !.x.writing = FALSE, !.ev = del("write", p.ev, "stream")]
  ELSE [p EXCEPT !.x.wr = p.x.off, !.x.off = <<>>]

(* A mutant of flush: a write that is under way does not matter.           *)
FlushAlways(p) ==
  IF p.x.off = <<>> THEN p
  ELSE write_loop([p EXCEPT !.x.writer = TRUE, !.x.writing = TRUE,
                            !.ev = add("write", p.ev, "stream")])

flush(p) ==
  IF p.x.off = <<>> \/ p.x.writing THEN p
  ELSE write_loop([p EXCEPT !.x.writer = TRUE, !.x.writing = TRUE,
                            !.ev = add("write", p.ev, "stream")])

(* configure_read of a new scribe launches it.                             *)
launch(p) == read_loop([p EXCEPT !.x.reader = TRUE, !.ev = add("read", p.ev, "stream")])

(* A mutant of stop_reading: the manager is released at once.              *)
StopReadingNow(p) ==
  [p EXCEPT !.x.shut = TRUE, !.x.open = FALSE, !.x.reader = FALSE,
            !.ev = del("read", p.ev, "stream")]

stop_reading(p) ==
  [p EXCEPT !.x.shut = TRUE, !.x.open = FALSE, !.ev = del("read", p.ev, "stream")]

(* disconnect(true): connection_closed_msg reaches the broker once.        *)
io_failure(p, op) ==
  [p EXCEPT !.x.open = FALSE, !.ev = del(op, p.ev, "stream")]

Set(p) == s' = p.x /\ events' = p.ev

-----------------------------------------------------------------------------
(* Peer and kernel.                                                        *)
Connect == /\ peer = "none" /\ doorman = "open" /\ peer' = "waiting"
           /\ UNCHANGED <<arrived, muxLoopVars, pipe, quitting>>
Arrive == /\ peer = "there" /\ arrived < MaxIn /\ arrived' = arrived + 1
          /\ UNCHANGED <<peer, muxLoopVars, pipe, quitting>>
Leave == /\ peer = "there" /\ peer' \in {"gone", "reset"}
         /\ UNCHANGED <<arrived, muxLoopVars, pipe, quitting>>

(* Another thread sends to the broker, which writes to the connection it   *)
(* was told of.                                                            *)
broker_enqueue ==
  /\ quitting = 0 /\ peer \notin {"none", "waiting"}
  /\ produced + Len(pipe) < MaxOut /\ pipe' = Append(pipe, "send")
  /\ UNCHANGED <<netVars, muxLoopVars, quitting>>

(* A mutant of stop_middleman: the sockets of the brokers stay open.       *)
StopPipeOnly ==
  /\ quitting < 2 /\ quitting' = 2 /\ pipe' = Append(pipe, "close_pipe")
  /\ UNCHANGED <<netVars, muxLoopVars>>

(* middleman::stop dispatches the lambda, then resets the supervisor.      *)
stop_middleman ==
  /\ quitting < 2 /\ quitting' = quitting + 1
  /\ pipe' = Append(pipe, IF quitting = 0 THEN "close_all" ELSE "close_pipe")
  /\ UNCHANGED <<netVars, muxLoopVars>>

-----------------------------------------------------------------------------
(* epoll_wait: the sockets that are ready, in any order, and of each its   *)
(* input before its output.                                                *)
Input(fd) == CASE fd = "pipe" -> pipe # <<>>
               [] fd = "doorman" -> peer = "waiting" \/ doorman = "closed"
               [] fd = "stream" -> arrived > received \/ s.shut \/ peer # "there"
Ready == {e \in Fds \X {"read", "write"} : e[2] \in bf[e[1]] /\ (e[2] = "read" => Input(e[1]))}
Batches == {b \in SetToSeqs(Ready) :
              \A i \in DOMAIN b : b[i][2] = "write" /\ <<b[i][1], "read">> \in Ready =>
                i > 1 /\ b[i - 1] = <<b[i][1], "read">>}

Wait ==
  /\ loop = "wait"
  /\ \/ shadow = 0 /\ loop' = "done" /\ UNCHANGED ready
     \/ shadow > 0 /\ loop' = "batch" /\ ready' \in Batches /\ ready' # <<>>
  /\ UNCHANGED <<netVars, received, out, produced, s, doorman, held, bf, events, shadow, pipe,
                 quitting, chunk>>

Handling(fd, op) == loop = "batch" /\ ready # <<>> /\ Head(ready) = <<fd, op>>
                    /\ ready' = Tail(ready)

(* The runnable of a pipe event.  A write to a closed scribe throws, and   *)
(* the broker quits with all that it has open.                             *)
Runnable ==
  /\ Handling("pipe", "read") /\ pipe' = Tail(pipe)
  /\ CASE Head(pipe) = "send" /\ s.open ->
            /\ produced' = produced + 1 /\ UNCHANGED doorman
            /\ Set(flush(Pair([s EXCEPT !.off = Append(@, produced')], events)))
       [] Head(pipe) = "close_all" \/ (Head(pipe) = "send" /\ ~s.open) ->
            /\ doorman' = "closed" /\ UNCHANGED produced
            /\ LET ev == del("read", events, "doorman")
               IN Set(IF s.open THEN stop_reading(Pair(s, ev)) ELSE Pair(s, ev))
       [] Head(pipe) = "close_pipe" ->
            events' = del("read", events, "pipe") /\ UNCHANGED <<produced, doorman, s>>
  /\ UNCHANGED <<netVars, received, out, held, bf, shadow, loop, quitting, chunk>>

(* The acceptor takes a connection; the handler of new_connection_msg      *)
(* chooses a policy.  accept fails once the socket is shut down.           *)
new_connection ==
  /\ Handling("doorman", "read")
  /\ IF held /\ peer = "waiting" /\ doorman = "open"
     THEN /\ peer' = "there"
          /\ \E p \in Policies :
               Set(launch(Pair([s EXCEPT !.open = TRUE, !.policy = p], events)))
     ELSE UNCHANGED <<peer, s, events>>
  /\ UNCHANGED <<arrived, received, out, produced, doorman, held, bf, shadow, loop, pipe, quitting,
                 chunk>>

Threshold(p) == IF p.flag = "at_most" THEN 1 ELSE p.max
Size(p) == p.max + IF p.flag = "at_least" THEN Slack ELSE 0

(* scribe::consume: the handler of new_data_msg may write, choose a policy *)
(* or close; what it wrote is flushed.  On a scribe that is closed already *)
(* each of these throws, and the broker quits.                             *)
Consumed(p, policy, n, close) ==
  LET told == [p EXCEPT !.x.policy = policy, !.x.off = IF n > produced THEN Append(@, n) ELSE @]
  IN read_loop(flush(IF close THEN stop_reading(told) ELSE told))

(* handle_event(read).  A spurious event, recv takes nothing, is a stutter.*)
ReadEvent ==
  /\ Handling("stream", "read")
  /\ \/ /\ (arrived = received /\ (s.shut \/ peer # "there")) \/ Len(s.got) = Size(s.reading)
        /\ Set(io_failure(Pair(s, events), "read"))
        /\ UNCHANGED <<received, produced, doorman, chunk>>
     \/ \E n \in 1 .. (Size(s.reading) - Len(s.got)) :
          LET got == s.got \o [i \in 1 .. n |-> received + i]
              p == Pair([s EXCEPT !.got = got], events)
          IN /\ received + n <= arrived /\ received' = received + n
             /\ IF Len(got) < Threshold(s.reading)
                THEN Set(p) /\ UNCHANGED <<produced, doorman, chunk>>
                ELSE /\ chunk' = [policy |-> s.reading, bytes |-> got,
                                  before |-> IF chunk.bytes = <<>> THEN 0 ELSE Last(chunk.bytes)]
                     /\ IF ~s.open
                        THEN /\ UNCHANGED produced
                             /\ \/ Set(read_loop(flush(p))) /\ UNCHANGED doorman
                                \/ /\ doorman' = "closed"
                                   /\ Set(read_loop(flush([p EXCEPT !.ev = del("read", @, "doorman")])))
                        ELSE \E policy \in Policies, close \in BOOLEAN :
                               /\ UNCHANGED doorman
                               /\ produced' \in produced .. (IF produced < MaxOut THEN produced + 1 ELSE produced)
                               /\ Set(Consumed(p, policy, produced', close))
  /\ UNCHANGED <<netVars, out, held, bf, shadow, loop, pipe, quitting>>

(* handle_event(write).                                                    *)
WriteEvent ==
  /\ Handling("stream", "write")
  /\ \/ /\ peer = "reset" /\ Set(io_failure(Pair(s, events), "write")) /\ UNCHANGED out
     \/ \E n \in 1 .. Len(s.wr) :
          LET p == Pair([s EXCEPT !.wr = SubSeq(@, n + 1, Len(@))], events)
          IN /\ peer # "reset" /\ out' = out \o SubSeq(s.wr, 1, n)
             /\ Set(IF n = Len(s.wr) THEN write_loop(p) ELSE p)
  /\ UNCHANGED <<netVars, received, produced, doorman, held, bf, shadow, loop, pipe, quitting, chunk>>

Shadow == shadow + Cardinality({fd \in Fds : events[fd] # None /\ bf[fd] = {}})
                 - Cardinality({fd \in Fds : events[fd] = {}})

(* handle() for all events of the batch, with removed_from_loop.           *)
EndBatch ==
  LET gone(fd, op) == events[fd] # None /\ op \in bf[fd] \ events[fd]
  IN /\ loop = "batch" /\ ready = <<>> /\ loop' = "wait"
     /\ bf' = [fd \in Fds |-> IF events[fd] = None THEN bf[fd] ELSE events[fd]]
     /\ events' = [fd \in Fds |-> None] /\ shadow' = Shadow
     /\ s' = [s EXCEPT !.reader = @ /\ ~gone("stream", "read"),
                       !.writer = @ /\ ~gone("stream", "write")]
     /\ held' = (held /\ ~gone("doorman", "read"))
     /\ UNCHANGED <<netVars, received, out, produced, doorman, ready, pipe, quitting, chunk>>

run_loop == Wait \/ Runnable \/ new_connection \/ ReadEvent \/ WriteEvent \/ EndBatch

MuxNext == Connect \/ Arrive \/ Leave \/ broker_enqueue \/ stop_middleman \/ run_loop
MuxSpec == MuxInit /\ [][MuxNext]_muxVars
MuxFairSpec == MuxSpec /\ WF_muxVars(run_loop) /\ WF_muxVars(quitting = 1 /\ stop_middleman)

-----------------------------------------------------------------------------
(* consume gets the peer's bytes in order and without a gap, and as many   *)
(* as the policy says that was in force when the read began, however recv  *)
(* cuts the stream (default_multiplexer.hpp:553).                          *)
ChunkExact ==
  LET b == chunk.bytes
      m == chunk.policy.max
  IN b # <<>> => /\ \A i \in 1 .. Len(b) : b[i] = chunk.before + i
                 /\ CASE chunk.policy.flag = "exactly" -> Len(b) = m
                      [] chunk.policy.flag = "at_most" -> Len(b) <= m
                      [] chunk.policy.flag = "at_least" -> Len(b) >= m

(* What write() and wr_buf collect goes to the socket in order, each byte  *)
(* once: sent, in the online buffer and in the offline buffer are all      *)
(* (default_multiplexer.hpp:531, 569).                                     *)
WritesInOrder == out \o s.wr \o s.off = [i \in 1 .. produced |-> i]

(* An event the loop still has to handle, and a socket it watches, have    *)
(* their manager: m_reader, m_writer and m_mgr outlive the batch that      *)
(* removes them (default_multiplexer.hpp:482).                             *)
ManagerHeld ==
  \A fd \in {"stream", "doorman"}, op \in {"read", "write"} :
    (op \in bf[fd] \/ \E i \in DOMAIN ready : ready[i] = <<fd, op>>) =>
      CASE fd = "doorman" -> held
        [] fd = "stream" /\ op = "read" -> s.reader
        [] fd = "stream" /\ op = "write" -> s.writer

(* m_shadow is the number of sockets that epoll watches                    *)
(* (default_multiplexer.cpp:278).                                          *)
ShadowCounts == shadow = Cardinality({fd \in Fds : bf[fd] # {}})

(* What is flushed leaves, even when the broker closes the connection, as  *)
(* long as the connection stands: no flush is lost while a write is under  *)
(* way or just ends (default_multiplexer.hpp:633).                         *)
FlushedLeaves == (s.wr # <<>> \/ s.off # <<>>) ~> ((s.wr = <<>> /\ s.off = <<>>) \/ peer = "reset")

(* middleman::stop joins the loop's thread: closing the brokers and the    *)
(* pipe leaves nothing to watch (middleman.cpp:219).                       *)
LoopStops == (quitting > 0) ~> (loop = "done")

(* No byte is lost, doubled or reordered, in either direction              *)
(* (default_multiplexer.hpp:531, 553).                                     *)
BytesExact == ChunkExact /\ WritesInOrder

(* What the loop watches or is about to handle has its manager and is      *)
(* counted (default_multiplexer.hpp:482, default_multiplexer.cpp:278).     *)
WatchedHeld == ManagerHeld /\ ShadowCounts
=============================================================================
