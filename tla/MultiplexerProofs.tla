------------------------- MODULE MultiplexerProofs --------------------------
(***************************************************************************)
(* Proofs about the network's event loop: the bytes of a connection are    *)
(* exact in both directions, and what the loop watches has its manager.    *)
(***************************************************************************)
EXTENDS Multiplexer, SequenceTheorems, FiniteSetTheorems, TLAPS

USE Zenon, SMT, Z3

-----------------------------------------------------------------------------
Ops == {"read", "write"}
PolicySet == [flag : {"at_most", "exactly", "at_least"}, max : Nat]
StreamSet == [reader : BOOLEAN, writer : BOOLEAN, writing : BOOLEAN, wr : Seq(Nat),
              off : Seq(Nat), got : Seq(Nat), policy : PolicySet, reading : PolicySet,
              open : BOOLEAN, shut : BOOLEAN]
EventMap == [Fds -> (SUBSET Ops) \cup {None}]
Runnables == {"send", "close_all", "close_pipe"}

(* All that was ever to be sent: what is out, and what the online and the  *)
(* offline buffer hold.                                                    *)
AllBytes(o, w, f) == o \o w \o f

(* The bytes 1, 2, .., k in order.                                         *)
Counting(k) == [i \in 1 .. k |-> i]

MuxTypes ==
  /\ received \in Nat /\ arrived \in Nat /\ out \in Seq(Nat) /\ produced \in Nat
  /\ s \in StreamSet /\ doorman \in {"open", "closed"} /\ held \in BOOLEAN
  /\ bf \in [Fds -> SUBSET Ops] /\ events \in EventMap
  /\ ready \in Seq(Fds \X Ops) /\ pipe \in Seq(Runnables)
  /\ chunk \in [policy : PolicySet, before : Nat, bytes : Seq(Nat)]

(* A stream x with pending events ev is in order: a manager is set for     *)
(* every operation that is or will be watched, and the online buffer is    *)
(* empty unless a write is under way.                                      *)
InOrderStream(x, ev) ==
  /\ "read" \in bf["stream"] \cup Mask(ev, "stream") => x.reader
  /\ "write" \in bf["stream"] \cup Mask(ev, "stream") => x.writer
  /\ ~x.writing => x.wr = <<>>

(* The same of the doorman, which is only ever watched for input.          *)
InOrderDoorman(ev) ==
  \A op \in bf["doorman"] \cup Mask(ev, "doorman") : op = "read" /\ held

(* The bytes of the peer are those that consume got, and got before, and   *)
(* those collected since, in order.                                        *)
InOrderBytes ==
  /\ received <= arrived
  /\ peer \in {"none", "waiting"} => arrived = 0
  /\ received = chunk.before + Len(chunk.bytes) + Len(s.got)
  /\ chunk.bytes = <<>> => chunk.before = 0
  /\ \A i \in 1 .. Len(chunk.bytes) : chunk.bytes[i] = chunk.before + i
  /\ \A i \in 1 .. Len(s.got) : s.got[i] = chunk.before + Len(chunk.bytes) + i
  /\ chunk.bytes # <<>> => Len(chunk.bytes) >= Threshold(chunk.policy)
                           /\ Len(chunk.bytes) <= Size(chunk.policy)

(* What is left of a batch: no event twice, each of them still watched,    *)
(* and something to read for that of the pipe.                             *)
InOrderBatch ==
  /\ \A i, j \in DOMAIN ready : ready[i] = ready[j] => i = j
  /\ \A i \in DOMAIN ready : ready[i][2] \in bf[ready[i][1]]
  /\ \A i \in DOMAIN ready : ready[i][1] = "pipe" /\ ready[i][2] = "read" => pipe # <<>>

MuxInv ==
  /\ MuxTypes /\ InOrderStream(s, events) /\ InOrderDoorman(events) /\ InOrderBytes
  /\ InOrderBatch /\ WritesInOrder /\ ShadowCounts

-----------------------------------------------------------------------------
(* Adding an operation to a socket's pending mask, or taking one out,      *)
(* changes that mask as it says and no other (new_event).                  *)
LEMMA MaskChanged ==
  ASSUME bf \in [Fds -> SUBSET Ops], NEW ev \in EventMap, NEW fd \in Fds, NEW op \in Ops
  PROVE  /\ add(op, ev, fd) \in EventMap /\ del(op, ev, fd) \in EventMap
         /\ Mask(add(op, ev, fd), fd) = Mask(ev, fd) \cup {op}
         /\ Mask(del(op, ev, fd), fd) = Mask(ev, fd) \ {op}
         /\ \A g \in Fds \ {fd} : /\ Mask(add(op, ev, fd), g) = Mask(ev, g)
                                 /\ Mask(del(op, ev, fd), g) = Mask(ev, g)
<1>1. Mask(ev, fd) \in SUBSET Ops
  <2>1. bf[fd] \in SUBSET Ops /\ ev[fd] \in (SUBSET Ops) \cup {None}
    BY DEF EventMap
  <2> QED BY <2>1 DEF Mask
<1>2. ASSUME NEW mask \in SUBSET Ops
      PROVE  /\ new_event(ev, fd, mask) \in EventMap
             /\ Mask(new_event(ev, fd, mask), fd) = mask
             /\ \A g \in Fds \ {fd} : Mask(new_event(ev, fd, mask), g) = Mask(ev, g)
  <2>1. mask # None
    BY SMT, Z3 DEF None, Ops
  <2>2. new_event(ev, fd, mask) \in EventMap
    BY SMT, Z3 DEF new_event, EventMap
  <2>3. new_event(ev, fd, mask)[fd] = IF mask = bf[fd] THEN None ELSE mask
    BY DEF new_event, EventMap
  <2>4. \A g \in Fds \ {fd} : new_event(ev, fd, mask)[g] = ev[g]
    BY SMT, Z3 DEF new_event, EventMap
  <2> QED BY <2>1, <2>2, <2>3, <2>4, SMT, Z3 DEF Mask
<1>3. Mask(ev, fd) \cup {op} \in SUBSET Ops /\ Mask(ev, fd) \ {op} \in SUBSET Ops
  BY <1>1
<1> QED BY <1>2, <1>3 DEF add, del

(* A mask is a set of operations.                                          *)
LEMMA MaskType ==
  ASSUME bf \in [Fds -> SUBSET Ops], NEW ev \in EventMap, NEW fd \in Fds
  PROVE  Mask(ev, fd) \in SUBSET Ops
<1>1. bf[fd] \in SUBSET Ops /\ ev[fd] \in (SUBSET Ops) \cup {None}
  BY DEF EventMap
<1> QED BY <1>1 DEF Mask

-----------------------------------------------------------------------------
(* What an operation of the stream makes of x and ev: the stream stays in  *)
(* order and no other socket is touched; what is to be sent moves from the *)
(* offline to an empty online buffer at most.                              *)
PairSet == [x : StreamSet, ev : EventMap]
Fine(p) == p \in PairSet /\ InOrderStream(p.x, p.ev)
OthersSame(p, q) == \A fd \in Fds \ {"stream"} : Mask(q.ev, fd) = Mask(p.ev, fd)
Unread(p, q) == q.x.got = p.x.got /\ q.x.reading = p.x.reading /\ q.x.policy = p.x.policy
Moved(p, q) == \/ q.x.wr = p.x.wr /\ q.x.off = p.x.off
               \/ p.x.wr = <<>> /\ q.x.wr = p.x.off /\ q.x.off = <<>>

(* The empty buffer.                                                       *)
LEMMA EmptyBuffer == <<>> \in Seq(Nat)
BY SMT, Z3

(* read_loop empties the read buffer and takes over the policy.            *)
LEMMA ReadLoopFine ==
  ASSUME bf \in [Fds -> SUBSET Ops], NEW p, Fine(p)
  PROVE  /\ Fine(read_loop(p)) /\ OthersSame(p, read_loop(p)) /\ read_loop(p).x.got = <<>>
         /\ read_loop(p).x.wr = p.x.wr /\ read_loop(p).x.off = p.x.off
<1> DEFINE q == read_loop(p)
<1>1. p \in PairSet
  BY DEF Fine
<1>2. q \in PairSet
  BY <1>1, EmptyBuffer DEF read_loop, PairSet, StreamSet
<1>3. /\ q.ev = p.ev /\ q.x.got = <<>> /\ q.x.reader = p.x.reader /\ q.x.writer = p.x.writer
      /\ q.x.writing = p.x.writing /\ q.x.wr = p.x.wr /\ q.x.off = p.x.off
  BY <1>1 DEF read_loop, PairSet, StreamSet
<1> HIDE DEF q
<1>4. InOrderStream(q.x, q.ev)
  BY <1>3 DEF Fine, InOrderStream
<1> QED BY <1>2, <1>3, <1>4 DEF Fine, OthersSame, q

(* write_loop goes on with the offline buffer, or stops for want of bytes. *)
LEMMA WriteLoopFine ==
  ASSUME bf \in [Fds -> SUBSET Ops], NEW p, Fine(p), p.x.wr = <<>>, p.x.writing
  PROVE  /\ Fine(write_loop(p)) /\ OthersSame(p, write_loop(p))
         /\ Moved(p, write_loop(p)) /\ Unread(p, write_loop(p))
<1>0. p \in PairSet /\ p.ev \in EventMap
  BY DEF Fine, PairSet
<1>1. CASE p.x.off = <<>>
  <2> DEFINE ev == del("write", p.ev, "stream")
  <2>f. "stream" \in Fds /\ "write" \in Ops
    BY DEF Fds, Ops
  <2>1. /\ ev \in EventMap /\ Mask(ev, "stream") = Mask(p.ev, "stream") \ {"write"}
        /\ \A g \in Fds \ {"stream"} : Mask(ev, g) = Mask(p.ev, g)
    BY <1>0, <2>f, MaskChanged, SMT, Z3
  <2> HIDE DEF ev
  <2> DEFINE q == [p EXCEPT !.x.wr = <<>>, !.x.writing = FALSE, !.ev = ev]
  <2>2. write_loop(p) = q
    BY <1>1 DEF write_loop, ev
  <2>3. q \in PairSet
    BY <1>0, <2>1, EmptyBuffer DEF PairSet, StreamSet
  <2>4. /\ q.ev = ev /\ q.x.reader = p.x.reader /\ q.x.writer = p.x.writer
        /\ ~q.x.writing /\ q.x.wr = <<>> /\ q.x.off = p.x.off
        /\ q.x.got = p.x.got /\ q.x.reading = p.x.reading /\ q.x.policy = p.x.policy
    BY <1>0 DEF PairSet, StreamSet
  <2> HIDE DEF q
  <2>5. InOrderStream(q.x, q.ev)
    BY <2>1, <2>4 DEF Fine, InOrderStream
  <2>6. OthersSame(p, q) /\ Moved(p, q) /\ Unread(p, q)
    BY <2>1, <2>4 DEF OthersSame, Moved, Unread
  <2> QED BY <2>2, <2>3, <2>5, <2>6 DEF Fine
<1>2. CASE p.x.off # <<>>
  <2> DEFINE q == [p EXCEPT !.x.wr = p.x.off, !.x.off = <<>>]
  <2>1. write_loop(p) = q
    BY <1>2 DEF write_loop
  <2>2. q \in PairSet
    BY <1>0, EmptyBuffer DEF PairSet, StreamSet
  <2>3. /\ q.ev = p.ev /\ q.x.reader = p.x.reader /\ q.x.writer = p.x.writer
        /\ q.x.writing = p.x.writing /\ q.x.wr = p.x.off /\ q.x.off = <<>>
        /\ q.x.got = p.x.got /\ q.x.reading = p.x.reading /\ q.x.policy = p.x.policy
    BY <1>0 DEF PairSet, StreamSet
  <2> HIDE DEF q
  <2>4. InOrderStream(q.x, q.ev)
    BY <2>3 DEF Fine, InOrderStream
  <2>5. OthersSame(p, q) /\ Moved(p, q) /\ Unread(p, q)
    BY <2>3 DEF OthersSame, Moved, Unread
  <2> QED BY <2>1, <2>2, <2>4, <2>5 DEF Fine
<1> QED BY <1>1, <1>2

(* flush starts to write if there is something to write and no write is    *)
(* under way.                                                              *)
LEMMA FlushFine ==
  ASSUME bf \in [Fds -> SUBSET Ops], NEW p, Fine(p)
  PROVE  /\ Fine(flush(p)) /\ OthersSame(p, flush(p))
         /\ Moved(p, flush(p)) /\ Unread(p, flush(p))
<1>0. p \in PairSet /\ p.ev \in EventMap
  BY DEF Fine, PairSet
<1>1. CASE p.x.off = <<>> \/ p.x.writing
  <2>1. flush(p) = p
    BY <1>1 DEF flush
  <2> QED BY <2>1 DEF OthersSame, Moved, Unread
<1>2. CASE ~(p.x.off = <<>> \/ p.x.writing)
  <2> DEFINE ev == add("write", p.ev, "stream")
  <2>f. "stream" \in Fds /\ "write" \in Ops
    BY DEF Fds, Ops
  <2>1. /\ ev \in EventMap /\ Mask(ev, "stream") = Mask(p.ev, "stream") \cup {"write"}
        /\ \A g \in Fds \ {"stream"} : Mask(ev, g) = Mask(p.ev, g)
    BY <1>0, <2>f, MaskChanged, SMT, Z3
  <2> HIDE DEF ev
  <2> DEFINE q == [p EXCEPT !.x.writer = TRUE, !.x.writing = TRUE, !.ev = ev]
  <2>2. flush(p) = write_loop(q)
    BY <1>2 DEF flush, ev
  <2>3. q \in PairSet
    BY <1>0, <2>1 DEF PairSet, StreamSet
  <2>4. /\ q.ev = ev /\ q.x.reader = p.x.reader /\ q.x.writer
        /\ q.x.writing /\ q.x.wr = p.x.wr /\ q.x.off = p.x.off
        /\ q.x.got = p.x.got /\ q.x.reading = p.x.reading /\ q.x.policy = p.x.policy
    BY <1>0 DEF PairSet, StreamSet
  <2> HIDE DEF q
  <2>5. p.x.wr = <<>>
    BY <1>2 DEF Fine, InOrderStream
  <2>6. Fine(q)
    <3>1. "read" \in bf["stream"] \cup Mask(q.ev, "stream") => q.x.reader
      <4>1. SUFFICES ASSUME "read" \in bf["stream"] \cup Mask(q.ev, "stream")
                     PROVE  "read" \in bf["stream"] \cup Mask(p.ev, "stream")
        BY <2>4 DEF Fine, InOrderStream
      <4>2. "read" # "write"
        OBVIOUS
      <4> QED BY <2>1, <2>4, <4>1, <4>2
    <3>2. InOrderStream(q.x, q.ev)
      BY <2>4, <3>1 DEF InOrderStream
    <3> QED BY <2>3, <3>2 DEF Fine
  <2>7. /\ Fine(write_loop(q)) /\ OthersSame(q, write_loop(q))
        /\ Moved(q, write_loop(q)) /\ Unread(q, write_loop(q))
    BY <2>4, <2>5, <2>6, WriteLoopFine
  <2>8. OthersSame(p, write_loop(q))
    BY <2>1, <2>4, <2>7 DEF OthersSame
  <2>9. Moved(p, write_loop(q)) /\ Unread(p, write_loop(q))
    BY <2>4, <2>7 DEF Moved, Unread
  <2> QED BY <2>2, <2>7, <2>8, <2>9
<1> QED BY <1>1, <1>2

(* Closing, by the broker or after an error, gives up an operation and     *)
(* leaves buffers and managers alone.                                      *)
LEMMA ClosingFine ==
  ASSUME bf \in [Fds -> SUBSET Ops], NEW p, Fine(p), NEW op \in Ops
  PROVE  /\ LET q == io_failure(p, op)
            IN Fine(q) /\ OthersSame(p, q) /\ Unread(p, q)
               /\ q.x.wr = p.x.wr /\ q.x.off = p.x.off
         /\ LET q == stop_reading(p)
            IN Fine(q) /\ OthersSame(p, q) /\ Unread(p, q)
               /\ q.x.wr = p.x.wr /\ q.x.off = p.x.off
<1>0. p \in PairSet /\ p.ev \in EventMap
  BY DEF Fine, PairSet
<1>f. "stream" \in Fds /\ "read" \in Ops
  BY DEF Fds, Ops
<1>1. ASSUME NEW o \in Ops, NEW x \in StreamSet, x.reader = p.x.reader, x.writer = p.x.writer,
             x.writing = p.x.writing, x.wr = p.x.wr, x.off = p.x.off, x.got = p.x.got,
             x.reading = p.x.reading, x.policy = p.x.policy,
             NEW q, q.x = x, q.ev = del(o, p.ev, "stream"), q \in PairSet
      PROVE  Fine(q) /\ OthersSame(p, q) /\ Unread(p, q)
               /\ q.x.wr = p.x.wr /\ q.x.off = p.x.off
  <2>1. /\ Mask(q.ev, "stream") = Mask(p.ev, "stream") \ {o}
        /\ \A g \in Fds \ {"stream"} : Mask(q.ev, g) = Mask(p.ev, g)
    BY <1>0, <1>1, <1>f, MaskChanged, SMT, Z3
  <2>2. InOrderStream(q.x, q.ev)
    BY <1>1, <2>1 DEF Fine, InOrderStream
  <2> QED BY <1>1, <2>1, <2>2 DEF Fine, OthersSame, Unread
<1>d. \A o \in Ops : del(o, p.ev, "stream") \in EventMap
  BY <1>0, <1>f, MaskChanged, SMT, Z3
<1>2. LET q == io_failure(p, op)
      IN Fine(q) /\ OthersSame(p, q) /\ Unread(p, q) /\ q.x.wr = p.x.wr /\ q.x.off = p.x.off
  <2> DEFINE ev == del(op, p.ev, "stream")
             q == [p EXCEPT !.x.open = FALSE, !.ev = ev]
  <2>1. ev \in EventMap
    BY <1>d
  <2>2. io_failure(p, op) = q
    BY DEF io_failure
  <2> HIDE DEF ev
  <2>3. q \in PairSet /\ q.x \in StreamSet
    BY <1>0, <2>1 DEF PairSet, StreamSet
  <2>4. /\ q.ev = ev /\ q.x.reader = p.x.reader /\ q.x.writer = p.x.writer
        /\ q.x.writing = p.x.writing /\ q.x.wr = p.x.wr /\ q.x.off = p.x.off
        /\ q.x.got = p.x.got /\ q.x.reading = p.x.reading /\ q.x.policy = p.x.policy
    BY <1>0 DEF PairSet, StreamSet
  <2> HIDE DEF q
  <2> QED BY <1>1, <2>2, <2>3, <2>4 DEF ev
<1>3. LET q == stop_reading(p)
      IN Fine(q) /\ OthersSame(p, q) /\ Unread(p, q) /\ q.x.wr = p.x.wr /\ q.x.off = p.x.off
  <2> DEFINE ev == del("read", p.ev, "stream")
             q == [p EXCEPT !.x.shut = TRUE, !.x.open = FALSE, !.ev = ev]
  <2>1. ev \in EventMap
    BY <1>d, <1>f
  <2>2. stop_reading(p) = q
    BY DEF stop_reading
  <2> HIDE DEF ev
  <2>3. q \in PairSet /\ q.x \in StreamSet
    BY <1>0, <2>1 DEF PairSet, StreamSet
  <2>4. /\ q.ev = ev /\ q.x.reader = p.x.reader /\ q.x.writer = p.x.writer
        /\ q.x.writing = p.x.writing /\ q.x.wr = p.x.wr /\ q.x.off = p.x.off
        /\ q.x.got = p.x.got /\ q.x.reading = p.x.reading /\ q.x.policy = p.x.policy
    BY <1>0 DEF PairSet, StreamSet
  <2> HIDE DEF q
  <2> QED BY <1>1, <1>f, <2>2, <2>3, <2>4 DEF ev
<1> QED BY <1>2, <1>3

(* A new scribe is watched for input, and its manager is set.              *)
LEMMA LaunchFine ==
  ASSUME bf \in [Fds -> SUBSET Ops], NEW p, Fine(p)
  PROVE  /\ Fine(launch(p)) /\ OthersSame(p, launch(p)) /\ launch(p).x.got = <<>>
         /\ launch(p).x.wr = p.x.wr /\ launch(p).x.off = p.x.off
<1>0. p \in PairSet /\ p.ev \in EventMap
  BY DEF Fine, PairSet
<1> DEFINE ev == add("read", p.ev, "stream")
<1>f. "stream" \in Fds /\ "read" \in Ops
  BY DEF Fds, Ops
<1>1. /\ ev \in EventMap /\ Mask(ev, "stream") = Mask(p.ev, "stream") \cup {"read"}
      /\ \A g \in Fds \ {"stream"} : Mask(ev, g) = Mask(p.ev, g)
  BY <1>0, <1>f, MaskChanged, SMT, Z3
<1> HIDE DEF ev
<1> DEFINE q == [p EXCEPT !.x.reader = TRUE, !.ev = ev]
<1>2. launch(p) = read_loop(q)
  BY DEF launch, ev
<1>3. q \in PairSet
  BY <1>0, <1>1 DEF PairSet, StreamSet
<1>4. /\ q.ev = ev /\ q.x.reader /\ q.x.writer = p.x.writer
      /\ q.x.writing = p.x.writing /\ q.x.wr = p.x.wr /\ q.x.off = p.x.off
  BY <1>0 DEF PairSet, StreamSet
<1> HIDE DEF q
<1>5. "write" \in bf["stream"] \cup Mask(q.ev, "stream") => q.x.writer
  <2>1. SUFFICES ASSUME "write" \in bf["stream"] \cup Mask(q.ev, "stream")
                 PROVE  "write" \in bf["stream"] \cup Mask(p.ev, "stream")
    BY <1>4 DEF Fine, InOrderStream
  <2>2. "read" # "write"
    OBVIOUS
  <2> QED BY <1>1, <1>4, <2>1, <2>2
<1>6. ~q.x.writing => q.x.wr = <<>>
  BY <1>4 DEF Fine, InOrderStream
<1>7. Fine(q)
  BY <1>3, <1>4, <1>5, <1>6 DEF Fine, InOrderStream
<1>8. /\ Fine(read_loop(q)) /\ OthersSame(q, read_loop(q)) /\ read_loop(q).x.got = <<>>
      /\ read_loop(q).x.wr = q.x.wr /\ read_loop(q).x.off = q.x.off
  BY <1>7, ReadLoopFine
<1>9. OthersSame(p, read_loop(q))
  BY <1>1, <1>4, <1>8 DEF OthersSame
<1> QED BY <1>2, <1>4, <1>8, <1>9

-----------------------------------------------------------------------------
(* Buffers can be joined in any grouping.                                  *)
LEMMA JoinBuffers ==
  ASSUME NEW a \in Seq(Nat), NEW b \in Seq(Nat), NEW c \in Seq(Nat)
  PROVE  (a \o b) \o c = a \o (b \o c)
<1>1. /\ a \o b \in Seq(Nat) /\ Len(a \o b) = Len(a) + Len(b)
      /\ \A i \in 1 .. Len(a) + Len(b) :
           (a \o b)[i] = IF i <= Len(a) THEN a[i] ELSE b[i - Len(a)]
  BY ConcatProperties
<1>2. /\ b \o c \in Seq(Nat) /\ Len(b \o c) = Len(b) + Len(c)
      /\ \A i \in 1 .. Len(b) + Len(c) :
           (b \o c)[i] = IF i <= Len(b) THEN b[i] ELSE c[i - Len(b)]
  BY ConcatProperties
<1> DEFINE d == a \o b
           e == b \o c
<1> HIDE DEF d, e
<1>3. /\ d \o c \in Seq(Nat) /\ Len(d \o c) = Len(d) + Len(c)
      /\ \A i \in 1 .. Len(d) + Len(c) :
           (d \o c)[i] = IF i <= Len(d) THEN d[i] ELSE c[i - Len(d)]
  <2>1. d \in Seq(Nat)
    BY <1>1 DEF d
  <2> QED BY <2>1, ConcatProperties
<1>4. /\ a \o e \in Seq(Nat) /\ Len(a \o e) = Len(a) + Len(e)
      /\ \A i \in 1 .. Len(a) + Len(e) :
           (a \o e)[i] = IF i <= Len(a) THEN a[i] ELSE e[i - Len(a)]
  BY <1>2, ConcatProperties DEF e
<1> DEFINE l == d \o c
           r == a \o e
<1>5. Len(a) \in Nat /\ Len(b) \in Nat /\ Len(c) \in Nat
  BY LenProperties
<1>6. l = r
  <2> HIDE DEF l, r
  <2>1. Len(l) = Len(r)
    BY <1>1, <1>2, <1>3, <1>4, <1>5, SMT, Z3 DEF d, e, l, r
  <2>2. ASSUME NEW i \in 1 .. Len(l) PROVE l[i] = r[i]
    BY <1>1, <1>2, <1>3, <1>4, <1>5, SMT, Z3 DEF d, e, l, r
  <2> QED BY <1>3, <1>4, <2>1, <2>2, SeqEqual DEF l, r
<1> QED BY <1>6 DEF d, e

(* A byte that the broker writes comes last of all that is to be sent.     *)
LEMMA WrittenLast ==
  ASSUME NEW o \in Seq(Nat), NEW w \in Seq(Nat), NEW f \in Seq(Nat), NEW k \in Nat,
         AllBytes(o, w, f) = Counting(k)
  PROVE  AllBytes(o, w, Append(f, k + 1)) = Counting(k + 1)
<1>1. k + 1 \in Nat /\ <<k + 1>> \in Seq(Nat)
  BY SMT, Z3
<1>2. o \o w \in Seq(Nat)
  BY ConcatProperties
<1>3. Append(f, k + 1) = f \o <<k + 1>>
  BY <1>1, AppendIsConcat, SMT, Z3
<1>4. ((o \o w) \o f) \o <<k + 1>> = (o \o w) \o (f \o <<k + 1>>)
  BY <1>1, <1>2, JoinBuffers, Zenon
<1>5. Counting(k) \in Seq(Nat) /\ Len(Counting(k)) = k /\ \A i \in 1 .. k : Counting(k)[i] = i
  BY SMT, Z3 DEF Counting
<1>6. Counting(k + 1) \in Seq(Nat) /\ Len(Counting(k + 1)) = k + 1
      /\ \A i \in 1 .. k + 1 : Counting(k + 1)[i] = i
  BY SMT, Z3 DEF Counting
<1>7. Append(Counting(k), k + 1) = Counting(k) \o <<k + 1>>
  BY <1>1, <1>5, AppendIsConcat
<1>8. Append(Counting(k), k + 1) = Counting(k + 1)
  <2>1. /\ Append(Counting(k), k + 1) \in Seq(Nat) /\ Len(Append(Counting(k), k + 1)) = k + 1
        /\ \A i \in 1 .. k : Append(Counting(k), k + 1)[i] = Counting(k)[i]
        /\ Append(Counting(k), k + 1)[k + 1] = k + 1
    BY <1>1, <1>5, AppendProperties, SMT, Z3
  <2>2. \A i \in 1 .. k + 1 : Append(Counting(k), k + 1)[i] = Counting(k + 1)[i]
    BY <1>5, <1>6, <2>1, SMT, Z3
  <2> QED BY <1>6, <2>1, <2>2, SeqEqual
<1> QED BY <1>3, <1>4, <1>7, <1>8 DEF AllBytes

(* What moves from the offline to the empty online buffer keeps its place. *)
LEMMA MovedKeeps ==
  ASSUME NEW o \in Seq(Nat), NEW p \in PairSet, NEW q \in PairSet, Moved(p, q)
  PROVE  AllBytes(o, q.x.wr, q.x.off) = AllBytes(o, p.x.wr, p.x.off)
<1>1. p.x.wr \in Seq(Nat) /\ p.x.off \in Seq(Nat)
  BY DEF PairSet, StreamSet
<1>2. ASSUME NEW f \in Seq(Nat) PROVE o \o f \o <<>> = o \o <<>> \o f
  <2>1. o \o f \in Seq(Nat)
    BY ConcatProperties
  <2> QED BY <2>1, ConcatEmptySeq
<1>3. CASE q.x.wr = p.x.wr /\ q.x.off = p.x.off
  BY <1>3
<1>4. CASE p.x.wr = <<>> /\ q.x.wr = p.x.off /\ q.x.off = <<>>
  BY <1>1, <1>2, <1>4 DEF AllBytes
<1> QED BY <1>3, <1>4 DEF Moved

(* Bytes that the kernel takes leave the online buffer at its front.       *)
LEMMA SentFirst ==
  ASSUME NEW o \in Seq(Nat), NEW w \in Seq(Nat), NEW n \in 1 .. Len(w)
  PROVE  /\ o \o SubSeq(w, 1, n) \in Seq(Nat) /\ SubSeq(w, n + 1, Len(w)) \in Seq(Nat)
         /\ (o \o SubSeq(w, 1, n)) \o SubSeq(w, n + 1, Len(w)) = o \o w
         /\ n = Len(w) => SubSeq(w, n + 1, Len(w)) = <<>>
<1> DEFINE h == SubSeq(w, 1, n)
           r == SubSeq(w, n + 1, Len(w))
<1>0. Len(w) \in Nat /\ \A i \in 1 .. Len(w) : w[i] \in Nat
  BY LenProperties, ElementOfSeq
<1>1. h \in Seq(Nat) /\ r \in Seq(Nat)
  <2>1. /\ 1 \in Int /\ n \in Int /\ n + 1 \in Int /\ Len(w) \in Int
        /\ \A i \in 1 .. n : w[i] \in Nat
        /\ \A i \in n + 1 .. Len(w) : w[i] \in Nat
    BY <1>0, SMT, Z3
  <2> QED BY <2>1, SubSeqProperties
<1>2. h \o r = w
  <2>1. 1 \in 1 .. Len(w) + 1 /\ n \in 1 - 1 .. Len(w) /\ Len(w) \in n .. Len(w)
    BY <1>0, SMT, Z3
  <2>2. h \o r = SubSeq(w, 1, Len(w))
    BY <2>1, ConcatAdjacentSubSeq, SMT, Z3
  <2> QED BY <2>2, SubSeqFull
<1>3. n = Len(w) => r = <<>>
  <2>1. n = Len(w) => n + 1 \in Int /\ Len(w) \in Int /\ Len(w) < n + 1
    BY <1>0, SMT, Z3
  <2> QED BY <2>1, SubSeqEmpty, SMT, Z3
<1> HIDE DEF h, r
<1>4. o \o h \in Seq(Nat) /\ (o \o h) \o r = o \o w
  <2>1. o \o h \in Seq(Nat)
    BY <1>1, ConcatProperties
  <2>2. (o \o h) \o r = o \o (h \o r)
    BY <1>1, JoinBuffers, Zenon
  <2> QED BY <1>2, <2>1, <2>2
<1> QED BY <1>1, <1>3, <1>4 DEF h, r

-----------------------------------------------------------------------------
(* At the start nothing is watched but the pipe and the doorman.           *)
LEMMA MuxStarts == MuxInit => MuxInv
<1> SUFFICES ASSUME MuxInit PROVE MuxInv
  OBVIOUS
<1>1. AtMost \in PolicySet
  BY SMT, Z3 DEF AtMost, PolicySet
<1>2. s \in StreamSet
  BY <1>1, EmptyBuffer DEF MuxInit, Fresh, StreamSet
<1>3. bf \in [Fds -> SUBSET Ops] /\ events \in EventMap
  BY SMT, Z3 DEF MuxInit, Ops, EventMap
<1>4. chunk \in [policy : PolicySet, before : Nat, bytes : Seq(Nat)]
  BY <1>1, EmptyBuffer, SMT, Z3 DEF MuxInit
<1>5. ready \in Seq(Fds \X Ops) /\ pipe \in Seq(Runnables) /\ out \in Seq(Nat)
  BY SMT, Z3 DEF MuxInit
<1>6. MuxTypes
  BY <1>2, <1>3, <1>4, <1>5, SMT, Z3 DEF MuxTypes, MuxInit
<1>7. /\ s.reader = FALSE /\ s.writer = FALSE /\ s.writing = FALSE /\ s.wr = <<>>
      /\ s.off = <<>> /\ s.got = <<>>
  BY DEF MuxInit, Fresh
<1>8. /\ bf["stream"] = {} /\ bf["doorman"] = {"read"} /\ bf["pipe"] = {"read"}
      /\ Mask(events, "stream") = {} /\ Mask(events, "doorman") = {"read"}
  BY SMT, Z3 DEF MuxInit, Fds, Mask
<1>9. InOrderStream(s, events) /\ InOrderDoorman(events)
  BY <1>7, <1>8, SMT, Z3 DEF InOrderStream, InOrderDoorman, MuxInit
<1>10. InOrderBytes
  BY <1>7, SMT, Z3 DEF InOrderBytes, MuxInit
<1>11. InOrderBatch
  BY SMT, Z3 DEF InOrderBatch, MuxInit
<1>12. WritesInOrder
  <2>1. out \o s.wr \o s.off = <<>>
    BY <1>7, SMT, Z3 DEF MuxInit
  <2>2. [i \in 1 .. produced |-> i] = <<>>
    BY SMT, Z3 DEF MuxInit
  <2> QED BY <2>1, <2>2 DEF WritesInOrder
<1>13. ShadowCounts
  <2>1. {fd \in Fds : bf[fd] # {}} = {"pipe", "doorman"}
    BY <1>8, SMT, Z3 DEF Fds
  <2>2. Cardinality({"pipe", "doorman"}) = 2
    <3>1. "doorman" \notin {"pipe"} /\ IsFiniteSet({"pipe"}) /\ Cardinality({"pipe"}) = 1
      BY FS_Singleton
    <3>2. {"pipe", "doorman"} = {"pipe"} \cup {"doorman"}
      OBVIOUS
    <3>3. Cardinality({"pipe"} \cup {"doorman"}) = Cardinality({"pipe"}) + 1
      BY <3>1, FS_AddElement
    <3> QED BY <3>1, <3>2, <3>3, SMT, Z3
  <2> QED BY <2>1, <2>2 DEF ShadowCounts, MuxInit
<1> QED BY <1>6, <1>9, <1>10, <1>11, <1>12, <1>13 DEF MuxInv

(* A step that leaves streams, events and buffers alone.                   *)
LEMMA StreamSame ==
  ASSUME MuxInv, UNCHANGED <<received, out, produced, s, doorman, held, bf, events, shadow, chunk>>
  PROVE  /\ InOrderStream(s, events)' /\ InOrderDoorman(events)' /\ WritesInOrder' /\ ShadowCounts'
         /\ (/\ arrived' \in Nat /\ ready' \in Seq(Fds \X Ops) /\ pipe' \in Seq(Runnables)
             => MuxTypes')
<1>1. InOrderStream(s, events)' /\ InOrderDoorman(events)'
  BY DEF MuxInv, InOrderStream, InOrderDoorman, Mask
<1>2. WritesInOrder' /\ ShadowCounts'
  BY DEF MuxInv, WritesInOrder, ShadowCounts
<1>3. arrived' \in Nat /\ ready' \in Seq(Fds \X Ops) /\ pipe' \in Seq(Runnables) => MuxTypes'
  BY DEF MuxInv, MuxTypes
<1> QED BY <1>1, <1>2, <1>3

(* The peer connects, sends or goes.                                       *)
LEMMA PeerKeeps == MuxInv /\ (Connect \/ Arrive \/ Leave) => MuxInv'
<1> SUFFICES ASSUME MuxInv, Connect \/ Arrive \/ Leave PROVE MuxInv'
  OBVIOUS
<1>1. UNCHANGED <<received, out, produced, s, doorman, held, bf, events, shadow, ready, chunk, pipe>>
  BY DEF Connect, Arrive, Leave, muxLoopVars
<1>2. arrived' \in Nat
  BY SMT, Z3 DEF MuxInv, MuxTypes, Connect, Arrive, Leave
<1>3. /\ InOrderStream(s, events)' /\ InOrderDoorman(events)' /\ WritesInOrder' /\ ShadowCounts'
      /\ MuxTypes'
  <2>1. ready' \in Seq(Fds \X Ops) /\ pipe' \in Seq(Runnables)
    BY <1>1 DEF MuxInv, MuxTypes
  <2> QED BY <1>1, <1>2, <2>1, StreamSame
<1>4. received <= arrived' /\ (peer' \in {"none", "waiting"} => arrived' = 0)
  BY SMT, Z3 DEF MuxInv, MuxTypes, InOrderBytes, Connect, Arrive, Leave
<1>5. InOrderBytes'
  BY <1>1, <1>4 DEF MuxInv, InOrderBytes, Threshold, Size
<1>6. InOrderBatch'
  BY <1>1 DEF MuxInv, InOrderBatch
<1> QED BY <1>3, <1>5, <1>6 DEF MuxInv

(* Another thread posts work.                                              *)
LEMMA PostKeeps == MuxInv /\ (broker_enqueue \/ stop_middleman) => MuxInv'
<1> SUFFICES ASSUME MuxInv, broker_enqueue \/ stop_middleman PROVE MuxInv'
  OBVIOUS
<1>1. UNCHANGED <<received, arrived, peer, out, produced, s, doorman, held, bf, events, shadow,
                  ready, chunk>>
  BY DEF broker_enqueue, stop_middleman, muxLoopVars, netVars
<1>2. pipe' \in Seq(Runnables) /\ pipe' # <<>>
  <2>1. PICK r \in Runnables : pipe' = Append(pipe, r)
    BY DEF broker_enqueue, stop_middleman, Runnables
  <2>2. pipe \in Seq(Runnables)
    BY DEF MuxInv, MuxTypes
  <2> QED BY <2>1, <2>2, AppendProperties
<1>3. /\ InOrderStream(s, events)' /\ InOrderDoorman(events)' /\ WritesInOrder' /\ ShadowCounts'
      /\ MuxTypes'
  <2>1. ready' \in Seq(Fds \X Ops) /\ arrived' \in Nat
    BY <1>1 DEF MuxInv, MuxTypes
  <2> QED BY <1>1, <1>2, <2>1, StreamSame
<1>4. InOrderBytes'
  BY <1>1 DEF MuxInv, InOrderBytes, Threshold, Size
<1>5. InOrderBatch'
  BY <1>1, <1>2 DEF MuxInv, InOrderBatch
<1> QED BY <1>3, <1>4, <1>5 DEF MuxInv

-----------------------------------------------------------------------------
(* There are finitely many sockets and events.                             *)
LEMMA FewEvents == IsFiniteSet(Fds) /\ IsFiniteSet(Fds \X Ops)
<1>1. IsFiniteSet({"pipe"}) /\ IsFiniteSet({"read"})
  BY FS_Singleton
<1>2. IsFiniteSet({"pipe"} \cup {"doorman"}) /\ IsFiniteSet({"read"} \cup {"write"})
  BY <1>1, FS_AddElement
<1>3. IsFiniteSet({"pipe"} \cup {"doorman"} \cup {"stream"})
  BY <1>2, FS_AddElement
<1>4. Fds = {"pipe"} \cup {"doorman"} \cup {"stream"} /\ Ops = {"read"} \cup {"write"}
  BY DEF Fds, Ops
<1>5. IsFiniteSet(Fds) /\ IsFiniteSet(Ops)
  BY <1>2, <1>3, <1>4
<1> QED BY <1>5, FS_Product

(* epoll_wait reports every event once, and only what is watched.          *)
LEMMA WaitKeeps == MuxInv /\ Wait => MuxInv'
<1> SUFFICES ASSUME MuxInv, Wait PROVE MuxInv'
  OBVIOUS
<1>1. UNCHANGED <<received, arrived, peer, out, produced, s, doorman, held, bf, events, shadow,
                  pipe, chunk>>
  BY DEF Wait, netVars
<1>2. ready' \in Seq(Fds \X Ops) /\ InOrderBatch'
  <2>1. CASE UNCHANGED ready
    BY <1>1, <2>1 DEF MuxInv, MuxTypes, InOrderBatch
  <2>2. CASE ready' \in Batches
    <3> DEFINE n == Cardinality(Ready)
    <3>1. Ready \in SUBSET (Fds \X Ops)
      BY DEF Ready, Ops
    <3>2. n \in Nat
      BY <3>1, FewEvents, FS_Subset, FS_CardinalityType
    <3>3. ready' \in [1 .. n -> Ready] /\ \A i, j \in 1 .. n : i # j => ready'[i] # ready'[j]
      BY <2>2 DEF Batches, SetToSeqs
    <3> HIDE DEF n
    <3>4. ready' \in [1 .. n -> Fds \X Ops] /\ DOMAIN ready' = 1 .. n
      BY <3>1, <3>3
    <3>5. ready' \in Seq(Fds \X Ops)
      <4>1. [1 .. n -> Fds \X Ops] \in {[1 .. m -> Fds \X Ops] : m \in Nat}
        BY <3>2
      <4>2. ready' \in UNION {[1 .. m -> Fds \X Ops] : m \in Nat}
        BY <3>4, <4>1
      <4> QED BY <4>2, SeqDef
    <3>6. \A e \in Ready : e[2] \in bf[e[1]] /\ (e[1] = "pipe" /\ e[2] = "read" => pipe # <<>>)
      BY DEF Ready, Input
    <3>7. \A i \in DOMAIN ready' : ready'[i] \in Ready
      BY <3>3, <3>4
    <3>8. InOrderBatch'
      BY <1>1, <3>3, <3>4, <3>6, <3>7 DEF InOrderBatch
    <3> QED BY <3>5, <3>8
  <2> QED BY <2>1, <2>2 DEF Wait
<1>3. /\ InOrderStream(s, events)' /\ InOrderDoorman(events)' /\ WritesInOrder' /\ ShadowCounts'
      /\ MuxTypes'
  <2>1. pipe' \in Seq(Runnables) /\ arrived' \in Nat
    BY <1>1 DEF MuxInv, MuxTypes
  <2> QED BY <1>1, <1>2, <2>1, StreamSame
<1>4. InOrderBytes'
  BY <1>1 DEF MuxInv, InOrderBytes, Threshold, Size
<1> QED BY <1>2, <1>3, <1>4 DEF MuxInv

(* The sockets that are watched after a batch, counted as handle() does.   *)
LEMMA ShadowFollows ==
  ASSUME MuxInv, bf' = [fd \in Fds |-> IF events[fd] = None THEN bf[fd] ELSE events[fd]],
         shadow' = Shadow
  PROVE  ShadowCounts'
<1> DEFINE N == {fd \in Fds : bf[fd] # {}}
           A == {fd \in Fds : events[fd] # None /\ bf[fd] = {}}
           B == {fd \in Fds : events[fd] = {}}
           M == {fd \in Fds : bf'[fd] # {}}
<1>1. IsFiniteSet(N) /\ IsFiniteSet(A) /\ IsFiniteSet(B)
  <2>1. N \in SUBSET Fds /\ A \in SUBSET Fds /\ B \in SUBSET Fds
    OBVIOUS
  <2> QED BY <2>1, FewEvents, FS_Subset
<1>2. None # {}
  BY DEF None
<1>3. N \cap A = {} /\ (N \cup A) \cap B = B
  BY <1>2
<1>4. M = (N \cup A) \ B
  <2>1. \A fd \in Fds : bf'[fd] = IF events[fd] = None THEN bf[fd] ELSE events[fd]
    OBVIOUS
  <2>2. \A fd \in Fds : fd \in M <=> fd \in (N \cup A) \ B
    BY <1>2, <2>1
  <2> QED BY <2>2
<1> HIDE DEF N, A, B, M
<1>5. /\ IsFiniteSet(N \cup A)
      /\ Cardinality(N \cup A) = Cardinality(N) + Cardinality(A) - Cardinality(N \cap A)
  BY <1>1, FS_Union
<1>6. Cardinality(M) = Cardinality(N \cup A) - Cardinality((N \cup A) \cap B)
  <2>1. Cardinality((N \cup A) \ B) = Cardinality(N \cup A) - Cardinality((N \cup A) \cap B)
    BY <1>5, FS_Difference
  <2> QED BY <1>4, <2>1
<1>7. Cardinality(N \cap A) = 0 /\ Cardinality((N \cup A) \cap B) = Cardinality(B)
  BY <1>3, FS_EmptySet
<1>8. Cardinality(N) \in Nat /\ Cardinality(A) \in Nat /\ Cardinality(B) \in Nat
  BY <1>1, FS_CardinalityType
<1>9. shadow = Cardinality(N) /\ shadow' = shadow + Cardinality(A) - Cardinality(B)
  BY DEF MuxInv, ShadowCounts, Shadow, N, A, B
<1>10. shadow' = Cardinality(M)
  BY <1>5, <1>6, <1>7, <1>8, <1>9, SMT, Z3
<1> QED BY <1>10 DEF ShadowCounts, M

(* handle() makes the pending masks those of epoll, and a manager goes     *)
(* only with the operation it stands for.                                  *)
LEMMA EndBatchKeeps == MuxInv /\ EndBatch => MuxInv'
<1> SUFFICES ASSUME MuxInv, EndBatch PROVE MuxInv'
  OBVIOUS
<1> DEFINE gone(fd, op) == events[fd] # None /\ op \in bf[fd] \ events[fd]
<1>1. /\ UNCHANGED <<received, arrived, peer, out, produced, doorman, pipe, chunk, ready>>
      /\ ready = <<>> /\ events' = [fd \in Fds |-> None] /\ shadow' = Shadow
      /\ bf' = [fd \in Fds |-> IF events[fd] = None THEN bf[fd] ELSE events[fd]]
      /\ s' = [s EXCEPT !.reader = @ /\ ~gone("stream", "read"),
                        !.writer = @ /\ ~gone("stream", "write")]
      /\ held' = (held /\ ~gone("doorman", "read"))
  BY DEF EndBatch, netVars
<1>f. "stream" \in Fds /\ "doorman" \in Fds
  BY DEF Fds
<1>t. bf \in [Fds -> SUBSET Ops] /\ events \in EventMap /\ s \in StreamSet
  BY DEF MuxInv, MuxTypes
<1>2. \A fd \in Fds : Mask(events, fd)' = Mask(events, fd) /\ bf'[fd] = Mask(events, fd)
  BY <1>1 DEF Mask
<1>3. bf' \in [Fds -> SUBSET Ops] /\ events' \in EventMap
  <2>1. \A fd \in Fds : Mask(events, fd) \in SUBSET Ops
    BY <1>t, MaskType
  <2>2. bf' = [fd \in Fds |-> Mask(events, fd)]
    BY <1>1 DEF Mask
  <2> QED BY <1>1, <2>1, <2>2 DEF EventMap
<1>4. s' \in StreamSet
  BY <1>1, <1>t DEF StreamSet
<1>5. /\ s'.reader = (s.reader /\ ~gone("stream", "read"))
      /\ s'.writer = (s.writer /\ ~gone("stream", "write"))
      /\ s'.writing = s.writing /\ s'.wr = s.wr /\ s'.off = s.off /\ s'.got = s.got
  BY <1>1, <1>t DEF StreamSet
<1>6. \A fd \in Fds, op \in Ops : op \in Mask(events, fd) => ~gone(fd, op)
  BY DEF Mask
<1>7. InOrderStream(s, events)'
  <2>1. "read" \in Ops /\ "write" \in Ops
    BY DEF Ops
  <2>2. "read" \in Mask(events, "stream") => s'.reader
    BY <1>5, <1>6, <1>f, <2>1 DEF MuxInv, InOrderStream
  <2>3. "write" \in Mask(events, "stream") => s'.writer
    BY <1>5, <1>6, <1>f, <2>1 DEF MuxInv, InOrderStream
  <2>4. ~s'.writing => s'.wr = <<>>
    BY <1>5 DEF MuxInv, InOrderStream
  <2> QED BY <1>2, <1>f, <2>2, <2>3, <2>4 DEF InOrderStream
<1>8. InOrderDoorman(events)'
  <2>1. \A op \in Mask(events, "doorman") : op = "read" /\ held
    BY DEF MuxInv, InOrderDoorman
  <2>2. "read" \in Mask(events, "doorman") => ~gone("doorman", "read")
    BY <1>6, <1>f DEF Ops
  <2>3. \A op \in Mask(events, "doorman") : op = "read" /\ held'
    BY <1>1, <2>1, <2>2
  <2> QED BY <1>2, <1>f, <2>3 DEF InOrderDoorman
<1>9. InOrderBytes'
  BY <1>1, <1>5 DEF MuxInv, InOrderBytes, Threshold, Size
<1>10. InOrderBatch'
  <2>1. ready' = <<>>
    BY <1>1
  <2>2. DOMAIN ready' = {}
    BY <2>1, SMT, Z3
  <2> QED BY <2>2 DEF InOrderBatch
<1>11. WritesInOrder'
  BY <1>1, <1>5 DEF MuxInv, WritesInOrder
<1>12. ShadowCounts'
  BY <1>1, ShadowFollows
<1>13. MuxTypes'
  <2>1. held' \in BOOLEAN
    BY <1>1
  <2> QED BY <1>1, <1>3, <1>4, <2>1 DEF MuxInv, MuxTypes
<1> QED BY <1>7, <1>8, <1>9, <1>10, <1>11, <1>12, <1>13 DEF MuxInv

-----------------------------------------------------------------------------
(* What a handler leaves behind, when it ends with a stream in order.      *)
LEMMA SetKeeps ==
  ASSUME MuxInv, NEW q, Fine(q), Mask(q.ev, "doorman") \subseteq Mask(events, "doorman"), Set(q),
         UNCHANGED <<bf, held, shadow>>
  PROVE  /\ s' = q.x /\ s' \in StreamSet /\ events' \in EventMap
         /\ InOrderStream(s, events)' /\ InOrderDoorman(events)' /\ ShadowCounts'
<1>1. s' = q.x /\ events' = q.ev
  BY DEF Set
<1>2. s' \in StreamSet /\ events' \in EventMap
  BY <1>1 DEF Fine, PairSet
<1>3. InOrderStream(s, events)'
  BY <1>1 DEF Fine, InOrderStream, Mask
<1>4. InOrderDoorman(events)'
  <2>1. Mask(events, "doorman")' = Mask(q.ev, "doorman")
    BY <1>1 DEF Mask
  <2> QED BY <2>1 DEF MuxInv, InOrderDoorman
<1>5. ShadowCounts'
  BY DEF MuxInv, ShadowCounts
<1> QED BY <1>1, <1>2, <1>3, <1>4, <1>5

(* The next event of a batch is handled: it is watched, and is not there   *)
(* a second time.                                                          *)
LEMMA BatchGoesOn ==
  ASSUME MuxInv, NEW fd, NEW op, Handling(fd, op), bf' = bf,
         pipe' = pipe \/ (fd = "pipe" /\ op = "read")
  PROVE  /\ ready' \in Seq(Fds \X Ops) /\ InOrderBatch'
         /\ fd = "pipe" /\ op = "read" => pipe # <<>>
<1>1. /\ ready \in Seq(Fds \X Ops) /\ ready # <<>> /\ Head(ready) = <<fd, op>>
      /\ ready' = Tail(ready)
  BY DEF MuxInv, MuxTypes, Handling
<1>2. /\ Len(ready) \in Nat \ {0} /\ DOMAIN ready = 1 .. Len(ready)
      /\ \A i \in 1 .. Len(ready) : ready[i] \in Fds \X Ops
  BY <1>1, EmptySeq, LenProperties, ElementOfSeq
<1>3. /\ ready' \in Seq(Fds \X Ops) /\ Len(ready') = Len(ready) - 1
      /\ \A i \in 1 .. Len(ready') : ready'[i] = ready[i + 1]
  BY <1>1, HeadTailProperties
<1>4. DOMAIN ready' = 1 .. Len(ready')
  BY <1>3, LenProperties
<1>5. ready[1] = <<fd, op>> /\ 1 \in DOMAIN ready
  BY <1>1, <1>2, SMT, Z3
<1>6. \A i \in DOMAIN ready' : i + 1 \in DOMAIN ready /\ i + 1 # 1 /\ ready'[i] = ready[i + 1]
  BY <1>2, <1>3, <1>4, SMT, Z3
<1>7. \A i, j \in DOMAIN ready : ready[i] = ready[j] => i = j
  BY DEF MuxInv, InOrderBatch
<1>8. \A i, j \in DOMAIN ready' : ready'[i] = ready'[j] => i = j
  <2>1. \A i, j \in DOMAIN ready' : i + 1 = j + 1 => i = j
    BY <1>2, <1>3, <1>4, SMT, Z3
  <2> QED BY <1>6, <1>7, <2>1
<1>9. \A i \in DOMAIN ready' : ready'[i][2] \in bf'[ready'[i][1]]
  BY <1>6 DEF MuxInv, InOrderBatch
<1>10. fd = "pipe" /\ op = "read" => pipe # <<>>
  <2>1. ready[1][1] = fd /\ ready[1][2] = op
    BY <1>5, SMT, Z3
  <2> QED BY <1>5, <2>1 DEF MuxInv, InOrderBatch
<1>11. ASSUME NEW i \in DOMAIN ready', ready'[i][1] = "pipe", ready'[i][2] = "read"
       PROVE  pipe' # <<>>
  <2>1. ready[i + 1] \in Fds \X Ops
    BY <1>2, <1>6
  <2>2. ready[i + 1] = <<"pipe", "read">>
    BY <1>6, <1>11, <2>1, SMT, Z3
  <2>3. ~(fd = "pipe" /\ op = "read")
    BY <1>5, <1>6, <1>7, <2>2
  <2>4. pipe # <<>>
    BY <1>6, <1>11 DEF MuxInv, InOrderBatch
  <2> QED BY <2>3, <2>4
<1> QED BY <1>3, <1>8, <1>9, <1>10, <1>11 DEF InOrderBatch

(* The stream as it is between two handlers.                               *)
LEMMA NowFine ==
  ASSUME MuxInv
  PROVE  /\ bf \in [Fds -> SUBSET Ops] /\ Fine(Pair(s, events)) /\ s \in StreamSet
         /\ events \in EventMap /\ "stream" \in Fds /\ "doorman" \in Fds \ {"stream"}
         /\ "read" \in Ops /\ "write" \in Ops
<1>1. bf \in [Fds -> SUBSET Ops] /\ s \in StreamSet /\ events \in EventMap
  BY DEF MuxInv, MuxTypes
<1>2. Pair(s, events) \in PairSet /\ Pair(s, events).x = s /\ Pair(s, events).ev = events
  BY <1>1 DEF Pair, PairSet
<1>3. Fine(Pair(s, events))
  BY <1>2 DEF MuxInv, Fine
<1> QED BY <1>1, <1>3 DEF Fds, Ops

(* A stream that differs in what no manager depends on.                    *)
LEMMA FineToo ==
  ASSUME MuxInv, NEW x \in StreamSet, NEW ev \in EventMap, x.reader = s.reader,
         x.writer = s.writer, x.writing = s.writing, x.wr = s.wr,
         Mask(ev, "stream") = Mask(events, "stream")
  PROVE  /\ Fine(Pair(x, ev)) /\ Pair(x, ev).x = x /\ Pair(x, ev).ev = ev
<1>1. Pair(x, ev) \in PairSet /\ Pair(x, ev).x = x /\ Pair(x, ev).ev = ev
  BY DEF Pair, PairSet
<1>2. InOrderStream(x, ev)
  BY DEF MuxInv, InOrderStream
<1> QED BY <1>1, <1>2 DEF Fine

-----------------------------------------------------------------------------
(* A runnable of the pipe: a byte written to a connection comes after all  *)
(* that were written before, and closing lets go of nothing that is        *)
(* watched.                                                                *)
LEMMA RunnableKeeps == MuxInv /\ Runnable => MuxInv'
<1> SUFFICES ASSUME MuxInv, Runnable PROVE MuxInv'
  OBVIOUS
<1>1. /\ Handling("pipe", "read") /\ pipe' = Tail(pipe)
      /\ UNCHANGED <<received, arrived, peer, out, held, bf, shadow, chunk>>
  BY DEF Runnable, netVars
<1>2. ready' \in Seq(Fds \X Ops) /\ InOrderBatch' /\ pipe # <<>>
  BY <1>1, BatchGoesOn
<1>3. pipe' \in Seq(Runnables) /\ Head(pipe) \in Runnables
  BY <1>1, <1>2, HeadTailProperties DEF MuxInv, MuxTypes
<1>n. /\ bf \in [Fds -> SUBSET Ops] /\ Fine(Pair(s, events)) /\ s \in StreamSet
      /\ events \in EventMap /\ "stream" \in Fds /\ "doorman" \in Fds \ {"stream"}
      /\ "read" \in Ops /\ "write" \in Ops
  BY NowFine
<1>t. out \in Seq(Nat) /\ produced \in Nat /\ s.off \in Seq(Nat) /\ s.wr \in Seq(Nat)
  BY <1>n DEF MuxInv, MuxTypes, StreamSet
<1>4. SUFFICES \E q : /\ Fine(q) /\ Mask(q.ev, "doorman") \subseteq Mask(events, "doorman")
                       /\ Set(q) /\ q.x.got = s.got
                       /\ produced' \in Nat /\ doorman' \in {"open", "closed"}
                       /\ AllBytes(out, q.x.wr, q.x.off) = Counting(produced')
  <2>1. PICK q : /\ Fine(q) /\ Mask(q.ev, "doorman") \subseteq Mask(events, "doorman")
                 /\ Set(q) /\ q.x.got = s.got
                 /\ produced' \in Nat /\ doorman' \in {"open", "closed"}
                 /\ AllBytes(out, q.x.wr, q.x.off) = Counting(produced')
    BY <1>4
  <2>2. /\ s' = q.x /\ s' \in StreamSet /\ events' \in EventMap
        /\ InOrderStream(s, events)' /\ InOrderDoorman(events)' /\ ShadowCounts'
    BY <1>1, <2>1, SetKeeps
  <2>3. MuxTypes'
    BY <1>1, <1>2, <1>3, <2>1, <2>2 DEF MuxInv, MuxTypes
  <2>4. InOrderBytes'
    BY <1>1, <2>1, <2>2 DEF MuxInv, InOrderBytes, Threshold, Size
  <2>5. WritesInOrder'
    BY <1>1, <2>1, <2>2 DEF WritesInOrder, Counting, AllBytes
  <2> QED BY <1>2, <2>2, <2>3, <2>4, <2>5 DEF MuxInv
<1>5. doorman \in {"open", "closed"} /\ AllBytes(out, s.wr, s.off) = Counting(produced)
  BY DEF MuxInv, MuxTypes, WritesInOrder, Counting, AllBytes
<1>p. Pair(s, events).x = s /\ Pair(s, events).ev = events
  BY DEF Pair
<1>6. CASE Head(pipe) = "send" /\ s.open
  <2> DEFINE x == [s EXCEPT !.off = Append(@, produced + 1)]
             p == Pair(x, events)
             q == flush(p)
  <2>1. produced' = produced + 1 /\ UNCHANGED doorman /\ Set(q)
    BY <1>6 DEF Runnable
  <2>2. produced + 1 \in Nat /\ Append(s.off, produced + 1) \in Seq(Nat)
    BY <1>t, SMT, Z3
  <2>3. x \in StreamSet
    BY <1>n, <2>2 DEF StreamSet
  <2>4. /\ x.reader = s.reader /\ x.writer = s.writer /\ x.writing = s.writing /\ x.wr = s.wr
        /\ x.off = Append(s.off, produced + 1) /\ x.got = s.got
    BY <1>n DEF StreamSet
  <2> HIDE DEF x
  <2>5. Fine(p) /\ p.x = x /\ p.ev = events
    BY <1>n, <2>3, <2>4, FineToo
  <2> HIDE DEF p
  <2>6. Fine(q) /\ OthersSame(p, q) /\ Moved(p, q) /\ Unread(p, q)
    BY <1>n, <2>5, FlushFine
  <2> HIDE DEF q
  <2>7. Mask(q.ev, "doorman") = Mask(events, "doorman") /\ q.x.got = s.got
    BY <1>n, <2>4, <2>5, <2>6 DEF OthersSame, Unread
  <2>8. AllBytes(out, x.wr, x.off) = Counting(produced + 1)
    <3>1. AllBytes(out, s.wr, Append(s.off, produced + 1)) = Counting(produced + 1)
      BY <1>5, <1>t, WrittenLast
    <3> QED BY <2>4, <3>1
  <2>9. AllBytes(out, q.x.wr, q.x.off) = AllBytes(out, p.x.wr, p.x.off)
    BY <1>t, <2>5, <2>6, MovedKeeps DEF Fine
  <2> QED BY <1>5, <2>1, <2>2, <2>5, <2>6, <2>7, <2>8, <2>9
<1>8. CASE Head(pipe) = "close_all" \/ (Head(pipe) = "send" /\ ~s.open)
  <2> DEFINE ev == del("read", events, "doorman")
             p == Pair(s, ev)
             q == IF s.open THEN stop_reading(p) ELSE p
  <2>1. doorman' = "closed" /\ produced' = produced /\ Set(q)
    BY <1>8 DEF Runnable
  <2>2. /\ ev \in EventMap /\ Mask(ev, "doorman") = Mask(events, "doorman") \ {"read"}
        /\ Mask(ev, "stream") = Mask(events, "stream")
    <3>1. "doorman" \in Fds /\ "stream" \in Fds \ {"doorman"}
      BY <1>n
    <3> QED BY <1>n, <3>1, MaskChanged, SMT, Z3
  <2> HIDE DEF ev
  <2>3. Fine(p) /\ p.x = s /\ p.ev = ev
    BY <1>n, <2>2, FineToo
  <2> HIDE DEF p
  <2>4. /\ Fine(q) /\ Mask(q.ev, "doorman") = Mask(ev, "doorman")
        /\ q.x.got = s.got /\ q.x.wr = s.wr /\ q.x.off = s.off
    <3>1. CASE s.open
      <4>1. /\ Fine(stop_reading(p)) /\ OthersSame(p, stop_reading(p)) /\ Unread(p, stop_reading(p))
            /\ stop_reading(p).x.wr = p.x.wr /\ stop_reading(p).x.off = p.x.off
        BY <1>n, <2>3, ClosingFine
      <4> QED BY <1>n, <2>3, <3>1, <4>1 DEF OthersSame, Unread
    <3>2. CASE ~s.open
      BY <2>3, <3>2
    <3> QED BY <3>1, <3>2
  <2> HIDE DEF q
  <2> QED BY <1>5, <1>t, <2>1, <2>2, <2>4
<1>9. CASE Head(pipe) = "close_pipe"
  <2> DEFINE ev == del("read", events, "pipe")
             q == Pair(s, ev)
  <2>1. events' = ev /\ UNCHANGED <<produced, doorman, s>>
    BY <1>9 DEF Runnable
  <2>2. /\ ev \in EventMap /\ Mask(ev, "doorman") = Mask(events, "doorman")
        /\ Mask(ev, "stream") = Mask(events, "stream")
    <3>1. "pipe" \in Fds /\ "stream" \in Fds \ {"pipe"} /\ "doorman" \in Fds \ {"pipe"}
      BY DEF Fds
    <3> QED BY <1>n, <3>1, MaskChanged, SMT, Z3
  <2> HIDE DEF ev
  <2>3. Fine(q) /\ q.x = s /\ q.ev = ev
    BY <1>n, <2>2, FineToo
  <2> HIDE DEF q
  <2>4. Set(q)
    BY <2>1, <2>3 DEF Set
  <2> QED BY <1>5, <1>t, <2>1, <2>2, <2>3, <2>4
<1> QED BY <1>3, <1>6, <1>8, <1>9 DEF Runnables

-----------------------------------------------------------------------------
ChunkSet == [policy : PolicySet, before : Nat, bytes : Seq(Nat)]

(* What the handlers of the doorman and the stream have in common.         *)
LEMMA HandlerKeeps ==
  ASSUME MuxInv, NEW fd, NEW op, Handling(fd, op), UNCHANGED <<held, bf, shadow, pipe>>,
         doorman' \in {"open", "closed"},
         received' \in Nat, arrived' \in Nat, produced' \in Nat, out' \in Seq(Nat),
         chunk' \in ChunkSet, NEW q, Fine(q), Set(q),
         Mask(q.ev, "doorman") \subseteq Mask(events, "doorman"),
         AllBytes(out', q.x.wr, q.x.off) = Counting(produced'), s' = q.x => InOrderBytes'
  PROVE  MuxInv'
<1>1. ready' \in Seq(Fds \X Ops) /\ InOrderBatch'
  BY BatchGoesOn
<1>2. /\ s' = q.x /\ s' \in StreamSet /\ events' \in EventMap
      /\ InOrderStream(s, events)' /\ InOrderDoorman(events)' /\ ShadowCounts'
  BY SetKeeps
<1>3. MuxTypes'
  BY <1>1, <1>2 DEF MuxInv, MuxTypes, ChunkSet
<1>4. WritesInOrder'
  BY <1>2 DEF WritesInOrder, AllBytes, Counting
<1> QED BY <1>1, <1>2, <1>3, <1>4 DEF MuxInv

(* The same of a handler that leaves the doorman alone.                    *)
LEMMA StreamKeeps ==
  ASSUME MuxInv, NEW fd, NEW op, Handling(fd, op), UNCHANGED <<doorman, held, bf, shadow, pipe>>,
         received' \in Nat, arrived' \in Nat, produced' \in Nat, out' \in Seq(Nat),
         chunk' \in ChunkSet, NEW q, Fine(q), OthersSame(Pair(s, events), q), Set(q),
         AllBytes(out', q.x.wr, q.x.off) = Counting(produced'), s' = q.x => InOrderBytes'
  PROVE  MuxInv'
<1>1. Mask(q.ev, "doorman") = Mask(events, "doorman")
  BY NowFine DEF OthersSame, Pair
<1>2. doorman' \in {"open", "closed"}
  BY DEF MuxInv, MuxTypes
<1> QED BY <1>1, <1>2, HandlerKeeps

(* What MuxInv says of the values that the handlers read.                  *)
LEMMA NowTyped ==
  ASSUME MuxInv
  PROVE  /\ received \in Nat /\ arrived \in Nat /\ produced \in Nat /\ out \in Seq(Nat)
         /\ chunk \in ChunkSet /\ chunk.before \in Nat /\ chunk.bytes \in Seq(Nat)
         /\ s.wr \in Seq(Nat) /\ s.off \in Seq(Nat) /\ s.got \in Seq(Nat)
         /\ s.reading \in PolicySet /\ s.policy \in PolicySet
         /\ AllBytes(out, s.wr, s.off) = Counting(produced)
<1>1. s \in StreamSet /\ chunk \in ChunkSet
  BY DEF MuxInv, MuxTypes, ChunkSet
<1>2. /\ s.wr \in Seq(Nat) /\ s.off \in Seq(Nat) /\ s.got \in Seq(Nat)
      /\ s.reading \in PolicySet /\ s.policy \in PolicySet
  BY <1>1 DEF StreamSet
<1>3. chunk.before \in Nat /\ chunk.bytes \in Seq(Nat)
  BY <1>1 DEF ChunkSet
<1> QED BY <1>1, <1>2, <1>3 DEF MuxInv, MuxTypes, WritesInOrder, AllBytes, Counting

(* A connection is accepted before a byte of it arrived.                   *)
LEMMA ConnectionKeeps == MuxInv /\ new_connection => MuxInv'
<1> SUFFICES ASSUME MuxInv, new_connection PROVE MuxInv'
  OBVIOUS
<1>1. /\ Handling("doorman", "read")
      /\ UNCHANGED <<arrived, received, out, produced, doorman, held, bf, shadow, pipe, chunk>>
  BY DEF new_connection
<1>2. /\ received' \in Nat /\ arrived' \in Nat /\ produced' \in Nat /\ out' \in Seq(Nat)
      /\ chunk' \in ChunkSet
  BY <1>1, NowTyped
<1>n. /\ bf \in [Fds -> SUBSET Ops] /\ Fine(Pair(s, events)) /\ s \in StreamSet
      /\ events \in EventMap
  BY NowFine
<1>p. Pair(s, events).x = s /\ Pair(s, events).ev = events
  BY DEF Pair
<1>3. CASE held /\ peer = "waiting" /\ doorman = "open"
  <2>1. PICK p \in Policies :
          Set(launch(Pair([s EXCEPT !.open = TRUE, !.policy = p], events))) /\ peer' = "there"
    BY <1>3 DEF new_connection
  <2> DEFINE x == [s EXCEPT !.open = TRUE, !.policy = p]
             a == Pair(x, events)
             q == launch(a)
  <2>2. p \in PolicySet
    BY MuxConstants DEF PolicySet
  <2>3. x \in StreamSet
    BY <1>n, <2>2 DEF StreamSet
  <2>4. /\ x.reader = s.reader /\ x.writer = s.writer /\ x.writing = s.writing /\ x.wr = s.wr
        /\ x.off = s.off
    BY <1>n DEF StreamSet
  <2>5. Set(q)
    BY <2>1
  <2> HIDE DEF x
  <2>6. Fine(a) /\ a.x = x /\ a.ev = events
    BY <1>n, <2>3, <2>4, FineToo
  <2> HIDE DEF a
  <2>7. /\ Fine(q) /\ OthersSame(a, q) /\ q.x.got = <<>> /\ q.x.wr = a.x.wr /\ q.x.off = a.x.off
    BY <1>n, <2>6, LaunchFine
  <2> HIDE DEF q
  <2>8. OthersSame(Pair(s, events), q)
    BY <1>p, <2>6, <2>7 DEF OthersSame
  <2>9. AllBytes(out', q.x.wr, q.x.off) = Counting(produced')
    BY <1>1, <2>4, <2>6, <2>7, NowTyped
  <2>10. chunk.bytes = <<>> /\ chunk.before = 0 /\ received = 0 /\ received <= arrived
    BY <1>3, NowTyped, SMT, Z3 DEF MuxInv, InOrderBytes
  <2>11. s' = q.x => InOrderBytes'
    <3> SUFFICES ASSUME s' = q.x PROVE InOrderBytes'
      OBVIOUS
    <3>1. s'.got = <<>> /\ chunk'.bytes = <<>> /\ chunk'.before = 0 /\ received' = 0
          /\ received' <= arrived' /\ peer' = "there"
      BY <1>1, <2>1, <2>7, <2>10
    <3> QED BY <3>1, SMT, Z3 DEF InOrderBytes
  <2> QED BY <1>1, <1>2, <2>5, <2>7, <2>8, <2>9, <2>11, StreamKeeps
<1>4. CASE ~(held /\ peer = "waiting" /\ doorman = "open")
  <2>1. UNCHANGED <<peer, s, events>>
    BY <1>4 DEF new_connection
  <2>2. Set(Pair(s, events)) /\ OthersSame(Pair(s, events), Pair(s, events))
    BY <1>p, <2>1 DEF Set, OthersSame
  <2>3. InOrderBytes'
    BY <1>1, <2>1 DEF MuxInv, InOrderBytes, Threshold, Size
  <2>4. AllBytes(out', Pair(s, events).x.wr, Pair(s, events).x.off) = Counting(produced')
    BY <1>1, <1>p, NowTyped
  <2> QED BY <1>1, <1>2, <1>n, <2>2, <2>3, <2>4, StreamKeeps
<1> QED BY <1>3, <1>4

(* The kernel takes a part of the online buffer, or the connection is      *)
(* reset.                                                                  *)
LEMMA WriteKeeps == MuxInv /\ WriteEvent => MuxInv'
<1> SUFFICES ASSUME MuxInv, WriteEvent PROVE MuxInv'
  OBVIOUS
<1>1. /\ Handling("stream", "write")
      /\ UNCHANGED <<arrived, peer, received, produced, doorman, held, bf, shadow, pipe, chunk>>
  BY DEF WriteEvent, netVars
<1>2. received' \in Nat /\ arrived' \in Nat /\ produced' \in Nat /\ chunk' \in ChunkSet
  BY <1>1, NowTyped
<1>n. /\ bf \in [Fds -> SUBSET Ops] /\ Fine(Pair(s, events)) /\ s \in StreamSet
      /\ events \in EventMap /\ "write" \in Ops
  BY NowFine
<1>p. Pair(s, events).x = s /\ Pair(s, events).ev = events
  BY DEF Pair
<1>t. /\ out \in Seq(Nat) /\ s.wr \in Seq(Nat) /\ s.off \in Seq(Nat)
      /\ AllBytes(out, s.wr, s.off) = Counting(produced)
  BY NowTyped
<1>b. s'.got = s.got => InOrderBytes'
  BY <1>1 DEF MuxInv, InOrderBytes, Threshold, Size
<1>3. CASE peer = "reset" /\ Set(io_failure(Pair(s, events), "write")) /\ UNCHANGED out
  <2> DEFINE q == io_failure(Pair(s, events), "write")
  <2>1. /\ Fine(q) /\ OthersSame(Pair(s, events), q) /\ Unread(Pair(s, events), q)
        /\ q.x.wr = Pair(s, events).x.wr /\ q.x.off = Pair(s, events).x.off
    BY <1>n, ClosingFine
  <2>2. Set(q) /\ out' = out
    BY <1>3
  <2> HIDE DEF q
  <2>3. AllBytes(out', q.x.wr, q.x.off) = Counting(produced') /\ q.x.got = s.got
    BY <1>1, <1>p, <1>t, <2>1, <2>2 DEF Unread
  <2> QED BY <1>1, <1>2, <1>b, <1>t, <2>1, <2>2, <2>3, StreamKeeps
<1>4. ASSUME NEW n \in 1 .. Len(s.wr),
             LET p == Pair([s EXCEPT !.wr = SubSeq(@, n + 1, Len(@))], events)
             IN out' = out \o SubSeq(s.wr, 1, n) /\ Set(IF n = Len(s.wr) THEN write_loop(p) ELSE p)
      PROVE  MuxInv'
  <2> DEFINE h == SubSeq(s.wr, 1, n)
             r == SubSeq(s.wr, n + 1, Len(s.wr))
             x == [s EXCEPT !.wr = r]
             p == Pair(x, events)
             q == IF n = Len(s.wr) THEN write_loop(p) ELSE p
  <2>1. out' = out \o h /\ Set(q)
    BY <1>4
  <2>2. /\ out \o h \in Seq(Nat) /\ r \in Seq(Nat) /\ (out \o h) \o r = out \o s.wr
        /\ n = Len(s.wr) => r = <<>>
    BY <1>t, SentFirst
  <2> HIDE DEF h, r
  <2>3. x \in StreamSet
    BY <1>n, <2>2 DEF StreamSet
  <2>4. /\ x.reader = s.reader /\ x.writer = s.writer /\ x.writing = s.writing /\ x.wr = r
        /\ x.off = s.off /\ x.got = s.got
    BY <1>n DEF StreamSet
  <2> HIDE DEF x
  <2>5. s.writing
    <3>1. s.wr # <<>>
      BY <1>4, <1>t, SMT, Z3
    <3> QED BY <3>1 DEF MuxInv, InOrderStream
  <2>6. p.x = x /\ p.ev = events /\ p \in PairSet
    BY <1>n, <2>3 DEF Pair, PairSet
  <2> HIDE DEF p
  <2>7. Fine(p)
    BY <2>4, <2>5, <2>6 DEF MuxInv, InOrderStream, Fine
  <2>8. /\ Fine(q) /\ OthersSame(p, q) /\ Moved(p, q) /\ Unread(p, q)
    <3>1. CASE n = Len(s.wr)
      BY <1>n, <2>2, <2>4, <2>5, <2>6, <2>7, <3>1, WriteLoopFine
    <3>2. CASE n # Len(s.wr)
      BY <2>7, <3>2 DEF OthersSame, Moved, Unread
    <3> QED BY <3>1, <3>2
  <2> HIDE DEF q
  <2>9. AllBytes(out', p.x.wr, p.x.off) = Counting(produced')
    BY <1>1, <1>t, <2>1, <2>2, <2>4, <2>6 DEF AllBytes
  <2>10. AllBytes(out', q.x.wr, q.x.off) = AllBytes(out', p.x.wr, p.x.off) /\ out' \in Seq(Nat)
    BY <2>1, <2>2, <2>7, <2>8, MovedKeeps DEF Fine
  <2>11. OthersSame(Pair(s, events), q) /\ q.x.got = s.got
    BY <1>p, <2>4, <2>6, <2>8 DEF OthersSame, Unread
  <2> QED BY <1>1, <1>2, <1>b, <2>1, <2>8, <2>9, <2>10, <2>11, StreamKeeps
<1> QED BY <1>3, <1>4 DEF WriteEvent

(* What consume makes of the stream, whatever the broker's handler does.   *)
LEMMA ConsumedFine ==
  ASSUME MuxInv, NEW p, Fine(p), AllBytes(out, p.x.wr, p.x.off) = Counting(produced),
         NEW policy \in PolicySet, NEW n \in {produced, produced + 1}, NEW close \in BOOLEAN
  PROVE  LET q == Consumed(p, policy, n, close)
         IN /\ Fine(q) /\ OthersSame(p, q) /\ q.x.got = <<>>
            /\ AllBytes(out, q.x.wr, q.x.off) = Counting(n)
<1>n. bf \in [Fds -> SUBSET Ops] /\ "read" \in Ops
  BY NowFine
<1>t. out \in Seq(Nat) /\ produced \in Nat
  BY NowTyped
<1>0. p \in PairSet /\ p.x.off \in Seq(Nat) /\ p.x.wr \in Seq(Nat)
  BY DEF Fine, PairSet, StreamSet
<1> DEFINE f == IF n > produced THEN Append(p.x.off, n) ELSE p.x.off
           a == [p EXCEPT !.x.policy = policy, !.x.off = f]
           b == IF close THEN stop_reading(a) ELSE a
<1>1. Consumed(p, policy, n, close) = read_loop(flush(b))
  BY DEF Consumed
<1>2. f \in Seq(Nat) /\ AllBytes(out, p.x.wr, f) = Counting(n)
  <2>1. CASE n = produced
    <3>1. ~(n > produced)
      BY <1>t, <2>1, SMT, Z3
    <3> QED BY <1>0, <2>1, <3>1
  <2>2. CASE n = produced + 1
    <3>1. n > produced /\ n \in Nat
      BY <1>t, <2>2, SMT, Z3
    <3>2. AllBytes(out, p.x.wr, Append(p.x.off, produced + 1)) = Counting(produced + 1)
      BY <1>0, <1>t, WrittenLast
    <3>3. Append(p.x.off, n) \in Seq(Nat)
      BY <1>0, <3>1, AppendProperties
    <3> QED BY <2>2, <3>1, <3>2, <3>3
  <2> QED BY <2>1, <2>2
<1> HIDE DEF f
<1>3. a \in PairSet
  BY <1>0, <1>2 DEF PairSet, StreamSet
<1>4. /\ a.ev = p.ev /\ a.x.reader = p.x.reader /\ a.x.writer = p.x.writer
      /\ a.x.writing = p.x.writing /\ a.x.wr = p.x.wr /\ a.x.off = f
  BY <1>0 DEF PairSet, StreamSet
<1> HIDE DEF a
<1>5. Fine(a) /\ OthersSame(p, a)
  BY <1>3, <1>4 DEF Fine, InOrderStream, OthersSame
<1>6. /\ Fine(b) /\ OthersSame(a, b) /\ b.x.wr = a.x.wr /\ b.x.off = a.x.off
  <2>1. CASE close
    BY <1>5, <1>n, <2>1, ClosingFine
  <2>2. CASE ~close
    BY <1>5, <2>2 DEF OthersSame
  <2> QED BY <2>1, <2>2
<1> HIDE DEF b
<1> DEFINE c == flush(b)
           q == read_loop(c)
<1>7. Fine(c) /\ OthersSame(b, c) /\ Moved(b, c)
  BY <1>6, <1>n, FlushFine
<1>8. AllBytes(out, c.x.wr, c.x.off) = Counting(n)
  <2>1. AllBytes(out, c.x.wr, c.x.off) = AllBytes(out, b.x.wr, b.x.off)
    BY <1>6, <1>7, <1>t, MovedKeeps DEF Fine
  <2> QED BY <1>2, <1>4, <1>6, <2>1
<1> HIDE DEF c
<1>9. /\ Fine(q) /\ OthersSame(c, q) /\ q.x.got = <<>> /\ q.x.wr = c.x.wr /\ q.x.off = c.x.off
  BY <1>7, <1>n, ReadLoopFine
<1> HIDE DEF q
<1>10. OthersSame(p, q)
  BY <1>5, <1>6, <1>7, <1>9 DEF OthersSame
<1>11. Consumed(p, policy, n, close) = q
  BY <1>1 DEF q, c
<1> QED BY <1>8, <1>9, <1>10, <1>11

(* What recv returns continues what was collected.                         *)
LEMMA GotMore ==
  ASSUME MuxInv, NEW n \in 1 .. (Size(s.reading) - Len(s.got))
  PROVE  LET got == s.got \o [i \in 1 .. n |-> received + i]
             base == chunk.before + Len(chunk.bytes)
         IN /\ got \in Seq(Nat) /\ got # <<>> /\ Len(got) <= Size(s.reading)
            /\ received + n = base + Len(got) /\ received + n \in Nat /\ base \in Nat
            /\ \A i \in 1 .. Len(got) : got[i] = base + i
<1>t. /\ received \in Nat /\ s.got \in Seq(Nat) /\ chunk.before \in Nat
      /\ chunk.bytes \in Seq(Nat) /\ s.reading \in PolicySet
  BY NowTyped
<1>1. Size(s.reading) \in Nat
  BY <1>t, MuxConstants, SMT, Z3 DEF Size, PolicySet
<1>2. Len(s.got) \in Nat /\ Len(chunk.bytes) \in Nat
  BY <1>t, LenProperties
<1>3. n \in Nat \ {0} /\ Len(s.got) + n <= Size(s.reading)
  BY <1>1, <1>2, SMT, Z3
<1> DEFINE new == [i \in 1 .. n |-> received + i]
           got == s.got \o new
           base == chunk.before + Len(chunk.bytes)
<1>4. new \in Seq(Nat) /\ Len(new) = n /\ \A i \in 1 .. n : new[i] = received + i
  BY <1>3, <1>t, SMT, Z3
<1> HIDE DEF new
<1>5. /\ got \in Seq(Nat) /\ Len(got) = Len(s.got) + n
      /\ \A i \in 1 .. Len(s.got) + n :
           got[i] = IF i <= Len(s.got) THEN s.got[i] ELSE new[i - Len(s.got)]
  BY <1>4, <1>t, ConcatProperties
<1> HIDE DEF got
<1>6. received = base + Len(s.got) /\ \A i \in 1 .. Len(s.got) : s.got[i] = base + i
  BY DEF MuxInv, InOrderBytes
<1>7. base \in Nat
  BY <1>2, <1>t, SMT, Z3
<1> HIDE DEF base
<1>8. \A i \in 1 .. Len(got) : got[i] = base + i
  <2> SUFFICES ASSUME NEW i \in 1 .. Len(got) PROVE got[i] = base + i
    OBVIOUS
  <2>1. CASE i <= Len(s.got)
    <3>1. i \in 1 .. Len(s.got) /\ i \in 1 .. Len(s.got) + n
      BY <1>2, <1>3, <1>5, <2>1, SMT, Z3
    <3> QED BY <1>5, <1>6, <2>1, <3>1
  <2>2. CASE ~(i <= Len(s.got))
    <3>1. i - Len(s.got) \in 1 .. n /\ i \in 1 .. Len(s.got) + n
      BY <1>2, <1>3, <1>5, <2>2, SMT, Z3
    <3>2. got[i] = received + (i - Len(s.got))
      BY <1>4, <1>5, <2>2, <3>1
    <3>3. i \in Nat
      BY <1>2, <1>3, <3>1, SMT, Z3
    <3>4. \A b, l, r \in Nat : r = b + l => r + (i - l) = b + i
      BY <3>3, SMT, Z3
    <3> QED BY <1>2, <1>6, <1>7, <1>t, <3>2, <3>4
  <2> QED BY <2>1, <2>2
<1>9. received + n = base + Len(got) /\ received + n \in Nat /\ Len(got) <= Size(s.reading)
  BY <1>1, <1>2, <1>3, <1>5, <1>6, <1>7, <1>t, SMT, Z3
<1>10. got # <<>>
  BY <1>2, <1>3, <1>5, SMT, Z3
<1> QED BY <1>5, <1>7, <1>8, <1>9, <1>10 DEF got, base, new

(* The last byte of the last chunk is the number of those consumed so far. *)
LEMMA LastConsumed ==
  ASSUME MuxInv
  PROVE  (IF chunk.bytes = <<>> THEN 0 ELSE Last(chunk.bytes)) = chunk.before + Len(chunk.bytes)
<1>t. chunk.before \in Nat /\ chunk.bytes \in Seq(Nat)
  BY NowTyped
<1>1. CASE chunk.bytes = <<>>
  <2>1. chunk.before = 0 /\ Len(chunk.bytes) = 0
    BY <1>1, EmptySeq DEF MuxInv, InOrderBytes
  <2> QED BY <1>1, <2>1, SMT, Z3
<1>2. CASE chunk.bytes # <<>>
  <2>1. Len(chunk.bytes) \in 1 .. Len(chunk.bytes)
    BY <1>2, <1>t, SMT, Z3
  <2>2. chunk.bytes[Len(chunk.bytes)] = chunk.before + Len(chunk.bytes)
    BY <2>1 DEF MuxInv, InOrderBytes
  <2> QED BY <1>2, <2>2 DEF Last
<1> QED BY <1>1, <1>2

(* recv gives bytes, or reports the end of the stream.                     *)
LEMMA ReadKeeps == MuxInv /\ ReadEvent => MuxInv'
<1> SUFFICES ASSUME MuxInv, ReadEvent PROVE MuxInv'
  OBVIOUS
<1>1. /\ Handling("stream", "read")
      /\ UNCHANGED <<arrived, peer, out, held, bf, shadow, pipe>>
  BY DEF ReadEvent, netVars
<1>t. /\ received \in Nat /\ arrived \in Nat /\ produced \in Nat /\ out \in Seq(Nat)
      /\ chunk \in ChunkSet /\ s.reading \in PolicySet
      /\ AllBytes(out, s.wr, s.off) = Counting(produced) /\ doorman \in {"open", "closed"}
  BY NowTyped DEF MuxInv, MuxTypes
<1>n. /\ bf \in [Fds -> SUBSET Ops] /\ Fine(Pair(s, events)) /\ s \in StreamSet
      /\ events \in EventMap /\ "read" \in Ops /\ "stream" \in Fds /\ "doorman" \in Fds \ {"stream"}
  BY NowFine
<1>p. Pair(s, events).x = s /\ Pair(s, events).ev = events
  BY DEF Pair
<1>3. CASE Set(io_failure(Pair(s, events), "read")) /\ UNCHANGED <<received, produced, doorman, chunk>>
  <2> DEFINE q == io_failure(Pair(s, events), "read")
  <2>1. /\ Fine(q) /\ OthersSame(Pair(s, events), q) /\ Unread(Pair(s, events), q)
        /\ q.x.wr = Pair(s, events).x.wr /\ q.x.off = Pair(s, events).x.off
    BY <1>n, ClosingFine
  <2>2. Set(q) /\ UNCHANGED <<received, produced, doorman, chunk>>
    BY <1>3
  <2> HIDE DEF q
  <2>3. AllBytes(out', q.x.wr, q.x.off) = Counting(produced') /\ q.x.got = s.got
    BY <1>1, <1>p, <1>t, <2>1, <2>2 DEF Unread
  <2>4. s'.got = s.got => InOrderBytes'
    BY <1>1, <2>2 DEF MuxInv, InOrderBytes, Threshold, Size
  <2>5. /\ received' \in Nat /\ arrived' \in Nat /\ produced' \in Nat /\ out' \in Seq(Nat)
        /\ chunk' \in ChunkSet
    BY <1>1, <1>t, <2>2
  <2> QED BY <1>1, <2>1, <2>2, <2>3, <2>4, <2>5, StreamKeeps
<1>4. ASSUME NEW n \in 1 .. (Size(s.reading) - Len(s.got)),
             LET got == s.got \o [i \in 1 .. n |-> received + i]
                 p == Pair([s EXCEPT !.got = got], events)
             IN /\ received + n <= arrived /\ received' = received + n
                /\ IF Len(got) < Threshold(s.reading)
                   THEN Set(p) /\ UNCHANGED <<produced, doorman, chunk>>
                   ELSE /\ chunk' = [policy |-> s.reading, bytes |-> got,
                                     before |-> IF chunk.bytes = <<>> THEN 0 ELSE Last(chunk.bytes)]
                        /\ IF ~s.open
                           THEN /\ UNCHANGED produced
                                /\ \/ Set(read_loop(flush(p))) /\ UNCHANGED doorman
                                   \/ /\ doorman' = "closed"
                                      /\ Set(read_loop(flush([p EXCEPT !.ev = del("read", @, "doorman")])))
                           ELSE \E policy \in Policies, close \in BOOLEAN :
                                  /\ UNCHANGED doorman
                                  /\ produced' \in produced .. (IF produced < MaxOut THEN produced + 1 ELSE produced)
                                  /\ Set(Consumed(p, policy, produced', close))
      PROVE  MuxInv'
  <2> DEFINE got == s.got \o [i \in 1 .. n |-> received + i]
             base == chunk.before + Len(chunk.bytes)
             x == [s EXCEPT !.got = got]
             p == Pair(x, events)
  <2>1. /\ got \in Seq(Nat) /\ got # <<>> /\ Len(got) <= Size(s.reading)
        /\ received + n = base + Len(got) /\ received + n \in Nat /\ base \in Nat
        /\ \A i \in 1 .. Len(got) : got[i] = base + i
    BY GotMore
  <2>2. /\ received + n <= arrived /\ received' = received + n
        /\ \/ Len(got) < Threshold(s.reading) /\ Set(p) /\ UNCHANGED <<produced, doorman, chunk>>
           \/ /\ ~(Len(got) < Threshold(s.reading))
              /\ chunk' = [policy |-> s.reading, bytes |-> got,
                           before |-> IF chunk.bytes = <<>> THEN 0 ELSE Last(chunk.bytes)]
              /\ \/ Set(read_loop(flush(p))) /\ UNCHANGED <<produced, doorman>>
                 \/ /\ doorman' = "closed" /\ UNCHANGED produced
                    /\ Set(read_loop(flush([p EXCEPT !.ev = del("read", @, "doorman")])))
                 \/ \E policy \in Policies, close \in BOOLEAN :
                      /\ UNCHANGED doorman
                      /\ produced' \in produced .. (IF produced < MaxOut THEN produced + 1 ELSE produced)
                      /\ Set(Consumed(p, policy, produced', close))
    BY <1>4
  <2> HIDE DEF got
  <2>3. x \in StreamSet
    BY <1>n, <2>1 DEF StreamSet
  <2>4. /\ x.reader = s.reader /\ x.writer = s.writer /\ x.writing = s.writing /\ x.wr = s.wr
        /\ x.off = s.off /\ x.got = got
    BY <1>n DEF StreamSet
  <2> HIDE DEF x
  <2>5. Fine(p) /\ p.x = x /\ p.ev = events
    BY <1>n, <2>3, <2>4, FineToo
  <2> HIDE DEF p
  <2>6. AllBytes(out, p.x.wr, p.x.off) = Counting(produced) /\ OthersSame(Pair(s, events), p)
    BY <1>p, <1>t, <2>4, <2>5 DEF OthersSame
  <2>7. received' \in Nat /\ arrived' \in Nat /\ out' \in Seq(Nat) /\ received' <= arrived'
    BY <1>1, <1>t, <2>1, <2>2
  <2>8. peer' \in {"none", "waiting"} => arrived' = 0
    BY <1>1 DEF MuxInv, InOrderBytes
  <2>9. CASE Set(p) /\ UNCHANGED <<produced, doorman, chunk>>
    <3>1. s' = p.x => InOrderBytes'
      <4> SUFFICES ASSUME s' = p.x PROVE InOrderBytes'
        OBVIOUS
      <4>1. s'.got = got
        BY <2>4, <2>5
      <4>2. received' = chunk'.before + Len(chunk'.bytes) + Len(s'.got)
        BY <2>1, <2>2, <2>9, <4>1
      <4>3. \A i \in 1 .. Len(s'.got) : s'.got[i] = chunk'.before + Len(chunk'.bytes) + i
        BY <2>1, <2>9, <4>1
      <4> QED BY <2>7, <2>8, <2>9, <4>2, <4>3 DEF MuxInv, InOrderBytes, Threshold, Size
    <3>2. /\ produced' \in Nat /\ chunk' \in ChunkSet
          /\ AllBytes(out', p.x.wr, p.x.off) = Counting(produced')
      BY <1>1, <1>t, <2>6, <2>9
    <3> QED BY <1>1, <2>5, <2>6, <2>7, <2>9, <3>1, <3>2, StreamKeeps
  <2>10. CASE /\ ~(Len(got) < Threshold(s.reading))
              /\ chunk' = [policy |-> s.reading, bytes |-> got,
                           before |-> IF chunk.bytes = <<>> THEN 0 ELSE Last(chunk.bytes)]
              /\ \/ Set(read_loop(flush(p))) /\ UNCHANGED <<produced, doorman>>
                 \/ /\ doorman' = "closed" /\ UNCHANGED produced
                    /\ Set(read_loop(flush([p EXCEPT !.ev = del("read", @, "doorman")])))
                 \/ \E policy \in Policies, close \in BOOLEAN :
                      /\ UNCHANGED doorman
                      /\ produced' \in produced .. (IF produced < MaxOut THEN produced + 1 ELSE produced)
                      /\ Set(Consumed(p, policy, produced', close))
    <3>1. chunk'.policy = s.reading /\ chunk'.bytes = got /\ chunk'.before = base
      BY <2>10, LastConsumed
    <3>2. chunk' \in ChunkSet
      <4>1. chunk' = [policy |-> s.reading, bytes |-> got, before |-> base]
        BY <2>10, LastConsumed
      <4> QED BY <1>t, <2>1, <4>1 DEF ChunkSet
    <3>3. Len(got) >= Threshold(s.reading)
      <4>1. Len(got) \in Nat /\ Threshold(s.reading) \in Nat
        BY <1>t, <2>1, SMT, Z3 DEF Threshold, PolicySet
      <4> QED BY <2>10, <4>1, SMT, Z3
    <3>4. s'.got = <<>> => InOrderBytes'
      <4> SUFFICES ASSUME s'.got = <<>> PROVE InOrderBytes'
        OBVIOUS
      <4>1. Len(s'.got) = 0 /\ Len(got) \in Nat
        BY <2>1, EmptySeq, LenProperties
      <4>2. received' = chunk'.before + Len(chunk'.bytes) + Len(s'.got)
        BY <2>1, <2>2, <3>1, <4>1, SMT, Z3
      <4>3. \A i \in 1 .. Len(s'.got) : s'.got[i] = chunk'.before + Len(chunk'.bytes) + i
        BY <4>1, SMT, Z3
      <4>4. /\ \A i \in 1 .. Len(chunk'.bytes) : chunk'.bytes[i] = chunk'.before + i
            /\ chunk'.bytes # <<>>
            /\ Len(chunk'.bytes) >= Threshold(chunk'.policy)
            /\ Len(chunk'.bytes) <= Size(chunk'.policy)
        BY <2>1, <3>1, <3>3
      <4> QED BY <2>7, <2>8, <4>2, <4>3, <4>4 DEF InOrderBytes, Threshold, Size
    <3>5. ASSUME NEW q, Fine(q), Mask(q.ev, "doorman") \subseteq Mask(events, "doorman"),
                 doorman' \in {"open", "closed"}, Set(q), q.x.got = <<>>, produced' \in Nat,
                 AllBytes(out, q.x.wr, q.x.off) = Counting(produced')
          PROVE  MuxInv'
      <4>1. AllBytes(out', q.x.wr, q.x.off) = Counting(produced')
        BY <1>1, <3>5
      <4>2. s' = q.x => InOrderBytes'
        BY <3>4, <3>5
      <4> QED BY <1>1, <2>7, <3>2, <3>5, <4>1, <4>2, HandlerKeeps
    <3>6. ASSUME NEW r, Fine(r), r.x = p.x, Mask(r.ev, "doorman") \subseteq Mask(events, "doorman"),
                 doorman' \in {"open", "closed"}, Set(read_loop(flush(r))), UNCHANGED produced
          PROVE  MuxInv'
      <4> DEFINE c == flush(r)
                 q == read_loop(c)
      <4>1. Fine(c) /\ OthersSame(r, c) /\ Moved(r, c)
        BY <1>n, <3>6, FlushFine
      <4>2. AllBytes(out, c.x.wr, c.x.off) = AllBytes(out, r.x.wr, r.x.off)
        BY <1>t, <3>6, <4>1, MovedKeeps DEF Fine
      <4>3. Set(q)
        BY <3>6
      <4> HIDE DEF c
      <4>4. /\ Fine(q) /\ OthersSame(c, q) /\ q.x.got = <<>>
            /\ q.x.wr = c.x.wr /\ q.x.off = c.x.off
        BY <1>n, <4>1, ReadLoopFine
      <4> HIDE DEF q
      <4>5. Mask(q.ev, "doorman") \subseteq Mask(events, "doorman")
        BY <1>n, <3>6, <4>1, <4>4 DEF OthersSame
      <4>6. AllBytes(out, q.x.wr, q.x.off) = Counting(produced') /\ produced' \in Nat
        BY <1>t, <2>6, <3>6, <4>2, <4>4
      <4> QED BY <3>5, <3>6, <4>3, <4>4, <4>5, <4>6
    <3>7. CASE Set(read_loop(flush(p))) /\ UNCHANGED <<produced, doorman>>
      BY <1>t, <2>5, <3>6, <3>7
    <3>8. CASE /\ doorman' = "closed" /\ UNCHANGED produced
               /\ Set(read_loop(flush([p EXCEPT !.ev = del("read", @, "doorman")])))
      <4> DEFINE ev == del("read", events, "doorman")
                 r == [p EXCEPT !.ev = del("read", @, "doorman")]
      <4>1. /\ ev \in EventMap /\ Mask(ev, "doorman") = Mask(events, "doorman") \ {"read"}
            /\ Mask(ev, "stream") = Mask(events, "stream")
        <5>1. "doorman" \in Fds /\ "stream" \in Fds \ {"doorman"}
          BY <1>n
        <5> QED BY <1>n, <5>1, MaskChanged, SMT, Z3
      <4>2. r = Pair(x, ev)
        BY <2>5 DEF p, Pair
      <4>3. Set(read_loop(flush(r)))
        BY <3>8
      <4> HIDE DEF ev, r
      <4>4. Fine(r) /\ r.x = x /\ r.ev = ev
        BY <1>n, <2>3, <2>4, <4>1, <4>2, FineToo
      <4> QED BY <2>5, <3>6, <3>8, <4>1, <4>3, <4>4
    <3>9. ASSUME NEW policy \in Policies, NEW close \in BOOLEAN, UNCHANGED doorman,
                 produced' \in produced .. (IF produced < MaxOut THEN produced + 1 ELSE produced),
                 Set(Consumed(p, policy, produced', close))
          PROVE  MuxInv'
      <4>1. produced' \in {produced, produced + 1} /\ produced' \in Nat
        BY <1>t, <3>9, SMT, Z3
      <4>2. policy \in PolicySet
        BY MuxConstants DEF PolicySet
      <4> DEFINE q == Consumed(p, policy, produced', close)
      <4>3. /\ Fine(q) /\ OthersSame(p, q) /\ q.x.got = <<>>
            /\ AllBytes(out, q.x.wr, q.x.off) = Counting(produced')
        BY <2>5, <2>6, <4>1, <4>2, ConsumedFine
      <4>4. Set(q)
        BY <3>9
      <4> HIDE DEF q
      <4>5. Mask(q.ev, "doorman") = Mask(events, "doorman")
        BY <1>n, <2>5, <4>3 DEF OthersSame
      <4> QED BY <1>t, <3>5, <3>9, <4>1, <4>3, <4>4, <4>5
    <3> QED BY <2>10, <3>9, <3>7, <3>8
  <2> QED BY <2>2, <2>9, <2>10
<1> QED BY <1>3, <1>4 DEF ReadEvent

-----------------------------------------------------------------------------
(* A step of nobody.                                                       *)
LEMMA NobodyKeeps == MuxInv /\ UNCHANGED muxVars => MuxInv'
<1> SUFFICES ASSUME MuxInv, UNCHANGED muxVars PROVE MuxInv'
  OBVIOUS
<1>1. UNCHANGED <<received, arrived, peer, out, produced, s, doorman, held, bf, events, shadow,
                  ready, pipe, chunk>>
  BY DEF muxVars
<1>2. ready' \in Seq(Fds \X Ops) /\ arrived' \in Nat /\ pipe' \in Seq(Runnables)
  BY <1>1 DEF MuxInv, MuxTypes
<1>3. /\ InOrderStream(s, events)' /\ InOrderDoorman(events)' /\ WritesInOrder' /\ ShadowCounts'
      /\ MuxTypes'
  BY <1>1, <1>2, StreamSame
<1>4. InOrderBytes'
  BY <1>1 DEF MuxInv, InOrderBytes, Threshold, Size
<1>5. InOrderBatch'
  BY <1>1 DEF MuxInv, InOrderBatch
<1> QED BY <1>3, <1>4, <1>5 DEF MuxInv

(* The loop keeps streams, buffers, masks and managers consistent with     *)
(* each other, whatever peer, kernel, brokers and other threads do         *)
(* (default_multiplexer::run, stream, acceptor).                           *)
THEOREM MuxInvariant == MuxSpec => []MuxInv
<1>1. MuxInit => MuxInv
  BY MuxStarts
<1>2. MuxInv /\ [MuxNext]_muxVars => MuxInv'
  <2> SUFFICES ASSUME MuxInv, [MuxNext]_muxVars PROVE MuxInv'
    OBVIOUS
  <2>1. CASE Connect \/ Arrive \/ Leave
    BY <2>1, PeerKeeps
  <2>2. CASE broker_enqueue \/ stop_middleman
    BY <2>2, PostKeeps
  <2>3. CASE Wait
    BY <2>3, WaitKeeps
  <2>4. CASE Runnable
    BY <2>4, RunnableKeeps
  <2>5. CASE new_connection
    BY <2>5, ConnectionKeeps
  <2>6. CASE ReadEvent
    BY <2>6, ReadKeeps
  <2>7. CASE WriteEvent
    BY <2>7, WriteKeeps
  <2>8. CASE EndBatch
    BY <2>8, EndBatchKeeps
  <2>9. CASE UNCHANGED muxVars
    BY <2>9, NobodyKeeps
  <2> QED BY <2>1, <2>2, <2>3, <2>4, <2>5, <2>6, <2>7, <2>8, <2>9 DEF MuxNext, run_loop
<1> QED BY <1>1, <1>2, PTL DEF MuxSpec

(* consume gets the bytes of the peer in order, without a gap and as many  *)
(* as the policy says, for every set of policies; and what the broker      *)
(* writes goes out in order, each byte once (read_loop and write_loop of   *)
(* stream).                                                                *)
THEOREM MuxBytesExact == MuxSpec => []BytesExact
<1>1. MuxInv => BytesExact
  <2> SUFFICES ASSUME MuxInv PROVE BytesExact
    OBVIOUS
  <2>1. WritesInOrder
    BY DEF MuxInv
  <2>2. ASSUME chunk.bytes # <<>>
        PROVE  /\ \A i \in 1 .. Len(chunk.bytes) : chunk.bytes[i] = chunk.before + i
               /\ CASE chunk.policy.flag = "exactly" -> Len(chunk.bytes) = chunk.policy.max
                    [] chunk.policy.flag = "at_most" -> Len(chunk.bytes) <= chunk.policy.max
                    [] chunk.policy.flag = "at_least" -> Len(chunk.bytes) >= chunk.policy.max
    <3>1. /\ \A i \in 1 .. Len(chunk.bytes) : chunk.bytes[i] = chunk.before + i
          /\ Len(chunk.bytes) >= Threshold(chunk.policy)
          /\ Len(chunk.bytes) <= Size(chunk.policy)
      BY <2>2 DEF MuxInv, InOrderBytes
    <3>2. chunk.policy \in PolicySet /\ chunk.bytes \in Seq(Nat)
      BY NowTyped DEF ChunkSet
    <3>3. /\ chunk.policy.flag \in {"at_most", "exactly", "at_least"}
          /\ chunk.policy.max \in Nat /\ Len(chunk.bytes) \in Nat
      BY <3>2, LenProperties DEF PolicySet
    <3>4. CASE chunk.policy.flag = "exactly"
      BY <3>1, <3>3, <3>4, SMT, Z3 DEF Threshold, Size
    <3>5. CASE chunk.policy.flag = "at_most"
      BY <3>1, <3>3, <3>5, SMT, Z3 DEF Threshold, Size
    <3>6. CASE chunk.policy.flag = "at_least"
      BY <3>1, <3>3, <3>6, SMT, Z3 DEF Threshold, Size
    <3> QED BY <3>3, <3>4, <3>5, <3>6
  <2> QED BY <2>1, <2>2 DEF BytesExact, ChunkExact
<1> QED BY <1>1, MuxInvariant, PTL

(* A socket that epoll watches, and an event that is left of a batch, have *)
(* their manager; m_shadow counts the watched sockets (removed_from_loop   *)
(* and handle).                                                            *)
THEOREM MuxWatchedHeld == MuxSpec => []WatchedHeld
<1>1. MuxInv => WatchedHeld
  <2> SUFFICES ASSUME MuxInv PROVE WatchedHeld
    OBVIOUS
  <2>1. ASSUME NEW fd \in {"stream", "doorman"}, NEW op \in {"read", "write"},
               op \in bf[fd] \/ \E i \in DOMAIN ready : ready[i] = <<fd, op>>
        PROVE  CASE fd = "doorman" -> held
                 [] fd = "stream" /\ op = "read" -> s.reader
                 [] fd = "stream" /\ op = "write" -> s.writer
    <3>1. op \in bf[fd]
      <4>1. CASE \E i \in DOMAIN ready : ready[i] = <<fd, op>>
        <5>1. PICK i \in DOMAIN ready : ready[i] = <<fd, op>>
          BY <4>1
        <5>2. ready[i][1] = fd /\ ready[i][2] = op
          BY <5>1, SMT, Z3
        <5> QED BY <5>2 DEF MuxInv, InOrderBatch
      <4> QED BY <2>1, <4>1
    <3>2. CASE fd = "doorman"
      <4>1. held
        BY <3>1, <3>2 DEF MuxInv, InOrderDoorman
      <4> QED BY <3>2, <4>1, SMT, Z3
    <3>3. CASE fd = "stream" /\ op = "read"
      <4>1. s.reader
        BY <3>1, <3>3 DEF MuxInv, InOrderStream
      <4> QED BY <3>3, <4>1, SMT, Z3
    <3>4. CASE fd = "stream" /\ op = "write"
      <4>1. s.writer
        BY <3>1, <3>4 DEF MuxInv, InOrderStream
      <4> QED BY <3>4, <4>1, SMT, Z3
    <3> QED BY <3>2, <3>3, <3>4
  <2>2. ManagerHeld
    BY <2>1 DEF ManagerHeld
  <2> QED BY <2>2 DEF WatchedHeld, MuxInv
<1> QED BY <1>1, MuxInvariant, PTL
=============================================================================
