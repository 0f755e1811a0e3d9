-------------------------- MODULE SchedulerProofs ---------------------------
(***************************************************************************)
(* No job is lost or run twice and stop() knows which workers are left,    *)
(* for any number of workers and actors.  The invariant speaks of places:  *)
(* place 0 of a worker is the job it runs, the places above it its queue.  *)
(***************************************************************************)
EXTENDS Scheduler, TLAPS, SequenceTheorems, FiniteSetTheorems, WellFoundedInduction

USE SMT, Zenon, Z3

Jobs == Actors_ \cup {sh}

Queued(w, k, job) == k \in DOMAIN queue[w] /\ queue[w][k] = job
Holds(w, k, job) == (k = 0 /\ current[w] = job) \/ Queued(w, k, job)
Placed(job) == \E w \in Workers : \E k \in Nat : Holds(w, k, job)
AtMostOnce(job) == \A w, v \in Workers : \A k, l \in Nat :
                     Holds(w, k, job) /\ Holds(v, l, job) => w = v /\ k = l

(* A job has one place at most, and an actor has one if it is ready.       *)
PlacesInv == /\ \A job \in Jobs : AtMostOnce(job)
             /\ \A a \in Actors_ : Placed(a) <=> actor[a] = "ready"

Running == {w \in Workers : current[w] # "stopped"}

(* stop() misses at most the worker that just reported, and there is no    *)
(* second shutdown_helper before it noticed.                               *)
StopInv == /\ alive_workers \ {last_worker} = Running
           /\ stopping # "wait" => last_worker = NoWorker
           /\ stopping # "wait" \/ last_worker # NoWorker => ~Placed(sh)
           /\ stopping \in {"cleanup", "done"} => alive_workers = {}
           /\ stopping \notin {"cleanup", "done"} => drained = 0
           /\ drained = NumWorkers <=> stopping = "done"

(* A queue that stop() has been through holds late actors only.            *)
LateInv == \A w \in Workers : \A k \in Nat : \A job :
             w < drained /\ Queued(w, k, job) => job \in late

SchedInv == SchedTypeOK /\ PlacesInv /\ StopInv /\ LateInv

-----------------------------------------------------------------------------
LEMMA Kinds ==
  /\ Workers \subseteq Nat /\ NoWorker \notin Workers
  /\ sh \notin Actors_ /\ {"none", "raid", "stopped"} \cap Jobs = {}
  BY SchedulerAssumption DEF Workers, NoWorker, Jobs, sh

LEMMA Least ==
  ASSUME NEW S \in SUBSET Nat, S # {}
  PROVE  \E w \in S : \A v \in S : w <= v
<1>1. PICK R : R = OpToRel(<, Nat)
  OBVIOUS
<1>2. IsWellFoundedOn(R, Nat)
  BY <1>1, NatLessThanWellFounded
<1>3. PICK x \in S : \A y \in S : ~ (<<y, x>> \in R)
  BY <1>2, WFMin
<1>4. \A x1, y1 \in Nat : y1 < x1 => <<y1, x1>> \in R
  BY <1>1 DEF OpToRel
<1>5. ASSUME NEW v \in S PROVE x <= v
  <2>1. x \in Nat /\ v \in Nat /\ ~(v < x)
    BY <1>3, <1>4
  <2> QED
    BY <2>1
<1> QED
  BY <1>5

(* How many hold a job, from its places.                                   *)
LEMMA HoldersCounted ==
  ASSUME SchedTypeOK, NEW job, AtMostOnce(job)
  PROVE  Holders(job) = IF Placed(job) THEN 1 ELSE 0
<1> DEFINE P == Positions(job)
           C == {w \in Workers : current[w] = job}
<1>1. \A w \in Workers : DOMAIN queue[w] \subseteq Nat /\ 0 \notin DOMAIN queue[w]
  <2> SUFFICES ASSUME NEW w \in Workers PROVE DOMAIN queue[w] \subseteq Nat /\ 0 \notin DOMAIN queue[w]
    OBVIOUS
  <2>1. queue[w] \in Seq(Actors_ \cup {sh})
    BY DEF SchedTypeOK
  <2> QED
    BY <2>1
<1>2. \A w \in Workers : w \in C <=> Holds(w, 0, job)
  BY <1>1 DEF Holds, Queued
<1>3. \A w \in Workers : \A k \in Nat : <<w, k>> \in P <=> Holds(w, k, job) /\ k # 0
  BY <1>1 DEF Positions, Holds, Queued
<1>4. \A p \in P : \E w \in Workers : \E k \in Nat : p = <<w, k>>
  BY <1>1 DEF Positions
<1>5. C \subseteq Workers
  OBVIOUS
<1>6. Holders(job) = Cardinality(P) + Cardinality(C)
  BY DEF Holders
<1> HIDE DEF P, C
<1>7. CASE ~Placed(job)
  <2>1. P = {} /\ C = {}
    BY <1>2, <1>3, <1>4, <1>5, <1>7 DEF Placed
  <2> QED
    BY <1>6, <1>7, <2>1, FS_EmptySet
<1>8. CASE Placed(job)
  <2>1. PICK w \in Workers : \E k \in Nat : Holds(w, k, job)
    BY <1>8 DEF Placed
  <2>2. PICK k \in Nat : Holds(w, k, job)
    BY <2>1
  <2>3. \A v \in Workers : \A l \in Nat : Holds(v, l, job) => v = w /\ l = k
    BY <2>2 DEF AtMostOnce
  <2>4. CASE k = 0
    <3>1. C = {w}
      BY <1>2, <1>5, <2>2, <2>3, <2>4
    <3>2. P = {}
      BY <1>3, <1>4, <2>3, <2>4
    <3>3. Cardinality(C) = 1
      BY <3>1, FS_Singleton
    <3>4. Cardinality(P) = 0
      BY <3>2, FS_EmptySet
    <3> QED
      BY <1>6, <1>8, <3>3, <3>4
  <2>5. CASE k # 0
    <3>1. C = {}
      BY <1>2, <1>5, <2>3, <2>5
    <3>2. P = {<<w, k>>}
      BY <1>3, <1>4, <2>2, <2>3, <2>5
    <3>3. Cardinality(P) = 1
      BY <3>2, FS_Singleton
    <3> QED
      BY <1>6, <1>8, <3>1, <3>3, FS_EmptySet
  <2> QED
    BY <2>4, <2>5
<1> QED
  BY <1>7, <1>8

(* The inductive invariant is what the runs check.                         *)
LEMMA InvIsJobsKept == SchedInv => JobsKept
<1> SUFFICES ASSUME SchedInv PROVE JobsKept
  OBVIOUS
<1>1. SchedTypeOK /\ PlacesInv /\ StopInv
  BY DEF SchedInv
<1>2. RunOnce
  BY <1>1, HoldersCounted DEF PlacesInv, RunOnce, Jobs
<1>3. Holders(sh) <= 1
  <2>1. Holders(sh) = IF Placed(sh) THEN 1 ELSE 0
    BY <1>1, HoldersCounted DEF PlacesInv, Jobs
  <2> QED
    BY <2>1
<1>4. stopping # "wait" => alive_workers = Running
  <2>1. alive_workers \subseteq Workers
    BY <1>1 DEF SchedTypeOK
  <2> QED
    BY <1>1, <2>1, Kinds DEF StopInv
<1> QED
  BY <1>1, <1>2, <1>3, <1>4 DEF JobsKept, StopKnowsWorkers, Running

-----------------------------------------------------------------------------
(* What a step does to the places of a job, and so to the invariant.       *)
LEMMA SamePlaces ==
  ASSUME NEW job, AtMostOnce(job),
         \A v \in Workers : \A k \in Nat : Holds(v, k, job)' <=> Holds(v, k, job)
  PROVE  AtMostOnce(job)' /\ (Placed(job)' <=> Placed(job))
  BY DEF AtMostOnce, Placed

LEMMA DroppedPlace ==
  ASSUME NEW job, AtMostOnce(job), NEW w \in Workers,
         \A v \in Workers : \A k \in Nat : Holds(v, k, job)' <=> Holds(v, k, job) /\ ~(v = w /\ k = 0)
  PROVE  /\ AtMostOnce(job)'
         /\ Holds(w, 0, job) => ~Placed(job)'
         /\ ~Holds(w, 0, job) => (Placed(job)' <=> Placed(job))
<1>1. AtMostOnce(job)'
  BY DEF AtMostOnce
<1>2. Holds(w, 0, job) => ~Placed(job)'
  <2> SUFFICES ASSUME Holds(w, 0, job), NEW v \in Workers, NEW k \in Nat, Holds(v, k, job)'
               PROVE  FALSE
    BY DEF Placed
  <2>1. Holds(v, k, job) /\ ~(v = w /\ k = 0)
    OBVIOUS
  <2> QED
    BY <2>1 DEF AtMostOnce
<1>3. ~Holds(w, 0, job) => (Placed(job)' <=> Placed(job))
  BY DEF Placed
<1> QED
  BY <1>1, <1>2, <1>3

LEMMA AddedPlace ==
  ASSUME NEW job, NEW b, AtMostOnce(job), job = b => ~Placed(job), NEW w \in Workers, NEW n \in Nat,
         \A v \in Workers : \A k \in Nat :
           Holds(v, k, job)' <=> Holds(v, k, job) \/ (v = w /\ k = n /\ job = b)
  PROVE  AtMostOnce(job)' /\ (Placed(job)' <=> Placed(job) \/ job = b)
<1>1. CASE job = b
  <2>1. \A v \in Workers : \A k \in Nat : Holds(v, k, job)' <=> v = w /\ k = n
    BY <1>1 DEF Placed
  <2> QED
    BY <1>1, <2>1 DEF AtMostOnce, Placed
<1>2. CASE job # b
  BY <1>2, SamePlaces
<1> QED
  BY <1>1, <1>2

-----------------------------------------------------------------------------
(* Where the operations on a queue leave its jobs.                         *)
LEMMA AppendSeq ==
  ASSUME NEW S, NEW s \in Seq(S), NEW e \in S, NEW q, q = Append(s, e)
  PROVE  /\ q \in Seq(S) /\ Len(s) \in Nat
         /\ DOMAIN q = 1..Len(s) + 1 /\ DOMAIN s = 1..Len(s)
         /\ \A k \in 1..Len(s) : q[k] = s[k]
         /\ q[Len(s) + 1] = e
  OBVIOUS

LEMMA PrependSeq ==
  ASSUME NEW S, NEW s \in Seq(S), NEW e \in S, NEW q, q = <<e>> \o s
  PROVE  /\ q \in Seq(S) /\ DOMAIN s = 1..Len(s)
         /\ \A k \in DOMAIN q : k = 1 \/ (k - 1 \in DOMAIN s /\ q[k] = s[k - 1])
         /\ \A k \in DOMAIN s : k + 1 \in DOMAIN q /\ q[k + 1] = s[k]
         /\ 1 \in DOMAIN q /\ q[1] = e
<1>1. PICK t \in Seq(S) : Len(t) = 1 /\ t[1] = e /\ q = t \o s
  <2>1. <<e>> \in Seq(S) /\ Len(<<e>>) = 1 /\ <<e>>[1] = e
    OBVIOUS
  <2> QED
    BY <2>1
<1>2. q \in Seq(S) /\ Len(q) = 1 + Len(s) /\ Len(s) \in Nat
  BY <1>1, ConcatProperties
<1>3. DOMAIN q = 1..1 + Len(s) /\ DOMAIN s = 1..Len(s)
  BY <1>2
<1>4. \A k \in 1..1 + Len(s) : q[k] = IF k <= 1 THEN t[k] ELSE s[k - 1]
  BY <1>1, <1>2, ConcatProperties
<1>5. \A k \in 1..Len(s) : q[k + 1] = s[k]
  <2> SUFFICES ASSUME NEW k \in 1..Len(s) PROVE q[k + 1] = s[k]
    OBVIOUS
  <2>1. k + 1 \in 1..1 + Len(s) /\ ~(k + 1 <= 1) /\ (k + 1) - 1 = k
    BY <1>2
  <2> QED
    BY <1>4, <2>1
<1>6. \A k \in 1..1 + Len(s) : k = 1 \/ (k - 1 \in 1..Len(s) /\ q[k] = s[k - 1])
  BY <1>2, <1>4
<1>7. q[1] = e /\ 1 \in 1..1 + Len(s)
  BY <1>1, <1>2, <1>4
<1> QED
  BY <1>2, <1>3, <1>5, <1>6, <1>7

LEMMA TailSeq ==
  ASSUME NEW S, NEW s \in Seq(S), s # <<>>, NEW q, q = Tail(s)
  PROVE  /\ q \in Seq(S) /\ DOMAIN s = 1..Len(s)
         /\ \A k \in DOMAIN q : k + 1 \in DOMAIN s /\ q[k] = s[k + 1]
         /\ \A k \in DOMAIN s : k = 1 \/ (k - 1 \in DOMAIN q /\ q[k - 1] = s[k])
         /\ 1 \in DOMAIN s /\ Head(s) = s[1] /\ Head(s) \in S
<1>1. q \in Seq(S) /\ Len(q) = Len(s) - 1 /\ Len(s) \in Nat \ {0} /\ DOMAIN q = 1..Len(s) - 1 /\ DOMAIN s = 1..Len(s)
  OBVIOUS
<1>2. \A k \in 1..Len(s) - 1 : q[k] = s[k + 1]
  BY <1>1
<1>3. \A k \in 1..Len(s) : k = 1 \/ (k - 1 \in 1..Len(s) - 1 /\ q[k - 1] = s[k])
  <2> SUFFICES ASSUME NEW k \in 1..Len(s), k # 1 PROVE k - 1 \in 1..Len(s) - 1 /\ q[k - 1] = s[k]
    OBVIOUS
  <2>1. k - 1 \in 1..Len(s) - 1 /\ (k - 1) + 1 = k
    BY <1>1
  <2> QED
    BY <1>2, <2>1
<1>4. Head(s) = s[1] /\ Head(s) \in S
  OBVIOUS
<1> QED
  BY <1>1, <1>2, <1>3, <1>4

LEMMA FrontSeq ==
  ASSUME NEW S, NEW s \in Seq(S), s # <<>>, NEW q, q = Front(s)
  PROVE  /\ q \in Seq(S)
         /\ \A k \in Nat : k \in DOMAIN q <=> k \in DOMAIN s /\ k # Len(s)
         /\ \A k \in DOMAIN q : q[k] = s[k]
         /\ Len(s) \in DOMAIN s /\ Len(s) \in Nat \ {0}
         /\ Last(s) = s[Len(s)] /\ Last(s) \in S
<1>1. Len(s) \in Nat \ {0} /\ DOMAIN s = 1..Len(s)
  OBVIOUS
<1>2. q = SubSeq(s, 1, Len(s) - 1)
  BY DEF Front
<1>3. q \in Seq(S) /\ DOMAIN q = 1..Len(s) - 1 /\ \A k \in 1..Len(s) - 1 : q[k] = s[k]
  BY <1>1, <1>2
<1>4. Last(s) = s[Len(s)] /\ Last(s) \in S
  BY <1>1 DEF Last
<1>5. \A k \in Nat : k \in DOMAIN q <=> k \in DOMAIN s /\ k # Len(s)
  <2>1. \A n \in Nat \ {0} : \A k \in Nat : (k \in 1..n - 1) <=> (k \in 1..n /\ k # n)
    OBVIOUS
  <2> QED
    BY <1>1, <1>3, <2>1
<1>6. Len(s) \in DOMAIN s
  BY <1>1
<1> QED
  BY <1>1, <1>3, <1>4, <1>5, <1>6

(* The queues after each of these operations, and where a job then is.     *)
LEMMA AppendHolds ==
  ASSUME SchedTypeOK, NEW w \in Workers, NEW b \in Jobs, external_enqueue(w, b)
  PROVE  /\ queue' \in [Workers -> Seq(Jobs)] /\ Len(queue[w]) \in Nat
         /\ \A v \in Workers : \A k \in Nat : \A job :
              Queued(v, k, job)' <=> Queued(v, k, job) \/ (v = w /\ k = Len(queue[w]) + 1 /\ job = b)
<1>1. queue \in [Workers -> Seq(Jobs)]
  BY DEF SchedTypeOK, Jobs
<1>2. PICK q : q = Append(queue[w], b)
  OBVIOUS
<1>3. queue' = [queue EXCEPT ![w] = q]
  BY <1>2 DEF external_enqueue
<1>4. /\ q \in Seq(Jobs)
      /\ DOMAIN q = 1..Len(queue[w]) + 1 /\ DOMAIN queue[w] = 1..Len(queue[w]) /\ Len(queue[w]) \in Nat
      /\ \A k \in 1..Len(queue[w]) : q[k] = queue[w][k]
      /\ q[Len(queue[w]) + 1] = b
  <2>1. queue[w] \in Seq(Jobs)
    BY <1>1
  <2> QED
    BY <1>2, <2>1, AppendSeq
<1>5. \A k \in Nat : \A job :
        (k \in DOMAIN q /\ q[k] = job)
          <=> (k \in DOMAIN queue[w] /\ queue[w][k] = job) \/ (k = Len(queue[w]) + 1 /\ job = b)
  <2> SUFFICES ASSUME NEW k \in Nat
               PROVE  \A job : (k \in DOMAIN q /\ q[k] = job)
                        <=> (k \in DOMAIN queue[w] /\ queue[w][k] = job) \/ (k = Len(queue[w]) + 1 /\ job = b)
    OBVIOUS
  <2>1. CASE k \in DOMAIN queue[w]
    BY <1>4, <2>1
  <2>2. CASE k = Len(queue[w]) + 1
    BY <1>4, <2>2
  <2>3. CASE k \notin DOMAIN queue[w] /\ k # Len(queue[w]) + 1
    BY <1>4, <2>3
  <2> QED
    BY <2>1, <2>2, <2>3
<1>6. queue' \in [Workers -> Seq(Jobs)] /\ queue'[w] = q /\ \A v \in Workers : v # w => queue'[v] = queue[v]
  BY <1>1, <1>3, <1>4
<1> QED
  BY <1>4, <1>5, <1>6 DEF Queued

LEMMA OneQueue ==
  ASSUME SchedTypeOK, NEW w \in Workers, NEW q \in Seq(Jobs), queue' = [queue EXCEPT ![w] = q]
  PROVE  /\ queue' \in [Workers -> Seq(Jobs)] /\ queue'[w] = q
         /\ \A v \in Workers : v # w => queue'[v] = queue[v]
  BY DEF SchedTypeOK, Jobs

LEMMA QueueType ==
  ASSUME SchedTypeOK, NEW w \in Workers
  PROVE  queue[w] \in Seq(Jobs) /\ DOMAIN queue[w] \subseteq Nat /\ 0 \notin DOMAIN queue[w]
<1>1. queue[w] \in Seq(Jobs)
  BY DEF SchedTypeOK, Jobs
<1> QED
  BY <1>1

-----------------------------------------------------------------------------
(* The steps that move, add or take away a job.  Each says where it was.   *)
LEMMA EnqueuePlaces ==
  ASSUME SchedInv, NEW w \in Workers, NEW b \in Jobs, ~Placed(b), external_enqueue(w, b), UNCHANGED current,
         NEW job \in Jobs
  PROVE  AtMostOnce(job)' /\ (Placed(job)' <=> Placed(job) \/ job = b)
<1>1. SchedTypeOK /\ AtMostOnce(job)
  BY DEF SchedInv, PlacesInv
<1>2. PICK n \in Nat : n = Len(queue[w]) + 1
  BY <1>1, AppendHolds
<1>3. \A v \in Workers : \A k \in Nat :
        Holds(v, k, job)' <=> Holds(v, k, job) \/ (v = w /\ k = n /\ job = b)
  <2>1. \A v \in Workers : \A k \in Nat : Queued(v, k, job)' <=> Queued(v, k, job) \/ (v = w /\ k = n /\ job = b)
    BY <1>1, <1>2, AppendHolds
  <2> QED
    BY <2>1 DEF Holds
<1> QED
  BY <1>1, <1>3, AddedPlace

LEMMA PrependPlaces ==
  ASSUME SchedInv, NEW w \in Workers, NEW b \in Jobs, ~Placed(b), internal_enqueue(w, b), UNCHANGED current,
         NEW job \in Jobs
  PROVE  AtMostOnce(job)' /\ (Placed(job)' <=> Placed(job) \/ job = b) /\ queue' \in [Workers -> Seq(Jobs)]
<1>1. SchedTypeOK /\ AtMostOnce(job)
  BY DEF SchedInv, PlacesInv
<1>2. PICK q : q = <<b>> \o queue[w]
  OBVIOUS
<1>3. /\ q \in Seq(Jobs)
      /\ \A k \in DOMAIN q : k = 1 \/ (k - 1 \in DOMAIN queue[w] /\ q[k] = queue[w][k - 1])
      /\ \A k \in DOMAIN queue[w] : k + 1 \in DOMAIN q /\ q[k + 1] = queue[w][k]
      /\ 1 \in DOMAIN q /\ q[1] = b
  BY <1>1, <1>2, QueueType, PrependSeq
<1>4. /\ queue' \in [Workers -> Seq(Jobs)] /\ queue'[w] = q
      /\ \A v \in Workers : v # w => queue'[v] = queue[v]
  BY <1>1, <1>2, <1>3, OneQueue DEF internal_enqueue
<1>5. DOMAIN queue[w] \subseteq Nat /\ 0 \notin DOMAIN queue[w] /\ DOMAIN q \subseteq Nat /\ 0 \notin DOMAIN q
  BY <1>1, <1>3, QueueType
<1>6. /\ \A v \in Workers : \A k \in Nat : v # w => (Holds(v, k, job)' <=> Holds(v, k, job))
      /\ Holds(w, 0, job)' <=> Holds(w, 0, job)
  BY <1>4, <1>5 DEF Holds, Queued
<1>7. Holds(w, 1, job)' <=> job = b
  BY <1>3, <1>4 DEF Holds, Queued
<1>8. \A k \in Nat : k > 1 /\ Holds(w, k, job)' => k - 1 \in Nat /\ k - 1 > 0 /\ Holds(w, k - 1, job)
  BY <1>3, <1>4, <1>5 DEF Holds, Queued
<1>9. \A k \in Nat : k > 0 /\ Holds(w, k, job) => k + 1 \in Nat /\ Holds(w, k + 1, job)'
  BY <1>3, <1>4, <1>5 DEF Holds, Queued
<1>10. Placed(job)' <=> Placed(job) \/ job = b
  <2>1. ASSUME NEW v \in Workers, NEW k \in Nat, Holds(v, k, job)' PROVE Placed(job) \/ job = b
    <3>1. k = 0 \/ k = 1 \/ k > 1
      OBVIOUS
    <3> QED
      BY <1>6, <1>7, <1>8, <2>1, <3>1 DEF Placed
  <2>2. ASSUME NEW v \in Workers, NEW k \in Nat, Holds(v, k, job) PROVE Placed(job)'
    <3>1. k = 0 \/ k > 0
      OBVIOUS
    <3> QED
      BY <1>6, <1>9, <2>2, <3>1 DEF Placed
  <2>3. job = b => Placed(job)'
    BY <1>7 DEF Placed
  <2> QED
    BY <2>1, <2>2, <2>3 DEF Placed
<1>11. AtMostOnce(job)'
  <2> SUFFICES ASSUME NEW v \in Workers, NEW u \in Workers, NEW k \in Nat, NEW l \in Nat,
                      Holds(v, k, job)', Holds(u, l, job)'
               PROVE  v = u /\ k = l
    BY DEF AtMostOnce
  <2>1. CASE job = b
    <3>1. \A x \in Workers : \A i \in Nat : ~Holds(x, i, job)
      BY <2>1 DEF Placed
    <3>2. v = w /\ u = w /\ k # 0 /\ l # 0 /\ ~(k > 1) /\ ~(l > 1)
      BY <1>6, <1>8, <3>1
    <3> QED
      BY <3>2
  <2>2. CASE job # b
    <3>1. PICK i \in Nat : Holds(v, i, job) /\ i = IF v = w /\ k > 1 THEN k - 1 ELSE k
      BY <1>6, <1>7, <1>8, <2>2
    <3>2. PICK j \in Nat : Holds(u, j, job) /\ j = IF u = w /\ l > 1 THEN l - 1 ELSE l
      BY <1>6, <1>7, <1>8, <2>2
    <3>3. v = u /\ i = j
      BY <1>1, <3>1, <3>2 DEF AtMostOnce
    <3>4. ~(v = w /\ k = 1) /\ ~(u = w /\ l = 1)
      BY <1>7, <2>2
    <3> QED
      BY <3>1, <3>2, <3>3, <3>4
  <2> QED
    BY <2>1, <2>2
<1> QED
  BY <1>4, <1>10, <1>11

(* The first job of its queue becomes the one that w runs.                 *)
LEMMA TakePlaces ==
  ASSUME SchedInv, NEW w \in Workers, current[w] \notin Jobs, queue[w] # <<>>,
         current' = [current EXCEPT ![w] = Head(queue[w])], queue' = [queue EXCEPT ![w] = Tail(@)]
  PROVE  /\ \A job \in Jobs : AtMostOnce(job)' /\ (Placed(job)' <=> Placed(job))
         /\ queue' \in [Workers -> Seq(Jobs)] /\ Head(queue[w]) \in Jobs
<1>1. SchedTypeOK /\ \A job \in Jobs : AtMostOnce(job)
  BY DEF SchedInv, PlacesInv
<1>2. PICK q : q = Tail(queue[w])
  OBVIOUS
<1>3. /\ q \in Seq(Jobs)
      /\ \A k \in DOMAIN q : k + 1 \in DOMAIN queue[w] /\ q[k] = queue[w][k + 1]
      /\ \A k \in DOMAIN queue[w] : k = 1 \/ (k - 1 \in DOMAIN q /\ q[k - 1] = queue[w][k])
      /\ 1 \in DOMAIN queue[w] /\ Head(queue[w]) = queue[w][1] /\ Head(queue[w]) \in Jobs
  BY <1>1, <1>2, QueueType, TailSeq
<1>4. /\ queue' \in [Workers -> Seq(Jobs)] /\ queue'[w] = q
      /\ \A v \in Workers : v # w => queue'[v] = queue[v]
  BY <1>1, <1>2, <1>3, OneQueue
<1>5. DOMAIN queue[w] \subseteq Nat /\ 0 \notin DOMAIN queue[w] /\ DOMAIN q \subseteq Nat /\ 0 \notin DOMAIN q
  BY <1>1, <1>3, QueueType
<1>6. current'[w] = queue[w][1] /\ \A v \in Workers : v # w => current'[v] = current[v]
  BY <1>1, <1>3 DEF SchedTypeOK
<1>7. ASSUME NEW job \in Jobs PROVE AtMostOnce(job)' /\ (Placed(job)' <=> Placed(job))
  <2>1. \A v \in Workers : \A k \in Nat : v # w => (Holds(v, k, job)' <=> Holds(v, k, job))
    BY <1>4, <1>6 DEF Holds, Queued
  <2>2. ~Holds(w, 0, job)
    BY <1>5 DEF Holds, Queued
  <2>3. \A k \in Nat : Holds(w, k, job)' => k + 1 \in Nat /\ Holds(w, k + 1, job)
    <3> SUFFICES ASSUME NEW k \in Nat, Holds(w, k, job)' PROVE Holds(w, k + 1, job)
      OBVIOUS
    <3>1. CASE k = 0
      BY <1>3, <1>4, <1>5, <1>6, <3>1 DEF Holds, Queued
    <3>2. CASE k # 0
      BY <1>3, <1>4, <3>2 DEF Holds, Queued
    <3> QED
      BY <3>1, <3>2
  <2>4. \A k \in Nat : k # 0 /\ Holds(w, k, job) => k - 1 \in Nat /\ Holds(w, k - 1, job)'
    <3> SUFFICES ASSUME NEW k \in Nat, k # 0, Holds(w, k, job) PROVE k - 1 \in Nat /\ Holds(w, k - 1, job)'
      OBVIOUS
    <3>1. CASE k = 1
      BY <1>6, <3>1 DEF Holds, Queued
    <3>2. CASE k # 1
      BY <1>3, <1>4, <3>2 DEF Holds, Queued
    <3> QED
      BY <3>1, <3>2
  <2>5. Placed(job)' <=> Placed(job)
    BY <2>1, <2>2, <2>3, <2>4 DEF Placed
  <2>6. AtMostOnce(job)'
    <3> SUFFICES ASSUME NEW v \in Workers, NEW u \in Workers, NEW k \in Nat, NEW l \in Nat,
                        Holds(v, k, job)', Holds(u, l, job)'
                 PROVE  v = u /\ k = l
      BY DEF AtMostOnce
    <3>1. PICK i \in Nat : Holds(v, i, job) /\ i = IF v = w THEN k + 1 ELSE k
      BY <2>1, <2>3
    <3>2. PICK j \in Nat : Holds(u, j, job) /\ j = IF u = w THEN l + 1 ELSE l
      BY <2>1, <2>3
    <3>3. v = u /\ i = j
      BY <1>1, <3>1, <3>2 DEF AtMostOnce
    <3> QED
      BY <3>1, <3>2, <3>3
  <2> QED
    BY <2>5, <2>6
<1> QED
  BY <1>3, <1>4, <1>7

(* The first job of its queue is taken away.                               *)
LEMMA HeadPlaces ==
  ASSUME SchedInv, NEW w \in Workers, current[w] \notin Jobs, queue[w] # <<>>,
         UNCHANGED current, queue' = [queue EXCEPT ![w] = Tail(@)]
  PROVE  /\ \A job \in Jobs : AtMostOnce(job)' /\ (Placed(job)' <=> Placed(job) /\ job # Head(queue[w]))
         /\ queue' \in [Workers -> Seq(Jobs)] /\ \A v \in Workers : v # w => queue'[v] = queue[v]
<1>1. SchedTypeOK /\ \A job \in Jobs : AtMostOnce(job)
  BY DEF SchedInv, PlacesInv
<1>2. PICK q : q = Tail(queue[w])
  OBVIOUS
<1>3. /\ q \in Seq(Jobs)
      /\ \A k \in DOMAIN q : k + 1 \in DOMAIN queue[w] /\ q[k] = queue[w][k + 1]
      /\ \A k \in DOMAIN queue[w] : k = 1 \/ (k - 1 \in DOMAIN q /\ q[k - 1] = queue[w][k])
      /\ 1 \in DOMAIN queue[w] /\ Head(queue[w]) = queue[w][1]
  BY <1>1, <1>2, QueueType, TailSeq
<1>4. /\ queue' \in [Workers -> Seq(Jobs)] /\ queue'[w] = q
      /\ \A v \in Workers : v # w => queue'[v] = queue[v]
  BY <1>1, <1>2, <1>3, OneQueue
<1>5. DOMAIN queue[w] \subseteq Nat /\ 0 \notin DOMAIN queue[w] /\ DOMAIN q \subseteq Nat /\ 0 \notin DOMAIN q
  BY <1>1, <1>3, QueueType
<1>6. ASSUME NEW job \in Jobs PROVE AtMostOnce(job)' /\ (Placed(job)' <=> Placed(job) /\ job # Head(queue[w]))
  <2>1. \A v \in Workers : \A k \in Nat : v # w => (Holds(v, k, job)' <=> Holds(v, k, job))
    BY <1>4 DEF Holds, Queued
  <2>2. ~Holds(w, 0, job) /\ ~Holds(w, 0, job)'
    BY <1>4, <1>5 DEF Holds, Queued
  <2>3. \A k \in Nat : Holds(w, k, job)' => k + 1 \in Nat /\ k + 1 # 1 /\ Holds(w, k + 1, job)
    <3> SUFFICES ASSUME NEW k \in Nat, Holds(w, k, job)' PROVE k # 0 /\ Holds(w, k + 1, job)
      OBVIOUS
    <3> QED
      BY <1>3, <1>4, <2>2 DEF Holds, Queued
  <2>4. \A k \in Nat : k # 1 /\ Holds(w, k, job) => k - 1 \in Nat /\ Holds(w, k - 1, job)'
    <3> SUFFICES ASSUME NEW k \in Nat, k # 1, Holds(w, k, job) PROVE k - 1 \in Nat /\ Holds(w, k - 1, job)'
      OBVIOUS
    <3>1. k # 0
      BY <2>2
    <3> QED
      BY <1>3, <1>4, <3>1 DEF Holds, Queued
  <2>5. Holds(w, 1, job) <=> job = Head(queue[w])
    BY <1>3 DEF Holds, Queued
  <2>6. CASE job = Head(queue[w])
    <3>1. \A v \in Workers : \A k \in Nat : Holds(v, k, job) => v = w /\ k = 1
      BY <1>1, <2>5, <2>6 DEF AtMostOnce
    <3>2. \A v \in Workers : \A k \in Nat : ~Holds(v, k, job)'
      BY <2>1, <2>3, <3>1
    <3> QED
      BY <2>6, <3>2 DEF AtMostOnce, Placed
  <2>7. CASE job # Head(queue[w])
    <3>1. Placed(job)' <=> Placed(job)
      BY <2>1, <2>3, <2>4, <2>5, <2>7 DEF Placed
    <3>2. AtMostOnce(job)'
      <4> SUFFICES ASSUME NEW v \in Workers, NEW u \in Workers, NEW k \in Nat, NEW l \in Nat,
                          Holds(v, k, job)', Holds(u, l, job)'
                   PROVE  v = u /\ k = l
        BY DEF AtMostOnce
      <4>1. PICK i \in Nat : Holds(v, i, job) /\ i = IF v = w THEN k + 1 ELSE k
        BY <2>1, <2>3
      <4>2. PICK j \in Nat : Holds(u, j, job) /\ j = IF u = w THEN l + 1 ELSE l
        BY <2>1, <2>3
      <4>3. v = u /\ i = j
        BY <1>1, <4>1, <4>2 DEF AtMostOnce
      <4> QED
        BY <4>1, <4>2, <4>3
    <3> QED
      BY <2>7, <3>1, <3>2
  <2> QED
    BY <2>6, <2>7
<1> QED
  BY <1>4, <1>6

(* The last job of a victim becomes the one that w runs.                   *)
LEMMA StealPlaces ==
  ASSUME SchedInv, NEW w \in Workers, current[w] \notin Jobs, NEW victim \in Workers \ {w}, queue[victim] # <<>>,
         current' = [current EXCEPT ![w] = Last(queue[victim])],
         queue' = [queue EXCEPT ![victim] = Front(@)]
  PROVE  /\ \A job \in Jobs : AtMostOnce(job)' /\ (Placed(job)' <=> Placed(job))
         /\ queue' \in [Workers -> Seq(Jobs)] /\ Last(queue[victim]) \in Jobs
<1>1. SchedTypeOK /\ \A job \in Jobs : AtMostOnce(job)
  BY DEF SchedInv, PlacesInv
<1>2. PICK q : q = Front(queue[victim])
  OBVIOUS
<1>3. /\ q \in Seq(Jobs)
      /\ \A k \in Nat : k \in DOMAIN q <=> k \in DOMAIN queue[victim] /\ k # Len(queue[victim])
      /\ \A k \in DOMAIN q : q[k] = queue[victim][k]
      /\ Len(queue[victim]) \in DOMAIN queue[victim] /\ Len(queue[victim]) \in Nat \ {0}
      /\ Last(queue[victim]) = queue[victim][Len(queue[victim])] /\ Last(queue[victim]) \in Jobs
  <2>1. victim \in Workers /\ queue[victim] \in Seq(Jobs)
    BY <1>1, QueueType
  <2> QED
    BY <1>2, <2>1, FrontSeq
<1>4. /\ queue' \in [Workers -> Seq(Jobs)] /\ queue'[victim] = q
      /\ \A v \in Workers : v # victim => queue'[v] = queue[v]
  BY <1>1, <1>2, <1>3, OneQueue
<1>5. PICK n \in Nat \ {0} : n = Len(queue[victim])
  BY <1>3
<1>6. current'[w] = queue[victim][n] /\ \A v \in Workers : v # w => current'[v] = current[v]
  BY <1>1, <1>3, <1>5 DEF SchedTypeOK
<1>7. ASSUME NEW job \in Jobs PROVE AtMostOnce(job)' /\ (Placed(job)' <=> Placed(job))
  <2>1. 0 \notin DOMAIN queue[w] /\ ~Holds(w, 0, job)
    BY <1>1, QueueType DEF Holds, Queued
  <2>2. Holds(w, 0, job)' <=> Holds(victim, n, job)
    BY <1>3, <1>4, <1>5, <1>6, <2>1 DEF Holds, Queued
  <2>3. \A v \in Workers : \A k \in Nat : ~(v = w /\ k = 0) =>
          (Holds(v, k, job)' <=> Holds(v, k, job) /\ ~(v = victim /\ k = n))
    <3> SUFFICES ASSUME NEW v \in Workers, NEW k \in Nat, ~(v = w /\ k = 0)
                 PROVE  Holds(v, k, job)' <=> Holds(v, k, job) /\ ~(v = victim /\ k = n)
      OBVIOUS
    <3>1. (k = 0 /\ current'[v] = job) <=> (k = 0 /\ current[v] = job)
      BY <1>6
    <3>2. (k \in DOMAIN queue'[v] /\ queue'[v][k] = job)
            <=> (k \in DOMAIN queue[v] /\ queue[v][k] = job /\ ~(v = victim /\ k = n))
      BY <1>3, <1>4, <1>5
    <3> QED
      BY <3>1, <3>2 DEF Holds, Queued
  <2>4. Placed(job)' <=> Placed(job)
    BY <2>1, <2>2, <2>3 DEF Placed
  <2>5. AtMostOnce(job)'
    <3> SUFFICES ASSUME NEW v \in Workers, NEW u \in Workers, NEW k \in Nat, NEW l \in Nat,
                        Holds(v, k, job)', Holds(u, l, job)'
                 PROVE  v = u /\ k = l
      BY DEF AtMostOnce
    <3> QED
      BY <1>1, <2>2, <2>3 DEF AtMostOnce
  <2> QED
    BY <2>4, <2>5
<1> QED
  BY <1>3, <1>4, <1>7

(* A worker that does not run a job goes on without one.                   *)
LEMMA IdlePlaces ==
  ASSUME SchedInv, NEW w \in Workers, current[w] \notin Jobs, NEW x, x \notin Jobs,
         current' = [current EXCEPT ![w] = x], UNCHANGED queue, NEW job \in Jobs
  PROVE  AtMostOnce(job)' /\ (Placed(job)' <=> Placed(job))
<1>1. SchedTypeOK /\ AtMostOnce(job)
  BY DEF SchedInv, PlacesInv
<1>2. \A v \in Workers : \A k \in Nat : Holds(v, k, job)' <=> Holds(v, k, job)
  BY <1>1 DEF Holds, Queued, SchedTypeOK
<1> QED
  BY <1>1, <1>2, SamePlaces

(* A worker ends with its job.                                             *)
LEMMA DropPlaces ==
  ASSUME SchedInv, NEW w \in Workers, NEW x, x \notin Jobs,
         current' = [current EXCEPT ![w] = x], UNCHANGED queue, NEW job \in Jobs
  PROVE  AtMostOnce(job)' /\ (Placed(job)' <=> Placed(job) /\ job # current[w])
<1>1. SchedTypeOK /\ AtMostOnce(job)
  BY DEF SchedInv, PlacesInv
<1>2. \A v \in Workers : 0 \notin DOMAIN queue[v]
  BY <1>1, QueueType
<1>3. \A v \in Workers : \A k \in Nat : Holds(v, k, job)' <=> Holds(v, k, job) /\ ~(v = w /\ k = 0)
  BY <1>1, <1>2 DEF Holds, Queued, SchedTypeOK
<1>4. Holds(w, 0, job) <=> job = current[w]
  BY <1>2 DEF Holds, Queued
<1> QED
  BY <1>1, <1>3, <1>4, DroppedPlace

(* It goes to the end of the worker's own queue.                           *)
LEMMA RequeuePlaces ==
  ASSUME SchedInv, NEW w \in Workers, NEW a \in Jobs, current[w] = a, NEW x, x \notin Jobs,
         current' = [current EXCEPT ![w] = x], external_enqueue(w, a), NEW job \in Jobs
  PROVE  AtMostOnce(job)' /\ (Placed(job)' <=> Placed(job))
<1>1. SchedTypeOK /\ AtMostOnce(job)
  BY DEF SchedInv, PlacesInv
<1>2. PICK n \in Nat : n = Len(queue[w]) + 1 /\ n # 0
  BY <1>1, AppendHolds
<1>3. \A v \in Workers : 0 \notin DOMAIN queue[v]
  BY <1>1, QueueType
<1>4. \A v \in Workers : \A k \in Nat : Queued(v, k, job)' <=> Queued(v, k, job) \/ (v = w /\ k = n /\ job = a)
  BY <1>1, <1>2, AppendHolds
<1>5. current'[w] = x /\ \A v \in Workers : v # w => current'[v] = current[v]
  BY <1>1 DEF SchedTypeOK
<1>6. \A v \in Workers : \A k \in Nat :
        Holds(v, k, job)' <=> (Holds(v, k, job) /\ ~(v = w /\ k = 0)) \/ (v = w /\ k = n /\ job = a)
  <2>1. \A v \in Workers : ~Queued(v, 0, job)
    BY <1>3 DEF Queued
  <2> QED
    BY <1>2, <1>4, <1>5, <2>1 DEF Holds
<1>7. Holds(w, 0, job) <=> job = a
  BY <1>3 DEF Holds, Queued
<1>8. CASE job = a
  <2>1. \A v \in Workers : \A k \in Nat : Holds(v, k, job) => v = w /\ k = 0
    BY <1>1, <1>7, <1>8 DEF AtMostOnce
  <2>2. \A v \in Workers : \A k \in Nat : Holds(v, k, job)' <=> v = w /\ k = n
    BY <1>6, <1>8, <2>1
  <2> QED
    BY <1>7, <1>8, <2>2 DEF AtMostOnce, Placed
<1>9. CASE job # a
  <2>1. \A v \in Workers : \A k \in Nat : Holds(v, k, job)' <=> Holds(v, k, job)
    BY <1>6, <1>7, <1>9
  <2> QED
    BY <1>1, <2>1, SamePlaces
<1> QED
  BY <1>8, <1>9

-----------------------------------------------------------------------------
LEMMA SchedInitInv == SchedInit => SchedInv
<1> SUFFICES ASSUME SchedInit PROVE SchedInv
  OBVIOUS
<1>1. SchedTypeOK
  <2>1. <<>> \in Seq(Actors_ \cup {sh}) /\ 0 \in Workers
    BY SchedulerAssumption DEF Workers
  <2> QED
    BY <2>1 DEF SchedInit, SchedTypeOK
<1>2. \A w \in Workers : \A k \in Nat : \A job \in Jobs : ~Holds(w, k, job)
  BY Kinds DEF SchedInit, Holds, Queued
<1>3. PlacesInv
  BY <1>2 DEF PlacesInv, AtMostOnce, Placed, Jobs, SchedInit
<1>4. StopInv
  BY <1>2, Kinds, SchedulerAssumption DEF StopInv, Placed, Running, SchedInit, Jobs
<1>5. LateInv
  BY Kinds DEF LateInv, SchedInit
<1> QED
  BY <1>1, <1>3, <1>4, <1>5 DEF SchedInv

(* stop() is not at the queues while a worker runs.                        *)
LEMMA NotDrained ==
  ASSUME SchedInv, NEW w \in Workers, current[w] # "stopped"
  PROVE  drained = 0
  BY DEF SchedInv, StopInv, Running

LEMMA LateKept ==
  ASSUME drained = 0, UNCHANGED drained
  PROVE  LateInv'
  BY Kinds DEF LateInv

(* Workers that go on, while stop() does not step.                         *)
LEMMA StillRunning ==
  ASSUME SchedInv, NEW w \in Workers, current[w] # "stopped", NEW x, x # "stopped",
         current' = [current EXCEPT ![w] = x]
  PROVE  Running' = Running
<1>1. current \in [Workers -> Actors_ \cup {sh, "none", "raid", "stopped"}]
  BY DEF SchedInv, SchedTypeOK
<1> QED
  BY <1>1 DEF Running

LEMMA StopKept ==
  ASSUME StopInv, UNCHANGED stopVars, Running' = Running, Placed(sh)' => Placed(sh)
  PROVE  StopInv'
  BY DEF StopInv, stopVars

(* A message from outside, from an actor that runs, or from stop().        *)
LEMMA CentralInv ==
  ASSUME SchedInv, NEW a \in Actors_, central_enqueue(a)
  PROVE  SchedInv'
<1>1. SchedTypeOK /\ PlacesInv /\ StopInv /\ a \in Jobs /\ a # sh /\ next_worker \in Workers
  BY Kinds DEF SchedInv, Jobs, SchedTypeOK
<1>2. /\ external_enqueue(next_worker, a) /\ UNCHANGED <<current, resumes, stopVars>>
      /\ late' = late \cup {x \in {a} : next_worker < drained}
      /\ actor' = [actor EXCEPT ![a] = "ready"] /\ ~Placed(a)
      /\ next_worker' = (next_worker + 1) % NumWorkers
  BY <1>1 DEF central_enqueue, PlacesInv
<1>3. /\ \A job \in Jobs : AtMostOnce(job)' /\ (Placed(job)' <=> Placed(job) \/ job = a)
      /\ queue' \in [Workers -> Seq(Jobs)]
  BY <1>1, <1>2, EnqueuePlaces, AppendHolds
<1>4. next_worker' \in Workers
  BY <1>1, <1>2, SchedulerAssumption DEF Workers
<1>5. SchedTypeOK'
  BY <1>1, <1>2, <1>3, <1>4 DEF SchedTypeOK, stopVars, Jobs
<1>6. PlacesInv'
  BY <1>1, <1>2, <1>3 DEF PlacesInv, SchedTypeOK, Jobs
<1>7. StopInv'
  BY <1>1, <1>2, <1>3, StopKept DEF Running, Jobs
<1>8. LateInv'
  <2>1. LateInv /\ UNCHANGED drained
    BY <1>2 DEF SchedInv, stopVars
  <2>2. \A v \in Workers : \A k \in Nat : \A job :
          Queued(v, k, job)' => Queued(v, k, job) \/ (v = next_worker /\ job = a)
    BY <1>1, <1>2, AppendHolds
  <2> QED
    BY <1>2, <2>1, <2>2 DEF LateInv
<1> QED
  BY <1>5, <1>6, <1>7, <1>8 DEF SchedInv

LEMMA ExecLaterInv ==
  ASSUME SchedInv, NEW w \in Workers, NEW b \in Actors_, exec_later(w, b)
  PROVE  SchedInv'
<1>1. SchedTypeOK /\ PlacesInv /\ StopInv /\ b \in Jobs /\ b # sh
  BY Kinds DEF SchedInv, Jobs
<1>2. /\ internal_enqueue(w, b) /\ UNCHANGED <<current, resumes, next_worker, stopVars, late>>
      /\ actor' = [actor EXCEPT ![b] = "ready"] /\ ~Placed(b)
  BY <1>1 DEF exec_later, PlacesInv
<1>3. /\ \A job \in Jobs : AtMostOnce(job)' /\ (Placed(job)' <=> Placed(job) \/ job = b)
      /\ queue' \in [Workers -> Seq(Jobs)]
  BY <1>1, <1>2, PrependPlaces
<1>4. SchedTypeOK'
  BY <1>1, <1>2, <1>3 DEF SchedTypeOK, stopVars, Jobs
<1>5. PlacesInv'
  BY <1>1, <1>2, <1>3 DEF PlacesInv, SchedTypeOK, Jobs
<1>6. StopInv'
  BY <1>1, <1>2, <1>3, StopKept DEF Running, Jobs
<1>7. LateInv'
  <2>1. current[w] # "stopped"
    BY Kinds DEF exec_later, Runs, Jobs
  <2> QED
    BY <1>2, <2>1, NotDrained, LateKept DEF stopVars
<1> QED
  BY <1>4, <1>5, <1>6, <1>7 DEF SchedInv

LEMMA StopEnqueueInv ==
  ASSUME SchedInv, stop_enqueue
  PROVE  SchedInv'
<1>1. SchedTypeOK /\ PlacesInv /\ StopInv /\ sh \in Jobs /\ sh \notin Actors_
  BY Kinds DEF SchedInv, Jobs
<1>2. PICK w \in Workers : w = FirstAlive
  <2>1. alive_workers \subseteq Workers /\ alive_workers \in SUBSET Nat /\ alive_workers # {}
    BY <1>1, Kinds DEF SchedTypeOK, stop_enqueue
  <2>2. \E v \in alive_workers : \A u \in alive_workers : v <= u
    BY <2>1, Least
  <2> QED
    BY <2>1, <2>2 DEF FirstAlive
<1>3. /\ external_enqueue(w, sh) /\ stopping = "enqueue" /\ stopping' = "wait" /\ ~Placed(sh)
      /\ UNCHANGED <<current, actor, resumes, next_worker, alive_workers, last_worker, drained, late>>
  BY <1>1, <1>2 DEF stop_enqueue, StopInv
<1>4. /\ \A job \in Jobs : AtMostOnce(job)' /\ (Placed(job)' <=> Placed(job) \/ job = sh)
      /\ queue' \in [Workers -> Seq(Jobs)]
  BY <1>1, <1>3, EnqueuePlaces, AppendHolds
<1>5. SchedTypeOK'
  BY <1>1, <1>3, <1>4 DEF SchedTypeOK, Jobs
<1>6. PlacesInv'
  BY <1>1, <1>3, <1>4 DEF PlacesInv, Jobs
<1>7. StopInv'
  BY <1>1, <1>3 DEF StopInv, Running
<1>8. LateInv'
  BY <1>1, <1>3, LateKept DEF StopInv
<1> QED
  BY <1>5, <1>6, <1>7, <1>8 DEF SchedInv

(* A worker that looks for a job.                                          *)
LEMMA LookInv ==
  ASSUME SchedInv, NEW w \in Workers, take_first(w) \/ try_steal(w)
  PROVE  SchedInv'
<1>1. SchedTypeOK /\ PlacesInv /\ StopInv
  BY DEF SchedInv
<1>2. /\ current[w] \notin Jobs /\ current[w] # "stopped" /\ sh \in Jobs
      /\ "none" \notin Jobs /\ "raid" \notin Jobs /\ "stopped" \notin Jobs
      /\ UNCHANGED <<actor, resumes, next_worker, stopVars, late>>
  BY Kinds DEF take_first, try_steal, Jobs
<1>3. PICK x \in Jobs \cup {"none", "raid"} :
        /\ current' = [current EXCEPT ![w] = x]
        /\ queue' \in [Workers -> Seq(Jobs)]
        /\ \A job \in Jobs : AtMostOnce(job)' /\ (Placed(job)' <=> Placed(job))
  <2>1. CASE take_first(w) /\ queue[w] = <<>>
    <3>1. current' = [current EXCEPT ![w] = "raid"] /\ UNCHANGED queue
      BY <2>1 DEF take_first
    <3> QED
      BY <1>1, <1>2, <3>1, IdlePlaces DEF SchedTypeOK, Jobs
  <2>2. CASE take_first(w) /\ queue[w] # <<>>
    <3>1. current' = [current EXCEPT ![w] = Head(queue[w])] /\ queue' = [queue EXCEPT ![w] = Tail(@)]
      BY <2>2 DEF take_first
    <3> QED
      BY <1>2, <2>2, <3>1, TakePlaces
  <2>3. CASE try_steal(w) /\ current' = [current EXCEPT ![w] = "none"] /\ UNCHANGED queue
    BY <1>1, <1>2, <2>3, IdlePlaces DEF SchedTypeOK, Jobs
  <2>4. ASSUME NEW victim \in Workers \ {w}, queue[victim] # <<>>,
               current' = [current EXCEPT ![w] = Last(queue[victim])],
               queue' = [queue EXCEPT ![victim] = Front(@)]
        PROVE  \E x \in Jobs \cup {"none", "raid"} :
                 /\ current' = [current EXCEPT ![w] = x]
                 /\ queue' \in [Workers -> Seq(Jobs)]
                 /\ \A job \in Jobs : AtMostOnce(job)' /\ (Placed(job)' <=> Placed(job))
    BY <1>2, <2>4, StealPlaces
  <2> QED
    BY <2>1, <2>2, <2>3, <2>4 DEF try_steal
<1>4. SchedTypeOK'
  BY <1>1, <1>2, <1>3 DEF SchedTypeOK, stopVars, Jobs
<1>5. PlacesInv'
  BY <1>1, <1>2, <1>3 DEF PlacesInv, Jobs
<1>6. StopInv'
  <2>1. x # "stopped"
    BY <1>2
  <2>2. Running' = Running
    BY <1>2, <1>3, <2>1, StillRunning
  <2> QED
    BY <1>1, <1>2, <1>3, <2>2, StopKept
<1>7. LateInv'
  BY <1>2, NotDrained, LateKept DEF stopVars
<1> QED
  BY <1>4, <1>5, <1>6, <1>7 DEF SchedInv

(* A worker whose job returns from resume().                               *)
LEMMA ResumedInv ==
  ASSUME SchedInv, NEW w \in Workers, NEW a \in Actors_,
         resume_later(w, a) \/ awaiting_message(w, a) \/ done(w, a)
  PROVE  SchedInv'
<1>1. SchedTypeOK /\ PlacesInv /\ StopInv /\ a \in Jobs /\ a # sh /\ sh \in Jobs
  BY Kinds DEF SchedInv, Jobs
<1>2. PICK state \in {"ready", "waiting", "detached"} :
        /\ Resumed(w, a, state)
        /\ \/ state = "ready" /\ external_enqueue(w, a)
           \/ state # "ready" /\ UNCHANGED queue
  BY DEF resume_later, awaiting_message, done
<1>3. /\ current[w] = a /\ current' = [current EXCEPT ![w] = "none"]
      /\ actor' = [actor EXCEPT ![a] = state] /\ resumes' = [resumes EXCEPT ![a] = @ + 1]
      /\ UNCHANGED <<next_worker, stopVars, late>>
  BY <1>2 DEF Resumed, Runs
<1>4. Placed(a) /\ actor[a] = "ready" /\ "none" \notin Jobs /\ a # "stopped"
  BY <1>1, <1>3, Kinds DEF Placed, Holds, PlacesInv, Jobs
<1>5. /\ queue' \in [Workers -> Seq(Jobs)]
      /\ \A job \in Jobs : AtMostOnce(job)' /\ (Placed(job)' <=> Placed(job) /\ (job = a => state = "ready"))
  <2>1. CASE state = "ready" /\ external_enqueue(w, a)
    BY <1>1, <1>3, <1>4, <2>1, RequeuePlaces, AppendHolds
  <2>2. CASE state # "ready" /\ UNCHANGED queue
    BY <1>1, <1>3, <1>4, <2>2, DropPlaces DEF SchedTypeOK, Jobs
  <2> QED
    BY <1>2, <2>1, <2>2
<1>6. SchedTypeOK'
  <2>1. resumes' \in [Actors_ -> Nat]
    BY <1>1, <1>3 DEF SchedTypeOK
  <2>2. actor' \in [Actors_ -> {"new", "ready", "waiting", "detached"}]
    BY <1>1, <1>3 DEF SchedTypeOK
  <2>3. current' \in [Workers -> Actors_ \cup {sh, "none", "raid", "stopped"}]
    BY <1>1, <1>3 DEF SchedTypeOK
  <2> QED
    BY <1>1, <1>3, <1>5, <2>1, <2>2, <2>3 DEF SchedTypeOK, stopVars, Jobs
<1>7. PlacesInv'
  BY <1>1, <1>3, <1>4, <1>5 DEF PlacesInv, SchedTypeOK, Jobs
<1>8. StopInv'
  <2>1. Running' = Running
    BY <1>3, <1>4, StillRunning
  <2> QED
    BY <1>1, <1>3, <1>5, <2>1, StopKept
<1>9. LateInv'
  BY <1>3, <1>4, NotDrained, LateKept DEF stopVars
<1> QED
  BY <1>6, <1>7, <1>8, <1>9 DEF SchedInv

(* The worker that takes the shutdown_helper is the one stop() hears of.   *)
LEMMA ShutdownInv ==
  ASSUME SchedInv, NEW w \in Workers, shutdown_execution_unit(w)
  PROVE  SchedInv'
<1>1. SchedTypeOK /\ PlacesInv /\ StopInv /\ sh \in Jobs /\ sh # "stopped" /\ "stopped" \notin Jobs
      /\ NoWorker \notin Workers
  BY Kinds DEF SchedInv, Jobs
<1>2. /\ current[w] = sh /\ current' = [current EXCEPT ![w] = "stopped"] /\ last_worker' = w
      /\ UNCHANGED <<queue, actor, resumes, next_worker, stopping, alive_workers, drained, late>>
  BY DEF shutdown_execution_unit
<1>3. Placed(sh)
  BY <1>2 DEF Placed, Holds
<1>4. /\ stopping = "wait" /\ last_worker = NoWorker /\ alive_workers \ {last_worker} = Running
      /\ drained = 0 /\ drained # NumWorkers
  BY <1>1, <1>3 DEF StopInv
<1>5. \A job \in Jobs : AtMostOnce(job)' /\ (Placed(job)' <=> Placed(job) /\ job # sh)
  BY <1>1, <1>2, DropPlaces
<1>6. SchedTypeOK'
  BY <1>1, <1>2 DEF SchedTypeOK
<1>7. PlacesInv'
  BY <1>1, <1>2, <1>5, Kinds DEF PlacesInv, Jobs
<1>8. StopInv'
  <2>1. Running' = Running \ {w}
    BY <1>1, <1>2 DEF Running, SchedTypeOK
  <2>2. alive_workers = Running
    BY <1>1, <1>4 DEF SchedTypeOK
  <2>3. ~Placed(sh)'
    BY <1>1, <1>5
  <2> QED
    BY <1>2, <1>4, <2>1, <2>2, <2>3 DEF StopInv
<1>9. LateInv'
  BY <1>2, <1>4, LateKept
<1> QED
  BY <1>6, <1>7, <1>8, <1>9 DEF SchedInv

(* stop() outside of the queues.                                           *)
LEMMA StopInvs ==
  ASSUME SchedInv, stop \/ stop_wait \/ stop_join
  PROVE  SchedInv'
<1>1. SchedTypeOK /\ PlacesInv /\ StopInv /\ NoWorker \notin Workers
  BY Kinds DEF SchedInv
<1>2. UNCHANGED <<queue, current, actor, resumes, next_worker, drained, late>>
  BY DEF stop, stop_wait, stop_join
<1>3. (\A job : AtMostOnce(job)' <=> AtMostOnce(job)) /\ (\A job : Placed(job)' <=> Placed(job)) /\ Running' = Running
  BY <1>2 DEF AtMostOnce, Placed, Holds, Queued, Running
<1>4. PlacesInv'
  BY <1>1, <1>2, <1>3 DEF PlacesInv
<1>5. SchedTypeOK' /\ StopInv'
  <2>1. CASE stop
    BY <1>1, <1>2, <1>3, <2>1 DEF stop, SchedTypeOK, StopInv
  <2>2. CASE stop_wait
    BY <1>1, <1>2, <1>3, <2>2 DEF stop_wait, SchedTypeOK, StopInv
  <2>3. CASE stop_join
    BY <1>1, <1>2, <1>3, <2>3 DEF stop_join, SchedTypeOK, StopInv
  <2> QED
    BY <2>1, <2>2, <2>3
<1>6. LateInv'
  BY <1>2 DEF SchedInv, LateInv, Queued
<1> QED
  BY <1>4, <1>5, <1>6 DEF SchedInv

(* stop() at the queue of a worker: it takes a job or goes on.             *)
LEMMA TakeHeadInv ==
  ASSUME SchedInv, stopping = "cleanup", take_head,
         UNCHANGED <<current, resumes, next_worker, alive_workers, last_worker, late>>
  PROVE  SchedInv'
<1>1. SchedTypeOK /\ PlacesInv /\ StopInv /\ LateInv /\ "stopped" \notin Jobs /\ sh \in Jobs
  BY Kinds DEF SchedInv, Jobs
<1>2. PICK w \in Workers : w = drained
  BY <1>1, SchedulerAssumption DEF SchedTypeOK, StopInv, Workers
<1>3. current[w] \notin Jobs
  BY <1>1 DEF StopInv, Running
<1>4. /\ queue[w] # <<>> /\ queue' = [queue EXCEPT ![w] = Tail(@)]
      /\ actor' = [a \in Actors_ |-> IF a = Head(queue[w]) THEN "detached" ELSE actor[a]]
      /\ UNCHANGED <<drained, stopping>>
  BY <1>2 DEF take_head
<1>5. /\ \A job \in Jobs : AtMostOnce(job)' /\ (Placed(job)' <=> Placed(job) /\ job # Head(queue[w]))
      /\ queue' \in [Workers -> Seq(Jobs)] /\ \A v \in Workers : v # w => queue'[v] = queue[v]
  BY <1>3, <1>4, HeadPlaces
<1>6. SchedTypeOK'
  <2>1. actor' \in [Actors_ -> {"new", "ready", "waiting", "detached"}]
    BY <1>1, <1>4 DEF SchedTypeOK
  <2> QED
    BY <1>1, <1>4, <1>5, <2>1 DEF SchedTypeOK, Jobs
<1>7. PlacesInv'
  BY <1>1, <1>4, <1>5 DEF PlacesInv, Jobs
<1>8. StopInv'
  BY <1>1, <1>4, <1>5 DEF StopInv, Running
<1>9. LateInv'
  <2> SUFFICES ASSUME NEW v \in Workers, NEW k \in Nat, NEW job, v < drained, Queued(v, k, job)'
               PROVE  job \in late
    BY <1>4 DEF LateInv
  <2>1. v # w
    BY <1>2, Kinds
  <2> QED
    BY <1>1, <1>5, <2>1 DEF LateInv, Queued
<1> QED
  BY <1>6, <1>7, <1>8, <1>9 DEF SchedInv

LEMMA NoHeadInv ==
  ASSUME SchedInv, stopping = "cleanup", NoHead(drained + 1),
         UNCHANGED <<current, resumes, next_worker, alive_workers, last_worker, late>>
  PROVE  SchedInv'
<1>1. SchedTypeOK /\ PlacesInv /\ StopInv /\ LateInv
  BY DEF SchedInv
<1>2. PICK w \in Workers : w = drained
  BY <1>1, SchedulerAssumption DEF SchedTypeOK, StopInv, Workers
<1>3. /\ queue[w] = <<>> /\ drained' = w + 1 /\ UNCHANGED <<actor, queue>>
      /\ stopping' = IF w + 1 = NumWorkers THEN "done" ELSE "cleanup"
  BY <1>2 DEF NoHead
<1>4. /\ \A job : AtMostOnce(job)' <=> AtMostOnce(job)
      /\ \A job : Placed(job)' <=> Placed(job)
      /\ Running' = Running
  BY <1>3 DEF AtMostOnce, Placed, Holds, Queued, Running
<1>5. SchedTypeOK'
  <2>1. w + 1 \in 0..NumWorkers
    BY SchedulerAssumption DEF Workers
  <2> QED
    BY <1>1, <1>3, <2>1 DEF SchedTypeOK
<1>6. PlacesInv'
  BY <1>1, <1>3, <1>4 DEF PlacesInv
<1>7. StopInv'
  BY <1>1, <1>3, <1>4 DEF StopInv
<1>8. LateInv'
  <2> SUFFICES ASSUME NEW v \in Workers, NEW k \in Nat, NEW job, v < w + 1, Queued(v, k, job)
               PROVE  job \in late
    BY <1>3 DEF LateInv, Queued
  <2>1. v # w
    BY <1>3 DEF Queued
  <2>2. v < drained
    BY <1>2, <2>1, Kinds
  <2> QED
    BY <1>1, <2>2 DEF LateInv
<1> QED
  BY <1>5, <1>6, <1>7, <1>8 DEF SchedInv

LEMMA CleanupInv ==
  ASSUME SchedInv, stop_cleanup
  PROVE  SchedInv'
  BY TakeHeadInv, NoHeadInv DEF stop_cleanup

(* What stop() leaves behind when it returns.                              *)
LEMMA InvIsOnlyLateLeft == SchedInv => OnlyLateLeft
<1> SUFFICES ASSUME SchedInv, stopping = "done"
             PROVE  /\ \A w \in Workers : current[w] = "stopped"
                    /\ \A a \in Actors_ : actor[a] = "ready" => a \in late
  BY DEF OnlyLateLeft
<1>1. PlacesInv /\ StopInv /\ LateInv /\ "stopped" \notin Jobs
  BY Kinds DEF SchedInv
<1>2. \A w \in Workers : current[w] = "stopped" /\ w < drained
  BY <1>1, SchedulerAssumption DEF StopInv, Running, Workers
<1>3. ASSUME NEW a \in Actors_, actor[a] = "ready" PROVE a \in late
  <2>1. PICK w \in Workers : \E k \in Nat : Holds(w, k, a)
    BY <1>1, <1>3 DEF PlacesInv, Placed
  <2>2. PICK k \in Nat : Queued(w, k, a)
    BY <1>1, <1>2, <2>1 DEF Holds, Jobs
  <2> QED
    BY <1>1, <1>2, <2>2 DEF LateInv
<1> QED
  BY <1>2, <1>3

LEMMA SchedStepInv == SchedInv /\ [SchedNext]_schedVars => SchedInv'
<1> SUFFICES ASSUME SchedInv, [SchedNext]_schedVars PROVE SchedInv'
  OBVIOUS
<1>1. CASE UNCHANGED schedVars
  <2>1. (\A job : AtMostOnce(job)' <=> AtMostOnce(job)) /\ (\A job : Placed(job)' <=> Placed(job)) /\ Running' = Running
    BY <1>1 DEF AtMostOnce, Placed, Holds, Queued, Running, schedVars
  <2> QED
    BY <1>1, <2>1 DEF SchedInv, SchedTypeOK, PlacesInv, StopInv, LateInv, Queued, schedVars
<1>2. CASE SchedNext
  <2>1. ASSUME NEW w \in Workers, WorkerStep(w) PROVE SchedInv'
    BY <2>1, LookInv, ShutdownInv, ExecLaterInv, ResumedInv DEF WorkerStep
  <2> QED
    BY <1>2, <2>1, CentralInv, StopInvs, StopEnqueueInv, CleanupInv DEF SchedNext, StopStep
<1> QED
  BY <1>1, <1>2

(* The inductive invariant of the scheduler: every job has its place       *)
(* (worker.hpp:105, work_stealing.hpp:90, coordinator.hpp:110).            *)
THEOREM SchedInvariant == SchedSpec => []SchedInv
  BY SchedInitInv, SchedStepInv, PTL DEF SchedSpec

(* For any number of workers and actors, a ready actor is in exactly one   *)
(* queue or run by exactly one worker, and stop() knows which workers are  *)
(* left (work_stealing.hpp:90, coordinator.hpp:110).                       *)
THEOREM SchedJobsKept == SchedSpec => []JobsKept
  BY SchedInvariant, InvIsJobsKept, PTL

(* For any number of workers and actors, once stop() returns every worker  *)
(* has ended and the actors that are still ready were put in a queue that  *)
(* it had been through (coordinator.hpp:131, work_stealing.hpp:187).       *)
THEOREM SchedOnlyLateLeft == SchedSpec => []OnlyLateLeft
  BY SchedInvariant, InvIsOnlyLateLeft, PTL
=============================================================================
