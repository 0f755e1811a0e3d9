----------------------------- MODULE Scheduler ------------------------------
(***************************************************************************)
(* The work-stealing scheduler: workers that run jobs from their queues    *)
(* (worker, work_stealing) and the coordinator that starts and stops them. *)
(* A queue is a sequence here: WorkerDeque shows that its operations take  *)
(* effect at once.  A job is an actor that is resumed; what it does while  *)
(* it runs is left open, except that it may send to another actor, which   *)
(* schedules that one if it was waiting for a message.                     *)
(***************************************************************************)
EXTENDS Naturals, Sequences, FiniteSets, SeqOps

CONSTANTS NumWorkers,
          Actors_,      \* the actors that are scheduled
          MaxResumes    \* resumes of an actor before it is done

Workers == 0..(NumWorkers - 1)
NoWorker == NumWorkers       \* nullptr
sh == "shutdown_helper"

ASSUME SchedulerAssumption ==
  /\ NumWorkers \in Nat \ {0} /\ MaxResumes \in Nat
  /\ {sh, "none", "raid", "stopped"} \cap Actors_ = {}

VARIABLES queue,        \* the queue of a worker, head first
          current,      \* the job a worker resumes, "none", "raid" or "stopped"
          actor,        \* "new", "ready" (a job), "waiting", "detached"
          resumes,      \* resumes of an actor so far
          next_worker,  \* of the coordinator
          stopping,     \* where stop() is
          alive_workers, last_worker,
          drained,      \* workers whose queue stop() found empty at the end
          late          \* auxiliary: the actors enqueued for one of those

schedVars == <<queue, current, actor, resumes, next_worker, stopping,
               alive_workers, last_worker, drained, late>>
stopVars == <<stopping, alive_workers, last_worker, drained>>

SchedInit ==
  /\ queue = [w \in Workers |-> <<>>]
  /\ current = [w \in Workers |-> "none"]
  /\ actor = [a \in Actors_ |-> "new"]
  /\ resumes = [a \in Actors_ |-> 0]
  /\ next_worker = 0
  /\ stopping = "no" /\ alive_workers = Workers /\ last_worker = NoWorker
  /\ drained = 0 /\ late = {}

external_enqueue(w, job) == queue' = [queue EXCEPT ![w] = Append(@, job)]
internal_enqueue(w, job) == queue' = [queue EXCEPT ![w] = <<job>> \o @]

(* A launch, or a message from outside to an actor that waits for one:     *)
(* central_enqueue() hands it to the workers in turn.  The middleman does  *)
(* so even after stop(), as the scheduler is stopped before it; such a job *)
(* is late when stop() has been through the queue it is put in.            *)
central_enqueue(a) ==
  /\ actor[a] \in {"new", "waiting"}
  /\ actor' = [actor EXCEPT ![a] = "ready"]
  /\ external_enqueue(next_worker, a)
  /\ next_worker' = (next_worker + 1) % NumWorkers
  /\ late' = late \cup {x \in {a} : next_worker < drained}
  /\ UNCHANGED <<current, resumes, stopVars>>

(* dequeue(): the own queue first; when it was found empty, the tail of a  *)
(* victim's, over and over.                                                *)
take_first(w) ==
  /\ current[w] = "none"
  /\ IF queue[w] = <<>>
     THEN current' = [current EXCEPT ![w] = "raid"] /\ UNCHANGED queue
     ELSE /\ current' = [current EXCEPT ![w] = Head(queue[w])]
          /\ queue' = [queue EXCEPT ![w] = Tail(@)]
  /\ UNCHANGED <<actor, resumes, next_worker, stopVars, late>>

(* A mutant of try_steal: the job stays with its victim.                   *)
StealCopies(w) ==
  /\ current[w] = "raid"
  /\ \E victim \in Workers \ {w} :
       current' = [current EXCEPT ![w] =
         IF queue[victim] = <<>> THEN "none" ELSE Last(queue[victim])]
  /\ UNCHANGED <<queue, actor, resumes, next_worker, stopVars, late>>

try_steal(w) ==
  /\ current[w] = "raid"
  /\ \/ /\ NumWorkers < 2 \/ \E victim \in Workers \ {w} : queue[victim] = <<>>
        /\ current' = [current EXCEPT ![w] = "none"]
        /\ UNCHANGED queue
     \/ \E victim \in Workers \ {w} :
          /\ queue[victim] # <<>>
          /\ current' = [current EXCEPT ![w] = Last(queue[victim])]
          /\ queue' = [queue EXCEPT ![victim] = Front(@)]
  /\ UNCHANGED <<actor, resumes, next_worker, stopVars, late>>

Runs(w, a) == current[w] = a /\ a \in Actors_

(* While it is resumed an actor sends to one that waits: exec_later().     *)
exec_later(w, b) ==
  /\ \E a \in Actors_ : Runs(w, a)
  /\ actor[b] \in {"new", "waiting"}
  /\ actor' = [actor EXCEPT ![b] = "ready"]
  /\ internal_enqueue(w, b)
  /\ UNCHANGED <<current, resumes, next_worker, stopVars, late>>

Resumed(w, a, state) ==
  /\ Runs(w, a)
  /\ current' = [current EXCEPT ![w] = "none"]
  /\ actor' = [actor EXCEPT ![a] = state]
  /\ resumes' = [resumes EXCEPT ![a] = @ + 1]
  /\ UNCHANGED <<next_worker, stopVars, late>>

(* The results of resume(); an actor at its bound is done.                 *)
resume_later(w, a) ==
  /\ resumes[a] < MaxResumes
  /\ Resumed(w, a, "ready") /\ external_enqueue(w, a)
awaiting_message(w, a) ==
  /\ resumes[a] < MaxResumes
  /\ Resumed(w, a, "waiting") /\ UNCHANGED queue
done(w, a) == Resumed(w, a, "detached") /\ UNCHANGED queue

(* A mutant of shutdown_execution_unit: it does not say which worker.      *)
ShutdownSilent(w) ==
  /\ current[w] = sh
  /\ current' = [current EXCEPT ![w] = "stopped"]
  /\ UNCHANGED <<queue, actor, resumes, next_worker, stopVars, late>>

(* The shutdown_helper is resumed: the worker leaves its loop.             *)
shutdown_execution_unit(w) ==
  /\ current[w] = sh
  /\ current' = [current EXCEPT ![w] = "stopped"]
  /\ last_worker' = w
  /\ UNCHANGED <<queue, actor, resumes, next_worker, stopping, alive_workers,
                 drained, late>>

-----------------------------------------------------------------------------
(* stop(): one shutdown_helper at a time, until no worker is left.         *)
stop ==
  /\ stopping = "no"
  /\ stopping' = "enqueue"
  /\ UNCHANGED <<queue, current, actor, resumes, next_worker, alive_workers,
                 last_worker, drained, late>>

FirstAlive == CHOOSE w \in alive_workers : \A v \in alive_workers : w <= v

stop_enqueue ==
  /\ stopping = "enqueue" /\ alive_workers # {}
  /\ external_enqueue(FirstAlive, sh)
  /\ stopping' = "wait"
  /\ UNCHANGED <<current, actor, resumes, next_worker, alive_workers, last_worker,
                 drained, late>>

stop_wait ==
  /\ stopping = "wait" /\ last_worker # NoWorker
  /\ alive_workers' = alive_workers \ {last_worker}
  /\ last_worker' = NoWorker /\ stopping' = "enqueue"
  /\ UNCHANGED <<queue, current, actor, resumes, next_worker, drained, late>>

(* stop_actors() sends exit messages to the timer and the printer, which   *)
(* are threads of their own; join() returns once all workers stopped.      *)
stop_join ==
  /\ stopping = "enqueue" /\ alive_workers = {}
  /\ \A w \in Workers : current[w] = "stopped"
  /\ stopping' = "cleanup"
  /\ UNCHANGED <<queue, current, actor, resumes, next_worker, alive_workers,
                 last_worker, drained, late>>

(* foreach_resumable() takes the head of a worker's queue and detaches it  *)
(* until there is none, then the next worker's, while others enqueue.      *)
take_head ==
  /\ queue[drained] # <<>>
  /\ actor' = [a \in Actors_ |->
       IF a = Head(queue[drained]) THEN "detached" ELSE actor[a]]
  /\ queue' = [queue EXCEPT ![drained] = Tail(@)]
  /\ UNCHANGED <<drained, stopping>>

NoHead(next) ==
  /\ queue[drained] = <<>>
  /\ drained' = next
  /\ stopping' = IF next = NumWorkers THEN "done" ELSE "cleanup"
  /\ UNCHANGED <<actor, queue>>

(* A mutant of stop_cleanup: only the first queue is emptied.              *)
CleanupFirst ==
  /\ stopping = "cleanup"
  /\ take_head \/ NoHead(NumWorkers)
  /\ UNCHANGED <<current, resumes, next_worker, alive_workers, last_worker, late>>

stop_cleanup ==
  /\ stopping = "cleanup"
  /\ take_head \/ NoHead(drained + 1)
  /\ UNCHANGED <<current, resumes, next_worker, alive_workers, last_worker, late>>

WorkerStep(w) ==
  \/ take_first(w) \/ try_steal(w) \/ shutdown_execution_unit(w)
  \/ \E a \in Actors_ :
       exec_later(w, a) \/ resume_later(w, a) \/ awaiting_message(w, a) \/ done(w, a)
StopStep == stop_enqueue \/ stop_wait \/ stop_join \/ stop_cleanup

SchedNext ==
  \/ \E a \in Actors_ : central_enqueue(a)
  \/ \E w \in Workers : WorkerStep(w)
  \/ stop \/ StopStep

(* Worker threads and the thread in stop() run.                            *)
SchedSpec ==
  /\ SchedInit /\ [][SchedNext]_schedVars
  /\ \A w \in Workers : WF_schedVars(WorkerStep(w))
  /\ WF_schedVars(StopStep)

-----------------------------------------------------------------------------
Positions(job) ==
  UNION {{w} \X {i \in DOMAIN queue[w] : queue[w][i] = job} : w \in Workers}
Holders(job) == Cardinality(Positions(job)) + Cardinality({w \in Workers : current[w] = job})

(* Every variable has its type.                                            *)
SchedTypeOK ==
  /\ queue \in [Workers -> Seq(Actors_ \cup {sh})]
  /\ current \in [Workers -> Actors_ \cup {sh, "none", "raid", "stopped"}]
  /\ actor \in [Actors_ -> {"new", "ready", "waiting", "detached"}]
  /\ resumes \in [Actors_ -> Nat]
  /\ next_worker \in Workers
  /\ stopping \in {"no", "enqueue", "wait", "cleanup", "done"}
  /\ alive_workers \subseteq Workers
  /\ last_worker \in Workers \cup {NoWorker}
  /\ drained \in 0..NumWorkers
  /\ late \subseteq Actors_

(* An actor is run by one worker at a time and never lost: a ready actor   *)
(* is in exactly one queue or run by exactly one worker, also while jobs   *)
(* are stolen and workers stop (work_stealing.hpp:90, coordinator.hpp:76). *)
RunOnce == \A a \in Actors_ : Holders(a) = IF actor[a] = "ready" THEN 1 ELSE 0

(* stop() knows which workers are left although shutdown helpers are       *)
(* stolen (coordinator.hpp:110).                                           *)
StopKnowsWorkers ==
  /\ stopping # "wait" =>
       alive_workers = {w \in Workers : current[w] # "stopped"}
  /\ Holders(sh) <= 1

(* Of the actors scheduled while stop() goes through the queues only those *)
(* are left that were put in a queue it had been through: once it returns  *)
(* every worker has ended and every job enqueued before its queue was      *)
(* found empty is detached (coordinator.hpp:131, work_stealing.hpp:187).   *)
(* The late ones stay ready for ever: nobody takes them or cleans them up. *)
OnlyLateLeft ==
  stopping = "done" =>
    /\ \A w \in Workers : current[w] = "stopped"
    /\ \A a \in Actors_ : actor[a] = "ready" => a \in late

(* stop() returns, given that actors come to an end (coordinator.hpp:110). *)
StopReturns == stopping = "enqueue" ~> stopping = "done"

(* However jobs are stolen and workers stopped, a ready actor is in one    *)
(* place and stop() knows who is left (work_stealing.hpp:90,               *)
(* coordinator.hpp:110).                                                   *)
JobsKept == SchedTypeOK /\ RunOnce /\ StopKnowsWorkers
=============================================================================
