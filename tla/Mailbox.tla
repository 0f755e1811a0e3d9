------------------------------- MODULE Mailbox ------------------------------
(***************************************************************************)
(* The mailbox of an event-based actor in CAF (single_reader_queue), the   *)
(* senders that enqueue to it, and the reader: the actor, resumed by       *)
(* scheduler threads (cooperative_scheduling, event_based_resume).  Every  *)
(* access to the atomic m_stack is a step of its own; the rest is local to *)
(* one thread.                                                             *)
(*                                                                         *)
(* m_stack points to empty or blocked dummies, is null once the queue is   *)
(* closed, or points to the newest message of a list (stack below, newest  *)
(* first).  m_head is the reader's own list, oldest first.                 *)
(***************************************************************************)
EXTENDS Naturals, Sequences, SeqOps

CONSTANTS Senders,
          Quota,          \* messages each sender sends
          MaxThroughput   \* messages handled per resume

ASSUME QuotaAssumption == Quota \in Nat
ASSUME ThroughputAssumption == MaxThroughput \in Nat \ {0}

VARIABLES top,        \* "empty", "blocked", "closed" or "list": where m_stack points
          stack,      \* the list it points to, newest first
          head,       \* m_head, oldest first
          pc,         \* where the actor is; "new" or "off" when no thread runs it
          seen,       \* e in fetch_new_data: the value of m_stack last read
          left,       \* iterations left in the loop of resume
          jobs,       \* how often the actor is in a scheduler queue
          sender,     \* sender: "idle", "cas" or "notify"
          loaded,     \* e in enqueue
          sent,       \* messages a sender has created
          taken       \* history: messages handed to the actor

vars == <<top, stack, head, pc, seen, left, jobs, sender, loaded, sent, taken>>

Messages == Senders \X (1..Quota)

(* The value of the pointer m_stack.                                       *)
Pointer == IF top = "list" THEN stack[1] ELSE <<top>>
Empty == <<"empty">>
Blocked == <<"blocked">>
Closed == <<"closed">>

(* A fresh actor is launched: it is in a scheduler queue once.             *)
Init ==
  /\ top = "empty" /\ stack = <<>> /\ head = <<>>
  /\ pc = "new" /\ seen = Empty /\ left = 0 /\ jobs = 1
  /\ sender = [s \in Senders |-> "idle"]
  /\ loaded = [s \in Senders |-> Empty]
  /\ sent = [s \in Senders |-> 0]
  /\ taken = <<>>

-----------------------------------------------------------------------------
(* enqueue(): m_stack.load()                                               *)
Load(s) ==
  /\ sender[s] = "idle" /\ sent[s] < Quota
  /\ sent' = [sent EXCEPT ![s] = @ + 1]
  /\ loaded' = [loaded EXCEPT ![s] = Pointer]
  /\ sender' = [sender EXCEPT ![s] = "cas"]
  /\ UNCHANGED <<top, stack, head, pc, seen, left, jobs, taken>>

(* The queue has been closed: the message is deleted.                      *)
Refused(s) ==
  /\ sender[s] = "cas" /\ loaded[s] = Closed
  /\ sender' = [sender EXCEPT ![s] = "idle"]
  /\ UNCHANGED <<top, stack, head, pc, seen, left, jobs, loaded, sent, taken>>

(* Mutants of Push: every enqueue schedules the actor; none does.          *)
PushAlwaysNotifies(s) ==
  /\ sender[s] = "cas" /\ loaded[s] # Closed /\ loaded[s] = Pointer
  /\ top' = "list"
  /\ stack' = <<<<s, sent[s]>>>> \o stack
  /\ sender' = [sender EXCEPT ![s] = "notify"]
  /\ UNCHANGED <<head, pc, seen, left, jobs, loaded, sent, taken>>

PushNeverNotifies(s) ==
  /\ sender[s] = "cas" /\ loaded[s] # Closed /\ loaded[s] = Pointer
  /\ top' = "list"
  /\ stack' = <<<<s, sent[s]>>>> \o stack
  /\ sender' = [sender EXCEPT ![s] = "idle"]
  /\ UNCHANGED <<head, pc, seen, left, jobs, loaded, sent, taken>>

(* compare_exchange_strong succeeds.  Whoever replaces the blocked dummy   *)
(* has unblocked the reader and must schedule it.                          *)
Push(s) ==
  /\ sender[s] = "cas" /\ loaded[s] # Closed /\ loaded[s] = Pointer
  /\ top' = "list"
  /\ stack' = <<<<s, sent[s]>>>> \o stack
  /\ sender' = [sender EXCEPT ![s] = IF loaded[s] = Blocked THEN "notify" ELSE "idle"]
  /\ UNCHANGED <<head, pc, seen, left, jobs, loaded, sent, taken>>

(* It fails and stores the current value in e.                             *)
PushFails(s) ==
  /\ sender[s] = "cas" /\ loaded[s] # Closed /\ loaded[s] # Pointer
  /\ loaded' = [loaded EXCEPT ![s] = Pointer]
  /\ UNCHANGED <<top, stack, head, pc, seen, left, jobs, sender, sent, taken>>

(* exec_later, or enqueue of the coordinator.                              *)
Notify(s) ==
  /\ sender[s] = "notify"
  /\ jobs' = jobs + 1
  /\ sender' = [sender EXCEPT ![s] = "idle"]
  /\ UNCHANGED <<top, stack, head, pc, seen, left, loaded, sent, taken>>

-----------------------------------------------------------------------------
(* A scheduler thread takes the actor from its queue: resume().  The first *)
(* time this runs make_behavior, after which the actor may be done, or     *)
(* be revived by its on_exit and run again later.                          *)
Resume ==
  /\ jobs > 0
  /\ jobs' = jobs - 1
  /\ left' = MaxThroughput
  /\ \/ pc \in {"new", "off"} /\ pc' = "pop"
     \/ pc = "new" /\ pc' \in {"close", "later"}
  /\ UNCHANGED <<top, stack, head, seen, sender, loaded, sent, taken>>

(* The end of an iteration of the for loop in resume.                      *)
EndIteration ==
  /\ left' = left - 1
  /\ pc' = IF left = 1 THEN "check" ELSE "pop"

(* take_head(): a message is in m_head.  The actor handles or caches it,   *)
(* and goes on; or it is done and cleanup() begins by deleting m_head; or  *)
(* it ends with an exception and on_exit or a handler revives it.          *)
Pop ==
  /\ pc = "pop" /\ head # <<>>
  /\ taken' = Append(taken, head[1])
  /\ \/ head' = Tail(head) /\ EndIteration
     \/ head' = <<>> /\ pc' = "close" /\ UNCHANGED left
     \/ head' = Tail(head) /\ pc' = "later" /\ UNCHANGED left
  /\ UNCHANGED <<top, stack, seen, jobs, sender, loaded, sent>>

(* fetch_new_data(): m_stack.load()                                        *)
Fetch ==
  /\ pc = "pop" /\ head = <<>>
  /\ seen' = Pointer
  /\ pc' = IF Pointer = Empty THEN "block" ELSE "swap"
  /\ UNCHANGED <<top, stack, head, left, jobs, sender, loaded, sent, taken>>

(* Mutant of Swap: the list is not reversed.                               *)
SwapUnreversed ==
  /\ pc = "swap" /\ seen = Pointer
  /\ head' = stack
  /\ top' = "empty" /\ stack' = <<>>
  /\ pc' = "pop"
  /\ UNCHANGED <<seen, left, jobs, sender, loaded, sent, taken>>

(* compare_exchange_weak succeeds, and the list is turned around.          *)
Swap ==
  /\ pc = "swap" /\ seen = Pointer
  /\ head' = Reverse(stack)
  /\ top' = "empty" /\ stack' = <<>>
  /\ pc' = "pop"
  /\ UNCHANGED <<seen, left, jobs, sender, loaded, sent, taken>>

(* It fails, maybe spuriously.                                             *)
SwapFails ==
  /\ pc \in {"swap", "closing"}
  /\ seen' = Pointer
  /\ UNCHANGED <<top, stack, head, pc, left, jobs, sender, loaded, sent, taken>>

(* try_block(): an empty queue is marked blocked and the thread leaves     *)
(* with awaiting_message; a message that came in goes to the next          *)
(* iteration.                                                              *)
TryBlock ==
  /\ pc = "block"
  /\ \/ top = "empty" /\ top' = "blocked" /\ pc' = "off" /\ UNCHANGED left
     \/ top # "empty" /\ UNCHANGED top /\ EndIteration
  /\ UNCHANGED <<stack, head, seen, jobs, sender, loaded, sent, taken>>

(* After the loop: can_fetch_more().                                       *)
Check ==
  /\ pc = "check"
  /\ pc' = IF head # <<>> \/ top = "list" THEN "later" ELSE "lastblock"
  /\ UNCHANGED <<top, stack, head, seen, left, jobs, sender, loaded, sent, taken>>

LastBlock ==
  /\ pc = "lastblock"
  /\ \/ top = "empty" /\ top' = "blocked" /\ pc' = "off"
     \/ top # "empty" /\ UNCHANGED top /\ pc' = "later"
  /\ UNCHANGED <<stack, head, seen, left, jobs, sender, loaded, sent, taken>>

(* resume_later: the thread puts the actor back into its queue.            *)
Later ==
  /\ pc = "later"
  /\ jobs' = jobs + 1
  /\ pc' = "off"
  /\ UNCHANGED <<top, stack, head, seen, left, sender, loaded, sent, taken>>

(* close(): fetch_new_data(nullptr), then what it fetched is deleted.      *)
CloseLoad ==
  /\ pc = "close"
  /\ seen' = Pointer
  /\ pc' = "closing"
  /\ UNCHANGED <<top, stack, head, left, jobs, sender, loaded, sent, taken>>

CloseSwap ==
  /\ pc = "closing" /\ seen = Pointer
  /\ top' = "closed" /\ stack' = <<>>
  /\ pc' = "done"
  /\ UNCHANGED <<head, seen, left, jobs, sender, loaded, sent, taken>>

Send(s) == Load(s) \/ Refused(s) \/ Push(s) \/ PushFails(s) \/ Notify(s)
Read == \/ Resume \/ Pop \/ Fetch \/ Swap \/ SwapFails \/ TryBlock \/ Check
        \/ LastBlock \/ Later \/ CloseLoad \/ CloseSwap

Next == (\E s \in Senders : Send(s)) \/ Read

Spec == Init /\ [][Next]_vars

(* Threads run on: the scheduler takes its jobs, a sender that has started *)
(* an enqueue goes on, and a weak compare-exchange does not fail for ever. *)
FairSpec ==
  /\ Spec
  /\ WF_vars(Read)
  /\ SF_vars(Swap)
  /\ SF_vars(CloseSwap)
  /\ \A s \in Senders : /\ WF_vars(Refused(s) \/ PushFails(s) \/ Notify(s))
                         /\ SF_vars(Push(s))

-----------------------------------------------------------------------------
Running == pc \in {"pop", "swap", "block", "check", "lastblock", "later",
                   "close", "closing"}
Pointers == Messages \cup {Empty, Blocked, Closed}

TypeOK ==
  /\ top \in {"empty", "blocked", "closed", "list"}
  /\ stack \in Seq(Messages) /\ (top = "list" <=> stack # <<>>)
  /\ head \in Seq(Messages)
  /\ pc \in {"new", "off", "pop", "swap", "block", "check", "lastblock", "later",
             "close", "closing", "done"}
  /\ seen \in Pointers
  /\ left \in 0..MaxThroughput
  /\ jobs \in Nat
  /\ sender \in [Senders -> {"idle", "cas", "notify"}]
  /\ loaded \in [Senders -> Pointers]
  /\ sent \in [Senders -> 0..Quota]
  /\ taken \in Seq(Messages)

(* At most one party is in charge of the actor: a scheduler queue, in      *)
(* which it is once, or a thread that runs it, or a sender that is about   *)
(* to schedule it.  Otherwise two threads would run it at once             *)
(* (cooperative_scheduling.hpp:56-63), or one that has exited              *)
(* (event_based_resume.hpp:90-94).                                         *)
SingleCustody ==
  /\ jobs <= 1
  /\ jobs = 1 => pc \in {"new", "off"}
  /\ \A s \in Senders : sender[s] = "notify" => jobs = 0 /\ pc = "off"
  /\ \A s, t \in Senders : sender[s] = "notify" /\ sender[t] = "notify" => s = t

InCharge == jobs > 0 \/ Running \/ \E s \in Senders : sender[s] = "notify"

(* An actor that nobody is in charge of has an empty mailbox that is       *)
(* marked blocked, so the next enqueue will schedule it; and the mark is   *)
(* only there then.  No wakeup is lost between the look into the mailbox   *)
(* and try_block (event_based_resume.hpp:149-162).                         *)
NoLostWakeup ==
  /\ ~InCharge /\ pc # "done" => top = "blocked" /\ stack = <<>> /\ head = <<>>
  /\ top = "blocked" => ~InCharge /\ pc = "off"

(* The CAF_REQUIRE assertions of single_reader_queue hold: the reader      *)
(* never fetches from a queue that is blocked or closed                    *)
(* (single_reader_queue.hpp:267-279), and never blocks a closed one (142). *)
AssertionsHold ==
  /\ pc \in {"swap", "closing"} => seen \notin {Blocked, Closed}
  /\ pc = "swap" => top = "list"
  /\ pc \in {"pop", "block", "check", "lastblock", "close"} => top \in {"empty", "list"}

(* The blocked dummy is a token: who replaces it is alone in charge of the *)
(* actor, and it is there exactly when the actor may sleep; no assertion   *)
(* of the queue fails (single_reader_queue.hpp:90, 142, 267).              *)
WakeupExact == SingleCustody /\ NoLostWakeup /\ AssertionsHold

Waiting == head \o Reverse(stack)

(* The queue implements MessageQueue: head and the reversed stack are the  *)
(* queue, a successful compare-exchange is the moment of the enqueue.      *)
Phase == CASE pc \in {"close", "closing"} -> "closing"
           [] pc = "done" -> "closed"
           [] OTHER -> "open"
Queue == INSTANCE MessageQueue WITH queue <- Waiting, phase <- Phase
IsQueue == Queue!Spec

(* A message in the mailbox is taken in the end, or the actor has exited.  *)
Delivered ==
  \A m \in Messages :
    (\E i \in 1..Len(stack) : stack[i] = m) ~>
      (pc = "done" \/ \E i \in 1..Len(taken) : taken[i] = m)
=============================================================================
