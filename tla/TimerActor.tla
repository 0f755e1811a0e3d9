---------------------------- MODULE TimerActor ------------------------------
(***************************************************************************)
(* The timer actor of the scheduler (abstract_coordinator.cpp) and the     *)
(* mailbox of an actor that has a thread of its own: senders that find the *)
(* reader blocked notify it through a mutex and a condition variable, the  *)
(* reader waits with or without a deadline (single_reader_queue.hpp:211,   *)
(* no_scheduling.hpp). Each of Delayers hands the timer one message to be  *)
(* delivered later; Stopper is the thread in stop_actors(), which sends an *)
(* exit message and waits for the end of the timer.                        *)
(*                                                                         *)
(* That a push and the reader's swap of the list are single steps here is  *)
(* what Mailbox shows of them.                                             *)
(***************************************************************************)
EXTENDS SeqOps

CONSTANTS Delayers, Stopper

VARIABLES
  word,       \* m_stack: empty, blocked, a list, or closed
  list,       \* the elements of that list, oldest first
  cached,     \* m_head: elements the reader has taken over
  locked,     \* the mutex m_mtx is held by the reader
  reader,     \* where the timer's thread is
  timed,      \* it waits in try_dequeue, with a deadline
  msg_ptr,    \* the message it has dequeued
  messages,   \* delayed messages
  due,        \* messages whose time has come
  delivered,  \* messages that the timer has passed on
  poster      \* where each sender is

timerVars == <<word, list, cached, locked, reader, timed, msg_ptr, messages, due, delivered, poster>>

Posters == Delayers \cup {Stopper}
NoMsg == "none"

TimerInit ==
  /\ word = "empty" /\ list = <<>> /\ cached = <<>> /\ locked = FALSE
  /\ reader = "loop" /\ timed = FALSE /\ msg_ptr = NoMsg
  /\ messages = {} /\ due = {} /\ delivered = {}
  /\ poster = [t \in Posters |-> "start"]

-----------------------------------------------------------------------------
(* The senders.                                                            *)

(* enqueue: a closed queue refuses the element, a blocked one gets it and  *)
(* the sender has to notify.                                               *)
enqueue(t) ==
  /\ poster[t] = "start"
  /\ poster' = [poster EXCEPT ![t] = CASE word = "closed" -> "refused"
                               [] word = "blocked" -> "notify"
                               [] OTHER -> "sent"]
  /\ IF word = "closed"
     THEN UNCHANGED <<word, list>>
     ELSE word' = "list" /\ list' = Append(list, t)
  /\ UNCHANGED <<cached, locked, reader, timed, msg_ptr, messages, due, delivered>>

(* Mutant: the sender notifies without the mutex.                          *)
NotifyUnlocked(t) ==
  /\ poster[t] = "notify"
  /\ reader' = IF reader = "asleep" THEN "woken" ELSE reader
  /\ poster' = [poster EXCEPT ![t] = "sent"]
  /\ UNCHANGED <<word, list, cached, locked, timed, msg_ptr, messages, due, delivered>>

(* The rest of synchronized_enqueue: notify_one under the mutex, which a   *)
(* reader that does not sleep (yet or any more) does not hear.             *)
notify_one(t) ==
  /\ poster[t] = "notify" /\ ~locked
  /\ reader' = IF reader = "asleep" THEN "woken" ELSE reader
  /\ poster' = [poster EXCEPT ![t] = "sent"]
  /\ UNCHANGED <<word, list, cached, locked, timed, msg_ptr, messages, due, delivered>>

(* stop_actors() gets the down message of the timer.                       *)
stopped ==
  /\ poster[Stopper] = "sent" /\ reader = "done"
  /\ poster' = [poster EXCEPT ![Stopper] = "stopped"]
  /\ UNCHANGED <<word, list, cached, locked, reader, timed, msg_ptr, messages, due, delivered>>

(* Time passes: a delay that has begun runs out.                           *)
Elapse(m) ==
  /\ m \in messages \ due
  /\ due' = due \cup {m}
  /\ UNCHANGED <<word, list, cached, locked, reader, timed, msg_ptr, messages, delivered, poster>>

-----------------------------------------------------------------------------
(* The timer's thread.                                                     *)

(* The head of the loop in act(): without delayed messages it waits for a  *)
(* message, otherwise it delivers what is due and waits until the next     *)
(* deadline, if there is one.                                              *)
act ==
  /\ reader = "loop"
  /\ delivered' = delivered \cup (messages \cap due)
  /\ messages' = messages \ due
  /\ timed' = (messages' # {})
  /\ reader' = IF messages # {} /\ messages' = {} THEN "loop" ELSE "await"
  /\ UNCHANGED <<word, list, cached, locked, msg_ptr, due, poster>>

(* await_data and the start of synchronized_await: can_fetch_more is asked *)
(* twice, to the same effect for the reader.                               *)
can_fetch_more ==
  /\ reader = "await"
  /\ reader' = IF cached # <<>> \/ word = "list" THEN "next" ELSE "block"
  /\ UNCHANGED <<word, list, cached, locked, timed, msg_ptr, messages, due, delivered, poster>>

try_block ==
  /\ reader = "block"
  /\ word' = IF word = "empty" THEN "blocked" ELSE word
  /\ reader' = IF word' = "blocked" THEN "lock" ELSE "next"
  /\ UNCHANGED <<list, cached, locked, timed, msg_ptr, messages, due, delivered, poster>>

(* The mutex is taken: at first, and again when the condition variable has *)
(* been notified.                                                          *)
lock_guard ==
  /\ reader \in {"lock", "woken"} /\ ~locked
  /\ locked' = TRUE
  /\ reader' = "check"
  /\ UNCHANGED <<word, list, cached, timed, msg_ptr, messages, due, delivered, poster>>

(* while (blocked()): the guard is released where the loop is left.        *)
blocked ==
  /\ reader = "check"
  /\ reader' = IF word = "blocked" THEN "wait" ELSE "next"
  /\ locked' = (word = "blocked")
  /\ UNCHANGED <<word, list, cached, timed, msg_ptr, messages, due, delivered, poster>>

(* cv.wait and cv.wait_until release the mutex and sleep in one step.      *)
wait ==
  /\ reader = "wait"
  /\ locked' = FALSE
  /\ reader' = "asleep"
  /\ UNCHANGED <<word, list, cached, timed, msg_ptr, messages, due, delivered, poster>>

(* The deadline is that of the first message, so it has passed as soon as  *)
(* some message is due.                                                    *)
DeadlinePassed == timed /\ messages \cap due # {}

(* The condition variable wakes without a reason. After the deadline       *)
(* wait_until reports a timeout instead.                                   *)
spurious ==
  /\ reader = "asleep" /\ ~DeadlinePassed
  /\ reader' = "woken"
  /\ UNCHANGED <<word, list, cached, locked, timed, msg_ptr, messages, due, delivered, poster>>

(* wait_until returns because of the deadline; it may also find that the   *)
(* deadline has passed when it is notified.                                *)
timeout ==
  /\ reader \in {"asleep", "woken"} /\ DeadlinePassed
  /\ reader' = "timeout"
  /\ UNCHANGED <<word, list, cached, locked, timed, msg_ptr, messages, due, delivered, poster>>

(* return !try_unblock(), with the mutex that wait_until has taken again:  *)
(* if the queue is not blocked any more an element has come.               *)
try_unblock ==
  /\ reader = "timeout" /\ ~locked
  /\ word' = IF word = "blocked" THEN "empty" ELSE word
  /\ reader' = IF word = "blocked" THEN "loop" ELSE "next"
  /\ UNCHANGED <<list, cached, locked, timed, msg_ptr, messages, due, delivered, poster>>

(* next_message: the first of the reader's own elements, after those of    *)
(* the list if there are none. Without any the loop starts again.          *)
next_message ==
  /\ reader = "next"
  /\ LET all == IF cached = <<>> THEN list ELSE cached IN
       /\ IF cached = <<>> /\ word = "list"
          THEN word' = "empty" /\ list' = <<>>
          ELSE UNCHANGED <<word, list>>
       /\ IF all = <<>>
          THEN reader' = "loop" /\ UNCHANGED <<cached, msg_ptr>>
          ELSE reader' = "handle" /\ cached' = Tail(all) /\ msg_ptr' = Head(all)
  /\ UNCHANGED <<locked, timed, messages, due, delivered, poster>>

(* mfun: a delay begins, or the exit message ends the loop.                *)
mfun ==
  /\ reader = "handle"
  /\ IF msg_ptr = Stopper
     THEN reader' = "cleanup" /\ UNCHANGED messages
     ELSE reader' = "loop" /\ messages' = messages \cup {msg_ptr}
  /\ msg_ptr' = NoMsg
  /\ UNCHANGED <<word, list, cached, locked, timed, due, delivered, poster>>

(* In cleanup, close() deletes the reader's elements, closes the queue and *)
(* deletes the rest; the delayed messages go with act(). Then the monitors *)
(* are told.                                                               *)
close ==
  /\ reader = "cleanup"
  /\ cached' = <<>> /\ list' = <<>> /\ word' = "closed"
  /\ messages' = {}
  /\ reader' = "done"
  /\ UNCHANGED <<locked, timed, msg_ptr, due, delivered, poster>>

ReaderStep ==
  \/ act \/ can_fetch_more \/ try_block \/ lock_guard \/ blocked \/ wait
  \/ timeout \/ try_unblock \/ next_message \/ mfun \/ close

TimerNext ==
  \/ ReaderStep \/ spurious \/ stopped
  \/ \E t \in Posters : enqueue(t) \/ notify_one(t)
  \/ \E m \in Delayers : Elapse(m)

TimerSpec == TimerInit /\ [][TimerNext]_timerVars

-----------------------------------------------------------------------------
(* The assertions of fetch_new_data (single_reader_queue.hpp:270, 272) and *)
(* of no_scheduling.hpp:81: when the reader comes back from its wait the   *)
(* queue is neither blocked nor closed.                                    *)
BackUnblocked == reader \in {"loop", "await", "next", "handle"} => word \notin {"blocked", "closed"}

(* No wakeup is lost: while the reader sleeps and its queue has got an     *)
(* element, the sender that found it blocked is still to notify            *)
(* (single_reader_queue.hpp:217, 241).                                     *)
WakeupPending == reader = "asleep" /\ word # "blocked" => \E t \in Posters : poster[t] = "notify"

(* A message whose sender was not refused is in the queue, in the hands of *)
(* the timer, delayed or delivered, until the timer ends                   *)
(* (abstract_coordinator.cpp:108).                                         *)
Kept == \A t \in Posters : poster[t] \in {"notify", "sent"} =>
  \/ t \in ToSet(list) \cup ToSet(cached) \cup messages \cup delivered
  \/ (reader = "handle" /\ msg_ptr = t)
  \/ reader \in {"cleanup", "done"}

(* A message that the timer has accepted is delivered, and stop_actors()   *)
(* returns, whatever wakes the timer's thread and however its deadlines    *)
(* race with senders (single_reader_queue.hpp:250). Only the end of the    *)
(* timer may take the message away. The queue is never read while blocked. *)
TimerDelivers ==
  /\ [](BackUnblocked /\ WakeupPending /\ Kept)
  /\ \A m \in Delayers : poster[m] \in {"notify", "sent"} ~> m \in delivered \/ reader = "done"
  /\ poster[Stopper] # "start" ~> poster[Stopper] = "stopped"
=============================================================================
