---------------------------- MODULE WorkerDeque -----------------------------
(***************************************************************************)
(* double_ended_queue: the job queue of a scheduler worker, a linked list  *)
(* with a dummy in front, a lock for each end and nodes that are deleted.  *)
(* append() holds the tail lock only and take_head() the head lock only,   *)
(* so they run at the same time; prepend() and take_tail() hold both.      *)
(***************************************************************************)
EXTENDS Naturals, Sequences, FiniteSets

CONSTANTS Users, Jobs, null,
          DequeNodes, \* the nodes there is memory for
          MaxCalls    \* calls of the threads together

ASSUME DequeAssumption ==
  /\ IsFiniteSet(DequeNodes) /\ DequeNodes # {}
  /\ null \notin DequeNodes \cup Users

VARIABLES next_node,  \* node.next
          value,      \* node.value
          live,       \* nodes allocated and not deleted
          m_head, m_tail,
          headLock, tailLock,   \* the thread that holds it, or null
          call,       \* call[u]: the step u is at, and its local variables
          result,     \* what the last take of u returned
          calls, freedUse       \* history: a deleted node was dereferenced

dequeVars == <<next_node, value, live, m_head, m_tail, headLock, tailLock, call,
               result, calls, freedUse>>
memory == <<next_node, value, live>>

Resting == [step |-> "rest", node |-> null]

DequeInit ==
  /\ next_node = [n \in DequeNodes |-> null] /\ value = [n \in DequeNodes |-> null]
  /\ m_head = (CHOOSE n \in DequeNodes : TRUE) /\ m_tail = m_head
  /\ live = {m_head}
  /\ headLock = null /\ tailLock = null
  /\ call = [u \in Users |-> Resting]
  /\ result = [u \in Users |-> null]
  /\ calls = 0 /\ freedUse = FALSE

Goes(u, step) == call' = [call EXCEPT ![u].step = step]
Touches(S) == freedUse' = (freedUse \/ ~(S \subseteq live))
At(u, step) == call[u].step = step
Begins(u) == At(u, "rest") /\ calls < MaxCalls /\ calls' = calls + 1

-----------------------------------------------------------------------------
(* new node(value), the first step of append() and prepend().  Nodes are   *)
(* interchangeable: memory is reused as soon as it is free.                *)
NewNode(u, j, step) ==
  LET n == CHOOSE n \in DequeNodes : n \notin live IN
  /\ Begins(u) /\ live # DequeNodes
  /\ live' = live \cup {n}
  /\ next_node' = [next_node EXCEPT ![n] = null]
  /\ value' = [value EXCEPT ![n] = j]
  /\ call' = [call EXCEPT ![u] = [step |-> step, node |-> n]]
  /\ UNCHANGED <<m_head, m_tail, headLock, tailLock, result, freedUse>>

(* A mutant of append_lock: without the lock.                              *)
AppendNoLock(u) ==
  /\ At(u, "append") /\ Goes(u, "publish")
  /\ UNCHANGED <<memory, m_head, m_tail, headLock, tailLock, result, calls, freedUse>>

(* append(): the tail lock, then publish, then swing m_tail forward.       *)
append_lock(u) ==
  /\ At(u, "append") /\ tailLock = null
  /\ tailLock' = u /\ Goes(u, "publish")
  /\ UNCHANGED <<memory, m_head, m_tail, headLock, result, calls, freedUse>>

append_publish(u) ==
  /\ At(u, "publish")
  /\ next_node' = [next_node EXCEPT ![m_tail] = call[u].node]
  /\ Touches({m_tail}) /\ Goes(u, "swing")
  /\ UNCHANGED <<value, live, m_head, m_tail, headLock, tailLock, result, calls>>

append_swing(u) ==
  /\ At(u, "swing")
  /\ m_tail' = call[u].node
  /\ tailLock' = null
  /\ call' = [call EXCEPT ![u] = Resting]
  /\ UNCHANGED <<memory, m_head, headLock, result, calls, freedUse>>

-----------------------------------------------------------------------------
(* The head lock, which prepend(), take_head() and take_tail() take first. *)
lock_head(u) ==
  /\ At(u, "prepend") \/ At(u, "head") \/ At(u, "tail")
  /\ headLock = null /\ headLock' = u
  /\ Goes(u, CASE At(u, "prepend") -> "prepend2"
               [] At(u, "head") -> "head2"
               [] At(u, "tail") -> "tail2")
  /\ UNCHANGED <<memory, m_head, m_tail, tailLock, result, calls, freedUse>>

BeginTake(u, step) ==
  /\ Begins(u) /\ Goes(u, step)
  /\ UNCHANGED <<memory, m_head, m_tail, headLock, tailLock, result, freedUse>>

(* prepend() with both locks: behind the dummy, m_tail only if empty.      *)
prepend_both(u) ==
  LET n == call[u].node  rest == next_node[m_head] IN
  /\ At(u, "prepend2") /\ tailLock = null
  /\ m_tail' = IF rest = null THEN n ELSE m_tail
  /\ next_node' = [next_node EXCEPT ![n] = rest, ![m_head] = n]
  /\ Touches({m_head})
  /\ headLock' = null
  /\ call' = [call EXCEPT ![u] = Resting]
  /\ UNCHANGED <<value, live, m_head, tailLock, result, calls>>

(* take_head() with the head lock: empty, or the value of the next node,   *)
(* which becomes the dummy.                                                *)
take_head(u) ==
  LET n == next_node[m_head] IN
  /\ At(u, "head2")
  /\ headLock' = null
  /\ Touches({m_head} \cup ({n} \ {null}))
  /\ result' = [result EXCEPT ![u] = IF n = null THEN null ELSE value[n]]
  /\ IF n = null
     THEN /\ call' = [call EXCEPT ![u] = Resting]
          /\ UNCHANGED <<value, m_head>>
     ELSE /\ value' = [value EXCEPT ![n] = null]
          /\ m_head' = n
          /\ call' = [call EXCEPT ![u] = [@ EXCEPT !.step = "delete", !.node = m_head]]
  /\ UNCHANGED <<next_node, live, m_tail, tailLock, calls>>

(* find_predecessor(): a node that waits to be deleted is not in the list. *)
find_predecessor(n) ==
  CHOOSE p \in live \ {call[u].node : u \in {w \in Users : At(w, "delete")}} :
    next_node[p] = n

(* take_tail() with both locks.                                            *)
take_tail(u) ==
  LET pred == find_predecessor(m_tail) IN
  /\ At(u, "tail2") /\ tailLock = null
  /\ headLock' = null
  /\ Touches({m_tail})
  /\ IF m_tail = m_head
     THEN /\ result' = [result EXCEPT ![u] = null]
          /\ call' = [call EXCEPT ![u] = Resting]
          /\ UNCHANGED <<next_node, m_tail>>
     ELSE /\ result' = [result EXCEPT ![u] = value[m_tail]]
          /\ next_node' = [next_node EXCEPT ![pred] = null]
          /\ m_tail' = pred
          /\ call' = [call EXCEPT ![u] = [@ EXCEPT !.step = "delete", !.node = m_tail]]
  /\ UNCHANGED <<value, live, m_head, tailLock, calls>>

(* unique_node_ptr deletes the node after the locks are released.          *)
delete(u) ==
  /\ At(u, "delete")
  /\ live' = live \ {call[u].node}
  /\ call' = [call EXCEPT ![u] = Resting]
  /\ UNCHANGED <<next_node, value, m_head, m_tail, headLock, tailLock, result, calls, freedUse>>

DequeStep(u) ==
  \/ append_lock(u) \/ append_publish(u) \/ append_swing(u)
  \/ lock_head(u) \/ prepend_both(u) \/ take_head(u) \/ take_tail(u) \/ delete(u)

DequeNext ==
  \E u \in Users :
    \/ \E j \in Jobs : NewNode(u, j, "append") \/ NewNode(u, j, "prepend")
    \/ BeginTake(u, "head") \/ BeginTake(u, "tail")
    \/ DequeStep(u)

DequeSpec == DequeInit /\ [][DequeNext]_dequeVars

-----------------------------------------------------------------------------
(* The nodes from the head on, and null after the last.                    *)
Walk(head, next) ==
  LET Node[k \in 0..Cardinality(DequeNodes)] ==
        IF k = 0 THEN head ELSE IF Node[k - 1] = null THEN null ELSE next[Node[k - 1]]
  IN Node

(* The jobs from the head on.                                              *)
Contents ==
  LET Node == Walk(m_head, next_node)
      Length == Cardinality({k \in 1..Cardinality(DequeNodes) : Node[k] # null})
  IN [i \in 1..Length |-> value[Node[i]]]

(* No thread uses a node that another one has deleted                      *)
(* (double_ended_queue.hpp:129, 163).                                      *)
NodesAlive == ~freedUse /\ m_head \in live

(* The two ends never part: m_tail is the last node, or about to be        *)
(* (double_ended_queue.hpp:184).                                           *)
TailLast == tailLock = null => m_tail \in live /\ next_node[m_tail] = null

(* The queue is a double-ended queue whatever its users interleave: each   *)
(* call takes effect at one step, and no node is used after its end        *)
(* (double_ended_queue.hpp:78).                                            *)
Deque == INSTANCE JobDeque WITH items <- Contents, got <- result
IsDeque == Deque!JobDequeSpec /\ [](NodesAlive /\ TailLast)
=============================================================================
