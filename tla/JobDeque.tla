------------------------------ MODULE JobDeque ------------------------------
(***************************************************************************)
(* What a queue of a worker promises: a double-ended queue of jobs whose   *)
(* operations take effect at once.                                         *)
(***************************************************************************)
EXTENDS SeqOps

CONSTANTS Users,   \* threads
          Jobs,
          null

VARIABLES items,   \* the jobs, head first
          got      \* what the last take of a thread returned

JobDequeInit == items = <<>> /\ got = [u \in Users |-> null]

Append_(j) == items' = Append(items, j) /\ UNCHANGED got
Prepend_(j) == items' = <<j>> \o items /\ UNCHANGED got
Take(u, j, rest) == got' = [got EXCEPT ![u] = j] /\ items' = rest

TakeHead(u) == IF items = <<>> THEN Take(u, null, items)
                               ELSE Take(u, Head(items), Tail(items))
TakeTail(u) == IF items = <<>> THEN Take(u, null, items)
                               ELSE Take(u, Last(items), Front(items))

JobDequeNext ==
  \/ \E j \in Jobs : Append_(j) \/ Prepend_(j)
  \/ \E u \in Users : TakeHead(u) \/ TakeTail(u)

JobDequeSpec == JobDequeInit /\ [][JobDequeNext]_<<items, got>>
=============================================================================
