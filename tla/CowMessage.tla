----------------------------- MODULE CowMessage -----------------------------
(***************************************************************************)
(* Messages share their data until one of them is changed (message.hpp,    *)
(* message_data.cpp). A message is a handle of reference-counted data;     *)
(* drop() and drop_right() put a decorated_tuple in front of it, which     *)
(* holds a further reference and a mapping of positions. A thread that     *)
(* wants to write detaches every handle on the way: it copies the data     *)
(* unless its reference is the only one. Each of Holders is a thread with  *)
(* one message; the steps of different threads interleave.                 *)
(***************************************************************************)
EXTENDS Naturals, Sequences, FiniteSets

CONSTANTS
  Holders,   \* threads
  Cells,     \* addresses of message_data, a set of numbers
  Payloads,  \* what an element may be
  New,       \* the elements of a new message
  MaxUses    \* operations on messages

VARIABLES
  heap,    \* the message_data at each address, or Free
  m_vals,  \* each thread's message: an address, or Null
  at,      \* what each thread is doing
  within,  \* the decorated_tuple whose handle it detaches; Null: its message
  elem,    \* the element it wants to write, as a position of that level
  np,      \* the copy it has made
  old,     \* the address whose reference it gives up
  uses     \* operations begun so far

cowVars == <<heap, m_vals, at, within, elem, np, old, uses>>

Null == 0
Free == [m_rc |-> 0, vals |-> <<>>, inner |-> Null, mapping |-> <<>>]

HasRoom == \E c \in Cells : heap[c] = Free
Fresh == CHOOSE c \in Cells : heap[c] = Free /\ \A e \in Cells : heap[e] = Free => c <= e

size(c) == Len(heap[c].vals) + Len(heap[c].mapping)

CowInit ==
  /\ heap = [c \in Cells |-> Free]
  /\ m_vals = [t \in Holders |-> Null]
  /\ at = [t \in Holders |-> "idle"]
  /\ within = [t \in Holders |-> Null]
  /\ elem = [t \in Holders |-> 1]
  /\ np = [t \in Holders |-> Null]
  /\ old = [t \in Holders |-> Null]
  /\ uses = 0

-----------------------------------------------------------------------------
(* A thread that is in no operation begins one.                            *)
Begin(t) ==
  /\ at[t] = "idle" /\ uses < MaxUses
  /\ uses' = uses + 1

(* make_message: tuple_vals with one reference.                            *)
make_message(t) ==
  /\ Begin(t) /\ m_vals[t] = Null /\ HasRoom
  /\ heap' = [heap EXCEPT ![Fresh] = [m_rc |-> 1, vals |-> New, inner |-> Null, mapping |-> <<>>]]
  /\ m_vals' = [m_vals EXCEPT ![t] = Fresh]
  /\ UNCHANGED <<at, within, elem, np, old>>

(* The copy constructor of message: t passes a copy of its message to u.   *)
CopyMessage(t, u) ==
  /\ Begin(t) /\ m_vals[t] # Null
  /\ at[u] = "idle" /\ m_vals[u] = Null
  /\ m_vals' = [m_vals EXCEPT ![u] = m_vals[t]]
  /\ heap' = [heap EXCEPT ![m_vals[t]].m_rc = @ + 1]
  /\ UNCHANGED <<at, within, elem, np, old>>

(* reset() and the destructor: the reference is given up by deref.         *)
reset(t) ==
  /\ Begin(t) /\ m_vals[t] # Null
  /\ m_vals' = [m_vals EXCEPT ![t] = Null]
  /\ old' = [old EXCEPT ![t] = m_vals[t]]
  /\ at' = [at EXCEPT ![t] = "deref"]
  /\ UNCHANGED <<heap, within, elem, np>>

(* A message is replaced by a part of it: decorated_tuple::create takes a  *)
(* reference of its own, the assignment then gives up the old one. Nothing *)
(* is created if no element is left.                                       *)
Decorate(t, map) ==
  /\ Begin(t) /\ m_vals[t] # Null
  /\ old' = [old EXCEPT ![t] = m_vals[t]]
  /\ at' = [at EXCEPT ![t] = "deref"]
  /\ \/ /\ map = <<>>
        /\ m_vals' = [m_vals EXCEPT ![t] = Null]
        /\ UNCHANGED heap
     \/ /\ map # <<>> /\ HasRoom
        /\ m_vals' = [m_vals EXCEPT ![t] = Fresh]
        /\ heap' = [heap EXCEPT
                      ![m_vals[t]].m_rc = @ + 1,
                      ![Fresh] = [m_rc |-> 1, vals |-> <<>>, inner |-> m_vals[t], mapping |-> map]]
  /\ UNCHANGED <<within, elem, np>>

(* One element goes at a time.                                             *)
drop(t) == Decorate(t, [i \in 1..(size(m_vals[t]) - 1) |-> i + 1])
drop_right(t) == Decorate(t, [i \in 1..(size(m_vals[t]) - 1) |-> i])

(* deref: the last reference deletes the data, and a decorated_tuple gives *)
(* up its own reference with it. After that a write goes on.               *)
deref(t) ==
  /\ at[t] = "deref"
  /\ LET c == heap[old[t]] IN
       /\ heap' = [heap EXCEPT ![old[t]] = IF c.m_rc = 1 THEN Free ELSE [c EXCEPT !.m_rc = @ - 1]]
       /\ old' = [old EXCEPT ![t] = IF c.m_rc = 1 THEN c.inner ELSE Null]
  /\ at' = [at EXCEPT ![t] = IF old'[t] # Null THEN "deref"
                             ELSE IF np[t] # Null THEN "write" ELSE "idle"]
  /\ np' = [np EXCEPT ![t] = IF old'[t] # Null THEN @ ELSE Null]
  /\ UNCHANGED <<m_vals, within, elem, uses>>

-----------------------------------------------------------------------------
(* Writing an element: the pointer that mutable_at returns is used at once *)
(* by the thread that asked for it.                                        *)

mutable_at(t) ==
  /\ Begin(t) /\ m_vals[t] # Null
  /\ at' = [at EXCEPT ![t] = "unique"]
  /\ within' = [within EXCEPT ![t] = Null]
  /\ \E i \in 1..size(m_vals[t]) : elem' = [elem EXCEPT ![t] = i]
  /\ UNCHANGED <<heap, m_vals, np, old>>

Handle(t) == IF within[t] = Null THEN m_vals[t] ELSE heap[within[t]].inner

(* Mutant: the decorated data is not detached.                             *)
UniqueOutside(t) ==
  /\ at[t] = "unique"
  /\ at' = [at EXCEPT ![t] = IF within[t] # Null \/ heap[Handle(t)].m_rc = 1 THEN "write" ELSE "copy"]
  /\ UNCHANGED <<heap, m_vals, within, elem, np, old, uses>>

(* get_detached looks at the reference count ...                           *)
unique(t) ==
  /\ at[t] = "unique"
  /\ at' = [at EXCEPT ![t] = IF heap[Handle(t)].m_rc = 1 THEN "write" ELSE "copy"]
  /\ UNCHANGED <<heap, m_vals, within, elem, np, old, uses>>

(* ... copies shared data; the copy has no reference yet, and that of a    *)
(* decorated_tuple refers to the same data ...                             *)
copy(t) ==
  /\ at[t] = "copy" /\ HasRoom
  /\ LET c == heap[Handle(t)]
         counted == IF c.inner = Null THEN heap ELSE [heap EXCEPT ![c.inner].m_rc = @ + 1]
     IN heap' = [counted EXCEPT ![Fresh] = [c EXCEPT !.m_rc = 0]]
  /\ np' = [np EXCEPT ![t] = Fresh]
  /\ at' = [at EXCEPT ![t] = "swap"]
  /\ UNCHANGED <<m_vals, within, elem, old, uses>>

(* ... and lets the handle refer to the copy before it gives up the old    *)
(* reference, which may be the last one by now.                            *)
SwapHandle(t) ==
  /\ at[t] = "swap"
  /\ LET counted == [heap EXCEPT ![np[t]].m_rc = @ + 1] IN
       IF within[t] = Null
       THEN m_vals' = [m_vals EXCEPT ![t] = np[t]] /\ heap' = counted
       ELSE heap' = [counted EXCEPT ![within[t]].inner = np[t]] /\ UNCHANGED m_vals
  /\ old' = [old EXCEPT ![t] = Handle(t)]
  /\ at' = [at EXCEPT ![t] = "deref"]
  /\ UNCHANGED <<within, elem, np, uses>>

(* mutable_at of the detached data: a decorated_tuple passes the mapped    *)
(* position on to what it decorates, tuple_vals has the element.           *)
write(t) ==
  /\ at[t] = "write"
  /\ LET c == Handle(t) IN
       IF heap[c].inner # Null
       THEN /\ within' = [within EXCEPT ![t] = c]
            /\ elem' = [elem EXCEPT ![t] = heap[c].mapping[elem[t]]]
            /\ at' = [at EXCEPT ![t] = "unique"]
            /\ UNCHANGED heap
       ELSE /\ \E v \in Payloads : heap' = [heap EXCEPT ![c].vals[elem[t]] = v]
            /\ at' = [at EXCEPT ![t] = "idle"]
            /\ within' = [within EXCEPT ![t] = Null]
            /\ elem' = [elem EXCEPT ![t] = 1]
  /\ UNCHANGED <<m_vals, np, old, uses>>

CowNext ==
  \E t \in Holders :
    \/ make_message(t) \/ reset(t) \/ drop(t) \/ drop_right(t) \/ deref(t)
    \/ mutable_at(t) \/ unique(t) \/ copy(t) \/ SwapHandle(t) \/ write(t)
    \/ \E u \in Holders : CopyMessage(t, u)

-----------------------------------------------------------------------------
(* The elements of a message: at() of message_data.                        *)
RECURSIVE Elements(_)
Elements(c) ==
  IF heap[c].inner = Null THEN heap[c].vals
  ELSE [i \in DOMAIN heap[c].mapping |-> Elements(heap[c].inner)[heap[c].mapping[i]]]

Carried == [t \in Holders |-> IF m_vals[t] = Null THEN <<>> ELSE Elements(m_vals[t])]

Promised == INSTANCE MessageValue WITH value <- Carried

(* References to an address, those that a thread is about to give up       *)
(* included.                                                               *)
References(c) ==
  Cardinality({t \in Holders : m_vals[t] = c})
  + Cardinality({e \in Cells : heap[e] # Free /\ heap[e].inner = c})
  + Cardinality({t \in Holders : old[t] = c})

(* Messages behave as separate values although threads share their data,   *)
(* check the count and write in separate steps (message_data.cpp:64): no   *)
(* write is seen through another message, none is lost, and data in use is *)
(* not deleted. The counts are exact, so that all data goes in the end.    *)
MessagesAreValues ==
  /\ Promised!ValueSpec
  /\ [](\A c \in Cells : heap[c].m_rc = References(c))
=============================================================================
