--------------------------- MODULE MessageValue -----------------------------
(***************************************************************************)
(* What a message promises its users: it is a value of its own. Whoever    *)
(* holds one may hand out copies, cut it and change its elements, and no   *)
(* other message changes with it.                                          *)
(***************************************************************************)
EXTENDS Naturals, Sequences

CONSTANTS Holders, Payloads, New

VARIABLE value   \* the elements of each holder's message; none if it is empty

ValueInit == value = [h \in Holders |-> <<>>]

Become(h, v) == value' = [value EXCEPT ![h] = v]

Make(h) == value[h] = <<>> /\ Become(h, New)

Copy(h, from) == value[h] = <<>> /\ Become(h, value[from])

Clear(h) == Become(h, <<>>)

CutFront(h) == value[h] # <<>> /\ Become(h, Tail(value[h]))

CutBack(h) == value[h] # <<>> /\ Become(h, SubSeq(value[h], 1, Len(value[h]) - 1))

Change(h, i, v) == Become(h, [value[h] EXCEPT ![i] = v])

ValueNext ==
  \E h \in Holders :
    \/ Make(h) \/ Clear(h) \/ CutFront(h) \/ CutBack(h)
    \/ \E from \in Holders : Copy(h, from)
    \/ \E i \in DOMAIN value[h], v \in Payloads : Change(h, i, v)

ValueSpec == ValueInit /\ [][ValueNext]_value
=============================================================================
