---------------------------- MODULE PatternMatch ----------------------------
(***************************************************************************)
(* detail::matcher: does the tuple of a message fit the types of a pattern *)
(* with wildcards, and which elements does the callback get?  Compared     *)
(* with a definition that does not search.                                 *)
(***************************************************************************)
EXTENDS Naturals, Sequences, FiniteSets, SequencesExt

CONSTANTS Types, Anything,
          Stranger,              \* memory that is no type of a pattern
          MaxTuple, MaxPattern   \* bounds on the lengths

VARIABLES tup,     \* the types of the message's elements
          pattern,
          matched  \* what matcher returned, <<>> before it ran

matchVars == <<tup, pattern, matched>>

Filtered(p) == SelectSeq(p, LAMBDA x : x # Anything)

(* pos and fallback are fpush's and fcommit's positions, out is *out as    *)
(* indices into the tuple.  behind is what lies in memory behind the types *)
(* of the tuple, and read says that the search has looked at it.           *)
Blank(behind) == [ok |-> FALSE, pos |-> 0, fallback |-> 0, out |-> <<>>,
                  behind |-> behind, read |-> FALSE]

push(m, t) == [m EXCEPT !.pos = @ + 1, !.out = Append(SubSeq(@, 1, m.pos), t)]
commit(m) == [m EXCEPT !.fallback = m.pos]

(* A mutant of rollback: mappings of the failed attempt stay.              *)
RollbackNothing(m) == m

rollback(m) == [m EXCEPT !.pos = m.fallback]

RECURSIVE Search(_, _, _, _, _), Attempt(_, _, _, _, _)

(* The loop over pattern and tuple from positions p and t.  It compares    *)
(* types without looking whether the tuple has ended.                      *)
Search(T, P, t, p, m) ==
  IF p > Len(P) THEN [m EXCEPT !.ok = t = Len(T) + 1]
  ELSE IF P[p] = Anything
       THEN IF p = Len(P) THEN [m EXCEPT !.ok = TRUE] ELSE Attempt(T, P, t, p + 1, commit(m))
       ELSE LET r == [m EXCEPT !.read = @ \/ t > Len(T)]
                type == IF t > Len(T) THEN m.behind ELSE T[t]
            IN IF type # P[p] THEN [r EXCEPT !.ok = FALSE] ELSE Search(T, P, t + 1, p + 1, push(r, t))

(* The loop over the positions where what follows a wildcard may start.    *)
(* One that has passed the end runs on through memory; it is cut off here. *)
Attempt(T, P, t, p, m) ==
  IF t > Len(T) THEN [m EXCEPT !.ok = FALSE]
  ELSE LET r == Search(T, P, t, p, m)
       IN IF r.ok THEN r ELSE Attempt(T, P, t + 1, p, rollback(r))

(* A pattern of wildcards matches, a tuple that is too short does not.     *)
matcher(T, P, behind) ==
  IF Filtered(P) = <<>> THEN [Blank(behind) EXCEPT !.ok = TRUE]
  ELSE IF Len(T) < Len(Filtered(P)) THEN Blank(behind)
       ELSE Search(T, P, 1, 1, Blank(behind))

(* Two wildcards in a row are one to its author.                           *)
Patterns == {p \in SeqOf(Types \cup {Anything}, MaxPattern) \ {<<>>} :
               \A i \in 1 .. (Len(p) - 1) : {p[i], p[i + 1]} # {Anything}}

MatchInit == tup \in SeqOf(Types, MaxTuple) /\ pattern \in Patterns /\ matched = <<>>
MatchNext == /\ matched = <<>>
             /\ \E behind \in Types \cup {Stranger} : matched' = <<matcher(tup, pattern, behind)>>
             /\ UNCHANGED <<tup, pattern>>

-----------------------------------------------------------------------------
(* at[i] is the element that the i-th type of the pattern stands for:      *)
(* neighbours in the pattern are neighbours in the tuple, and an end of    *)
(* the pattern without wildcard is an end of the tuple.                    *)
Fits(at, T, P) ==
  LET n == Len(P)
      typed == {i \in 1 .. n : P[i] # Anything}
  IN /\ \A i \in typed : T[at[i]] = P[i]
     /\ \A i, k \in typed : i < k => at[i] < at[k]
     /\ \A i \in typed : i + 1 \in typed => at[i + 1] = at[i] + 1
     /\ 1 \in typed => at[1] = 1
     /\ n \in typed => at[n] = Len(T)

Placements(T, P) == {at \in [{i \in 1 .. Len(P) : P[i] # Anything} -> 1 .. Len(T)] : Fits(at, T, P)}

(* matcher finds a match exactly if there is one, and the callback gets    *)
(* the elements of a placement that fits, unless the search takes the      *)
(* memory behind the tuple for a type of the pattern (matcher.hpp:69).     *)
MatchExact == matched # <<>> =>
  LET all == Placements(tup, pattern)
      m == matched[1]
  IN (m.read => m.behind = Stranger) =>
       /\ m.ok <=> all # {}
       /\ m.ok /\ Filtered(pattern) # <<>> =>
            /\ m.pos = Len(Filtered(pattern))
            /\ \E at \in all : Range(at) = Range(m.out)

(* The size check keeps the search inside the tuple (tuple_vals.hpp:98     *)
(* asserts it) if the pattern has no wildcard, or only one at its end:     *)
(* the patterns that vslab uses.                                           *)
StaysInside == matched # <<>> /\ matched[1].read =>
  \E i \in 1 .. (Len(pattern) - 1) : pattern[i] = Anything

(* matcher is right about every tuple and pattern it stays inside of, and  *)
(* stays inside for the patterns of vslab (matcher.hpp:69).                *)
MatchSound == MatchExact /\ StaysInside
=============================================================================
