------------------------------- MODULE SeqOps -------------------------------
(***************************************************************************)
(* The operators on sequences and sets that the specifications with proofs *)
(* use, as SequencesExt and FiniteSetsExt define them.  The proof manager  *)
(* carries every definition in scope into every obligation; without the    *)
(* rest of those modules a leaf takes a tenth of the time.                 *)
(***************************************************************************)
EXTENDS Naturals, Sequences, FiniteSets

Last(s) == s[Len(s)]
Front(s) == SubSeq(s, 1, Len(s) - 1)
ToSet(s) == {s[i] : i \in DOMAIN s}
Reverse(s) == [i \in 1..Len(s) |-> s[(Len(s) - i) + 1]]
RemoveAt(s, i) == SubSeq(s, 1, i - 1) \o SubSeq(s, i + 1, Len(s))
InsertAt(s, i, e) == SubSeq(s, 1, i - 1) \o <<e>> \o SubSeq(s, i, Len(s))

Min(S) == CHOOSE x \in S : \A y \in S : x <= y
Max(S) == CHOOSE x \in S : \A y \in S : x >= y

(* The orders in which the elements of S can be listed.                    *)
SetToSeqs(S) ==
  {f \in [1..Cardinality(S) -> S] : \A i, j \in 1..Cardinality(S) : i # j => f[i] # f[j]}
=============================================================================
