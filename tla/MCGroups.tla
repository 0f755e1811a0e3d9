------------------------------ MODULE MCGroups ------------------------------
(* Two members of a group on a remote node.                                *)
EXTENDS Groups

CONSTANTS m1, m2, home, r1

Together == (m1 :> r1) @@ (m2 :> r1)
=============================================================================
