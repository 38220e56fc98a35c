----------------------------- MODULE MCSessions -----------------------------
(***************************************************************************)
(* Sessions for TLC. The settled session s1 is the account a1's.           *)
(***************************************************************************)
EXTENDS Sessions, TLC

CONSTANTS r1, r2, r3, s1, a1, a2

MCAccountOf == [s \in Settled |-> a1]

Symmetric == Permutations(Request)
=============================================================================
