----------------------------- MODULE MCAccounts -----------------------------
(***************************************************************************)
(* Accounts for TLC. The settled account s1 has the email e1, the password *)
(* p1 and the handle h1, or no handle yet.                                 *)
(***************************************************************************)
EXTENDS Accounts, TLC

CONSTANTS r1, r2, r3, s1, s2, s3, e1, e2, h1, h2, p1, p2

MCEmailOf == [s \in Settled |-> e1]
MCHandleOf == [s \in Settled |-> h1]
MCNoHandleOf == [s \in Settled |-> None]
MCPasswordOf == [s \in Settled |-> p1]

Symmetric == Permutations(Request)
=============================================================================
