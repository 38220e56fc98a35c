---------------------------- MODULE MCEventNode -----------------------------
(***************************************************************************)
(* EventNode for TLC. Envelopes e1 and e2 claim the same id a (a second    *)
(* client's bytes under a first client's id), e3 claims b, bad claims none.*)
(***************************************************************************)
EXTENDS EventNode, TLC

CONSTANTS n1, n2, n3, c1, c2, e1, e2, e3, bad, a, b

MCClaimedId ==
    [e \in Envelope |-> CASE e \in {e1, e2} -> a
                          [] e = e3 -> b
                          [] OTHER -> NoId]

Symmetric == Permutations(Node) \cup Permutations(Caller)
=============================================================================
