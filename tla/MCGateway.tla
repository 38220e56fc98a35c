----------------------------- MODULE MCGateway ------------------------------
(***************************************************************************)
(* Gateway for TLC. e1 and e2 claim the id a, e1 in a JSON text of the     *)
(* largest size the gateway takes; over is JSON too, but larger than that  *)
(* and not than the node's message limit; text is not JSON.                *)
(***************************************************************************)
EXTENDS Gateway, TLC

CONSTANTS n1, n2, r1, r2, e1, e2, over, text, a

MCClaimedId == [e \in Envelope |-> IF e \in {e1, e2} THEN a ELSE NoId]
MCSizeOf == [e \in Envelope |-> CASE e = e1 -> MAX_ENVELOPE
                                  [] e = over -> MAX_ENVELOPE + 5
                                  [] OTHER -> 100]
MCJson == Envelope \ {text}
MCStubs == <<n1, n2>>
=============================================================================
