------------------------------ MODULE MCGateway ------------------------------
(* Message 4 has a payload of its own, the others share one: the cache     *)
(* answers one of them with the translation of another.                    *)
EXTENDS Gateway

OtherPayload == [m \in Messages |-> IF m = 4 THEN <<8>> ELSE <<7>>]
=============================================================================
