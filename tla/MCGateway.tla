------------------------------ MODULE MCGateway ------------------------------
(* Small instances of Gateway. *)
EXTENDS GatewayProperties

CONSTANTS a1

OneConfigured == <<a1>>

(* Requests of the same kind of route are interchangeable. *)
SameRoute == Permutations(ChatRequest) \cup Permutations(Request \ ChatRequest)

=============================================================================
