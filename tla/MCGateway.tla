----------------------------- MODULE MCGateway ------------------------------
(* The model-checked instance of Gateway.  Requests are interchangeable;    *)
(* keys share nothing, so that one client of one route is enough.           *)
EXTENDS Gateway, TLC

GatewaySymmetry == Permutations(Requests)

=============================================================================
