----------------------------- MODULE MCIngestion -----------------------------
(* Constants of the model-checked instances of Ingestion: client c1 sends a *)
(* body under k1, c2 another body under the same key, and c3 a malformed    *)
(* body under k2.                                                           *)
EXTENDS Ingestion, TLC

CONSTANTS c1, c2, c3, k1, k2, p1, p2, p3

MCKeyOf == [c \in Clients |-> IF c = c3 THEN k2 ELSE k1]

MCPayloadOf == [c \in Clients |-> CASE c = c1 -> p1
                                    [] c = c2 -> p2
                                    [] c = c3 -> p3]

(* Requests and document ids are interchangeable. *)
IntakeSymmetry == Permutations(Sessions) \cup Permutations(Documents)

=============================================================================
