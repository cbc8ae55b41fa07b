--------------------------- MODULE MCModelRegistry ---------------------------
(* The model-checked instance of ModelRegistry: sessions, rows and labels   *)
(* are interchangeable.                                                     *)
EXTENDS ModelRegistry, TLC

RegistrySymmetry ==
  Permutations(Sessions) \cup Permutations(Ids) \cup Permutations(Labels)

=============================================================================
