------------------------------- MODULE MCCases -------------------------------
(* The model-checked instance of Cases.  Sessions, tenants and ids of each  *)
(* kind are interchangeable.                                                *)
EXTENDS Cases, TLC

CaseSymmetry ==
  Permutations(Sessions) \cup Permutations(Disputes) \cup Permutations(Cases)
    \cup Permutations(Tenants)

=============================================================================
