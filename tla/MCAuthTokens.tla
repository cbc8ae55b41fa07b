---------------------------- MODULE MCAuthTokens ----------------------------
(* The model-checked instance of AuthTokens.  Tenants, roles, tokens and    *)
(* sessions are interchangeable.                                            *)
EXTENDS AuthTokens, TLC

TokenSymmetry ==
  Permutations(Tenants) \cup Permutations(Roles) \cup Permutations(Tokens)
    \cup Permutations(Sessions)

=============================================================================
