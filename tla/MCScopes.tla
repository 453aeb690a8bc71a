------------------------------ MODULE MCScopes ------------------------------
(* Scopes for TLC: scope objects are interchangeable. *)
EXTENDS Scopes, TLC

ScopeSymmetry == Permutations(Scope)
=============================================================================
