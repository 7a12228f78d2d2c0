-------------------------- MODULE PerlComponentsMC --------------------------
(* Symmetry for checking PerlComponents with TLC. *)
EXTENDS PerlComponents, TLC

Symmetric == Permutations(Item)

=============================================================================
