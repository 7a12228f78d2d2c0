-------------------------- MODULE LoaderLifecycleMC --------------------------
(* Values for checking LoaderLifecycle with TLC. *)
EXTENDS LoaderLifecycle, TLC

CONSTANTS c1, c2

\* Two classes in one module.
Components == <<c1, c2>>

Symmetric == Permutations(Loader)

=============================================================================
