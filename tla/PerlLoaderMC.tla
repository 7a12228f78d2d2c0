---------------------------- MODULE PerlLoaderMC ----------------------------
(* Values of the constants of PerlLoader for TLC.                          *)
EXTENDS PerlLoaderRefinement, PerlLoaderInv, TLC

CONSTANTS a, b

Files == {a, b}

\* Two files with different leaf names, as in components/a.pm, components/b.pm.
OwnNames == (a :> "a") @@ (b :> "b")

\* Two files with one leaf name: x/foo.pm and y/foo.pm, or foo.pm and foo.pl.
OneName == (a :> "foo") @@ (b :> "foo")

NoneBroken == {}

\* No content of a compiles.
ABroken == {a} \X Stamp

=============================================================================
