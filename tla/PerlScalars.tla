---------------------------- MODULE PerlScalars ----------------------------
(***************************************************************************)
(* Reference counts of Perl scalars, as the C++ code uses them through the *)
(* Perl API.  Every reference should have one owner that gives it up:      *)
(* Perl's list of mortal scalars, an array or hash, a reference to the     *)
(* scalar, or a C++ object.  A scalar is its count together with the       *)
(* number of owners; code is right if it leaves the two equal.             *)
(***************************************************************************)
EXTENDS Integers

Scalar == [refs : Int, owners : Int]

\* There is no scalar, or one that is never freed (undef, true, false).
NoScalar == [refs |-> 0, owners |-> 0]

\* newSV, newAV, newHV: the reference belongs to nobody yet.
NewScalar == [refs |-> 1, owners |-> 0]

\* SvREFCNT_inc and SvREFCNT_dec: the caller says on whose behalf later, or never.
Inc(s) == [s EXCEPT !.refs = @ + 1]
Dec(s) == [s EXCEPT !.refs = @ - 1]

\* The reference has got an owner, or has lost it.
Own(s)    == [s EXCEPT !.owners = @ + 1]
Disown(s) == [s EXCEPT !.owners = @ - 1]

\* sv_2mortal: FREETMPS will give up one reference.
Mortal(s) == Own(s)

\* sv_newmortal.
NewMortal == Mortal(NewScalar)

\* More owners than references: the scalar is freed while it is still owned, and
\* then once more.
OverReleased(s) == s.owners > s.refs

\* More references than owners: the scalar is never freed.
Leaked(s) == s.refs > s.owners

Balanced(s) == s.refs = s.owners

=============================================================================
