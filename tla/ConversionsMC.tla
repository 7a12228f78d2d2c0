--------------------------- MODULE ConversionsMC ---------------------------
(* The values TLC gives to the parameters of Conversions. *)
EXTENDS Conversions

\* Two names of which each begins with a third, and one that begins with none.
NamePairs == {<<"is", "isLocked">>, <<"is", "isNew">>}

=============================================================================
