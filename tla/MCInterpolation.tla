-------------------------- MODULE MCInterpolation ---------------------------
(***************************************************************************)
(* Three variables.  One has a value that looks like a variable, one a     *)
(* number; the name of one begins with that of another.                    *)
(***************************************************************************)
EXTENDS Interpolation, TLC

Variables == <<"a">> :> <<"$", "a">> @@ <<"a", "a">> :> <<"-">> @@ <<"0">> :> <<"0", "1">>
=============================================================================
