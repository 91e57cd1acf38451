------------------------------ MODULE MCLogText ------------------------------
(***************************************************************************)
(* LogText with up to two arguments and formats of up to five characters:  *)
(* enough for a directive after an escaped percent sign, and for %m and %M *)
(* one after the other with too many arguments or too few.  Paths of up to *)
(* six parts climb out of a directory and above the root.                  *)
(***************************************************************************)
EXTENDS LogText

ArgLists == {<<>>, <<"a">>, <<"a", "b">>}
Home == <<"", "a">>

=============================================================================
