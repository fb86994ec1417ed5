--------------------------- MODULE MCEnvironment ---------------------------
(* The parameters of the functions in the runs of Environment.            *)
EXTENDS Environment

(* The name of a special form, and the same name twice.                   *)
MCParamLists == {<<"define">>, <<"length", "length">>}

(* None and one.                                                           *)
OneParam == {<<>>, <<"length">>}
=============================================================================
