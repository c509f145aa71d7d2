------------------------------ MODULE MCModules ------------------------------
(* An instance of Modules: three files in two directories, and the ways to    *)
(* name them: plain, with a dot, upwards, absolute and with a doubled slash.  *)
EXTENDS Modules

MCFiles == {<<"a">>, <<"d", "b">>, <<"d", "e", "c">>}

MCRoots == {<<"a">>, <<"d", "b">>, <<"", "d", "b">>}

MCAsked == {<<"a">>, <<".", "a">>, <<".", "b">>, <<"d", "b">>, <<"d", "", "b">>,
            <<"..", "a">>, <<"", "a">>, <<"..", "..", "a">>, <<"e", "c">>,
            <<"..", "b">>, <<"none">>}

\* The names are such as the theorems on names speak of.
ASSUME MCNames == ProperNames
=============================================================================
