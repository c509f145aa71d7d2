----------------------------- MODULE MCScripts -----------------------------
(* The heap and the exceptions of one runtime, for model checking.  Threads *)
(* are interchangeable.                                                     *)
EXTENDS Scripts, TLC

Symmetry == Permutations(Threads)
=============================================================================
