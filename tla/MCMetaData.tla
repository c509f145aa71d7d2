----------------------------- MODULE MCMetaData -----------------------------
(* All hierarchies of four annotated classes, in every scan order. *)
EXTENDS MetaData
=============================================================================
