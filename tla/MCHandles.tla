------------------------------ MODULE MCHandles ------------------------------
(* Instances of Handles: three handles of which two share a hash code. *)
EXTENDS Handles, TLC

CONSTANTS h1, h2, h3, k1, k2

MCHandleIds == {h1, h2, h3}

MCHash == (h1 :> k1) @@ (h2 :> k1) @@ (h3 :> k2)
=============================================================================
