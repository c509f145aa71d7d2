---------------------------- MODULE MCJSIExecutor ----------------------------
(* The instance of JSIExecutor that TLC checks. *)
EXTENDS JSIExecutor
=============================================================================
