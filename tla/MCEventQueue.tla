----------------------------- MODULE MCEventQueue -----------------------------
(* The instances of EventQueue that TLC checks: two foreign threads, of which *)
(* one makes two calls, so that a call can follow one that gave up waiting.   *)
EXTENDS EventQueue

CONSTANTS c1, c2

MCCallers == {c1, c2}

MCQuota == [c \in MCCallers |-> IF c = c1 THEN MaxCalls ELSE 1]
=============================================================================
