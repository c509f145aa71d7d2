---------------------------- MODULE SerialExecutor ----------------------------
(***************************************************************************)
(* What EventQueue promises to the code that uses it: submitted jobs are   *)
(* executed one at a time, each at most once, in the order of submission.  *)
(***************************************************************************)
EXTENDS Naturals, Sequences

CONSTANTS Jobs, None

VARIABLES
    pending,    \* submitted jobs, oldest first
    current,    \* the job being executed, or None
    done        \* the jobs that are over

execVars == <<pending, current, done>>

ExecInit ==
    /\ pending = <<>>
    /\ current = None
    /\ done = {}

Fresh(j) ==
    /\ j # current
    /\ j \notin done
    /\ \A i \in DOMAIN pending : pending[i] # j

Submit(j) ==
    /\ Fresh(j)
    /\ pending' = Append(pending, j)
    /\ UNCHANGED <<current, done>>

Start ==
    /\ current = None
    /\ pending # <<>>
    /\ current' = Head(pending)
    /\ pending' = Tail(pending)
    /\ UNCHANGED done

Complete ==
    /\ current # None
    /\ done' = done \union {current}
    /\ current' = None
    /\ UNCHANGED pending

ExecNext == Start \/ Complete \/ \E j \in Jobs : Submit(j)

Spec == ExecInit /\ [][ExecNext]_execVars
=============================================================================
