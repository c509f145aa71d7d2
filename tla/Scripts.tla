------------------------------ MODULE Scripts ------------------------------
(***************************************************************************)
(* Calls from Java into scripts and the exceptions they raise.             *)
(*                                                                         *)
(* JSContext.executeScript, JSFunction.call and JSObject.executeFunction   *)
(* post two events to the owner's thread: one runs the script, the second  *)
(* (checkException) takes the exception out of the runtime's single slot   *)
(* and reports it.  Other threads' events may run between the two.         *)
(* Getting or setting a property and QuickJS.executeFunction run scripts   *)
(* too, but nobody asks whether they raised an exception.                  *)
(*                                                                         *)
(* The texts that _getException collects (name, toString and stack) are    *)
(* strings, which hold no references; errors whose "stack" is an accessor  *)
(* or an object are left out.                                              *)
(***************************************************************************)
EXTENDS Heap

CONSTANTS
    Threads,    \* the Java threads that use the runtime
    MaxLeaks    \* bound: references to one object that are leaked

ASSUME ScriptsAssumption ==
    /\ Threads \intersect {None, "unchecked"} = {} /\ None # "unchecked"
    /\ MaxLeaks \in Nat

VARIABLES
    call,       \* call[t]: how the script of t's call ended, until t's query is over
    alone,      \* alone[t]: no unchecked call had left an exception when this call
                \* started, and no other call or query overlapped with it
    source,     \* whose call raised the exception in the slot
    told        \* whose exception this step has reported

scriptVars == <<call, alone, source, told>>
vars == <<heapVars, scriptVars>>

TypeOK ==
    /\ HeapTypeOK
    /\ call \in [Threads -> {"none", "returned", "raised", "other"}]
    /\ alone \in [Threads -> BOOLEAN]
    /\ source \in Threads \union {None, "unchecked"}
    /\ told \in Threads \union {None, "unchecked"}
    /\ source = None <=> exception = None

Init ==
    /\ HeapInit
    /\ call = [t \in Threads |-> "none"]
    /\ alone = [t \in Threads |-> FALSE]
    /\ source = None
    /\ told = None

-----------------------------------------------------------------------------
(* The first event: the script *)

\* Mutant: every exception counts as an Error.
IsError_Any(o) == o # None

\* JS_IsError
IsError(o) == o \in Errors

\* What a script may throw: a new Error, or a value that it has.
Throwable(o) ==
    \/ IsError(o) /\ list[o] = "free"
    \/ held[o] > 0 /\ (IsError(o) \/ leaked[o] < MaxLeaks)

\* JS_Throw: the slot's old value is freed.  A new o is allocated on the way.
Throw(o) ==
    LET old == Once(exception) IN
    /\ exception' = o
    /\ list' = [ListAfter(old) EXCEPT ![o] = "gc"]
    /\ count' = [CountAfter(old) EXCEPT ![o] = @ + 1]
    /\ value' = ValueAfter(old)

\* The script of a call of t ended; a checked call has its query still to come.
Ended(t, checked, how) ==
    /\ call' = [call EXCEPT ![t] = IF checked THEN how ELSE "none"]
    /\ alone' = [u \in Threads |-> /\ u = t /\ checked /\ source # "unchecked"
                                   /\ \A w \in Threads \ {t} : call[w] = "none"]
    /\ told' = None

\* A call of t returns a value; an exception that was in the slot stays there.
CallReturns(t) ==
    /\ Running /\ call[t] = "none"
    /\ Ended(t, TRUE, "returned")
    /\ UNCHANGED <<heapVars, source>>

\* A script of t throws and catches: JS_Throw frees what was in the slot, and the
\* handler in JS_CallInternal empties it.
CallCatches(t, checked) ==
    /\ Running /\ call[t] = "none"
    /\ GivesBack(exception)
    /\ exception' = None
    /\ source' = None
    /\ Ended(t, checked, "returned")
    /\ UNCHANGED <<marked, props, held, leaked, phase, todo>>

\* A script of t throws o and does not catch it.
CallThrows(t, checked, o) ==
    /\ Running /\ call[t] = "none"
    /\ Throwable(o)
    /\ Throw(o)
    /\ source' = IF checked THEN t ELSE "unchecked"
    /\ Ended(t, checked, IF o \in Errors THEN "raised" ELSE "other")
    /\ UNCHANGED <<marked, props, held, leaked, phase, todo>>

-----------------------------------------------------------------------------
(* The second event: the query *)

\* JS_GetException: the slot's reference is moved out.
Taken == exception' = None /\ source' = None

Answered(t, whose) ==
    /\ call' = [call EXCEPT ![t] = "none"]
    /\ alone' = [u \in Threads |-> FALSE]
    /\ told' = whose

\* Mutant: what is not an Error is left in the slot.
QueryFindsNoError_Left(t) ==
    /\ Running /\ call[t] # "none"
    /\ ~IsError(exception)
    /\ Answered(t, None)
    /\ UNCHANGED <<heapVars, source>>

\* _getException: "if (!JS_IsError(ctx, exc)) return nullptr", without JS_FreeValue
QueryFindsNoError(t) ==
    /\ Running /\ call[t] # "none"
    /\ ~IsError(exception)
    /\ Taken
    /\ leaked' = [o \in Objects |-> leaked[o] + Once(exception)[o]]
    /\ Answered(t, None)
    /\ UNCHANGED <<list, count, marked, props, value, held, phase, todo>>

\* Mutant: the exception is not freed.
Reported_Kept == UNCHANGED <<count, list, value>>

\* JS_FreeValue(ctx, exc), at the end of _getException
Reported == GivesBack(exception)

\* _getException formats the exception, frees it, and checkException throws it.
QueryReports(t) ==
    /\ Running /\ call[t] # "none"
    /\ IsError(exception)
    /\ Taken
    /\ Reported
    /\ Answered(t, source)
    /\ UNCHANGED <<marked, props, held, leaked, phase, todo>>

\* The exception's own toString or its getter of "name", which _getException calls,
\* throws o: the first exception is reported, o stays in the slot.
QueryRaises(t, o) ==
    /\ Running /\ call[t] # "none"
    /\ IsError(exception)
    /\ Throwable(o)
    /\ Throw(o)
    /\ source' = "unchecked"
    /\ Answered(t, source)
    /\ UNCHANGED <<marked, props, held, leaked, phase, todo>>

-----------------------------------------------------------------------------

Next ==
    \/ (Collector \/ Mutator) /\ told' = None /\ UNCHANGED <<call, alone, source>>
    \/ \E t \in Threads :
          \/ CallReturns(t) \/ QueryFindsNoError(t) \/ QueryReports(t)
          \/ \E checked \in BOOLEAN :
                CallCatches(t, checked) \/ \E o \in Objects : CallThrows(t, checked, o)
          \/ \E o \in Objects : QueryRaises(t, o)

Spec == Init /\ [][Next]_vars

-----------------------------------------------------------------------------
(* Properties *)

\* A call that checks for its exception never leaves it behind for a later call
\* to be blamed for: whatever events ran in between, after the query of the call
\* the exception it raised is not in the slot (JSContext.java:86-90).
NothingLeftBehind == source \in Threads => call[source] \in {"raised", "other"}

\* Unless calls of two threads overlap, or an unchecked call has left something in
\* the slot, a query reports the Error that its own call raised, and nothing if
\* the call raised none, whatever exceptions there were before.
OwnException ==
    [][\A t \in Threads : alone[t] /\ call[t] # "none" /\ call'[t] = "none"
          => told' = IF call[t] = "raised" THEN t ELSE None]_vars
=============================================================================
