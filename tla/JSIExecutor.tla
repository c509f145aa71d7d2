------------------------------ MODULE JSIExecutor ------------------------------
(***************************************************************************)
(* JSIExecutor: the bridge between the React Native runtime and scripts.   *)
(* Scripts queue calls to native modules on the JavaScript side.  A batch  *)
(* (loadBundle, callFunction, invokeCallback, flush) runs script code,     *)
(* takes the queue over, drains the microtasks and then hands the queue to *)
(* the delegate.  A script may also flush the queue itself at any time     *)
(* (nativeFlushQueueImmediate).  Everything happens on one thread: the     *)
(* steps interleave because script code, microtasks and host functions run *)
(* inside one another.                                                     *)
(***************************************************************************)
EXTENDS NativeModules, SequencesExt

CONSTANTS
    MaxCalls,    \* bound: native calls that scripts make
    MaxBatches,  \* bound: operations of the executor
    Width        \* bits of the retry counter (8 in the code)

ASSUME CallsAssumption == MaxCalls \in Nat /\ MaxBatches \in Nat
ASSUME WidthAssumption == Width \in Nat \ {0}

VARIABLES
    bridge,      \* __fbBatchedBridge: "undefined", "other" (no object), "object"
    fns,         \* the functions that the bridge object has
    bindFlag,    \* bindFlag_: bindBridge has completed once
    bound,       \* the bridge functions that the executor holds
    queue,       \* the native calls queued on the JavaScript side
    made,        \* the native calls made so far; a call is its number
    ret,         \* the queue that the running batch has taken over
    retries,     \* the counter of performMicrotaskCheckpoint
    delivered,   \* the calls handed to the delegate, in order
    early,       \* those that a microtask flushed itself
    lost,        \* those that were in ret when the checkpoint threw
    due, served, \* the calls made when the running batch took the queue, and
                 \* when the last batch that returned normally did
    batches,     \* the operations begun
    op,          \* the operation under way
    pc,          \* where it is
    aborted,     \* CHECK(delegate_) has ended the process
    emptyCall    \* a function was called that the executor does not hold

queueVars == <<queue, made, ret, delivered, early, lost, due, served>>
bindVars == <<bridge, fns, bindFlag, bound>>
vars == <<nmVars, queueVars, bindVars, retries, batches, op, pc, aborted, emptyCall>>

\* The three functions in the order in which bindBridge fetches them.
Bound == <<"callFunction", "invokeCallback", "flushedQueue">>
Fns == {Bound[i] : i \in 1..3}
Calling == {"callFunction", "invokeCallback"}
Ops == Calling \union {"loadBundle", "registerBundle", "flush"}

Init ==
    /\ NMInit
    /\ bridge = "undefined" /\ fns = {} /\ bindFlag = FALSE /\ bound = {}
    /\ queue = <<>> /\ made = 0 /\ ret = <<>>
    /\ delivered = <<>> /\ early = {} /\ lost = {}
    /\ due = 0 /\ served = 0
    /\ retries = 0 /\ batches = 0 /\ op = "none" /\ pc = "idle"
    /\ aborted = FALSE /\ emptyCall = FALSE

-----------------------------------------------------------------------------
(* bindBridge *)

\* call_once has nothing to do, or the bridge is an object with all functions.
BindSucceeds == bindFlag \/ (bridge = "object" /\ fns = Fns)

\* The functions held afterwards: the assignments stop at the first function
\* that is missing.
Assigned ==
    IF bindFlag \/ bridge # "object" THEN bound
    ELSE bound \union {Bound[i] : i \in {k \in 1..3 : \A j \in 1..k : Bound[j] \in fns}}

\* Mutant: a plain flag that is set before the work.
FlagAfter_Always == TRUE

\* An exception leaves the flag of call_once as it was.
FlagAfter == bindFlag \/ BindSucceeds

BindBridge ==
    /\ bound' = Assigned
    /\ bindFlag' = FlagAfter
    /\ UNCHANGED <<bridge, fns>>

-----------------------------------------------------------------------------
(* Script code *)

Running == ~aborted /\ pc \in {"script", "function", "checkpoint"}

\* A script loads BatchedBridge, or defines the global otherwise.
DefineBridge ==
    /\ Running /\ pc # "checkpoint" /\ bridge # "object"
    /\ \/ bridge' = "other" /\ bridge = "undefined" /\ fns' = fns
       \/ bridge' = "object" /\ fns' \in SUBSET Fns
    /\ UNCHANGED <<nmVars, queueVars, bindFlag, bound, retries, batches, op, pc, aborted, emptyCall>>

DefineRest ==
    /\ Running /\ pc # "checkpoint" /\ bridge = "object" /\ fns # Fns
    /\ fns' = Fns
    /\ UNCHANGED <<nmVars, queueVars, bridge, bindFlag, bound, retries, batches, op, pc, aborted, emptyCall>>

\* BatchedBridge.enqueueNativeCall
EnqueueNativeCall ==
    /\ Running /\ bridge = "object" /\ made < MaxCalls
    /\ made' = made + 1
    /\ queue' = Append(queue, made')
    /\ UNCHANGED <<nmVars, ret, delivered, early, lost, due, served, bindVars, retries, batches, op, pc, aborted, emptyCall>>

Abort ==
    /\ aborted' = TRUE
    /\ UNCHANGED <<nmVars, queueVars, bindVars, retries, batches, op, pc, emptyCall>>

\* nativeFlushQueueImmediate: callNativeModules(args[0], false), for any script,
\* with or without a bridge.  BatchedBridge passes its queue and starts an empty
\* one; what else a script passes leaves this state as it is.
FlushQueueImmediate ==
    /\ Running
    /\ IF ~delegate THEN Abort
       ELSE /\ delivered' = delivered \o queue
            /\ early' = IF pc = "checkpoint" THEN early \union ToSet(queue) ELSE early
            /\ queue' = <<>>
            /\ UNCHANGED <<nmVars, made, ret, lost, due, served, bindVars, retries, batches, op, pc, aborted, emptyCall>>

\* nativeModuleProxy
UseNativeModules ==
    /\ Running
    /\ ScriptStep
    /\ UNCHANGED <<queueVars, bindVars, retries, batches, op, pc, aborted, emptyCall>>

-----------------------------------------------------------------------------
(* The operations *)

Begin(o) ==
    /\ ~aborted /\ pc = "idle" /\ batches < MaxBatches
    /\ batches' = batches + 1
    /\ op' = o

\* evaluateJavaScript of a bundle (registerBundle: without a bundle registry).
RunScript(o) ==
    /\ Begin(o)
    /\ pc' = "script"
    /\ UNCHANGED <<nmVars, queueVars, bindVars, retries, aborted, emptyCall>>

\* callFunction and invokeCallback bind first if they need to, then call.
CallBridge(f) ==
    /\ Begin(f)
    /\ IF f \in bound THEN UNCHANGED bindVars ELSE BindBridge
    /\ IF f \in bound \/ BindSucceeds
       THEN pc' = "function" /\ emptyCall' = (emptyCall \/ f \notin bound')
       ELSE pc' = "idle" /\ UNCHANGED emptyCall
    /\ UNCHANGED <<nmVars, queueVars, retries, aborted>>

StartFlush ==
    /\ Begin("flush")
    /\ pc' = "flush"
    /\ UNCHANGED <<nmVars, queueVars, bindVars, retries, aborted, emptyCall>>

\* Mutants: the result is thrown away, and the queue stays in JavaScript.
TakeQueue_Discarded == ret' = <<>> /\ queue' = <<>> /\ due' = made
TakeQueue_Copied == ret' = queue /\ queue' = queue /\ due' = made

\* The function returns the queue and leaves an empty one.
TakeQueue == ret' = queue /\ queue' = <<>> /\ due' = made

StartCheckpoint ==
    /\ pc' = "checkpoint"
    /\ retries' = 0
    /\ UNCHANGED <<nmVars, made, delivered, early, lost, served, batches, op, aborted>>

\* loadBundle ends with flush(), registerBundle does not.
ScriptEnds ==
    /\ ~aborted /\ pc = "script" /\ frames = <<>>
    /\ pc' = IF op = "loadBundle" THEN "flush" ELSE "idle"
    /\ UNCHANGED <<nmVars, queueVars, bindVars, retries, batches, op, aborted, emptyCall>>

\* An exception of the script, or of the function, which is wrapped and thrown.
ScriptThrows ==
    /\ ~aborted /\ pc \in {"script", "function"} /\ frames = <<>>
    /\ pc' = "idle"
    /\ UNCHANGED <<nmVars, queueVars, bindVars, retries, batches, op, aborted, emptyCall>>

FunctionReturns ==
    /\ ~aborted /\ pc = "function" /\ frames = <<>>
    /\ TakeQueue
    /\ StartCheckpoint
    /\ UNCHANGED <<bindVars, emptyCall>>

\* flush() with flushedQueue_, with a bridge, and with neither.
FlushBound ==
    /\ ~aborted /\ pc = "flush" /\ "flushedQueue" \in bound
    /\ TakeQueue
    /\ StartCheckpoint
    /\ UNCHANGED <<bindVars, emptyCall>>

FlushBinds ==
    /\ ~aborted /\ pc = "flush" /\ "flushedQueue" \notin bound /\ bridge # "undefined"
    /\ BindBridge
    /\ IF BindSucceeds
       THEN /\ TakeQueue
            /\ StartCheckpoint
            /\ emptyCall' = (emptyCall \/ "flushedQueue" \notin bound')
       ELSE /\ pc' = "idle"
            /\ UNCHANGED <<nmVars, queueVars, retries, batches, op, aborted, emptyCall>>

\* flushedQueue_ throws before it has taken the queue; what bindBridge has done
\* stays done.
FlushThrows ==
    /\ ~aborted /\ pc = "flush"
    /\ IF "flushedQueue" \in bound THEN UNCHANGED bindVars
       ELSE bridge # "undefined" /\ BindSucceeds /\ BindBridge
    /\ emptyCall' = (emptyCall \/ "flushedQueue" \notin bound')
    /\ pc' = "idle"
    /\ UNCHANGED <<nmVars, queueVars, retries, batches, op, aborted>>

\* Mutant: the test of delegate_ is dropped.
TellsDelegate_Always == TRUE

\* Without calls only a delegate is told of the end of the batch.
TellsDelegate == delegate

FlushEmpty ==
    /\ ~aborted /\ pc = "flush" /\ "flushedQueue" \notin bound /\ bridge = "undefined"
    /\ pc' = IF TellsDelegate THEN "deliver" ELSE "idle"
    /\ due' = made
    /\ UNCHANGED <<nmVars, queue, made, ret, delivered, early, lost, served, bindVars, retries, batches, op, aborted, emptyCall>>

-----------------------------------------------------------------------------
(* performMicrotaskCheckpoint *)

\* Mutant: one more than the counter can hold.
kRetriesBound_Wider == 2^Width

\* 255, the largest value of the counter.
kRetriesBound == 2^Width - 1

DrainCompletes ==
    /\ ~aborted /\ pc = "checkpoint" /\ frames = <<>>
    /\ retries < kRetriesBound
    /\ pc' = "deliver"
    /\ UNCHANGED <<nmVars, queueVars, bindVars, retries, batches, op, aborted, emptyCall>>

\* drainMicrotasks returned false, or threw a JSError that was reported.
DrainAgain ==
    /\ ~aborted /\ pc = "checkpoint" /\ frames = <<>>
    /\ retries < kRetriesBound
    /\ retries' = (retries + 1) % 2^Width
    /\ UNCHANGED <<nmVars, queueVars, bindVars, batches, op, pc, aborted, emptyCall>>

\* The retries bound is hit, or reporting the error threw: the exception takes
\* the queue in ret with it.
CheckpointThrows ==
    /\ ~aborted /\ pc = "checkpoint" /\ frames = <<>>
    /\ lost' = lost \union ToSet(ret)
    /\ ret' = <<>>
    /\ pc' = "idle"
    /\ UNCHANGED <<nmVars, queue, made, delivered, early, due, served, bindVars, retries, batches, op, aborted, emptyCall>>

BoundHit == retries = kRetriesBound /\ CheckpointThrows
ReportThrows == retries < kRetriesBound /\ CheckpointThrows

\* callNativeModules(ret, true)
Deliver ==
    /\ ~aborted /\ pc = "deliver"
    /\ IF ~delegate THEN Abort
       ELSE /\ delivered' = delivered \o ret
            /\ ret' = <<>>
            /\ served' = due
            /\ pc' = "idle"
            /\ UNCHANGED <<nmVars, queue, made, early, lost, due, bindVars, retries, batches, op, aborted, emptyCall>>

\* The owner resets the native modules between two operations.
ResetModules ==
    /\ ~aborted /\ pc = "idle"
    /\ Reset
    /\ UNCHANGED <<queueVars, bindVars, retries, batches, op, pc, aborted, emptyCall>>

Drain == DrainCompletes \/ DrainAgain \/ BoundHit

Next ==
    \/ \E o \in {"loadBundle", "registerBundle"} : RunScript(o)
    \/ \E f \in Calling : CallBridge(f)
    \/ StartFlush
    \/ DefineBridge \/ DefineRest \/ EnqueueNativeCall \/ FlushQueueImmediate \/ UseNativeModules
    \/ ScriptEnds \/ ScriptThrows \/ FunctionReturns
    \/ FlushBound \/ FlushBinds \/ FlushThrows \/ FlushEmpty
    \/ DrainCompletes \/ DrainAgain \/ BoundHit \/ ReportThrows
    \/ Deliver \/ ResetModules

Spec == Init /\ [][Next]_vars

GenEnds ==
    /\ Running
    /\ GenReturns \/ GenThrows
    /\ UNCHANGED <<queueVars, bindVars, retries, batches, op, pc, aborted, emptyCall>>

\* Each call of drainMicrotasks ends, although its microtasks may use native
\* modules meanwhile, and so does each run of __fbGenNativeModule.
FairSpec == Spec /\ WF_vars(Drain) /\ WF_vars(GenEnds)

-----------------------------------------------------------------------------
\* The types of the executor's members, of the JavaScript side and of the
\* native modules.
TypeOK ==
    /\ NMTypeOK
    /\ bridge \in {"undefined", "other", "object"}
    /\ fns \subseteq Fns /\ bound \subseteq Fns /\ bindFlag \in BOOLEAN
    /\ queue \in Seq(1..MaxCalls) /\ ret \in Seq(1..MaxCalls) /\ delivered \in Seq(1..MaxCalls)
    /\ early \subseteq 1..MaxCalls /\ lost \subseteq 1..MaxCalls
    /\ made \in 0..MaxCalls /\ due \in 0..MaxCalls /\ served \in 0..MaxCalls
    /\ retries \in 0..(2^Width - 1)
    /\ batches \in 0..MaxBatches
    /\ op \in Ops \union {"none"}
    /\ pc \in {"idle", "script", "function", "flush", "checkpoint", "deliver"}
    /\ aborted \in BOOLEAN /\ emptyCall \in BOOLEAN

\* The executor never calls a bridge function it does not hold, although a
\* failed bindBridge leaves it with some of the three and every operation
\* tests one of them only.
NoEmptyCall == ~emptyCall

\* When a batch has returned normally, every native call made before it took
\* the queue over has reached the delegate, or was in the hands of an earlier
\* batch whose checkpoint threw.
BatchComplete == \A c \in 1..served : c \in ToSet(delivered) \union lost

\* Native calls reach the delegate once and in the order in which scripts made
\* them, except that those a microtask flushes itself overtake the queue that
\* its batch has taken over.
InOrder ==
    \A i, j \in 1..Len(delivered) :
        i < j /\ delivered[i] >= delivered[j] =>
            delivered[i] # delivered[j] /\ delivered[i] \in early

\* Without a delegate, the end of a batch meets CHECK(delegate_) only if scripts
\* have loaded the bridge: "If no calls were made and there's no delegate, nothing
\* happens" (a script that flushes by itself meets it at any time).
QuietWithoutBridge == aborted /\ pc = "deliver" => bridge = "object" /\ ~delegate

\* The checkpoint ends, even if no call of drainMicrotasks ever completes the
\* queue: the counter reaches the bound before it wraps.
CheckpointEnds == pc = "checkpoint" ~> (pc # "checkpoint" \/ aborted)
=============================================================================
