------------------------------ MODULE EventQueue ------------------------------
(***************************************************************************)
(* The hand-over of native QuickJS work to the thread that owns a runtime  *)
(* (com.quickjs.EventQueue), the release of the runtime (QuickJS.close)    *)
(* and the thread check of a runtime that has no Handler (ThreadChecker).  *)
(*                                                                         *)
(* Threads other than the owner make calls.  A call passes the released    *)
(* guard, posts a task to the owner's Handler and, when it blocks, waits   *)
(* on the monitor of its own result array.  The owner takes tasks in FIFO  *)
(* order, runs each one and notifies its poster.  Reading the guard,       *)
(* posting, waiting and returning are steps of their own, because the code *)
(* holds no lock from one to the next.                                     *)
(*                                                                         *)
(* QuickJS.released is a plain field: a thread that has not synchronised   *)
(* with the owner since the write may read either value.                   *)
(***************************************************************************)
EXTENDS Naturals, Sequences

CONSTANTS
    Callers,            \* the threads that do not own the runtime
    Owner,              \* EventQueue.thread, the thread that built the queue
    NoCall,             \* the Handler's Looper is between two messages
    MaxCalls,           \* bound: calls that a caller makes
    Quota               \* bound: Quota[c], calls that caller c makes

ASSUME EventQueueAssumption ==
    /\ Owner \notin Callers
    /\ MaxCalls \in Nat
    /\ Quota \in [Callers -> 0..MaxCalls]
    /\ NoCall \notin Callers \X (1..MaxCalls)

Calls == Callers \X (1..MaxCalls)

\* How an operation reaches the owner.
\*   post     : post(Event), the operations with a result (_executeScript, ...)
\*   postVoid : postVoid(event, true): _set, _arrayAdd, _releasePtr, ...
\*   async    : QuickJS.postEventQueue, that is postVoid(event, false)
\*   close    : QuickJS.close, a postEventQueue whose event frees the runtime
\*   createContext : QuickJS.createContext, which is not handed over at all
Kinds == {"post", "postVoid", "async", "close", "createContext"}

Posted == Kinds \ {"createContext"}

Blocking == {"post", "postVoid"}

\* What the result array of a call (result[0], errors[0]) holds: nothing yet,
\* the value of the event, its RuntimeException, or "skipped" for an event that
\* postVoid did not run because the runtime had been released.
Outcomes == {"unset", "value", "exception", "skipped"}

\* How a call came back: refused by the guard, Error of the thread checker,
\* accepted (async), null without an outcome, or the outcome of the event.
Returns == {"none", "refused", "error", "accepted", "null",
            "value", "exception", "skipped"}

\* How the runtime was made: by createRuntimeWithEventQueue, by createRuntime on
\* a thread with a Looper, or by createRuntime on a thread without one.
Modes == {"handlerThread", "looper", "plain"}

VARIABLES
    mode,         \* what the fields handler and handlerThread of EventQueue hold
    pc,           \* pc[c]: what caller c is doing
    made,         \* made[c]: number of the current or last call of c
    kindOf,       \* kindOf[call]: the operation the call asked for
    queue,        \* messages of the Handler, oldest first
    running,      \* the call whose message the Looper dispatches
    stage,        \* stage[call]: how far the task of a call has come
    outcome,      \* outcome[call]: contents of its result array
    ret,          \* ret[c]: what the last call of c returned, "none" during a call
    disturbed,    \* calls woken by an interrupt or spuriously
    alive,        \* the native JSRuntime has not been freed
    frees,        \* how often JS_FreeRuntime ran
    released,     \* QuickJS.released
    interrupted,  \* handlerThread.isInterrupted()
    closing,      \* where the owner is in the event of QuickJS.close
    synced,       \* callers that synchronised with the owner after the release
    use,          \* {<<operation, Health>>} of the last event begun
    crashed       \* an Error left a Looper message: the process is gone

callerVars == <<pc, made, kindOf, ret, disturbed, synced>>
ownerVars  == <<running, closing>>
taskVars   == <<queue, stage, outcome>>
nativeVars == <<alive, frees, use>>
flagVars   == <<released, interrupted>>
procVars   == <<mode, crashed>>

vars == <<callerVars, ownerVars, taskVars, nativeVars, flagVars, procVars>>

-----------------------------------------------------------------------------

HasHandler       == mode # "plain"          \* handler # null
HasHandlerThread == mode = "handlerThread"  \* handlerThread # null

Current(c) == <<c, made[c]>>

\* What an event that starts now finds behind the runtime pointer.
Health == IF alive THEN "live" ELSE "freed"

TypeOK ==
    /\ mode \in Modes
    /\ pc \in [Callers -> {"idle", "admitted", "posted", "waiting", "woken"}]
    /\ made \in [Callers -> 0..MaxCalls]
    /\ kindOf \in [Calls -> Kinds \union {"none"}]
    /\ queue \in Seq(Calls)
    /\ running \in Calls \union {NoCall}
    /\ stage \in [Calls -> {"new", "queued", "running", "finished", "notified"}]
    /\ outcome \in [Calls -> Outcomes]
    /\ ret \in [Callers -> Returns]
    /\ disturbed \subseteq Calls
    /\ alive \in BOOLEAN
    /\ frees \in Nat
    /\ released \in BOOLEAN
    /\ interrupted \in BOOLEAN
    /\ closing \in {"no", "sized", "spoiled", "freed", "flagged"}
    /\ synced \subseteq Callers
    /\ use \subseteq (Kinds \union {"none", "inline"}) \X {"live", "freed"}
    /\ crashed \in BOOLEAN

Init ==
    /\ mode \in Modes
    /\ pc = [c \in Callers |-> "idle"]
    /\ made = [c \in Callers |-> 0]
    /\ kindOf = [x \in Calls |-> "none"]
    /\ queue = <<>>
    /\ running = NoCall
    /\ stage = [x \in Calls |-> "new"]
    /\ outcome = [x \in Calls |-> "unset"]
    /\ ret = [c \in Callers |-> "none"]
    /\ disturbed = {}
    /\ alive = TRUE
    /\ frees = 0
    /\ released = FALSE
    /\ interrupted = FALSE
    /\ closing = "no"
    /\ synced = {}
    /\ use = {}
    /\ crashed = FALSE

-----------------------------------------------------------------------------
(* The callers *)

\* The values a read of QuickJS.released by caller c may return.
ReadReleased(c) ==
    IF released /\ c \notin synced THEN {TRUE, FALSE} ELSE {released}

\* The guard that opens post and postVoid, as caller c may see it.
MayRefuse(c) == TRUE \in ReadReleased(c) \/ interrupted
MayAdmit(c)  == FALSE \in ReadReleased(c) /\ ~interrupted

\* Caller c starts its next call, of kind k.
Begin(c, k) ==
    /\ ~crashed
    /\ pc[c] = "idle"
    /\ made[c] < Quota[c]
    /\ made' = [made EXCEPT ![c] = @ + 1]
    /\ kindOf' = [kindOf EXCEPT ![<<c, made[c] + 1>>] = k]

\* "QuickJS is released": the call returns null (or nothing) at once.
CallRefused(c, k) ==
    /\ Begin(c, k)
    /\ MayRefuse(c)
    /\ ret' = [ret EXCEPT ![c] = "refused"]
    /\ UNCHANGED <<pc, disturbed, synced, ownerVars, taskVars, nativeVars,
                   flagVars, procVars>>

\* The call passes the guard; nothing keeps the guard true from here on.
CallAdmitted(c, k) ==
    /\ Begin(c, k)
    /\ MayAdmit(c)
    /\ pc' = [pc EXCEPT ![c] = "admitted"]
    /\ ret' = [ret EXCEPT ![c] = "none"]
    /\ UNCHANGED <<disturbed, synced, ownerVars, taskVars, nativeVars,
                   flagVars, procVars>>

\* Without a Handler a foreign thread gets the Error of ThreadChecker.
CheckThread(c) ==
    /\ ~crashed
    /\ pc[c] = "admitted"
    /\ ~HasHandler
    /\ pc' = [pc EXCEPT ![c] = "idle"]
    /\ ret' = [ret EXCEPT ![c] = "error"]
    /\ UNCHANGED <<made, kindOf, disturbed, synced, ownerVars, taskVars,
                   nativeVars, flagVars, procVars>>

\* Mutant: handler.postAtFrontOfQueue.
Enqueued_AtFront(x) == <<x>> \o queue

\* A message goes behind those that are already there.
Enqueued(x) == Append(queue, x)

\* handler.post.  Inserting the message locks the message queue, which the
\* owner has also locked if it is back in its Looper.
PostTask(c) ==
    /\ ~crashed
    /\ pc[c] = "admitted"
    /\ HasHandler
    /\ queue' = Enqueued(Current(c))
    /\ stage' = [stage EXCEPT ![Current(c)] = "queued"]
    /\ IF kindOf[Current(c)] \in Blocking
         THEN /\ pc' = [pc EXCEPT ![c] = "posted"]
              /\ UNCHANGED ret
         ELSE /\ pc' = [pc EXCEPT ![c] = "idle"]
              /\ ret' = [ret EXCEPT ![c] = "accepted"]
    /\ synced' = IF released /\ running = NoCall THEN synced \union {c} ELSE synced
    /\ UNCHANGED <<made, kindOf, disturbed, ownerVars, outcome, nativeVars,
                   flagVars, procVars>>

\* Mutants: wait() without the test of result[1], and no wait() at all.
AfterPost_Always(x) == "waiting"
AfterPost_Never(x) == "woken"

\* if (result[1] == null) result.wait()
AfterPost(x) == IF stage[x] = "notified" THEN "woken" ELSE "waiting"

\* The synchronized (result) block that follows handler.post.
EnterWait(c) ==
    /\ ~crashed
    /\ pc[c] = "posted"
    /\ pc' = [pc EXCEPT ![c] = AfterPost(Current(c))]
    /\ UNCHANGED <<made, kindOf, ret, disturbed, synced, ownerVars, taskVars,
                   nativeVars, flagVars, procVars>>

\* wait() ends by an InterruptedException, which is swallowed, or spuriously;
\* the test of result[1] is not repeated.
WakeEarly(c) ==
    /\ ~crashed
    /\ pc[c] = "waiting"
    /\ pc' = [pc EXCEPT ![c] = "woken"]
    /\ disturbed' = disturbed \union {Current(c)}
    /\ UNCHANGED <<made, kindOf, ret, synced, ownerVars, taskVars,
                   nativeVars, flagVars, procVars>>

\* Mutant: a caller that was woken early takes the array as if it were filled.
MayReturn_Filled(x) == {outcome[x]}

\* What a read of errors[0] and result[0] may give: the writes of an event that
\* has not been notified are not ordered before the read.
MayReturn(x) ==
    IF stage[x] = "notified" THEN {outcome[x]}
    ELSE {"null"} \union ({outcome[x]} \ {"unset"})

\* The end of post or of a blocking postVoid.
Return(c) ==
    /\ ~crashed
    /\ pc[c] = "woken"
    /\ \E r \in MayReturn(Current(c)) : ret' = [ret EXCEPT ![c] = r]
    /\ pc' = [pc EXCEPT ![c] = "idle"]
    /\ synced' = IF released /\ stage[Current(c)] = "notified"
                   THEN synced \union {c} ELSE synced
    /\ UNCHANGED <<made, kindOf, disturbed, ownerVars, taskVars,
                   nativeVars, flagVars, procVars>>

\* QuickJS.createContext: _createContext is the one operation that is not
\* posted; it runs on the calling thread and looks at no flag.
CreateContext(c) ==
    /\ Begin(c, "createContext")
    /\ use' = {<<"createContext", Health>>}
    /\ ret' = [ret EXCEPT ![c] = "value"]
    /\ UNCHANGED <<pc, disturbed, synced, ownerVars, taskVars, alive, frees,
                   flagVars, procVars>>

-----------------------------------------------------------------------------
(* The owner *)

\* The owner is executing Java code that may use the runtime: inside the event
\* of a task, or, when the thread is not a HandlerThread of its own, in code
\* that runs between two messages.
OwnerActive ==
    /\ ~crashed
    /\ closing = "no"
    /\ \/ running # NoCall /\ stage[running] = "running"
       \/ running = NoCall /\ ~HasHandlerThread

\* Thread.currentThread() == thread: the event runs in line.
OwnerCall ==
    /\ OwnerActive
    /\ ~released /\ ~interrupted
    /\ use' = {<<"inline", Health>>}
    /\ UNCHANGED <<callerVars, ownerVars, taskVars, alive, frees, flagVars,
                   procVars>>

\* Mutant: postVoid does not look at released again.
RunsEvent_Unguarded(x) == TRUE

\* Does the posted task run its event?  postVoid looks at released again on the
\* owner's thread, post does not.
RunsEvent(x) == kindOf[x] = "post" \/ ~released

\* The Looper dispatches the oldest message.
TakeTask ==
    /\ ~crashed
    /\ running = NoCall
    /\ closing = "no"
    /\ queue # <<>>
    /\ running' = Head(queue)
    /\ queue' = Tail(queue)
    /\ IF RunsEvent(Head(queue))
         THEN /\ stage' = [stage EXCEPT ![Head(queue)] = "running"]
              /\ use' = {<<kindOf[Head(queue)], Health>>}
              /\ UNCHANGED outcome
         ELSE /\ stage' = [stage EXCEPT ![Head(queue)] = "finished"]
              /\ outcome' = [outcome EXCEPT ![Head(queue)] = "skipped"]
              /\ UNCHANGED use
    /\ UNCHANGED <<callerVars, closing, alive, frees, flagVars, procVars>>

\* event.run() returned or threw a RuntimeException.  Nobody reads the result
\* array of a task that does not block.
FinishEvent ==
    /\ ~crashed
    /\ running # NoCall
    /\ stage[running] = "running"
    /\ closing = "no"
    /\ kindOf[running] # "close"
    /\ \E o \in {"value", "exception"} :
          outcome' = IF kindOf[running] \in Blocking
                       THEN [outcome EXCEPT ![running] = o] ELSE outcome
    /\ stage' = [stage EXCEPT ![running] = "finished"]
    /\ UNCHANGED <<callerVars, ownerVars, queue, nativeVars, flagVars, procVars>>

\* event.run() threw an Error ("Context disposed error", "Invalid target
\* runtime"): no catch clause takes it and it ends the Looper.
EventError ==
    /\ ~crashed
    /\ running # NoCall
    /\ stage[running] = "running"
    /\ closing = "no"
    /\ kindOf[running] # "close"
    /\ crashed' = TRUE
    /\ UNCHANGED <<callerVars, ownerVars, taskVars, nativeVars, flagVars, mode>>

\* The owner enters the event of QuickJS.close, as a task or in line, and
\* sizes an array by the static map of all contexts.
CloseSizes ==
    /\ OwnerActive
    /\ ~released /\ ~interrupted
    /\ closing' = "sized"
    /\ UNCHANGED <<callerVars, running, taskVars, nativeVars, flagVars, procVars>>

\* A thread that makes or closes a context of another runtime, or one that has
\* just made a context of this one, changes the map before it is copied: its
\* size is no longer, or is again, the length of the array.
MapChanges ==
    /\ closing \in {"sized", "spoiled"}
    /\ closing' = IF closing = "sized" THEN "spoiled" ELSE "sized"
    /\ UNCHANGED <<callerVars, running, taskVars, nativeVars, flagVars, procVars>>

\* Every slot of the array holds a context: those of the runtime are closed and
\* _releaseRuntime frees the runtime.
CloseFrees ==
    /\ closing = "sized"
    /\ closing' = "freed"
    /\ alive' = FALSE
    /\ frees' = frees + 1
    /\ UNCHANGED <<callerVars, running, taskVars, use, flagVars, procVars>>

\* A slot of the array is null: the NullPointerException leaves the event before
\* the runtime is freed.  In line it is for the code that called close.
CloseThrows ==
    /\ closing = "spoiled"
    /\ running # NoCall => kindOf[running] # "close"
    /\ closing' = "no"
    /\ UNCHANGED <<callerVars, running, taskVars, nativeVars, flagVars, procVars>>

\* The task of a posted close keeps the exception in errors[0], which nobody
\* reads.
CloseFails ==
    /\ running # NoCall
    /\ stage[running] = "running"
    /\ kindOf[running] = "close"
    /\ closing = "spoiled"
    /\ closing' = "no"
    /\ stage' = [stage EXCEPT ![running] = "finished"]
    /\ outcome' = [outcome EXCEPT ![running] = "exception"]
    /\ UNCHANGED <<callerVars, running, queue, nativeVars, flagVars, procVars>>

\* Mutant: the flag is not written.
CloseFlags_Forgotten ==
    /\ closing = "freed"
    /\ closing' = "flagged"
    /\ UNCHANGED <<callerVars, running, taskVars, nativeVars, flagVars, procVars>>

\* QuickJS.this.released = true
CloseFlags ==
    /\ closing = "freed"
    /\ closing' = "flagged"
    /\ released' = TRUE
    /\ UNCHANGED <<callerVars, running, taskVars, nativeVars, interrupted, procVars>>

\* quickJSNative.interrupt(), the last statement of the event.
CloseInterrupts ==
    /\ closing = "flagged"
    /\ closing' = "no"
    /\ interrupted' = (interrupted \/ HasHandlerThread)
    /\ UNCHANGED <<callerVars, running, taskVars, nativeVars, released, procVars>>

\* The event of a posted close is over: it found the runtime released, or it
\* has just released it.
CloseEnds ==
    /\ ~crashed
    /\ running # NoCall
    /\ stage[running] = "running"
    /\ kindOf[running] = "close"
    /\ closing = "no"
    /\ released
    /\ stage' = [stage EXCEPT ![running] = "finished"]
    /\ UNCHANGED <<callerVars, ownerVars, queue, outcome, nativeVars, flagVars, procVars>>

\* Mutant: a skipped event returns from the task before the notification.
Notifies_NotSkipped(x) == kindOf[x] \in Blocking /\ outcome[x] # "skipped"

\* Does the task set result[1] and notify?  if (block) in postVoid.
Notifies(x) == kindOf[x] \in Blocking

\* synchronized (result) { result[1] = true; result.notifyAll(); }, then back
\* to the Looper.  A task that does not block only goes back.
NotifyPoster ==
    /\ ~crashed
    /\ running # NoCall
    /\ stage[running] = "finished"
    /\ closing = "no"
    /\ stage' = [stage EXCEPT ![running] = "notified"]
    /\ LET c == running[1] IN
         pc' = IF Notifies(running) /\ pc[c] = "waiting" /\ Current(c) = running
                 THEN [pc EXCEPT ![c] = "woken"] ELSE pc
    /\ running' = NoCall
    /\ UNCHANGED <<made, kindOf, ret, disturbed, synced, closing, queue, outcome,
                   nativeVars, flagVars, procVars>>

-----------------------------------------------------------------------------

CallerStep(c) ==
    \/ \E k \in Posted : CallRefused(c, k) \/ CallAdmitted(c, k)
    \/ CheckThread(c)
    \/ PostTask(c)
    \/ EnterWait(c)
    \/ WakeEarly(c)
    \/ Return(c)
    \/ CreateContext(c)

OwnerStep ==
    \/ OwnerCall
    \/ TakeTask
    \/ FinishEvent
    \/ EventError
    \/ CloseSizes
    \/ CloseFrees
    \/ CloseThrows
    \/ CloseFails
    \/ CloseFlags
    \/ CloseInterrupts
    \/ CloseEnds
    \/ NotifyPoster

Next == OwnerStep \/ MapChanges \/ \E c \in Callers : CallerStep(c)

Spec == Init /\ [][Next]_vars

\* The Looper keeps dispatching, events end, and a thread that can go on does.
\* Strong fairness is for the two that a close in line can hold up and that an
\* endless series of closes which all fail must not hold up for ever.
\* Nothing is assumed of what callers ask for, nor that wait() ends by itself.
Fairness ==
    /\ SF_vars(TakeTask)
    /\ SF_vars(FinishEvent)
    /\ WF_vars(running # NoCall /\ kindOf[running] = "close" /\ CloseSizes)
    /\ WF_vars(CloseFrees \/ CloseThrows \/ CloseFails)
    /\ WF_vars(CloseFlags)
    /\ WF_vars(CloseInterrupts)
    /\ WF_vars(CloseEnds)
    /\ WF_vars(NotifyPoster)
    /\ \A c \in Callers :
          /\ WF_vars(CheckThread(c))
          /\ WF_vars(PostTask(c))
          /\ WF_vars(EnterWait(c))
          /\ WF_vars(Return(c))

FairSpec == Spec /\ Fairness

-----------------------------------------------------------------------------
(* Properties *)

\* An event handed over by postVoid, or run in line by the owner, never starts
\* on a freed runtime, however the poster's guard raced with QuickJS.close
\* (the second look at isReleased, EventQueue.java:99).
VoidEventsAlive ==
    \A u \in use : u[1] \in {"postVoid", "async", "close", "inline"} => u[2] = "live"

\* JS_FreeRuntime runs at most once, whoever calls close and however often.
FreedOnce == frees <= 1

\* A caller that sleeps in result.wait() has a task that the owner has still to
\* notify: no wake-up was lost between handler.post and wait
\* (EventQueue.java:57-66).
NoLostWakeup ==
    \A c \in Callers : pc[c] = "waiting" =>
        /\ stage[Current(c)] \in {"queued", "running", "finished"}
        /\ kindOf[Current(c)] \in Blocking

\* A call that gives null without having been refused was woken early; any
\* other blocking call returns what its own event produced.
OwnOutcome ==
    \A c \in Callers : (made[c] > 0 /\ kindOf[Current(c)] \in Blocking) =>
        /\ ret[c] = "null" => Current(c) \in disturbed
        /\ ret[c] \in Outcomes => ret[c] = outcome[Current(c)] /\ ret[c] # "unset"

\* When an event of a caller has started, every event that this caller posted
\* before it is over, also when the caller gave up waiting for it.
ProgramOrder ==
    \A c \in Callers : \A i, j \in 1..MaxCalls :
        i < j /\ stage[<<c, j>>] \notin {"new", "queued"}
            => stage[<<c, i>>] \in {"new", "notified"}

\* What a blocking call that was not disturbed promises to its caller: the
\* event is over before the caller starts another call.
BlocksUntilDone ==
    \A c \in Callers :
        (/\ pc[c] = "idle" /\ made[c] > 0
         /\ kindOf[Current(c)] \in Blocking /\ Current(c) \notin disturbed)
            => stage[Current(c)] \in {"new", "notified"}

\* A call that passed the guard comes back to its caller, unless the process
\* dies of an Error.
CallsReturn ==
    \A c \in Callers : pc[c] # "idle" ~> (pc[c] = "idle" \/ crashed)

\* A close that was posted releases the runtime, unless the map of contexts
\* changed under it and its event ended with the NullPointerException that
\* EventQueue.java:102 takes (QuickJS.java:70-73): nothing else keeps it back.
CloseReleases ==
    \A x \in Calls : (kindOf[x] = "close" /\ stage[x] = "queued") ~>
        (released \/ crashed \/ outcome[x] = "exception")

\* The queue implements an executor that runs each job once, one at a time and
\* in the order of submission.
Executor == INSTANCE SerialExecutor WITH
    Jobs <- Calls, None <- NoCall, pending <- queue, current <- running,
    done <- {x \in Calls : stage[x] = "notified"}

ImplementsSerialExecutor == Executor!Spec

\* What JSContext.java:183 and QuickJS.java:85 assert of every use: the runtime
\* has not been disposed of when an event of post starts.
PostEventsAlive == \A u \in use : u[1] = "post" => u[2] = "live"
=============================================================================
