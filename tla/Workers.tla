------------------------------- MODULE Workers -------------------------------
(***************************************************************************)
(* The plugins that bring concurrency into scripts: WorkerPlugin, where a  *)
(* script of the main context makes workers with a runtime and an event    *)
(* queue of their own, and SetTimeoutPlugin, where a thread sleeps and     *)
(* then posts the callback.  Runtimes talk only by posting events to each  *)
(* other's queue, and any of them may be closed meanwhile.                 *)
(*                                                                         *)
(* An event queue is the serial executor that module EventQueue refines:   *)
(* posting to a released runtime is refused, and an event of postVoid that *)
(* finds its runtime released is skipped.  QuickJS.close is two steps here, *)
(* because all runtimes share the static map of contexts that it walks.    *)
(***************************************************************************)
EXTENDS Naturals, Sequences, FiniteSets, Functions

CONSTANTS
    WorkerIds,    \* bound: the workers that scripts make
    Timers,       \* bound: the calls of setTimeout
    Sleepers,     \* bound: the runtimes whose scripts make them
    Main,         \* the runtime whose script makes the workers
    ObjectTag,    \* JS_TAG_OBJECT, the tag of every object on a 64-bit build
    MaxMessages,  \* bound: messages that wait in one queue
    None

ASSUME WorkersAssumption ==
    /\ IsFiniteSet(WorkerIds) /\ Main \notin WorkerIds
    /\ MaxMessages \in Nat
    /\ Sleepers \subseteq WorkerIds \union {Main}
    /\ None \notin WorkerIds \union Nat /\ ObjectTag \notin WorkerIds

Runtimes == WorkerIds \union {Main}

\* An event is a kind and what the kind is about:
\*   message : main -> worker; "early" or "late", sent before or after terminate()
\*   reply   : worker -> main
\*   timer   : the callback of a timer
\*   script  : the evaluation of the worker's script, the only event of post
\*   close   : QuickJS.close of the worker
Events == ({"message"} \X {"early", "late"}) \union ({"timer"} \X Timers)
            \union ({"script", "close", "reply"} \X {"-"})

\* Values of JSValue.tag of a worker object.
Tags == WorkerIds \union {ObjectTag}

VARIABLES
    nanBoxing,  \* a 32-bit build: the tag of a value is all of the value
    open,       \* open[r]: the JSContext of r: "none", "open" or "closed"
    released,   \* released[r]: QuickJS.released
    queue,      \* queue[r]: the events posted to r
    running,    \* running[w]: w is executing JS
    looked,     \* looked[r]: size of the map of contexts that QuickJS.close read
    thrown,     \* the workers whose QuickJS.close ended with an exception
    thread,     \* thread[w]: the thread that evaluates the script of w
    workers,    \* WorkerPlugin.workers: tag -> worker
    terminate,  \* terminate[w]: Worker.terminate
    timer,      \* timer[t]: what has become of a timer
    lateRuns,   \* {the kind of the last event that ran JS, if its context was not open}
    crashed     \* an Error reached a Looper, or a thread of Java ended with an
                \* exception: the process is gone

closeVars   == <<looked, thrown>>
runtimeVars == <<open, released, queue, running, closeVars>>
workerVars  == <<thread, workers, terminate>>

procVars    == <<nanBoxing, crashed>>

vars == <<runtimeVars, workerVars, timer, lateRuns, procVars>>

\* The script thread of a worker: not made, made, past the guard of post, waiting
\* for its event, and past it or refused.
Progress == {"none", "started", "admitted", "posted", "past"}

\* A timer: not set, sleeping for a runtime, about to sleep for a negative time,
\* posted, and over.
TimerStates == ({"asleep"} \X Runtimes) \union ({"unset", "negative", "posted", "over"} \X {"-"})

TypeOK ==
    /\ nanBoxing \in BOOLEAN
    /\ open \in [Runtimes -> {"none", "open", "closed"}]
    /\ released \in [Runtimes -> BOOLEAN]
    /\ queue \in [Runtimes -> Seq(Events)]
    /\ running \in [WorkerIds -> BOOLEAN]
    /\ looked \in [Runtimes -> Nat \union {None}]
    /\ thrown \subseteq WorkerIds
    /\ thread \in [WorkerIds -> Progress]
    /\ workers \in [Tags -> WorkerIds \union {None}]
    /\ terminate \in [WorkerIds -> BOOLEAN]
    /\ timer \in [Timers -> TimerStates]
    /\ lateRuns \subseteq {"message", "reply", "timer", "script"}
    /\ crashed \in BOOLEAN

Init ==
    /\ nanBoxing \in BOOLEAN
    /\ open = [r \in Runtimes |-> IF r = Main THEN "open" ELSE "none"]
    /\ released = [r \in Runtimes |-> FALSE]
    /\ queue = [r \in Runtimes |-> <<>>]
    /\ running = [w \in WorkerIds |-> FALSE]
    /\ looked = [r \in Runtimes |-> None]
    /\ thrown = {}
    /\ thread = [w \in WorkerIds |-> "none"]
    /\ workers = [k \in Tags |-> None]
    /\ terminate = [w \in WorkerIds |-> FALSE]
    /\ timer = [t \in Timers |-> <<"unset", "-">>]
    /\ lateRuns = {}
    /\ crashed = FALSE

\* The process ends, and its messages, events and sleeping threads with it.
Dies ==
    /\ crashed' = TRUE
    /\ queue' = [r \in Runtimes |-> <<>>]
    /\ running' = [w \in WorkerIds |-> FALSE]
    /\ timer' = [t \in Timers |-> <<"over", "-">>]
    /\ UNCHANGED <<open, released, closeVars, workerVars, lateRuns, nanBoxing>>

-----------------------------------------------------------------------------
(* What scripts do *)

\* postEventQueue: refused when the runtime is released.
Posted(q, r, e) == IF released[r] THEN q ELSE [q EXCEPT ![r] = Append(@, e)]

\* JS of runtime r is being executed: that of an event, or on Main, at any time,
\* that of an event or of a call of the application.
InScript(r) ==
    /\ ~crashed
    /\ open[r] = "open"
    /\ r # Main => running[r]
    /\ looked[r] = None

\* thisObj.getTag()
Tag(w) == IF nanBoxing THEN w ELSE ObjectTag

\* new Worker(url): the constructor makes the runtime and its context, waits for
\* each of the operations that set them up, and starts the script thread.
NewWorker(w) ==
    /\ InScript(Main)
    /\ open[w] = "none"
    /\ open' = [open EXCEPT ![w] = "open"]
    /\ workers' = [workers EXCEPT ![Tag(w)] = w]
    /\ thread' = [thread EXCEPT ![w] = "started"]
    /\ UNCHANGED <<released, queue, running, closeVars, terminate, timer, lateRuns, procVars>>

\* worker.postMessage(msg)
PostMessage(w) ==
    /\ InScript(Main)
    /\ open[w] # "none"
    /\ Len(queue[w]) < MaxMessages
    /\ queue' = Posted(queue, w, <<"message", IF terminate[w] THEN "late" ELSE "early">>)
    /\ UNCHANGED <<open, released, running, closeVars, workerVars, timer, lateRuns, procVars>>

\* postMessage(event) in a worker: sendMessageReceiver
Reply(w) ==
    /\ InScript(w)
    /\ Len(queue[Main]) < MaxMessages
    /\ queue' = Posted(queue, Main, <<"reply", "-">>)
    /\ UNCHANGED <<open, released, running, closeVars, workerVars, timer, lateRuns, procVars>>

\* setTimeout(func, delay): the delay is the script's, and may be negative.
SetTimeout(r, t) ==
    /\ InScript(r)
    /\ timer[t][1] = "unset"
    /\ \E s \in {<<"asleep", r>>, <<"negative", "-">>} : timer' = [timer EXCEPT ![t] = s]
    /\ UNCHANGED <<runtimeVars, workerVars, lateRuns, procVars>>

\* Mutant: Worker.close does not remember.
Terminated_Forgotten(ws) == terminate

\* Worker.close of the workers in ws sets the flag ...
Terminated(ws) == [w \in WorkerIds |-> terminate[w] \/ w \in ws]

\* ... and, the first time, posts quickJS::close.
ClosePosted(ws) ==
    [r \in Runtimes |-> IF r \in ws /\ ~terminate[r]
                          THEN Posted(queue, r, <<"close", "-">>)[r] ELSE queue[r]]

\* worker.terminate()
Terminate(w) ==
    /\ InScript(Main)
    /\ open[w] # "none"
    /\ queue' = ClosePosted({w})
    /\ terminate' = Terminated({w})
    /\ UNCHANGED <<open, released, running, closeVars, thread, workers, timer,
                   lateRuns, procVars>>

-----------------------------------------------------------------------------
(* The threads *)

\* The script thread enters post ...
ThreadAdmitted(w) ==
    /\ ~crashed
    /\ thread[w] = "started"
    /\ thread' = [thread EXCEPT ![w] = IF released[w] THEN "past" ELSE "admitted"]
    /\ UNCHANGED <<runtimeVars, workers, terminate, timer, lateRuns, procVars>>

\* ... and posts _executeScript, without looking at released again.
ThreadPosts(w) ==
    /\ ~crashed
    /\ thread[w] = "admitted"
    /\ thread' = [thread EXCEPT ![w] = "posted"]
    /\ queue' = [queue EXCEPT ![w] = Append(@, <<"script", "-">>)]
    /\ UNCHANGED <<open, released, running, closeVars, workers, terminate, timer,
                   lateRuns, procVars>>

\* When its script has run the thread asks for the exception, in a second event that
\* runs between two others.  If there is one, the QuickJSException is thrown on the
\* thread and nothing takes it.  There is none if the script did not throw, the
\* runtime is released by now or another event has taken the exception (see Scripts).
ThreadThrows(w) ==
    /\ ~crashed
    /\ thread[w] = "past"
    /\ ~running[w] /\ looked[w] = None /\ ~released[w]
    /\ Dies

\* Thread.sleep of a negative time throws an IllegalArgumentException, which the
\* thread does not take.
SleepThrows(t) ==
    /\ ~crashed
    /\ timer[t][1] = "negative"
    /\ Dies

\* Mutant: an interrupted sleep ends the thread.
TimerExpires_Interrupted(t) ==
    /\ ~crashed
    /\ timer[t][1] = "asleep"
    /\ timer' = [timer EXCEPT ![t] = <<"posted", "-">>]
    /\ UNCHANGED <<runtimeVars, workerVars, lateRuns, procVars>>

\* Thread.sleep ends, and the callback is posted.
TimerExpires(t) ==
    /\ ~crashed
    /\ timer[t][1] = "asleep"
    /\ LET r == timer[t][2] IN
         /\ timer' = [timer EXCEPT ![t] = <<IF released[r] THEN "over" ELSE "posted", "-">>]
         /\ queue' = Posted(queue, r, <<"timer", t>>)
    /\ UNCHANGED <<open, released, running, closeVars, workerVars, lateRuns, procVars>>

-----------------------------------------------------------------------------
(* The event queues *)

\* The oldest event of r, which its Looper may take, is of this kind.
Due(r, kind) ==
    /\ ~crashed
    /\ looked[r] = None
    /\ r # Main => ~running[r]
    /\ queue[r] # <<>>
    /\ Head(queue[r])[1] = kind

Takes(r, kind) ==
    /\ Due(r, kind)
    /\ queue' = [queue EXCEPT ![r] = Tail(@)]

\* The event runs JS if runs holds.
Runs(r, kind, runs) ==
    /\ running' = [w \in WorkerIds |-> IF w = r THEN runs ELSE running[w]]
    /\ lateRuns' = IF runs /\ open[r] # "open" THEN {kind} ELSE {}

\* The event of the script thread.
RunScript(w) ==
    /\ Takes(w, "script")
    /\ Runs(w, "script", TRUE)
    /\ thread' = [thread EXCEPT ![w] = "past"]
    /\ UNCHANGED <<open, released, closeVars, workers, terminate, timer, procVars>>

\* context.getObject and workerObj.getObject throw "Context disposed error", which
\* ends the Looper, when the context alone is closed.
Disposed(r) == open[r] = "closed" /\ ~released[r]

LooperDies(r) ==
    /\ Due(r, "message") \/ Due(r, "reply")
    /\ Disposed(r)
    /\ Dies

\* The event of Worker.postMessage, skipped when the worker is released: its
\* onmessage, if its script has run by then and has set one.
RunMessage(w) ==
    /\ Takes(w, "message")
    /\ ~Disposed(w)
    /\ \E b \in {FALSE, thread[w] = "past"} :
          Runs(w, "message", ~released[w] /\ b)
    /\ UNCHANGED <<open, released, closeVars, workerVars, timer, procVars>>

\* The event of sendMessageReceiver, skipped when Main is released.  There may or
\* may not be an onmessage.
RunReply ==
    /\ Takes(Main, "reply")
    /\ ~Disposed(Main)
    /\ \E b \in BOOLEAN : Runs(Main, "reply", ~released[Main] /\ b)
    /\ UNCHANGED <<open, released, closeVars, workerVars, timer, procVars>>

\* Mutant: isReleased asks the runtime only.
Fires_RuntimeOnly(r) == ~released[r]

\* if (!func.getContext().isReleased())
Fires(r) == ~released[r] /\ open[r] = "open"

\* The event of a timer.
RunTimer(r) ==
    /\ Takes(r, "timer")
    /\ Runs(r, "timer", Fires(r))
    /\ timer' = [timer EXCEPT ![Head(queue[r])[2]] = <<"over", "-">>]
    /\ UNCHANGED <<open, released, closeVars, workerVars, procVars>>

\* The event returns to the Looper.
EndEvent(w) ==
    /\ ~crashed
    /\ running[w]
    /\ running' = [running EXCEPT ![w] = FALSE]
    /\ UNCHANGED <<open, released, queue, closeVars, workerVars, timer, lateRuns, procVars>>

-----------------------------------------------------------------------------
(* QuickJS.close: the threads of all runtimes walk one static map *)

\* sContextMap.size(): a context is put there by its constructor and removed when
\* it is closed.
MapSize == Cardinality({r \in Runtimes : open[r] = "open"})

\* What toArray makes of an array of the length that was read.  Contexts of other
\* runtimes may have come or gone meanwhile: an array that is too long ends with
\* null, one that is too short stays empty, and a null slot ends the event with a
\* NullPointerException.
ArrayFits(r)   == looked[r] \in {0, MapSize}
ArrayFilled(r) == MapSize <= looked[r]

\* QuickJS.close of a worker on its own thread: the size ...
CloseLooks(w) ==
    /\ Takes(w, "close")
    /\ looked' = [looked EXCEPT ![w] = MapSize]
    /\ UNCHANGED <<open, released, running, thrown, workerVars, timer, lateRuns, procVars>>

\* ... and the array: its context is closed, then its runtime is released.
RunClose(w) ==
    /\ ~crashed
    /\ looked[w] # None
    /\ looked' = [looked EXCEPT ![w] = None]
    /\ open' = [open EXCEPT ![w] = IF ArrayFilled(w) THEN "closed" ELSE @]
    /\ released' = [released EXCEPT ![w] = ArrayFits(w)]
    /\ thrown' = IF ArrayFits(w) THEN thrown ELSE thrown \union {w}
    /\ UNCHANGED <<queue, running, workerVars, timer, lateRuns, procVars>>

-----------------------------------------------------------------------------
(* The application *)

Registered == {workers[k] : k \in Tags} \ {None}

\* Mutant: the plugins are not closed.
PluginsClosed_Skipped == {}

\* WorkerPlugin.close closes the workers in its map.
PluginsClosed == Registered

\* The main context, if it is open, is closed when closes holds, and its plugins are.
MainCloses(closes) ==
    LET ws == IF closes /\ open[Main] = "open" THEN PluginsClosed ELSE {} IN
    /\ open' = [open EXCEPT ![Main] = IF closes THEN "closed" ELSE @]
    /\ queue' = ClosePosted(ws)
    /\ terminate' = Terminated(ws)

\* The application may close something: it does so between two events.
MayClose == ~crashed /\ looked[Main] = None /\ ~released[Main]

\* JSContext.close of the main context.
CloseContext ==
    /\ MayClose
    /\ open[Main] = "open"
    /\ MainCloses(TRUE)
    /\ UNCHANGED <<released, running, closeVars, thread, workers, timer,
                   lateRuns, procVars>>

\* QuickJS.close of the main runtime, in the same two steps.
CloseRuntimeLooks ==
    /\ MayClose
    /\ looked' = [looked EXCEPT ![Main] = MapSize]
    /\ UNCHANGED <<open, released, queue, running, thrown, workerVars, timer, lateRuns,
                   procVars>>

\* The exception is for the application, which may call close again.
CloseRuntime ==
    /\ ~crashed
    /\ looked[Main] # None
    /\ looked' = [looked EXCEPT ![Main] = None]
    /\ MainCloses(ArrayFilled(Main))
    /\ released' = [released EXCEPT ![Main] = ArrayFits(Main)]
    /\ UNCHANGED <<running, thrown, thread, workers, timer, lateRuns, procVars>>

-----------------------------------------------------------------------------

ScriptStep ==
    \/ \E w \in WorkerIds : NewWorker(w) \/ PostMessage(w) \/ Reply(w) \/ Terminate(w)
    \/ \E r \in Sleepers, t \in Timers : SetTimeout(r, t)

ThreadStep ==
    \/ \E w \in WorkerIds : ThreadAdmitted(w) \/ ThreadPosts(w) \/ ThreadThrows(w)
    \/ \E t \in Timers : TimerExpires(t) \/ SleepThrows(t)

LooperStep(r) == RunTimer(r) \/ LooperDies(r)

WorkerLooperStep(w) ==
    RunScript(w) \/ RunMessage(w) \/ CloseLooks(w) \/ RunClose(w)
    \/ EndEvent(w) \/ LooperStep(w)

MainLooperStep == RunReply \/ LooperStep(Main)

Next ==
    \/ ScriptStep
    \/ ThreadStep
    \/ \E w \in WorkerIds : WorkerLooperStep(w)
    \/ MainLooperStep
    \/ CloseContext
    \/ CloseRuntimeLooks
    \/ CloseRuntime

Spec == Init /\ [][Next]_vars

\* The threads of the runtimes go on, with the next event or with a close that they
\* have begun, events end, and a thread that sleeps wakes up.  Nothing is assumed of
\* what scripts ask for, nor that the application closes anything.
FairSpec ==
    /\ Spec
    /\ WF_vars(MainLooperStep \/ CloseRuntime)
    /\ \A w \in WorkerIds : WF_vars(WorkerLooperStep(w))
    /\ \A t \in Timers : WF_vars(TimerExpires(t) \/ SleepThrows(t))

-----------------------------------------------------------------------------
(* Properties *)

\* Callbacks of timers, messages to workers and replies never run JS in a context
\* that is not open, whenever contexts and runtimes are closed: the guard of
\* SetTimeoutPlugin.java:23 and the second look of EventQueue.java:99.  The
\* script of a worker has neither (see PostEventsAlive in EventQueue).
CallbacksInTime == lateRuns \subseteq {"script"}

\* A worker's runtime is asked to close once, by terminate() or by the plugin, and
\* not again after that; and by the time it is released, the messages that were sent
\* before that have been taken (WorkerPlugin.java:94-101).
OrderlyClose ==
    \A w \in WorkerIds :
        LET closes == {i \in DOMAIN queue[w] : queue[w][i] = <<"close", "-">>} IN
        /\ Cardinality(closes) <= 1
        /\ released[w] => closes = {} /\ <<"message", "early">> \notin Range(queue[w])

\* Once the main context is closed every worker that is in the plugin's map is
\* released in the end, unless its QuickJS.close met a map that changed under it
\* (QuickJS.java:70-73): a worker is lost by that race and by nothing else.
WorkersReleased ==
    open[Main] = "closed" ~> (crashed \/ \A w \in Registered : released[w] \/ w \in thrown)

\* A timer fires or finds its runtime released, or it ends the process with its
\* thread; it is not forgotten (SetTimeoutPlugin.java:17-26).
TimersEnd ==
    \A t \in Timers :
        timer[t][1] \in {"asleep", "negative"} ~> (timer[t][1] = "over" \/ crashed)
=============================================================================
