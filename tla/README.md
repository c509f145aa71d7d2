# TLA+ models of the JavaScript executor library

This directory holds TLA+ models of the core of the repository: the Android
library `jsexecutor`, which embeds JavaScript engines (QuickJS through JNI,
Hermes and JavaScriptCore through JSI) and lets Java code, scripts, workers and
React Native share them, with the part of the vendored QuickJS that all of this rests
on (reference counts and the cycle collector) and the Gradle plugin that collects
metadata of annotated classes. TLC checks the models on small instances, TLAPS proves
theorems about all of them for every value of their constants. The repository
has no tests and an almost empty README, so every definition is read off the
source; `PROJECT.json` maps each one to its lines.

## 1. The system and its parts

| Part | Source | State | Operations | Hard behaviour |
|---|---|---|---|---|
| Event queue | `com/quickjs/EventQueue.java`, `QuickJS.java`, `ThreadChecker.java` | the Handler's messages, one result array per call, `released`, the thread's interrupt flag | `post`, `postVoid`, `postEventQueue`, `close`, `interrupt` | threads hand work to the owner with wait/notify; the guard is read before the task is posted; `released` is a plain field; interrupts and spurious wake-ups; `close` walks a static map that all runtimes share |
| Handles | `JSValue.java`, `JSContext.java`, `JSObject.java`, `quickjs-jni.cpp` | native reference counts, the weak map `refs`, the pool of pointers to give back | create, move, finalize, drain the pool, set, call back, close | the garbage collector and the finalizer run at any time; identity hash codes collide; counts are kept by hand across JNI |
| Workers and timers | `plugin/WorkerPlugin.java`, `plugin/SetTimeoutPlugin.java` | the map of workers, a runtime and an event queue per worker, sleeping threads, the static map of contexts | `new Worker`, `postMessage` both ways, `terminate`, `setTimeout`, close | events arrive after a context or runtime was closed; runtimes that close together; threads that end with an exception |
| Script modules | `Module.java`, `CommonJSModule.java`, `ES6Module.java`, `quickjs-jni.cpp` | the map of evaluated modules, the engine's table of ES6 modules | `require`, `executeModule`, import hooks, `convertModuleName`, `close` | nested and cyclic requires, loads that fail half-way, modules started twice, many spellings of one name |
| Hermes thread check | `HermesExecutorFactory.cpp` (`ReentrancyCheck`) | atomic `tid`, plain `depth` | `before`, `after` around every call into the VM | threads that do or do not synchronise, nested calls, relaxed memory order |
| JSI executor | `JSIExecutor.cpp` | the three bridge functions and `bindFlag_`, the queue on the JavaScript side | `loadBundle`, `registerBundle`, `callFunction`, `invokeCallback`, `flush`, the microtask checkpoint | script code, microtasks and host functions run inside one another; binding fails half-way; a counter at its width |
| JSI native modules | `JSINativeModules.cpp` | `m_objects`, `m_genNativeModuleJS` | `getModule`, `createModule`, `reset` | getModule nests through script code |
| QuickJS heap | `quickjs.c` (`free_zero_refcount`, `free_object`, `JS_RunGC`) | reference counts, marks, three lists of nodes | create, get, set and delete properties, capture variables, free, collect | the lists change below the loops that walk them; freed objects stay as zombies while cycles are removed |
| Script exceptions | `QuickJS.checkException`, `_getException`, `JS_Throw` | the runtime's one slot for a pending exception | two events per checked call, one per unchecked call | another thread's event in between; exceptions raised while an exception is reported |
| Gradle plugin | `packages/pisces-gradle-plugin` | lists of metadata of annotated classes | filter, replace inherited, remove parents, inject | results that depend on the scan order; a list emptied while its pairs are compared |
| Console plugin, JNI glue, React bridge classes, vendored engines, sample applications | see `PROJECT.json` | - | - | - |

How they interact: every operation on a QuickJS context (handles, plugins, modules) goes through
the event queue of its runtime to the thread that owns it. Finalizers reach the native side only
through the pool that the next operation drains. What the handles own and what a script throws
are references to nodes of the QuickJS heap, which the collector counts. Workers and timers
reach a context only by posting events. Scripts call back into Java through `callJavaCallback`,
on the owner's thread, inside an event. The JSI executor is driven by React Native on one
thread; scripts call it back through host functions; the Hermes runtime below it is wrapped in
the thread check. The Gradle plugin works at build time and meets none of the others.

What makes each part correct: no caller waits for ever or gets another call's result, and events
run one at a time, in order and on a live runtime (event queue); each native reference has one
owner (handles); callbacks run in open contexts only and everything ends after close (workers);
a name means one file and a module is handed out only when complete (modules); the check stops
every overlap and nothing else (thread check); each native call reaches the delegate once
(executor); nothing refers to freed memory and a collection leaves exactly what is reachable
(heap); a call reports its own exception and leaves none behind (exceptions); an entry is
instantiated as the annotated class or an heir of it, and parents are dropped in every scan
order (plugin).

## 2. Modules

| Module | Models | Used by |
|---|---|---|
| `EventQueue` | the hand-over, `QuickJS.close`, the thread check of runtimes without a Handler | `MCEventQueue`, `EventQueueProofs` |
| `SerialExecutor` | what the event queue promises: FIFO, one at a time, at most once | `EventQueue` (refinement mapping `Executor`) |
| `Handles` | ownership of native references in one context | `MCHandles`, `HandlesProofs` |
| `Workers` | workers and timers on top of serial executors | `MCWorkers`, `WorkersProofs` |
| `ModuleNames` | `convertModuleName`, and as reference `FileOf` and `Meant` | `Modules` |
| `Modules` | CommonJS and ES6 loading | `MCModules`, `ModulesProofs` |
| `ReentrancyCheck` | `before` and `after` | `MCReentrancyCheck`, `ReentrancyCheckProofs` |
| `NativeModules` | the cache of native module objects | `JSIExecutor` |
| `JSIExecutor` | the bridge, composed with `NativeModules` | `MCJSIExecutor`, `JSIExecutorProofs` |
| `Heap` | reference counts and the cycle collector of one QuickJS runtime | `Scripts` |
| `Scripts` | calls into scripts and their exceptions, on top of `Heap` | `MCScripts`, `HeapProofs` |
| `MetaData` | what `process()` of the plugin's processors makes of the scanned classes | `MCMetaData`, `MetaDataProofs` |

The `MC` modules give the constants values. `*Proofs` hold the theorems. An
operator named `X_Something` beside an operator `X` is a mutant: `X` as a plausible
bug would have it. Each property is known to fail for one of them
(`mutants` in `PROJECT.json`).

### EventQueue

A call is `<<caller, number>>`; `stage` follows its task from `queued` to
`notified`, `outcome` is its result array. Reading the guard (`CallRefused`,
`CallAdmitted`), posting (`PostTask`), the synchronized block (`EnterWait`) and the
return (`Return`) are separate actions, because the code holds no lock from one to
the next. `WakeEarly` is an `InterruptedException` or a spurious wake-up; the code
tests `result[1]` once, so the call goes on. The owner dispatches one message at a
time (`TakeTask`, `FinishEvent`, `NotifyPoster`). `released` is not volatile: a caller
that has not synchronised with the owner since the write (`synced`) may read either
value. An `Error` is caught by no clause and ends the process (`EventError`). `mode` is
one of the three ways a runtime is made; `Init` chooses it.

`QuickJS.close` reads the size of `sContextMap` (`CloseSizes`), fills an array of that
size, closes the contexts of the runtime and frees it (`CloseFrees`), sets the flag and
interrupts. The map is static: the threads of other runtimes change it (`MapChanges`)
between the two, and when the array no longer fits, one of its slots is null. The
NullPointerException ends the event before anything is freed: in `CloseFails` the task
keeps it in `errors[0]`, which nobody reads since a close does not block, in
`CloseThrows` it goes to the code that called `close` on the owner's thread.
Which contexts there are is the subject of `Workers`; here only whether the array fits
is kept.

### Handles

One context with the handles, objects and hash codes of the instance. `count` is the
native count, `jsRefs` what the JS heap holds, `stray` the references that code takes
for no owner (`To_JObject` for a caller that expects no object) or owns without having
taken (`callJavaCallback` with the global object). `refs` loses any entry at any time,
since its keys are boxed integers that nobody holds. `checkReleased` is the steps
`DrainRead`, `DrainFree`, `DrainRemove`, `DrainEnd`. Native work is one step each:
how it gets to the owner is the subject of `EventQueue`.

### Workers

A runtime's event queue is used as the serial executor that `EventQueue` refines,
with the rules for released runtimes (`Posted` refuses, events of `postVoid` are
skipped). The thread that evaluates a worker's script passes the guard and posts in
two steps. `nanBoxing` chooses between builds in which an object's tag identifies it
and builds in which all objects have the same tag.

`QuickJS.close` is two steps here too (`CloseLooks` and `RunClose`, `CloseRuntimeLooks`
and `CloseRuntime` for the main runtime), because workers that close together do walk
the one map at once: `looked` is the size that was read, `ArrayFits` and `ArrayFilled`
say what `toArray` makes of it when contexts have come or gone. A worker whose close
throws is in `thrown`; nobody hears of it and nobody closes it again.

The process ends (`Dies`, `crashed`) in three ways: an exception of the worker's script
is thrown on the script's thread (`ThreadThrows`, WorkerPlugin.java:62-67), a negative
delay makes `Thread.sleep` throw an exception that SetTimeoutPlugin.java:19 does not take
(`SleepThrows`), and a message or a reply finds its context closed and its runtime not
(`LooperDies`).

### ModuleNames and Modules

A name is the sequence of what stands between its slashes, with an empty segment where
nothing does: a leading slash is an empty first segment, a doubled slash an empty one in
between. Two names are equal exactly if their texts are, and `split`, `startsWith` and the
builder's slashes become operations on segments (`Segments`, `IsAbsolute`, `EndsWithSlash`,
`Joined`). `Collapsed` is `replace("//", "/")`, which does not look again at what it has
written: of three slashes in a row two are left, of four two, of five three (`Dropped`).
`Walked` goes along a name directory by directory; `Meant` is where a name leads to from
beside the script that asks for it, and is the reference that `ConvertModuleName` is
compared with.

`Modules` keeps the stack of CommonJS evaluations and the map. `require` may be given a
base (`Bases`), the filename of a module object, which only modules whose script is over
have. A name is converted twice, in `require` and with no base in `executeModuleScript`
(`Filename`). `complete` is history: which evaluations came to their end without an
exception. An exception goes on in the script that called `require` (`Unwound`).

Of ES6 modules it keeps the engine's list (`table`), a record per `JSModuleDef`.
`executeModule` always adds one (`ImportRoot`); an import looks for the name first
(`Import`). Loads nest, so the record that is loading and was added last is the one whose
imports are resolved (`Innermost`). A failure while loading frees every module that is
loading, one while linking or evaluating frees all that are not evaluated
(`LoadFails`, `RootFails`). There is no dynamic import: the library never runs pending
jobs. A script that calls `executeModule` while modules are being loaded is left out.

### ReentrancyCheck

Each access to `tid` or `depth` is a step. `queued`, chosen in `Init`, says whether the
threads take turns on a message queue. If they do not, nothing orders the accesses of
two threads to `depth`; the first access after taking `tid` over from another thread
then reads any value. A store to `depth` that becomes visible only after the next owner
has written it is not modelled. `assert` and `__builtin_trap` set `crashed`.

### NativeModules and JSIExecutor

A native call is its number. `queue` is the queue on the JavaScript side, `ret` what a batch has
taken over, `delivered` what the delegate got, `lost` what was in `ret` when the checkpoint
threw. While a script, a function or a microtask runs, it may define the bridge (completely, in
part, or as something else), queue calls, flush them itself or ask for native modules. `frames`
is the stack of `getModule` calls that wait for `__fbGenNativeModule`. Any script may call
`nativeFlushQueueImmediate`, with or without a bridge and with whatever argument; without a
delegate that is the end of the process. `flushedQueue_` may throw before it has taken the queue
(`FlushThrows`). `BatchedBridge` itself is external: its functions return the queue and leave an
empty one, and calls can be queued only when it is loaded, as the comment in `flush` says. The
bridge object is not replaced once it is there.

### Heap

A node is an object or a detached variable of closures (`JSVarRef`). These are the two
ways in which nodes are freed: objects through `gc_zero_ref_count_list`, the others on
the spot; shapes, bytecode, async function data and contexts behave like one of them and
are no nodes of their own. `list` says which of the engine's lists a node is in, `count`
and `marked` are its header, `held` counts the references of handles and running code.
The lists are sets, so that every order of a list is tried. `phase` is the loop of the
collector that runs, `todo` what it has still to visit; a loop's body is one step
(`Decref`, `Scan`, `Restore`, `FreeCycle`), because `gc_decref` moves nodes between the
lists and `gc_scan` appends to the list it walks. Objects that are referred to when cycles
are removed stay in the zero list (`StaysAsZombie`) until `FreeZombies`. Scripts go on
only when the zero list has been emptied (`Running`). Left out: weak references,
finalizers of built-in classes, `JS_FreeRuntime`.

### Scripts

`executeScript`, `JSFunction.call` and `executeFunction` post two events, the script and
the query of `checkException`. `call[t]` is how the script of thread `t` ended, until its
query is over. `exception` is the one slot of the runtime, `source` whose call filled it,
`told` whose exception a query has just reported. Unchecked calls (property access,
`QuickJS.executeFunction`) run scripts without a query. `leaked` counts the references
that `_getException` takes out of the slot and does not free because they are no `Error`.
`QueryRaises` is an exception whose own `toString` or `name` throws while it is reported.
Texts are strings and hold no references. An error whose `stack` is an accessor or an
object is left out: `_getException` follows `stack` until it is undefined, and for a
getter that throws that loop does not end.

### MetaData

Annotated classes are numbered in the order of the scan, and every hierarchy over them is an
initial state: all orders are tried. An entry keeps the annotated class, the class to
instantiate and the class whose superclasses it lists. A list of entries is a function from
classes: whatever is taken out of a list, its entries stay in the order of the scan, so the
annotated class says which entry it is. `Begin`, `Resolve`, `Inject` are `process()`; `Skip`,
`Fail` and the rejected outcome of `Inject` are its early returns. The loops that a step runs
through are recursive functions on the loop's counter: `Superclasses` is the loop of
`getSuperclasses`, `Row` and `RemoveParents` are the inner and the outer loop of `remove`.
`processor` chooses between the QuickApp processor (both lists), the Gemini processor
(extensions, parents removed before as well) and the processors that only remove parents.

## 3. Runs

| Run | Expected | Instance | What it shows |
|---|---|---|---|
| `handover` | pass | 2 callers with 2 and 1 calls, all modes, 2.2 M states | no lost wake-up, own outcome, program order, blocking until done, `postVoid` events on a live runtime, one free, refinement of `SerialExecutor` |
| `live` | pass | 1 call each, fair, 0.12 M states | calls return, a posted close releases the runtime unless it fails on the shared map |
| `postrelease` | violation | as `handover` | an event of `post` starts on a freed runtime |
| `ownership` | pass | owner as user, 3 handles (two with one hash code), 2 objects, 0.9 M states | reference counts balance, every use of a handle finds its object and context alive, `refs` lists owners only |
| `pool_race` | violation | 2 foreign users | the pool entry is given back twice |
| `handleleak` | violation | as `ownership` | a handle that `refs` has lost outlives its runtime |
| `plugins` | pass | 2 workers, 1 timer of the main script or the first worker's, 1 message per queue, both builds, fair, 0.53 M states | callbacks in time, one close per worker and after its messages, workers and timers end but for the exceptions named in the properties |
| `modules` | pass | 3 files, 11 spellings, 3 evaluations, 4 records of ES6 modules | complete modules only, names resolve right, imports make no second module of a file, a module is found under its filename |
| `reentrancy` | pass | 3 threads, 4 nested calls | no overlap in the VM, no alarm for callers that take turns, `depth` private to the owner |
| `bridge` | pass | 3 batches, 3 native calls, 2 names, 2-bit counter, 0.65 M states | no call of a missing function, complete batches, order, no abort at the end of a batch without bridge, one object per module, the checkpoint ends |
| `engine` | pass | 1 object and 1 error with 2 properties each, 1 variable, 2 threads, 1.3 M states | counts balance inside every loop of the collector, nothing dangles, the engine's assertions hold, a collection leaves exactly what is reachable, a checked call leaves no exception behind and, undisturbed, reports its own |
| `metadata` | pass | 4 classes in all hierarchies and scan orders, 2 names, 3 processors, 1.1 M states | entries go to heirs, uncontested heirs are resolved, exactly the replaced parents are removed |

Why the bounds are enough: one caller with two calls is the least in which a call follows one
that gave up waiting, and a second caller races with it and with close. Three handles of which
two collide give every case of a replaced entry and a bystander. Two workers are needed for one
to replace the other in the map, and for their closes to meet in the map of contexts. Four
records of ES6 modules are a module that is started twice with an import in between, or a chain
of imports that fails and is loaded again. Three threads let a third meet a hand-over between
two. Three batches cover binding that fails, is repeated and is then used; three calls let one
be overtaken while another is queued. The retry counter is modelled with 2 bits and the bound 3
as the code has 8 bits and 255: what matters is that the bound is the largest value of the
counter. In `engine` two objects and a variable make cycles of one, two and three nodes, with
and without a variable that two closures share; two properties let an object be in a cycle and
be referred to from outside; two threads are needed for one to take the other's exception. Four
classes give a chain of an entry, two heirs and a sibling, and two entries of one name with
their subclasses.

`CHECK_DEADLOCK FALSE` stands where the system may stop: callers have made their calls,
the process has crashed, or no script asks for anything more.

### Fairness

`live`: the Looper dispatches, events end, and a thread that can go on does. Nothing is
assumed of `wait()`, and an `Error` excuses everything. `plugins`: the same for each
Looper, and sleeping threads wake; nothing forces the application to close. `bridge`:
each call of `drainMicrotasks` and each run of `__fbGenNativeModule` ends. The code's
comment says that draining is unbounded; the claim is about the loop around it.
All is weak fairness but for `TakeTask` and `FinishEvent` of `live`: code on the owner's
thread may call `close` in line again and again and fail each time on the shared map, and
every one of these calls disables the two for a while. A thread that runs does not do so for
ever without returning to its Looper or its event, which is what strong fairness says.

### Where code and its own statements disagree

- `postrelease`: `post` does not look at `isReleased` again on the owner's thread, which
  `postVoid` does (EventQueue.java:53 and 99), against the "disposed" assertions of
  JSContext.java:183.
- `pool_race`: get, free and remove(0) on a shared pool are three steps (JSContext.java:50-55).
- `handleleak`: `refs` is weak in the wrong place (JSContext.java:18), against the
  assertion of quickjs.c:1984.

Seen while modelling, without a statement in the code to hold against it:
`checkReleased` drains the pool into a context that may be freed before it looks
(JSContext.java:181); `executeScript` and constructors skip the check (JSContext.java:87);
`createContext` runs on the calling thread (EventQueue.java:136) against the wording of the
thread checker (ThreadChecker.java:30), which it never asks; two runtimes that close at the
same time, or one that closes while another makes a context, may fail with a
NullPointerException that nobody sees and stay allocated for ever (QuickJS.java:70-73,
EventQueue.java:102); an exception of a worker's script and a negative delay of `setTimeout`
end the process (WorkerPlugin.java:65, SetTimeoutPlugin.java:19); `To_JObject` keeps the
reference of a result that nobody asked for (quickjs-jni.cpp:184); a handle for the global
object as receiver takes no reference (quickjs-jni.cpp:507); `require("./a")` never
finds its module in the map and cyclic requires recurse; a path asked for with a base is
looked up as written, and may get another file's module; of three slashes in a row two
are left, so that one file has several names; an absolute base yields names with two
leading slashes; `executeModule` makes a module of a file each time it is called
(quickjs.c:27031); any script can end a process without a delegate by calling
`nativeFlushQueueImmediate` (JSIExecutor.cpp:91-109, 408); native calls are lost when the
microtask checkpoint throws, and overtaken by what a microtask flushes
(JSIExecutor.cpp:265); the event of a worker's
message meets a closed main context (WorkerPlugin.java:72; `crashed` in `Workers`); an
exception that is no `Error` loses its reference (quickjs-jni.cpp:608), so that the object
outlives its runtime; when calls of two threads overlap, or after an unchecked call, a
caller is told of another's exception (JSContext.java:86), which is why `OwnException`
speaks of undisturbed calls.

The plugin's results depend on the scan order: an `@Inherited` class that is scanned
before the `@Inherited` class it extends, or after a sibling with the same entry, fails,
and the plugin then writes an empty class; extensions are tried at all distances before
widgets; of two unrelated entries with one name both stay and the last one put wins.
`HeirsOfEntries` and `ResolvedUncontested` say what holds in every order.

## 4. Proofs

All theorems hold for every value of the constants; the assumptions are the `ASSUME`s of the
modules (distinct owner and callers, natural bounds, `None` outside the sets, finite sets where
references or contexts are counted, a name is not empty), for two theorems about `Handles` that
only the owner uses the context, and for two about `Modules` that names are proper.

**`EventQueueProofs`.** The inductive invariant `IInv` has three parts. `Typed` is the type
invariant and that a thread inside a call has made one. `TaskInv` ties the caller's place to
its task (`CallStages`), the message queue and the running task to the stages
(`QueueStages`), filled result arrays to finished tasks (`Filled`), sleepers to tasks still
to be notified (`NoLostWakeup`) and wakers to a notification or an early wake-up
(`WokenFor`). `ReleaseOrder` is the order of the steps of `close`, of which those that fail
leave the runtime as it was. `NoLostWakeup` is
not inductive alone: that a task is notified only once, and that its poster is the one
that wakes, needs the queue to have no repetitions and the stages to follow the queue.
Theorems: `TypeCorrect`, `NoWakeupIsLost`, `FreedAtMostOnce`, `VoidEventsStartAlive`
and `Refinement` (`Spec => ImplementsSerialExecutor`: each step maps to
`Submit`, `Start`, `Complete` or a stutter). On top of `IInv`, `Promises` is inductive and gives
`ReturnsOwnOutcome` and `BlocksUntilEventIsOver`; for `EventsInProgramOrder`, `OrderInv` adds
that every queued task is in the message queue (`InQueue`) behind the earlier tasks of its
caller (`QueueOrder`).

**`ReentrancyCheckProofs`.** `IInv`: `tid` is the thread in the VM and only while it is
(`OwnerIsIn`, `OwnerStays`), `depth` counts its calls (`DepthCounts`), the place in the code
says whether there are open calls, and a thread with open calls wrote `depth` last
(`Places`), so that only the first read after a take-over can be stale (`OwnRead`); with
turns only the thread whose turn it is is in the VM (`Turns`). Theorems: `TypeCorrect`,
`NeverTwoInVM`, `TurnsAreSafe`, `DepthIsPrivate`.

**`JSIExecutorProofs`.** `HandedIsCached`, what was handed out is what the cache holds, gives
`OneObject`. `BindInv`, the flag implies all three functions, gives `NeverEmptyCall`.
`QuietInv`, queued calls, held functions and the later phases presuppose the bridge object,
gives `QuietUntilBridge`: it says nothing of the scripts that flush by themselves, which may
abort at any time. `BatchInv` says that each call made is queued, taken over, delivered
or lost, and that the calls a running batch is due to deliver are queued no more; it gives
`BatchesAreComplete`. `DeliveryInv` orders the three places of a call: queued calls are later
than all that was taken over or delivered, and only what a microtask flushed overtakes the
calls taken over; it gives `DeliveredInOrder`.

**`WorkersProofs`.** `TypeCorrect` first. `CallbacksInTime` is not inductive: that a message
runs in an open context follows from its runtime not being released only because context and
runtime of a worker are closed together if at all, and because nothing is posted to a worker
before it is made. `LifeInv` says this and gives `NoLateCallback`. `OrderlyInv` says of each
queue that a close waits in it only when the worker was asked to terminate and its close has not
begun (`CloseBegun`), and that no second close and no early message stand behind it; it gives
`ClosedInOrder`.

**`HandlesProofs`.** `HandleInv`, `refs` lists a handle under its own hash code and only while it
owns its reference, gives `ListedHandlesOwn` for every set of threads. `ReferencesBalance` and
`OperationsUseLive` assume `Users \subseteq {Owner}`: the context is used by the thread that
owns it, as in the run `ownership`. This is no convenience: the run `pool_race` is a
counterexample with foreign users. Under it `DrainInv` holds: the entry being drained is the
first of the pool, and the context does not go away under an operation that has passed its
check. The balance itself is then inductive; each action moves one reference from one term of
the sum to another, and lemmas on cardinalities (`OccAppend`, `OccTail`, `CreateOwners`) say
which. `LiveInv` carries `UsesLive` past the release of the runtime, where `Balanced` says
nothing any more.

**`ModulesProofs`.** `CompleteOnly` is not inductive: the number of an evaluation that ends, and
is complete then, must be no other's that is still under way, nor one still to come. `RunsInv`
says so and gives `OnlyCompleteModules`. `EvaluatedOnceOnly` is an action property: what
`require` evaluates was not in the map under the name as asked, and by `MapInv` the map
knows, until `close`, every filename that a complete module carries.

`NamesResolveRight` and `OneModuleForAFile` are about `ProperNames`: scripts ask for a path
(directories and a file by their own names) behind a slash, a "./" or any number of "../", with
slashes doubled anywhere but no three in a row, and the application starts modules by a path,
behind a slash or not. The code is made for those: it looks at the dots a name starts with and
at no others, so that "d/../a" and "d/./a" stay as they are, and of three slashes it leaves two.
The names of the run `modules` are proper, which TLC checks (`MCNames`). Neither property is
inductive, as they say nothing of how the names in the table are written. `NamesInv` does: each
is a path behind two slashes at most (`Tabled`, as `TableOfPaths` states it); an absolute base
adds one, and doubled ones become one again before the next is added. `OrderInv` adds for
`OneModuleForAFile` that of two records with one name the later was made by `executeModule`.
`ConvertIs` is the heart: from a base in the table and a proper name the conversion makes such a
name again, or fails, and what it makes leads to where `Meant` does unless that is above the
root. Of the reference it uses that where a name leads to depends on its parts only through
where they lead (`WalkedOn`, `WalkedSame`), that an empty segment or a dot leads nowhere
(`CollapsedWalks`, `NameIs`), that directories are added (`WalkedPlain`) and that k times ".."
takes k of them off, or ends above the root (`WalkedUps`, `WalkedPast`). `Walked` and
`Collapsed` are recursive functions; what they compute is proved with the same `Induction` and
`Recursion` as in `MetaDataProofs`. The provers do not know that the literals "", "." and ".."
are strings, hence `Segment`.

**`HeapProofs`.** For any finite sets of objects, variables and property slots. The heap is seen
as a graph, a function from places (an object's slot or a variable's value) to nodes. `HeapInv`
has four parts: the types; `GraphInv`, freed nodes neither refer nor are referred to, and a
variable lives as long as a closure refers to it; `CountInv`, a count is the number of places
that refer to the node plus what native code holds, without the places of the nodes in
`TakenOff`, whose references `gc_decref` has subtracted and `gc_scan` has not yet given back;
`PhaseInv`, what each loop of the collector relies on: which lists are empty, what the marks
mean, that a node is in the temporary list exactly if its count is zero, and from the end of
`gc_scan` on that neither native code nor kept nodes refer to garbage (`Secluded`). None of them
is inductive without the others: that a count does not underflow needs the graph, that a node
may be freed needs the count, and which counts are reduced depends on the phase. The lemmas on
graphs (`Cascade`, `CascadeSound`, `GivingBack`, `Gaining`, `FreeObjectSound`) say once what
happens to the counts when references are moved or a freed node gives up its own; there is one
step lemma per action. `HeapInv` gives `CountsAreExact`, `NothingDangles` and `AssertionsHold`.
For `CollectsExactlyTheGarbage` it shows that nothing reachable is freed, and `KeptInv` that
nothing else is kept: from `gc_scan` on, every kept node is in every set that holds what native
code refers to and is closed under the references of kept nodes. Reachability is the least such
set, so no induction over paths is needed.

The same module proves what `Scripts` says of exceptions. `SlotInv` ties the slot of the pending
exception to the calls: how a call that no other overlaps has ended tells what is in the slot
and from whom. It gives `ExceptionsAreTaken` and the action property `CallsHearTheirOwn`, for
any heap and any threads.

**`MetaDataProofs`.** For any number of classes, any hierarchy and any scan order. What the
loops compute is proved by induction, stated for sets instead of predicates: every set of
naturals has a least element (`LeastElement`, from `WFMin`), so a set that holds the first
number and with each the next holds all of an interval (`Induction`), and a function given by
its first value and its next ones exists (`Recursion`), which is what the recursive definitions
need to mean what they say (`SuperclassesAre`, `RowIs`, `RemoveParentsIs`). A chain of
superclasses ends because it would else pass twice through one class (`ChainsEnd`); `Ancestors`
is then the least closed set, a strict order, and every set of classes has a lowest one.
`ParentsAreRemoved` rests on `RemoveParentsLeaves`: a comparison only drops what is replaced
(`Shrunk`) and settles its pair if the replacer is itself not replaced (`Settled`); an entry
that is replaced is replaced by such a one (`LastReplacer`), so that it does not matter that
entries go while others are still to be compared. `MetaDataInv` is the inductive invariant:
`SonsWait`, a class still to be resolved has no entry, is why no class gets two; `Traced`, the
entry of an annotated class is there, or an `@Inherited` class that was resolved took it, or the
Gemini processor dropped it, is why a failure means that every annotated superclass is
contested. It gives `EntriesGoToHeirs` and `UncontestedAreResolved`.

Model-checked only, and why:

- `CallsReturn`, `CloseReleases`, `WorkersReleased`, `TimersEnd` and `CheckpointEnds` are
  liveness under fairness, which is out of the prover's reach.
- How the code treats names that are not proper, with dots further in, is in the model but
  stated by no property: the code promises nothing about them.

The type invariants of `EventQueue`, `ReentrancyCheck` and `Workers` are theorems; those of
`Handles`, `Modules`, `Heap` and `MetaData` are parts of the proofs above (`TypeNext`,
`HeapInv`, `Typed`); that of `EventQueue` is also checked by a run, the others document the
state.

## 5. Not modelled

- `createRuntimeWithEventQueue` waits once, without a loop, for the runtime its handler
  thread makes (QuickJS.java:50): planned.
- The registry of callbacks under `hashCode()` (JSContext.java:150), the RAM bundle
  registry with `nativeRequire`, and `nativeCallSyncHook`.
- The rest of QuickJS (compiler, interpreter, linking and evaluation of ES6 modules,
  regular expressions, big numbers, Unicode tables) is third-party code. It appears only
  through what the library uses of it: the heap, the exception slot and the table of
  modules. It makes up most of the repository's lines, so that the models stand for a
  small share of them.
- In the plugin, the code and the JSON that are generated, and the grouping of event
  targets. An event that is listed only on a removed parent loses its target.
- The console plugin, JNI registration, memory warnings and tracing pass single values on
  and keep no state that another step depends on. The React Native classes under
  `jsexecutor/com` are copies. Applications and samples are user interface code.

## 6. Plan

1. The start-up of `createRuntimeWithEventQueue` as a phase of `EventQueue` before any
   call, for `NoLostWakeup` and `CallsReturn`; each lemma over `Next` gets a case more.
2. The bundle registry and `nativeRequire` in `JSIExecutor`.
3. Proofs: the case of the start-up phase in the lemmas of `EventQueueProofs`; `HandleInv`
   for the registry of callbacks once it is modelled.
