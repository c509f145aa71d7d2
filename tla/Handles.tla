------------------------------- MODULE Handles -------------------------------
(***************************************************************************)
(* Who owns a reference to a native JS object: the Java handles of one     *)
(* JSContext (JSValue, JSContext.refs, JSContext.releaseObjPtrPool), the   *)
(* garbage collector and the finalizer thread on the Java side, and the    *)
(* reference counts that the JNI layer moves on the native side.           *)
(*                                                                         *)
(* A handle owns one native reference from its creation until it is closed *)
(* (JSContext.close) or finalized.  A finalized handle puts its pointer in *)
(* the pool; the next operation on the context, on whatever thread, drains *)
(* the pool in checkReleased before it looks whether the context is still  *)
(* there.  Evaluating a script and making an object do without that check. *)
(* Native work runs on the owner's thread in one step: EventQueue is the   *)
(* module about how it gets there.                                         *)
(***************************************************************************)
EXTENDS Integers, Sequences, FiniteSets

CONSTANTS
    Users,          \* the threads that use the context
    Owner,          \* the thread that owns the runtime; it may be a user
    HandleIds,      \* bound: the Java objects of type JSValue that get created
    Objects,        \* bound: the native objects that scripts create
    Global,         \* the global object of the context
    HashCodes,      \* values of Object.hashCode
    Hash,           \* Hash[h]: identity hash code of handle h, not unique
    MaxStray,       \* bound: references to one object that are dropped for good
    None

ASSUME HandlesAssumption ==
    /\ IsFiniteSet(HandleIds)
    /\ Global \notin Objects
    /\ Hash \in [HandleIds -> HashCodes]
    /\ MaxStray \in Nat
    /\ None \notin HandleIds \union Objects \union {Global}

AllObjects == Objects \union {Global}

VARIABLES
    count,       \* count[o]: native reference count, 0 before creation
    jsRefs,      \* jsRefs[o]: references held by the JS heap itself
    stray,       \* stray[o]: references taken for no owner, less those owned but never taken
    place,       \* place[h]: where a handle is in its Java life
    target,      \* target[h]: the native object a handle points to
    done,        \* done[h]: JSValue.released
    refs,        \* JSContext.refs: hash code -> handle, with weak keys
    pool,        \* JSContext.releaseObjPtrPool
    pc,          \* pc[u]: where user u is in an operation
    ptr,         \* ptr[u]: the pool entry that u has read
    ctxReleased, \* JSContext.released, and the context is freed
    rtReleased,  \* QuickJS.released
    lateUse      \* the ways in which a freed context has been used

nativeVars == <<count, jsRefs, stray, lateUse>>
handleVars == <<place, target, done>>
userVars   == <<pc, ptr>>
flagVars   == <<ctxReleased, rtReleased>>

vars == <<nativeVars, handleVars, refs, pool, userVars, flagVars>>

TypeOK ==
    /\ count \in [AllObjects -> Int]
    /\ jsRefs \in [AllObjects -> {0, 1}]
    /\ stray \in [AllObjects -> Int]
    /\ place \in [HandleIds -> {"unused", "held", "lost", "dead"}]
    /\ target \in [HandleIds -> AllObjects \union {None}]
    /\ done \in [HandleIds -> BOOLEAN]
    /\ refs \in [HashCodes -> HandleIds \union {None}]
    /\ pool \in Seq(AllObjects)
    /\ pc \in [Users -> {"idle", "drain", "read", "freed", "op"}]
    /\ ptr \in [Users -> AllObjects \union {None}]
    /\ ctxReleased \in BOOLEAN
    /\ rtReleased \in BOOLEAN
    /\ lateUse \in SUBSET {"drain", "checked", "unchecked"}

\* The heap of the context holds its global object (jsRefs stands for however many
\* references that is), and so does the JSContext handle.
Init ==
    /\ count = [o \in AllObjects |-> IF o = Global THEN 2 ELSE 0]
    /\ jsRefs = [o \in AllObjects |-> IF o = Global THEN 1 ELSE 0]
    /\ stray = [o \in AllObjects |-> 0]
    /\ place = [h \in HandleIds |-> "unused"]
    /\ target = [h \in HandleIds |-> None]
    /\ done = [h \in HandleIds |-> FALSE]
    /\ refs = [k \in HashCodes |-> None]
    /\ pool = <<>>
    /\ pc = [u \in Users |-> "idle"]
    /\ ptr = [u \in Users |-> None]
    /\ ctxReleased = FALSE
    /\ rtReleased = FALSE
    /\ lateUse = {}

-----------------------------------------------------------------------------
(* The Java heap *)

\* addObjRef: an entry with the same hash code is replaced.
Enlisted(r, h) == [r EXCEPT ![Hash[h]] = h]

\* The JSValue constructor: a new handle h for a reference to o.
Create(h, o) ==
    /\ place[h] = "unused"
    /\ place' = [place EXCEPT ![h] = "held"]
    /\ target' = [target EXCEPT ![h] = o]
    /\ refs' = Enlisted(refs, h)
    /\ UNCHANGED done

\* The program forgets a handle.
Lose(h) ==
    /\ place[h] = "held"
    /\ place' = [place EXCEPT ![h] = "lost"]
    /\ UNCHANGED <<nativeVars, target, done, refs, pool, userVars, flagVars>>

\* refs is a WeakHashMap whose keys are boxed hash codes that nobody else
\* holds: any entry may vanish at any collection.
CollectKey(k) ==
    /\ refs[k] # None
    /\ refs' = [refs EXCEPT ![k] = None]
    /\ UNCHANGED <<nativeVars, handleVars, pool, userVars, flagVars>>

Unreachable(h) == place[h] = "lost" /\ \A k \in HashCodes : refs[k] # h

\* Mutant: the entry stays.
Unlisted_Kept(r, h) == r

\* removeObjRef: whatever handle is listed with the hash code of h goes.
Unlisted(r, h) == [r EXCEPT ![Hash[h]] = None]

\* JSValue.finalize: a handle that still owns its reference pools it.
Pooled(h) == IF done[h] THEN pool ELSE Append(pool, target[h])

\* JSValue.finalize -> close(true) -> releaseObjRef(this, true).
Finalize(h) ==
    /\ Unreachable(h)
    /\ place' = [place EXCEPT ![h] = "dead"]
    /\ done' = [done EXCEPT ![h] = TRUE]
    /\ pool' = Pooled(h)
    /\ refs' = IF done[h] THEN refs ELSE Unlisted(refs, h)
    /\ UNCHANGED <<nativeVars, target, userVars, flagVars>>

-----------------------------------------------------------------------------
(* Operations on the context *)

\* checkReleased starts: the pool is drained first.
StartOp(u) ==
    /\ pc[u] = "idle"
    /\ pc' = [pc EXCEPT ![u] = "drain"]
    /\ UNCHANGED <<nativeVars, handleVars, refs, pool, ptr, flagVars>>

\* The context is used by w: too late if it is freed and the runtime is not
\* (operations on a released runtime are refused, see EventQueue).
Used(w) == IF ctxReleased /\ ~rtReleased THEN lateUse \union {w} ELSE lateUse

\* releaseObjPtrPool.get(0), in one step with the isEmpty before it
DrainRead(u) ==
    /\ pc[u] = "drain"
    /\ pool # <<>>
    /\ pc' = [pc EXCEPT ![u] = "read"]
    /\ ptr' = [ptr EXCEPT ![u] = Head(pool)]
    /\ UNCHANGED <<nativeVars, handleVars, refs, pool, flagVars>>

\* _releasePtr: postVoid gives the reference back unless the runtime is released.
DrainFree(u) ==
    /\ pc[u] = "read"
    /\ pc' = [pc EXCEPT ![u] = "freed"]
    /\ count' = IF rtReleased THEN count ELSE [count EXCEPT ![ptr[u]] = @ - 1]
    /\ lateUse' = Used("drain")
    /\ UNCHANGED <<jsRefs, stray, handleVars, refs, pool, ptr, flagVars>>

\* Mutant: the entry stays in the pool.
Removed_Kept == pool

\* releaseObjPtrPool.remove(0): whatever entry is first by now, if any.
Removed == IF pool = <<>> THEN pool ELSE Tail(pool)

DrainRemove(u) ==
    /\ pc[u] = "freed"
    /\ pool' = Removed
    /\ ptr' = [ptr EXCEPT ![u] = None]
    /\ pc' = [pc EXCEPT ![u] = IF pool = <<>> THEN "idle" ELSE "drain"]
    /\ UNCHANGED <<nativeVars, handleVars, refs, flagVars>>

\* The end of checkReleased: "Context disposed error", or on to the operation.
DrainEnd(u) ==
    /\ pc[u] = "drain"
    /\ pool = <<>>
    /\ pc' = [pc EXCEPT ![u] = IF ctxReleased \/ rtReleased THEN "idle" ELSE "op"]
    /\ UNCHANGED <<nativeVars, handleVars, refs, pool, ptr, flagVars>>

\* An operation with a handle as its result, on the live context: _get,
\* _arrayGet, _executeFunction after checkReleased, _executeScript without it.
\* The JNI layer passes on a reference of its own.
OpGet(u, h, o) ==
    /\ pc[u] \in {"op", "idle"} /\ ~ctxReleased
    /\ jsRefs[o] > 0 /\ o # Global
    /\ Create(h, o)
    /\ count' = [count EXCEPT ![o] = @ + 1]
    /\ pc' = [pc EXCEPT ![u] = "idle"]
    /\ UNCHANGED <<jsRefs, stray, lateUse, pool, ptr, flagVars>>

\* The same for a caller who expects no object (executeVoidScript, getInteger):
\* To_JObject answers without giving the reference back.
OpDropped(u, o) ==
    /\ pc[u] \in {"op", "idle"} /\ ~ctxReleased
    /\ jsRefs[o] > 0 /\ o # Global
    /\ stray[o] < MaxStray
    /\ stray' = [stray EXCEPT ![o] = @ + 1]
    /\ count' = [count EXCEPT ![o] = @ + 1]
    /\ pc' = [pc EXCEPT ![u] = "idle"]
    /\ UNCHANGED <<jsRefs, lateUse, handleVars, refs, pool, ptr, flagVars>>

Fresh(o) == o # Global /\ count[o] = 0 /\ \A h \in HandleIds : target[h] # o

\* Mutant: the old handle stays the owner of its reference as well.
MovedFrom_Owner(h) == done

\* value.released = true
MovedFrom(h) == [done EXCEPT ![h] = TRUE]

\* new JSObject(context): _initNewJSObject, unchecked, gives handle h, and the
\* constructor moves its reference to handle g and goes on to checkReleased.
OpNew(u, h, g, o) ==
    /\ pc[u] = "idle" /\ ~ctxReleased
    /\ h # g /\ place[h] = "unused" /\ place[g] = "unused"
    /\ Fresh(o)
    /\ place' = [place EXCEPT ![h] = "lost", ![g] = "held"]
    /\ target' = [target EXCEPT ![h] = o, ![g] = o]
    /\ done' = MovedFrom(h)
    /\ refs' = Enlisted(Unlisted(Enlisted(refs, h), h), g)
    /\ count' = [count EXCEPT ![o] = 1]
    /\ pc' = [pc EXCEPT ![u] = "drain"]
    /\ UNCHANGED <<jsRefs, stray, lateUse, pool, ptr, flagVars>>

\* Mutant: the value is stored without a reference of its own.
DupCount_None(o) == count

\* JobjectToJSValue: JS_DupValue.
DupCount(o) == [count EXCEPT ![o] = @ + 1]

\* JSObject.set and JSArray.push with a handle.
OpSet(u, h) ==
    /\ pc[u] = "op" /\ ~ctxReleased
    /\ place[h] = "held" /\ ~done[h]
    /\ jsRefs[target[h]] = 0
    /\ jsRefs' = [jsRefs EXCEPT ![target[h]] = 1]
    /\ count' = DupCount(target[h])
    /\ pc' = [pc EXCEPT ![u] = "idle"]
    /\ UNCHANGED <<stray, lateUse, handleVars, refs, pool, ptr, flagVars>>

\* Any other operation after checkReleased: contains, getKeys, ..., or one for
\* which the context has gone since the check.
OpOther(u) ==
    /\ pc[u] = "op"
    /\ pc' = [pc EXCEPT ![u] = "idle"]
    /\ lateUse' = Used("checked")
    /\ UNCHANGED <<count, jsRefs, stray, handleVars, refs, pool, ptr, flagVars>>

\* _executeScript, _initNewJSObject and the like on a context that is gone.
OpUnchecked(u) ==
    /\ pc[u] = "idle" /\ ctxReleased
    /\ lateUse' = Used("unchecked")
    /\ UNCHANGED <<count, jsRefs, stray, handleVars, refs, pool, userVars, flagVars>>

-----------------------------------------------------------------------------
(* The owner *)

OwnerFree == Owner \in Users => pc[Owner] = "idle"

\* A script creates an object.
ScriptCreates(o) ==
    /\ OwnerFree /\ ~ctxReleased
    /\ Fresh(o) /\ jsRefs[o] = 0
    /\ jsRefs' = [jsRefs EXCEPT ![o] = 1]
    /\ count' = [count EXCEPT ![o] = 1]
    /\ UNCHANGED <<stray, lateUse, handleVars, refs, pool, userVars, flagVars>>

\* A script drops its own reference to an object.
ScriptDrops(o) ==
    /\ OwnerFree /\ ~ctxReleased
    /\ o # Global /\ jsRefs[o] = 1
    /\ jsRefs' = [jsRefs EXCEPT ![o] = 0]
    /\ count' = [count EXCEPT ![o] = @ - 1]
    /\ UNCHANGED <<stray, lateUse, handleVars, refs, pool, userVars, flagVars>>

\* A script calls a Java method on object o: callJavaCallback makes a handle
\* for it and takes a reference, except when o is the global object.  (The array
\* of arguments is one more handle, born with its only reference as in OpNew.)
Callback(h, o) ==
    /\ OwnerFree /\ ~ctxReleased
    /\ jsRefs[o] = 1
    /\ Create(h, o)
    /\ IF o = Global
         THEN UNCHANGED count /\ stray' = [stray EXCEPT ![o] = @ - 1]
         ELSE count' = DupCount(o) /\ UNCHANGED stray
    /\ UNCHANGED <<jsRefs, lateUse, pool, userVars, flagVars>>

Listed == {refs[k] : k \in HashCodes} \ {None}

Occurrences(o) == Cardinality({i \in DOMAIN pool : pool[i] = o})

\* The handles that JSContext.close closes.
Closed == {h \in Listed : ~done[h]}

\* The event of JSContext.close: close every listed handle, drain the pool,
\* give back the global object and free the context.
CloseContext ==
    /\ OwnerFree
    /\ ~ctxReleased /\ ~rtReleased
    /\ done' = [h \in HandleIds |-> done[h] \/ h \in Closed]
    /\ refs' = [k \in HashCodes |-> None]
    /\ pool' = <<>>
    /\ count' = [o \in AllObjects |->
                    count[o] - jsRefs[o] - Occurrences(o) - (IF o = Global THEN 1 ELSE 0)
                        - Cardinality({h \in Closed : target[h] = o})]
    /\ jsRefs' = [o \in AllObjects |-> 0]
    /\ ctxReleased' = TRUE
    /\ UNCHANGED <<stray, lateUse, place, target, userVars, rtReleased>>

\* The rest of the event of QuickJS.close, after its contexts are closed.
CloseRuntime ==
    /\ OwnerFree
    /\ ctxReleased /\ ~rtReleased
    /\ rtReleased' = TRUE
    /\ UNCHANGED <<nativeVars, handleVars, refs, pool, userVars, ctxReleased>>

-----------------------------------------------------------------------------

UserStep(u) ==
    \/ StartOp(u)
    \/ DrainRead(u)
    \/ DrainFree(u)
    \/ DrainRemove(u)
    \/ DrainEnd(u)
    \/ \E h \in HandleIds, o \in Objects : OpGet(u, h, o)
    \/ \E o \in Objects : OpDropped(u, o)
    \/ \E h, g \in HandleIds, o \in Objects : OpNew(u, h, g, o)
    \/ \E h \in HandleIds : OpSet(u, h)
    \/ OpOther(u)
    \/ OpUnchecked(u)

OwnerStep ==
    \/ \E o \in Objects : ScriptCreates(o) \/ ScriptDrops(o)
    \/ \E h \in HandleIds, o \in AllObjects : Callback(h, o)
    \/ CloseContext
    \/ CloseRuntime

HeapStep ==
    \/ \E h \in HandleIds : Lose(h) \/ Finalize(h)
    \/ \E k \in HashCodes : CollectKey(k)

Next == OwnerStep \/ HeapStep \/ \E u \in Users : UserStep(u)

Spec == Init /\ [][Next]_vars

-----------------------------------------------------------------------------
(* Properties *)

\* The handles that own a reference to o.
Owners(o) == {h \in HandleIds : place[h] # "unused" /\ ~done[h] /\ target[h] = o}

\* Pool entries for o whose reference has been given back but which have not
\* been removed yet.
GivenBack(o) == {u \in Users : pc[u] = "freed" /\ ptr[u] = o}

\* The reference that the JSContext handle has to the global object.
ContextHandle(o) == IF o = Global /\ ~ctxReleased THEN 1 ELSE 0

\* Every native reference has exactly one owner, the JS heap, a handle or the
\* pool, but for the strays of To_JObject and of callJavaCallback
\* (JSValue.java:127-170, JSContext.java:34-59, quickjs-jni.cpp).
Balanced ==
    rtReleased \/ \A o \in AllObjects :
        count[o] = jsRefs[o] + ContextHandle(o) + Cardinality(Owners(o))
                     + Occurrences(o) + stray[o] - Cardinality(GivenBack(o))

\* What an operation uses is still there.  A handle that the program holds and
\* that is not released points to an object that has not been freed; and an
\* operation that passed checkReleased on the owner's thread finds the context
\* alive when it gets to the native call (JSContext.java:180-185).
UsesLive ==
    /\ \A h \in HandleIds :
          place[h] = "held" /\ ~done[h] /\ target[h] # Global => count[target[h]] > 0
    /\ "checked" \notin lateUse

\* refs lists no handle that has given up its reference, whatever hash codes
\* collide and whatever keys are collected; so close never closes one twice.
ListedOwn == \A h \in Listed : ~done[h]

\* What quickjs.c:1984 asserts when the runtime is freed, that no object is left,
\* of the objects of handles: closing a context gives back what they own.
NoHandleLeaks == rtReleased => \A o \in Objects : Owners(o) = {}

\* What quickjs.c:5681 asserts when the cycle collector subtracts the heap's own
\* references from a count: no reference was given back that was not owned.
NeverOverFreed == \A o \in Objects : count[o] >= jsRefs[o]
=============================================================================
