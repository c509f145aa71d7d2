--------------------------- MODULE JSIExecutorProofs ---------------------------
(***************************************************************************)
(* Proofs about JSIExecutor and the native modules it holds, for any       *)
(* number of calls, batches, names and retries.                            *)
(***************************************************************************)
EXTENDS JSIExecutor, TLAPS

-----------------------------------------------------------------------------
(* The native modules *)

NMTypes ==
    /\ objects \in [Names -> Nat]
    /\ runs \in Nat
    /\ frames \in Seq(Names)
    /\ handed \in [Names -> SUBSET Nat]

\* Whatever was handed out is what the cache holds.
HandedIsCached == \A n \in Names : \A o \in handed[n] : o # 0 /\ o = objects[n]

NMInv == NMTypes /\ HandedIsCached

LEMMA NMInitInv == NMInit => NMInv
  BY DEF NMInit, NMInv, NMTypes, HandedIsCached

LEMMA ScriptStepInv == ASSUME NMInv, ScriptStep PROVE NMInv'
<1> USE DEF NMInv
<1>1. CASE DefineGen
  BY <1>1 DEF DefineGen, NMTypes, HandedIsCached
<1>2. ASSUME NEW n \in Names, GetCached(n) PROVE NMInv'
  BY <1>2 DEF GetCached, Hand, NMTypes, HandedIsCached
<1>3. ASSUME NEW n \in Names, GetUnregistered(n) PROVE NMInv'
  BY <1>3 DEF GetUnregistered, NMTypes, HandedIsCached
<1>4. ASSUME NEW n \in Names, GetStarts(n) PROVE NMInv'
  BY <1>4 DEF GetStarts, NMTypes, HandedIsCached
<1>5. CASE GenReturns
  <2>1. Returning \in Names /\ Outer \in Seq(Names)
    BY <1>5 DEF GenReturns, Returning, Outer, NMTypes
  <2> DEFINE n == Returning
             o == objects'[n]
  <2>2. runs' \in Nat /\ runs' # 0 /\ runs' = runs + 1
    BY <1>5 DEF GenReturns, NMTypes
  <2>3. objects' = [objects EXCEPT ![n] = IF @ = 0 THEN runs' ELSE @]
    BY <1>5, <2>2 DEF GenReturns, Emplaced
  <2>4. o # 0 /\ o \in Nat /\ (objects[n] # 0 => o = objects[n])
    BY <2>1, <2>2, <2>3 DEF NMTypes
  <2>5. handed' = [handed EXCEPT ![n] = @ \union {o}] /\ frames' = Outer
    BY <1>5 DEF GenReturns, Hand
  <2>6. NMTypes'
    BY <2>1, <2>2, <2>3, <2>4, <2>5 DEF NMTypes
  <2>7. HandedIsCached'
    BY <2>1, <2>3, <2>4, <2>5 DEF NMTypes, HandedIsCached
  <2> QED BY <2>6, <2>7
<1>6. CASE GenThrows
  BY <1>6 DEF GenThrows, Outer, NMTypes, HandedIsCached
<1> QED BY <1>1, <1>2, <1>3, <1>4, <1>5, <1>6 DEF ScriptStep

LEMMA ResetInv == ASSUME NMInv, Reset PROVE NMInv'
  BY DEF Reset, NMInv, NMTypes, HandedIsCached

LEMMA NMStutter == ASSUME NMInv, UNCHANGED nmVars PROVE NMInv'
  BY DEF nmVars, NMInv, NMTypes, HandedIsCached

\* Every step of the executor is a step of the native modules or leaves them.
LEMMA NMSteps ==
    ASSUME Next
    PROVE  ScriptStep \/ Reset \/ UNCHANGED nmVars
  BY DEF Next, RunScript, CallBridge, StartFlush, DefineBridge, DefineRest,
         EnqueueNativeCall, FlushQueueImmediate, UseNativeModules, Abort,
         ScriptEnds, ScriptThrows, FunctionReturns, StartCheckpoint,
         FlushBound, FlushBinds, FlushThrows, FlushEmpty, DrainCompletes, DrainAgain,
         BoundHit, ReportThrows, CheckpointThrows, Deliver, ResetModules

\* However requests nest, with any number of names and of objects made,
\* scripts see one object per native module.
THEOREM OneObject == Spec => []OneObjectPerModule
<1>1. Init => NMInv
  BY NMInitInv DEF Init
<1>2. NMInv /\ [Next]_vars => NMInv'
  BY ScriptStepInv, ResetInv, NMStutter, NMSteps DEF vars
<1>3. NMInv => OneObjectPerModule
  BY DEF NMInv, HandedIsCached, OneObjectPerModule
<1> QED BY <1>1, <1>2, <1>3, PTL DEF Spec

-----------------------------------------------------------------------------
(* The bridge *)

\* bindBridge has completed only if all three functions are held, and a
\* function is called only if it is held.
BindInv == (bindFlag => bound = Fns) /\ bound \subseteq Fns /\ ~emptyCall

LEMMA BindBridgeInv ==
    ASSUME BindInv, BindBridge
    PROVE  /\ bindFlag' => bound' = Fns
           /\ bound' \subseteq Fns
           /\ BindSucceeds => bound' = Fns
<1>1. CASE bindFlag
  BY <1>1 DEF BindInv, BindBridge, Assigned, BindSucceeds
<1>2. CASE ~bindFlag /\ bridge = "object" /\ fns = Fns
  <2>1. {k \in 1..3 : \A j \in 1..k : Bound[j] \in fns} = 1..3
    BY <1>2 DEF Fns
  <2>2. bound' = bound \union {Bound[i] : i \in 1..3}
    BY <1>2, <2>1 DEF BindBridge, Assigned
  <2> QED BY <2>2 DEF BindInv, Fns
<1>3. CASE ~bindFlag /\ ~(bridge = "object" /\ fns = Fns)
  <2>1. ~BindSucceeds /\ ~bindFlag'
    BY <1>3 DEF BindBridge, FlagAfter, BindSucceeds
  <2>2. bound' \subseteq Fns
    BY DEF BindInv, BindBridge, Assigned, Fns
  <2> QED BY <2>1, <2>2
<1> QED BY <1>1, <1>2, <1>3

LEMMA BindStep == ASSUME BindInv, Next PROVE BindInv'
<1>1. ASSUME NEW f \in Calling, CallBridge(f) PROVE BindInv'
  <2>1. f \in Fns
    BY DEF Calling, Fns, Bound
  <2>2. CASE f \in bound
    BY <1>1, <2>2 DEF CallBridge, BindInv, bindVars
  <2>3. CASE f \notin bound
    <3>1. BindBridge
      BY <1>1, <2>3 DEF CallBridge
    <3>2. ~emptyCall'
      BY <1>1, <2>1, <2>3, <3>1, BindBridgeInv DEF CallBridge, BindInv
    <3> QED BY <3>1, <3>2, BindBridgeInv DEF BindInv
  <2> QED BY <2>2, <2>3
<1>2. CASE FlushBinds
  <2>1. "flushedQueue" \in Fns
    BY DEF Fns, Bound
  <2>2. BindBridge
    BY <1>2 DEF FlushBinds
  <2>3. ~emptyCall'
    BY <1>2, <2>1, <2>2, BindBridgeInv DEF FlushBinds, BindInv
  <2> QED BY <2>2, <2>3, BindBridgeInv DEF BindInv
<1>3. ASSUME UNCHANGED <<bindFlag, bound, emptyCall>> PROVE BindInv'
  BY <1>3 DEF BindInv
<1>4. CASE FlushThrows
  <2>1. CASE "flushedQueue" \in bound
    BY <1>4, <2>1 DEF FlushThrows, BindInv, bindVars
  <2>2. CASE "flushedQueue" \notin bound
    <3>1. BindBridge /\ BindSucceeds /\ "flushedQueue" \in Fns
      BY <1>4, <2>2 DEF FlushThrows, Fns, Bound
    <3>2. ~emptyCall'
      BY <1>4, <3>1, BindBridgeInv DEF FlushThrows, BindInv
    <3> QED BY <3>1, <3>2, BindBridgeInv DEF BindInv
  <2> QED BY <2>1, <2>2
<1>5. CASE ~FlushBinds /\ ~FlushThrows /\ \A f \in Calling : ~CallBridge(f)
  <2>1. UNCHANGED <<bindFlag, bound, emptyCall>>
    BY <1>5 DEF Next, RunScript, StartFlush, DefineBridge, DefineRest, bindVars,
         EnqueueNativeCall, FlushQueueImmediate, UseNativeModules, Abort,
         ScriptEnds, ScriptThrows, FunctionReturns, StartCheckpoint,
         FlushBound, FlushEmpty, DrainCompletes, DrainAgain,
         BoundHit, ReportThrows, CheckpointThrows, Deliver, ResetModules
  <2> QED BY <1>3, <2>1
<1> QED BY <1>1, <1>2, <1>4, <1>5

\* Whatever scripts define and when, the executor never calls a function of
\* the bridge that it does not hold.
THEOREM NeverEmptyCall == Spec => []NoEmptyCall
<1>1. Init => BindInv
  BY DEF Init, BindInv
<1>2. BindInv /\ UNCHANGED vars => BindInv'
  BY DEF BindInv, vars, bindVars
<1>3. BindInv => NoEmptyCall
  BY DEF BindInv, NoEmptyCall
<1> QED BY <1>1, <1>2, <1>3, BindStep, PTL DEF Spec

-----------------------------------------------------------------------------
(* Executors without a delegate *)

\* Queued calls, held functions and the phases after a call of one of them
\* presuppose the bridge object; without it only a delegate gets a delivery.
QuietInv ==
    /\ queue # <<>> => bridge = "object"
    /\ bound # {} \/ bindFlag => bridge = "object"
    /\ pc \in {"function", "checkpoint"} => bridge = "object"
    /\ pc = "deliver" => delegate \/ bridge = "object"
    /\ QuietWithoutBridge

LEMMA BindNeedsBridge ==
    ASSUME QuietInv, BindBridge
    PROVE  /\ bound' # {} \/ bindFlag' => bridge = "object"
           /\ BindSucceeds => bridge = "object"
           /\ bridge' = bridge
  BY DEF QuietInv, BindBridge, Assigned, FlagAfter, BindSucceeds

LEMMA QuietStep == ASSUME QuietInv, Next PROVE QuietInv'
<1> USE DEF QuietWithoutBridge, queueVars, bindVars
<1>0. ASSUME UNCHANGED <<queue, bindVars, pc, delegate, aborted>> PROVE QuietInv'
  BY <1>0 DEF QuietInv
<1>1. ASSUME NEW o, RunScript(o) PROVE QuietInv'
  BY <1>1 DEF RunScript, QuietInv, nmVars
<1>2. ASSUME NEW f \in Calling, CallBridge(f) PROVE QuietInv'
  <2>1. CASE f \in bound
    BY <1>2, <2>1 DEF CallBridge, QuietInv, nmVars
  <2>2. CASE f \notin bound
    <3>1. BindBridge
      BY <1>2, <2>2 DEF CallBridge
    <3>2. UNCHANGED <<queue, delegate, aborted>> /\ (pc' = "idle" \/ (pc' = "function" /\ BindSucceeds))
      BY <1>2, <2>2 DEF CallBridge, nmVars
    <3> QED BY <3>1, <3>2, BindNeedsBridge DEF QuietInv
  <2> QED BY <2>1, <2>2
<1>3. CASE StartFlush
  BY <1>3 DEF StartFlush, QuietInv, nmVars
<1>4. CASE DefineBridge
  BY <1>4 DEF DefineBridge, QuietInv, nmVars
<1>5. CASE DefineRest
  BY <1>5 DEF DefineRest, QuietInv, nmVars
<1>6. CASE EnqueueNativeCall
  BY <1>6 DEF EnqueueNativeCall, QuietInv, nmVars
<1>7. CASE FlushQueueImmediate
  BY <1>7 DEF FlushQueueImmediate, Abort, QuietInv, nmVars
<1>8. CASE UseNativeModules
  <2>1. UNCHANGED delegate
    BY <1>8 DEF UseNativeModules, ScriptStep, DefineGen, GetCached, GetUnregistered,
                GetStarts, GenReturns, GenThrows
  <2> QED BY <1>0, <1>8, <2>1 DEF UseNativeModules
<1>9. CASE ScriptEnds \/ ScriptThrows
  BY <1>9 DEF ScriptEnds, ScriptThrows, QuietInv, nmVars
<1>10. CASE FunctionReturns
  BY <1>10 DEF FunctionReturns, TakeQueue, StartCheckpoint, QuietInv, nmVars
<1>11. CASE FlushBound
  BY <1>11 DEF FlushBound, TakeQueue, StartCheckpoint, QuietInv, nmVars
<1>12. CASE FlushBinds
  <2>1. BindBridge
    BY <1>12 DEF FlushBinds
  <2>2. CASE BindSucceeds
    BY <1>12, <2>1, <2>2, BindNeedsBridge DEF FlushBinds, TakeQueue, StartCheckpoint, QuietInv, nmVars
  <2>3. CASE ~BindSucceeds
    BY <1>12, <2>1, <2>3, BindNeedsBridge DEF FlushBinds, QuietInv, nmVars
  <2> QED BY <2>2, <2>3
<1>13. CASE FlushEmpty
  BY <1>13 DEF FlushEmpty, TellsDelegate, QuietInv, nmVars
<1>14. CASE DrainCompletes
  BY <1>14 DEF DrainCompletes, QuietInv, nmVars
<1>15. CASE DrainAgain
  BY <1>0, <1>15 DEF DrainAgain, nmVars
<1>16. CASE BoundHit \/ ReportThrows
  BY <1>16 DEF BoundHit, ReportThrows, CheckpointThrows, QuietInv, nmVars
<1>17. CASE Deliver
  BY <1>17 DEF Deliver, Abort, QuietInv, nmVars
<1>18. CASE ResetModules
  BY <1>0, <1>18 DEF ResetModules, Reset
<1>19. CASE FlushThrows
  <2>1. UNCHANGED <<queue, delegate, aborted>> /\ pc' = "idle"
    BY <1>19 DEF FlushThrows, nmVars
  <2>2. UNCHANGED bindVars \/ BindBridge
    BY <1>19 DEF FlushThrows
  <2> QED BY <2>1, <2>2, BindNeedsBridge DEF QuietInv
<1> QED
  BY <1>1, <1>2, <1>3, <1>4, <1>5, <1>6, <1>7, <1>8, <1>9, <1>10, <1>11, <1>12, <1>13,
     <1>14, <1>15, <1>16, <1>17, <1>18, <1>19
  DEF Next

\* Whatever the order of operations, and although any script may flush by
\* itself, the end of a batch aborts for want of a delegate only if scripts have
\* loaded the bridge (JSIExecutor.cpp:429-450).
THEOREM QuietUntilBridge == Spec => []QuietWithoutBridge
<1>1. Init => QuietInv
  BY DEF Init, QuietInv, QuietWithoutBridge
<1>2. QuietInv /\ UNCHANGED vars => QuietInv'
  BY DEF QuietInv, QuietWithoutBridge, vars, queueVars, bindVars, nmVars
<1>3. QuietInv => QuietWithoutBridge
  BY DEF QuietInv
<1> QED BY <1>1, <1>2, <1>3, QuietStep, PTL DEF Spec

-----------------------------------------------------------------------------
(* The native calls of a batch *)

LEMMA ToSetAppend ==
    ASSUME NEW s \in Seq(Nat), NEW x \in Nat
    PROVE  Append(s, x) \in Seq(Nat) /\ ToSet(Append(s, x)) = ToSet(s) \union {x}
<1>1. /\ Append(s, x) \in Seq(Nat) /\ Len(s) \in Nat
      /\ DOMAIN s = 1..Len(s) /\ DOMAIN Append(s, x) = 1..(Len(s) + 1)
      /\ Append(s, x)[Len(s) + 1] = x /\ \A i \in 1..Len(s) : Append(s, x)[i] = s[i]
  OBVIOUS
<1>2. 1..(Len(s) + 1) = (1..Len(s)) \union {Len(s) + 1}
  BY <1>1
<1> QED BY <1>1, <1>2 DEF ToSet

LEMMA ToSetConcat ==
    ASSUME NEW s \in Seq(Nat), NEW t \in Seq(Nat)
    PROVE  s \o t \in Seq(Nat) /\ ToSet(s \o t) = ToSet(s) \union ToSet(t)
<1>1. /\ s \o t \in Seq(Nat) /\ Len(s \o t) = Len(s) + Len(t)
      /\ Len(s) \in Nat /\ Len(t) \in Nat
      /\ DOMAIN s = 1..Len(s) /\ DOMAIN t = 1..Len(t) /\ DOMAIN (s \o t) = 1..(Len(s) + Len(t))
      /\ \A i \in 1..(Len(s) + Len(t)) :
            (s \o t)[i] = IF i <= Len(s) THEN s[i] ELSE t[i - Len(s)]
  OBVIOUS
<1>2. ToSet(s \o t) \subseteq ToSet(s) \union ToSet(t)
  BY <1>1 DEF ToSet
<1>3. ToSet(s) \subseteq ToSet(s \o t)
  BY <1>1 DEF ToSet
<1>4. ToSet(t) \subseteq ToSet(s \o t)
  <2> DEFINE u == s \o t
  <2>1. ASSUME NEW i \in 1..Len(t) PROVE \E j \in 1..(Len(s) + Len(t)) : u[j] = t[i]
    <3>1. /\ Len(s) + i \in 1..(Len(s) + Len(t)) /\ ~(Len(s) + i <= Len(s))
          /\ (Len(s) + i) - Len(s) = i
      BY <1>1
    <3>2. u[Len(s) + i] = t[i]
      BY <1>1, <3>1
    <3> QED BY <3>1, <3>2
  <2>2. DOMAIN t = 1..Len(t) /\ DOMAIN u = 1..(Len(s) + Len(t))
    BY <1>1
  <2> HIDE DEF u
  <2>3. ToSet(t) \subseteq ToSet(u)
    BY <2>1, <2>2, Zenon DEF ToSet
  <2> QED BY <2>3 DEF u
<1> QED BY <1>1, <1>2, <1>3, <1>4

CallTypes ==
    /\ queue \in Seq(Nat) /\ ret \in Seq(Nat) /\ delivered \in Seq(Nat)
    /\ made \in Nat /\ due \in Nat /\ served \in Nat

\* No native call is forgotten: each one made is queued, taken over, delivered or
\* lost; those the running batch is due to deliver are no longer queued; and only
\* the end of a batch holds what was taken over.
Kept(c) == c \in ToSet(delivered) \union lost

BatchInv ==
    /\ CallTypes
    /\ \A c \in 1..made : c \in ToSet(queue) \union ToSet(ret) \/ Kept(c)
    /\ pc \in {"checkpoint", "deliver"} => \A c \in 1..due : c \in ToSet(ret) \/ Kept(c)
    /\ pc \notin {"checkpoint", "deliver"} => ret = <<>>
    /\ BatchComplete

LEMMA EmptyToSet == ToSet(<<>>) = {}
  BY DEF ToSet

\* Taking the queue over when nothing is held makes every call made so far due.
LEMMA TakeQueueInv ==
    ASSUME BatchInv, TakeQueue, StartCheckpoint, pc \notin {"checkpoint", "deliver"}
    PROVE  BatchInv'
<1>1. ret = <<>> /\ ret' = queue /\ queue' = <<>> /\ due' = made /\ pc' = "checkpoint"
      /\ UNCHANGED <<made, delivered, lost, served>>
  BY DEF BatchInv, TakeQueue, StartCheckpoint
<1> QED BY <1>1, EmptyToSet DEF BatchInv, CallTypes, BatchComplete, Kept

LEMMA BatchStep == ASSUME BatchInv, QuietInv, Next PROVE BatchInv'
<1>0. ASSUME UNCHANGED queueVars,
             pc' = pc \/ {pc, pc'} \intersect {"checkpoint", "deliver"} = {}
                      \/ (pc = "checkpoint" /\ pc' = "deliver")
      PROVE  BatchInv'
  BY <1>0 DEF queueVars, BatchInv, CallTypes, BatchComplete, Kept
<1>1. ASSUME NEW o, RunScript(o) PROVE BatchInv'
  BY <1>0, <1>1 DEF RunScript, Begin
<1>2. ASSUME NEW f \in Calling, CallBridge(f) PROVE BatchInv'
  BY <1>0, <1>2 DEF CallBridge, Begin
<1>3. CASE StartFlush
  BY <1>0, <1>3 DEF StartFlush, Begin
<1>4. CASE DefineBridge \/ DefineRest \/ UseNativeModules \/ ResetModules
  BY <1>0, <1>4 DEF DefineBridge, DefineRest, UseNativeModules, ResetModules
<1>5. CASE EnqueueNativeCall
  <2>1. /\ made' = made + 1 /\ made' \in Nat /\ queue' = Append(queue, made')
        /\ UNCHANGED <<ret, delivered, lost, due, served, pc>>
    BY <1>5 DEF EnqueueNativeCall, BatchInv, CallTypes
  <2>2. queue' \in Seq(Nat) /\ ToSet(queue') = ToSet(queue) \union {made'}
    BY <2>1, ToSetAppend DEF BatchInv, CallTypes
  <2>3. 1..made' = (1..made) \union {made'}
    BY <2>1 DEF BatchInv, CallTypes
  <2> QED BY <2>1, <2>2, <2>3 DEF BatchInv, CallTypes, BatchComplete, Kept
<1>6. CASE FlushQueueImmediate
  <2>1. CASE ~delegate
    BY <1>0, <1>6, <2>1 DEF FlushQueueImmediate, Abort
  <2>2. CASE delegate
    <3>1. /\ delivered' = delivered \o queue /\ queue' = <<>>
          /\ UNCHANGED <<made, ret, lost, due, served, pc>>
      BY <1>6, <2>2 DEF FlushQueueImmediate
    <3>2. delivered' \in Seq(Nat) /\ ToSet(delivered') = ToSet(delivered) \union ToSet(queue)
      BY <3>1, ToSetConcat DEF BatchInv, CallTypes
    <3> QED BY <3>1, <3>2, EmptyToSet DEF BatchInv, CallTypes, BatchComplete, Kept
  <2> QED BY <2>1, <2>2
<1>7. CASE ScriptEnds \/ ScriptThrows \/ FlushThrows
  BY <1>0, <1>7 DEF ScriptEnds, ScriptThrows, FlushThrows
<1>8. CASE FunctionReturns \/ FlushBound
  BY <1>8, TakeQueueInv DEF FunctionReturns, FlushBound
<1>9. CASE FlushBinds
  <2>1. CASE BindSucceeds
    BY <1>9, <2>1, TakeQueueInv DEF FlushBinds
  <2>2. CASE ~BindSucceeds
    BY <1>0, <1>9, <2>2 DEF FlushBinds
  <2> QED BY <2>1, <2>2
<1>10. CASE FlushEmpty
  <2>1. /\ queue = <<>> /\ ret = <<>> /\ due' = made
        /\ UNCHANGED <<queue, made, ret, delivered, lost, served>>
    BY <1>10 DEF FlushEmpty, QuietInv, BatchInv
  <2> QED BY <2>1, EmptyToSet DEF BatchInv, CallTypes, BatchComplete, Kept
<1>11. CASE DrainCompletes \/ DrainAgain
  BY <1>0, <1>11 DEF DrainCompletes, DrainAgain
<1>12. CASE BoundHit \/ ReportThrows
  <2>1. /\ lost' = lost \union ToSet(ret) /\ ret' = <<>> /\ pc' = "idle"
        /\ UNCHANGED <<queue, made, delivered, due, served>>
    BY <1>12 DEF BoundHit, ReportThrows, CheckpointThrows
  <2> QED BY <2>1, EmptyToSet DEF BatchInv, CallTypes, BatchComplete, Kept
<1>13. CASE Deliver
  <2>1. CASE ~delegate
    BY <1>0, <1>13, <2>1 DEF Deliver, Abort
  <2>2. CASE delegate
    <3>1. /\ delivered' = delivered \o ret /\ ret' = <<>> /\ served' = due
          /\ pc = "deliver" /\ pc' = "idle" /\ UNCHANGED <<queue, made, lost, due>>
      BY <1>13, <2>2 DEF Deliver
    <3>2. delivered' \in Seq(Nat) /\ ToSet(delivered') = ToSet(delivered) \union ToSet(ret)
      BY <3>1, ToSetConcat DEF BatchInv, CallTypes
    <3> QED BY <3>1, <3>2, EmptyToSet DEF BatchInv, CallTypes, BatchComplete, Kept
  <2> QED BY <2>1, <2>2
<1> QED
  BY <1>1, <1>2, <1>3, <1>4, <1>5, <1>6, <1>7, <1>8, <1>9, <1>10, <1>11, <1>12, <1>13 DEF Next

\* When a batch returns normally, every native call made before it took the queue
\* over has reached the delegate or was lost with an earlier batch, however scripts,
\* microtasks and failed bindings interleave (JSIExecutor.cpp:192-293).
THEOREM BatchesAreComplete == Spec => []BatchComplete
<1>1. Init => QuietInv /\ BatchInv
  BY EmptyToSet DEF Init, QuietInv, QuietWithoutBridge, BatchInv, CallTypes, BatchComplete
<1>2. (QuietInv /\ BatchInv) /\ UNCHANGED vars => (QuietInv /\ BatchInv)'
  BY DEF QuietInv, QuietWithoutBridge, BatchInv, CallTypes, BatchComplete, Kept, vars,
         queueVars, bindVars, nmVars
<1>3. BatchInv => BatchComplete
  BY DEF BatchInv
<1> QED BY <1>1, <1>2, <1>3, QuietStep, BatchStep, PTL DEF Spec

-----------------------------------------------------------------------------
(* The order of delivery *)

\* s lists numbers in increasing order.
Increasing(s) == \A i, j \in 1..Len(s) : i < j => s[i] < s[j]

\* Calls are queued in order, later than all that was taken over or delivered; what
\* was taken over is overtaken only by calls that a microtask flushed.
DeliveryInv ==
    /\ queue \in Seq(Nat) /\ ret \in Seq(Nat) /\ delivered \in Seq(Nat) /\ made \in Nat
    /\ \A i \in 1..Len(queue) : queue[i] <= made
    /\ \A i \in 1..Len(ret) : ret[i] <= made
    /\ \A i \in 1..Len(delivered) : delivered[i] <= made
    /\ Increasing(queue) /\ Increasing(ret)
    /\ \A i \in 1..Len(ret), j \in 1..Len(queue) : ret[i] < queue[j]
    /\ \A i \in 1..Len(delivered), j \in 1..Len(queue) : delivered[i] < queue[j]
    /\ \A i \in 1..Len(delivered), j \in 1..Len(ret) :
          delivered[i] >= ret[j] => delivered[i] # ret[j] /\ delivered[i] \in early
    /\ pc \notin {"checkpoint", "deliver"} => ret = <<>>
    /\ InOrder

LEMMA Elements ==
    ASSUME NEW s \in Seq(Nat)
    PROVE  Len(s) \in Nat /\ \A i \in 1..Len(s) : s[i] \in Nat
  OBVIOUS

LEMMA ConcatElements ==
    ASSUME NEW s \in Seq(Nat), NEW t \in Seq(Nat)
    PROVE  /\ s \o t \in Seq(Nat) /\ Len(s \o t) = Len(s) + Len(t)
           /\ Len(s) \in Nat /\ Len(t) \in Nat
           /\ \A i \in 1..(Len(s) + Len(t)) :
                 \/ i \in 1..Len(s) /\ (s \o t)[i] = s[i]
                 \/ i > Len(s) /\ i - Len(s) \in 1..Len(t) /\ (s \o t)[i] = t[i - Len(s)]
  OBVIOUS

LEMMA ConcatMembers ==
    ASSUME NEW s \in Seq(Nat), NEW t \in Seq(Nat), NEW k \in 1..Len(s \o t)
    PROVE  \/ \E i \in 1..Len(s) : (s \o t)[k] = s[i]
           \/ \E i \in 1..Len(t) : (s \o t)[k] = t[i]
<1>1. \/ k \in 1..Len(s) /\ (s \o t)[k] = s[k]
      \/ k - Len(s) \in 1..Len(t) /\ (s \o t)[k] = t[k - Len(s)]
  BY ConcatElements
<1>2. CASE k \in 1..Len(s) /\ (s \o t)[k] = s[k]
  BY <1>2, Zenon
<1>3. CASE k - Len(s) \in 1..Len(t) /\ (s \o t)[k] = t[k - Len(s)]
  BY <1>3, Zenon
<1> QED BY <1>1, <1>2, <1>3

\* Delivering a list of calls that are in order, where those delivered before may
\* only be later if a microtask flushed them.
LEMMA DeliverInOrder ==
    ASSUME InOrder, delivered \in Seq(Nat), NEW s \in Seq(Nat), Increasing(s),
           \A i \in 1..Len(delivered), j \in 1..Len(s) :
              delivered[i] >= s[j] => delivered[i] # s[j] /\ delivered[i] \in early,
           delivered' = delivered \o s, early \subseteq early'
    PROVE  InOrder'
<1> SUFFICES ASSUME NEW i \in 1..Len(delivered'), NEW j \in 1..Len(delivered'), i < j,
                    delivered'[i] >= delivered'[j]
             PROVE  delivered'[i] # delivered'[j] /\ delivered'[i] \in early'
  BY DEF InOrder
<1> DEFINE n == Len(delivered)
<1>1. /\ n \in Nat /\ Len(s) \in Nat /\ i \in 1..(n + Len(s)) /\ j \in 1..(n + Len(s))
      /\ \A k \in 1..(n + Len(s)) :
            \/ k \in 1..n /\ delivered'[k] = delivered[k]
            \/ k > n /\ k - n \in 1..Len(s) /\ delivered'[k] = s[k - n]
  BY ConcatElements
<1>2. CASE i \in 1..n /\ j \in 1..n
  BY <1>1, <1>2 DEF InOrder
<1>3. CASE i \in 1..n /\ j > n
  BY <1>1, <1>3
<1>4. CASE i > n
  <2>1. /\ i - n \in 1..Len(s) /\ j - n \in 1..Len(s) /\ i - n < j - n
        /\ delivered'[i] = s[i - n] /\ delivered'[j] = s[j - n]
    BY <1>1, <1>4
  <2>2. s[i - n] < s[j - n] /\ s[i - n] \in Nat /\ s[j - n] \in Nat
    BY <2>1, Elements DEF Increasing
  <2> QED BY <2>1, <2>2
<1> QED BY <1>1, <1>2, <1>3, <1>4

LEMMA TakeQueueOrder ==
    ASSUME DeliveryInv, TakeQueue, StartCheckpoint, pc \notin {"checkpoint", "deliver"}
    PROVE  DeliveryInv'
<1>1. ret' = queue /\ queue' = <<>> /\ pc' = "checkpoint" /\ UNCHANGED <<made, delivered, early>>
  BY DEF DeliveryInv, TakeQueue, StartCheckpoint
<1>2. \A i \in 1..Len(delivered), j \in 1..Len(queue) :
         ~(delivered[i] >= queue[j])
  BY DEF DeliveryInv
<1>3. Len(queue') = 0 /\ queue' \in Seq(Nat) /\ Increasing(queue')
  BY <1>1 DEF Increasing
<1> QED BY <1>1, <1>2, <1>3 DEF DeliveryInv, InOrder, Increasing

LEMMA DeliveryStep == ASSUME DeliveryInv, Next PROVE DeliveryInv'
<1>a. /\ queue \in Seq(Nat) /\ ret \in Seq(Nat) /\ delivered \in Seq(Nat) /\ made \in Nat
      /\ Len(queue) \in Nat /\ \A i \in 1..Len(queue) : queue[i] \in Nat
      /\ Len(ret) \in Nat /\ \A i \in 1..Len(ret) : ret[i] \in Nat
      /\ Len(delivered) \in Nat /\ \A i \in 1..Len(delivered) : delivered[i] \in Nat
  BY Elements DEF DeliveryInv
<1>0. ASSUME UNCHANGED queueVars,
             pc' = pc \/ {pc, pc'} \intersect {"checkpoint", "deliver"} = {}
                      \/ (pc = "checkpoint" /\ pc' = "deliver")
      PROVE  DeliveryInv'
  BY <1>0, ZenonT(60) DEF queueVars, DeliveryInv, InOrder, Increasing
<1>1. ASSUME NEW o, RunScript(o) PROVE DeliveryInv'
  BY <1>0, <1>1 DEF RunScript, Begin
<1>2. ASSUME NEW f \in Calling, CallBridge(f) PROVE DeliveryInv'
  BY <1>0, <1>2 DEF CallBridge, Begin
<1>3. CASE StartFlush
  BY <1>0, <1>3 DEF StartFlush, Begin
<1>4. CASE DefineBridge \/ DefineRest \/ UseNativeModules \/ ResetModules
  BY <1>0, <1>4 DEF DefineBridge, DefineRest, UseNativeModules, ResetModules
<1>5. CASE EnqueueNativeCall
  <2>1. /\ made' = made + 1 /\ made' \in Nat /\ queue' = Append(queue, made')
        /\ UNCHANGED <<ret, delivered, early, pc>>
    BY <1>5 DEF EnqueueNativeCall, DeliveryInv
  <2>n. made' = made + 1 /\ made \in Nat
    BY <2>1 DEF DeliveryInv
  <2>2. /\ queue' \in Seq(Nat) /\ Len(queue) \in Nat /\ Len(queue') = Len(queue) + 1
        /\ queue'[Len(queue) + 1] = made'
        /\ \A i \in 1..Len(queue) : queue'[i] = queue[i] /\ queue[i] \in Nat
    BY <2>1 DEF DeliveryInv
  <2>a. \A i \in 1..Len(queue) : queue[i] <= made
    BY DEF DeliveryInv
  <2>3. \A i \in 1..Len(queue') : queue'[i] <= made' /\
           (queue'[i] = made' \/ (i \in 1..Len(queue) /\ queue'[i] = queue[i]))
    BY <2>2, <2>a, <2>n
  <2>4. Increasing(queue')
    <3> SUFFICES ASSUME NEW i \in 1..Len(queue'), NEW j \in 1..Len(queue'), i < j
                 PROVE  queue'[i] < queue'[j]
      BY DEF Increasing
    <3>1. i \in 1..Len(queue) /\ queue[i] <= made /\ queue[i] \in Nat
      BY <2>2, <2>a
    <3>2. CASE j \in 1..Len(queue)
      <4>1. queue[i] < queue[j]
        BY <3>1, <3>2 DEF DeliveryInv, Increasing
      <4> QED BY <2>2, <3>1, <3>2, <4>1
    <3>3. CASE j = Len(queue) + 1
      BY <2>2, <2>n, <3>1, <3>3
    <3>4. j \in 1..Len(queue) \/ j = Len(queue) + 1
      <4>1. Len(queue) \in Nat /\ Len(queue') = Len(queue) + 1
        BY <2>2
      <4> QED BY <4>1
    <3> QED BY <3>2, <3>3, <3>4, Zenon
  <2>5. /\ \A i \in 1..Len(ret) : ret[i] \in Nat /\ ret[i] < made' /\ ret[i] <= made'
        /\ \A i \in 1..Len(delivered) :
              delivered[i] \in Nat /\ delivered[i] < made' /\ delivered[i] <= made'
    <3>1. /\ \A i \in 1..Len(ret) : ret[i] <= made
          /\ \A i \in 1..Len(delivered) : delivered[i] <= made
      BY DEF DeliveryInv
    <3>2. \A m, k \in Nat : m <= k => m < k + 1 /\ m <= k + 1
      OBVIOUS
    <3> QED BY <1>a, <2>n, <3>1, <3>2
  <2>6. /\ \A i \in 1..Len(ret), j \in 1..Len(queue') : ret[i] < queue'[j]
        /\ \A i \in 1..Len(delivered), j \in 1..Len(queue') : delivered[i] < queue'[j]
    <3>1. /\ \A i \in 1..Len(ret), j \in 1..Len(queue) : ret[i] < queue[j]
          /\ \A i \in 1..Len(delivered), j \in 1..Len(queue) : delivered[i] < queue[j]
      BY DEF DeliveryInv
    <3>2. ASSUME NEW j \in 1..Len(queue')
          PROVE  /\ \A i \in 1..Len(ret) : ret[i] < queue'[j]
                 /\ \A i \in 1..Len(delivered) : delivered[i] < queue'[j]
      <4>1. CASE queue'[j] = made'
        BY <2>5, <4>1, Zenon
      <4>2. CASE j \in 1..Len(queue) /\ queue'[j] = queue[j]
        BY <3>1, <4>2, Zenon
      <4> QED BY <2>3, <4>1, <4>2, Zenon
    <3> QED BY <3>2, Zenon
  <2>7. /\ ret' \in Seq(Nat) /\ delivered' \in Seq(Nat) /\ Increasing(ret')
        /\ \A i \in 1..Len(delivered'), j \in 1..Len(ret') :
              delivered'[i] >= ret'[j] => delivered'[i] # ret'[j] /\ delivered'[i] \in early'
        /\ pc' \notin {"checkpoint", "deliver"} => ret' = <<>>
        /\ InOrder'
    BY <2>1, ZenonT(60) DEF DeliveryInv, InOrder, Increasing
  <2>8. made' \in Nat /\ ret' = ret /\ delivered' = delivered
    BY <2>1
  <2> QED BY <2>2, <2>3, <2>4, <2>5, <2>6, <2>7, <2>8, ZenonT(60) DEF DeliveryInv
<1>6. CASE FlushQueueImmediate
  <2>1. CASE ~delegate
    BY <1>0, <1>6, <2>1 DEF FlushQueueImmediate, Abort
  <2>2. CASE delegate
    <3>1. /\ delivered' = delivered \o queue /\ queue' = <<>>
          /\ early' = IF pc = "checkpoint" THEN early \union ToSet(queue) ELSE early
          /\ UNCHANGED <<made, ret, pc>> /\ pc \in {"script", "function", "checkpoint"}
      BY <1>6, <2>2 DEF FlushQueueImmediate, Running
    <3>2. InOrder'
      <4>1. \A i \in 1..Len(delivered), j \in 1..Len(queue) : ~(delivered[i] >= queue[j])
        <5>1. \A i \in 1..Len(delivered), j \in 1..Len(queue) : delivered[i] < queue[j]
          BY DEF DeliveryInv
        <5> QED BY <1>a, <5>1
      <4>2. InOrder /\ Increasing(queue)
        BY DEF DeliveryInv
      <4> QED BY <1>a, <3>1, <4>1, <4>2, DeliverInOrder
    <3>3. /\ delivered' \in Seq(Nat)
          /\ \A k \in 1..Len(delivered') :
                \/ \E i \in 1..Len(delivered) : delivered'[k] = delivered[i]
                \/ \E i \in 1..Len(queue) : delivered'[k] = queue[i]
      BY <1>a, <3>1, ConcatElements, ConcatMembers, ZenonT(60)
    <3>4. \A k \in 1..Len(delivered') : delivered'[k] <= made
      BY <3>3 DEF DeliveryInv
    <3>5. \A k \in 1..Len(delivered'), j \in 1..Len(ret) :
             delivered'[k] >= ret[j] => delivered'[k] # ret[j] /\ delivered'[k] \in early'
      <4>1. CASE pc # "checkpoint"
        <5>1. Len(ret) = 0
          BY <3>1, <4>1 DEF DeliveryInv
        <5> QED BY <5>1
      <4>2. CASE pc = "checkpoint"
        <5>1. \A i \in 1..Len(queue) : queue[i] \in early' /\ queue[i] \in Nat
          BY <3>1, <4>2 DEF ToSet, DeliveryInv
        <5>2. \A i \in 1..Len(queue), j \in 1..Len(ret) : queue[i] # ret[j]
          <6>1. \A j \in 1..Len(ret), i \in 1..Len(queue) : ret[j] < queue[i]
            BY DEF DeliveryInv
          <6> QED BY <1>a, <6>1
        <5>3. \A i \in 1..Len(delivered), j \in 1..Len(ret) :
                 delivered[i] >= ret[j] => delivered[i] # ret[j] /\ delivered[i] \in early
          BY DEF DeliveryInv
        <5>4. early \subseteq early'
          BY <3>1
        <5> SUFFICES ASSUME NEW k \in 1..Len(delivered'), NEW j \in 1..Len(ret),
                            delivered'[k] >= ret[j]
                     PROVE  delivered'[k] # ret[j] /\ delivered'[k] \in early'
          OBVIOUS
        <5>5. ASSUME NEW i \in 1..Len(delivered), delivered'[k] = delivered[i]
              PROVE  delivered'[k] # ret[j] /\ delivered'[k] \in early'
          BY <5>3, <5>4, <5>5
        <5>6. ASSUME NEW i \in 1..Len(queue), delivered'[k] = queue[i]
              PROVE  delivered'[k] # ret[j] /\ delivered'[k] \in early'
          BY <5>1, <5>2, <5>6
        <5> QED BY <3>3, <5>5, <5>6, Zenon
      <4> QED BY <4>1, <4>2
    <3>6. Len(queue') = 0 /\ queue' \in Seq(Nat) /\ Increasing(queue')
      BY <3>1 DEF Increasing
    <3>7. \A i \in 1..Len(queue') : FALSE
      BY <3>6
    <3> QED BY <3>1, <3>2, <3>3, <3>4, <3>5, <3>6, <3>7, ZenonT(60) DEF DeliveryInv
  <2> QED BY <2>1, <2>2
<1>7. CASE ScriptEnds \/ ScriptThrows \/ FlushThrows
  BY <1>0, <1>7 DEF ScriptEnds, ScriptThrows, FlushThrows
<1>8. CASE FunctionReturns \/ FlushBound
  BY <1>8, TakeQueueOrder DEF FunctionReturns, FlushBound
<1>9. CASE FlushBinds
  <2>1. CASE BindSucceeds
    BY <1>9, <2>1, TakeQueueOrder DEF FlushBinds
  <2>2. CASE ~BindSucceeds
    BY <1>0, <1>9, <2>2 DEF FlushBinds
  <2> QED BY <2>1, <2>2
<1>10. CASE FlushEmpty
  BY <1>10 DEF FlushEmpty, DeliveryInv, InOrder
<1>11. CASE DrainCompletes \/ DrainAgain
  BY <1>0, <1>11 DEF DrainCompletes, DrainAgain
<1>12. CASE BoundHit \/ ReportThrows
  <2>1. ret' = <<>> /\ pc' = "idle" /\ UNCHANGED <<queue, made, delivered, early>>
    BY <1>12 DEF BoundHit, ReportThrows, CheckpointThrows
  <2>2. Len(ret') = 0 /\ ret' \in Seq(Nat) /\ Increasing(ret')
    BY <2>1 DEF Increasing
  <2> QED BY <2>1, <2>2 DEF DeliveryInv, InOrder
<1>13. CASE Deliver
  <2>1. CASE ~delegate
    BY <1>0, <1>13, <2>1 DEF Deliver, Abort
  <2>2. CASE delegate
    <3>1. /\ delivered' = delivered \o ret /\ ret' = <<>> /\ pc' = "idle"
          /\ UNCHANGED <<queue, made, early>>
      BY <1>13, <2>2 DEF Deliver
    <3>2. InOrder'
      BY <3>1, DeliverInOrder DEF DeliveryInv
    <3>3. /\ delivered' \in Seq(Nat)
          /\ \A k \in 1..Len(delivered') :
                \/ \E i \in 1..Len(delivered) : delivered'[k] = delivered[i]
                \/ \E i \in 1..Len(ret) : delivered'[k] = ret[i]
      BY <1>a, <3>1, ConcatElements, ConcatMembers, ZenonT(60)
    <3>4. \A k \in 1..Len(delivered') : /\ delivered'[k] <= made
                                        /\ \A j \in 1..Len(queue) : delivered'[k] < queue[j]
      BY <3>3 DEF DeliveryInv
    <3>5. Len(ret') = 0 /\ ret' \in Seq(Nat) /\ Increasing(ret')
      BY <3>1 DEF Increasing
    <3>6. \A i \in 1..Len(ret') : FALSE
      BY <3>5
    <3> QED BY <3>1, <3>2, <3>3, <3>4, <3>5, <3>6, ZenonT(60) DEF DeliveryInv
  <2> QED BY <2>1, <2>2
<1> QED
  BY <1>1, <1>2, <1>3, <1>4, <1>5, <1>6, <1>7, <1>8, <1>9, <1>10, <1>11, <1>12, <1>13 DEF Next

\* Native calls reach the delegate once and in the order in which scripts made them,
\* but for those that a microtask flushes itself (JSIExecutor.cpp:265-293).
THEOREM DeliveredInOrder == Spec => []InOrder
<1>1. Init => DeliveryInv
  BY DEF Init, DeliveryInv, InOrder, Increasing
<1>2. DeliveryInv /\ UNCHANGED vars => DeliveryInv'
  BY DEF DeliveryInv, InOrder, Increasing, vars, queueVars
<1>3. DeliveryInv => InOrder
  BY DEF DeliveryInv
<1> QED BY <1>1, <1>2, <1>3, DeliveryStep, PTL DEF Spec
=============================================================================
