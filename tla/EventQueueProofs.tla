--------------------------- MODULE EventQueueProofs ---------------------------
(***************************************************************************)
(* Proofs about EventQueue for any set of callers and any number of calls. *)
(***************************************************************************)
EXTENDS EventQueue, TLAPS

\* A thread inside a call has made one.
Started == \A c \in Callers : pc[c] # "idle" => made[c] >= 1

Typed == TypeOK /\ Started

\* The task of a call is new until the call posts it, and posted when the
\* caller blocks on it.
CallStages ==
    /\ \A c \in Callers, n \in 1..MaxCalls : n > made[c] => stage[<<c, n>>] = "new"
    /\ \A c \in Callers : pc[c] = "admitted" => stage[Current(c)] = "new"
    /\ \A c \in Callers : pc[c] \in {"posted", "waiting", "woken"} =>
          stage[Current(c)] # "new" /\ kindOf[Current(c)] \in Blocking

\* The message queue holds the queued tasks without repetition, and the task
\* that the Looper dispatches is the only one under way.
QueueStages ==
    /\ \A i \in DOMAIN queue : stage[queue[i]] = "queued"
    /\ \A i, j \in DOMAIN queue : queue[i] = queue[j] => i = j
    /\ running # NoCall => stage[running] \in {"running", "finished"}
    /\ \A x \in Calls : stage[x] \in {"running", "finished"} => running = x

\* A result array is filled exactly when the event of its task is over.
Filled ==
    \A x \in Calls :
        /\ stage[x] \in {"finished", "notified"} /\ kindOf[x] \in Blocking
              => outcome[x] # "unset"
        /\ outcome[x] # "unset" => stage[x] \in {"finished", "notified"}

\* A caller that is past its wait was notified or woken early.
WokenFor ==
    \A c \in Callers : pc[c] = "woken" =>
        stage[Current(c)] = "notified" \/ Current(c) \in disturbed

\* The steps of QuickJS.close: size the array, free, set the flag, interrupt.
ReleaseOrder ==
    /\ alive => ~released /\ closing \in {"no", "sized", "spoiled"} /\ frees = 0
    /\ closing \in {"sized", "spoiled"} => alive
    /\ ~alive => frees = 1 /\ (released \/ closing = "freed")
    /\ interrupted => released
    /\ closing = "flagged" => released

TaskInv == CallStages /\ QueueStages /\ Filled /\ NoLostWakeup /\ WokenFor

IInv == Typed /\ TaskInv /\ ReleaseOrder

LEMMA CurrentIsCall ==
    ASSUME Typed, NEW c \in Callers, pc[c] # "idle"
    PROVE  Current(c) \in Calls
  BY DEF Typed, TypeOK, Started, Current, Calls

LEMMA NextIsCall ==
    ASSUME Typed, NEW c \in Callers, NEW k \in Kinds, Begin(c, k)
    PROVE  /\ made' \in [Callers -> 0..MaxCalls]
           /\ kindOf' \in [Calls -> Kinds \union {"none"}]
           /\ made'[c] = made[c] + 1
           /\ \A d \in Callers : d # c => made'[d] = made[d]
           /\ <<c, made[c] + 1>> \in Calls
<1>1. made[c] \in 0..MaxCalls /\ Quota[c] \in 0..MaxCalls /\ MaxCalls \in Nat
  BY EventQueueAssumption DEF EventQueueAssumption, Typed, TypeOK
<1>2. made[c] + 1 \in 1..MaxCalls
  BY <1>1 DEF Begin
<1>3. <<c, made[c] + 1>> \in Calls
  BY <1>2 DEF Calls
<1>4. made' \in [Callers -> 0..MaxCalls] /\ made'[c] = made[c] + 1
  BY <1>1, <1>2 DEF Begin, Typed, TypeOK
<1>5. \A d \in Callers : d # c => made'[d] = made[d]
  BY DEF Begin, Typed, TypeOK
<1>6. kindOf' \in [Calls -> Kinds \union {"none"}]
  BY <1>3 DEF Begin, Typed, TypeOK
<1>7. QED
  BY <1>3, <1>4, <1>5, <1>6

\* The steps of close that do not touch the runtime or a task.
CloseOpen == CloseSizes \/ MapChanges \/ CloseThrows

LEMMA TypedInit == Init => Typed
<1> SUFFICES ASSUME Init PROVE Typed
  OBVIOUS
<1>1. /\ made \in [Callers -> 0..MaxCalls]
      /\ frees \in Nat
  BY EventQueueAssumption DEF EventQueueAssumption, Init
<1>2. /\ alive \in BOOLEAN /\ released \in BOOLEAN
      /\ interrupted \in BOOLEAN /\ crashed \in BOOLEAN
  BY Zenon DEF Init
<1>3. queue \in Seq(Calls)
  BY DEF Init
<1>4. QED
  BY <1>1, <1>2, <1>3 DEF Init, Typed, TypeOK, Started, Outcomes, Returns

LEMMA TypedNext == Typed /\ TaskInv /\ [Next]_vars => Typed'
<1> SUFFICES ASSUME Typed, TaskInv, [Next]_vars PROVE Typed'
  OBVIOUS
<1> USE EventQueueAssumption DEF EventQueueAssumption
<1>1. ASSUME NEW c \in Callers, NEW k \in Posted, CallRefused(c, k)
      PROVE  Typed'
  BY <1>1, NextIsCall, ZenonT(30) DEF CallRefused, Posted, Begin, Typed, TypeOK, Started, Returns, Outcomes, Calls,
     ownerVars, taskVars, nativeVars, flagVars, procVars, Kinds
<1>2. ASSUME NEW c \in Callers, NEW k \in Posted, CallAdmitted(c, k)
      PROVE  Typed'
  <2>1. /\ made' \in [Callers -> 0..MaxCalls]
        /\ kindOf' \in [Calls -> Kinds \union {"none"}]
        /\ made'[c] = made[c] + 1
        /\ \A d \in Callers : d # c => made'[d] = made[d]
    BY <1>2, NextIsCall DEF CallAdmitted, Posted
  <2>2. Started'
    BY <1>2, <2>1 DEF CallAdmitted, Typed, TypeOK, Started
  <2>3. TypeOK'
    BY <1>2, <2>1 DEF CallAdmitted, Typed, TypeOK, Returns, ownerVars, taskVars,
       nativeVars, flagVars, procVars
  <2>4. QED
    BY <2>2, <2>3 DEF Typed
<1>3. ASSUME NEW c \in Callers, CheckThread(c)
      PROVE  Typed'
  BY <1>3 DEF CheckThread, Typed, TypeOK, Started, Returns, Outcomes, ownerVars, taskVars,
     nativeVars, flagVars, procVars
<1>4. ASSUME NEW c \in Callers, PostTask(c)
      PROVE  Typed'
  <2>1. Current(c) \in Calls
    BY <1>4, CurrentIsCall DEF PostTask
  <2>2. QED
    <3>1. queue' \in Seq(Calls)
      BY <1>4, <2>1 DEF PostTask, Enqueued, Typed, TypeOK
    <3>2. /\ pc' \in [Callers -> {"idle", "admitted", "posted", "waiting", "woken"}]
          /\ ret' \in [Callers -> Returns]
      BY <1>4 DEF PostTask, Typed, TypeOK, Returns
    <3>3. stage' \in [Calls -> {"new", "queued", "running", "finished", "notified"}]
      BY <1>4, <2>1 DEF PostTask, Typed, TypeOK
    <3>4. synced' \subseteq Callers
      BY <1>4 DEF PostTask, Typed, TypeOK
    <3>5. Started'
      BY <1>4 DEF PostTask, Typed, TypeOK, Started
    <3>6. QED
      BY <1>4, <3>1, <3>2, <3>3, <3>4, <3>5
      DEF PostTask, Typed, TypeOK, ownerVars, nativeVars, flagVars, procVars
<1>5. ASSUME NEW c \in Callers, EnterWait(c)
      PROVE  Typed'
  BY <1>5 DEF EnterWait, AfterPost, Typed, TypeOK, Started, ownerVars, taskVars,
     nativeVars, flagVars, procVars
<1>6. ASSUME NEW c \in Callers, WakeEarly(c)
      PROVE  Typed'
  BY <1>6, CurrentIsCall DEF WakeEarly, Typed, TypeOK, Started, ownerVars, taskVars,
     nativeVars, flagVars, procVars
<1>7. ASSUME NEW c \in Callers, Return(c)
      PROVE  Typed'
  <2>1. Current(c) \in Calls
    BY <1>7, CurrentIsCall DEF Return
  <2>2. MayReturn(Current(c)) \subseteq Returns
    BY <1>7, <2>1 DEF MayReturn, Return, Typed, TypeOK, Returns, Outcomes, TaskInv,
       CallStages, Filled
  <2>3. QED
    BY <1>7, <2>1, <2>2 DEF Return, Typed, TypeOK, Started, ownerVars, taskVars,
       nativeVars, flagVars, procVars
<1>8. ASSUME NEW c \in Callers, CreateContext(c)
      PROVE  Typed'
  <2>1. /\ made' \in [Callers -> 0..MaxCalls]
        /\ kindOf' \in [Calls -> Kinds \union {"none"}]
        /\ made'[c] = made[c] + 1
        /\ \A d \in Callers : d # c => made'[d] = made[d]
    BY <1>8, NextIsCall DEF CreateContext, Kinds
  <2>2. Started'
    BY <1>8, <2>1 DEF CreateContext, Begin, Typed, TypeOK, Started
  <2>3. use' \subseteq (Kinds \union {"none", "inline"}) \X {"live", "freed"}
    <3>1. use' = {<<"createContext", Health>>} /\ Health \in {"live", "freed"}
      BY <1>8 DEF CreateContext, Health
    <3>2. QED
      BY <3>1 DEF Kinds
  <2>4. ret' \in [Callers -> Returns]
    BY <1>8 DEF CreateContext, Typed, TypeOK, Returns, Outcomes
  <2>5. TypeOK'
    BY <1>8, <2>1, <2>3, <2>4 DEF CreateContext, Typed, TypeOK,
       ownerVars, taskVars, flagVars, procVars
  <2>6. QED
    BY <2>2, <2>5 DEF Typed
<1>9. CASE OwnerCall
  BY <1>9 DEF OwnerCall, Health, Typed, TypeOK, Started, callerVars, ownerVars, taskVars, flagVars, procVars
<1>10. CASE TakeTask
  <2>1. Head(queue) \in Calls /\ Tail(queue) \in Seq(Calls)
    BY <1>10 DEF TakeTask, Typed, TypeOK
  <2>2. use' \subseteq (Kinds \union {"none", "inline"}) \X {"live", "freed"}
    <3>1. CASE RunsEvent(Head(queue))
      <4>1. use' = {<<kindOf[Head(queue)], Health>>} /\ Health \in {"live", "freed"}
        BY <1>10, <3>1 DEF TakeTask, Health
      <4>2. kindOf[Head(queue)] \in Kinds \union {"none"}
        BY <2>1 DEF Typed, TypeOK
      <4>3. QED
        BY <4>1, <4>2
    <3>2. CASE ~RunsEvent(Head(queue))
      BY <1>10, <3>2 DEF TakeTask, Typed, TypeOK
    <3>3. QED
      BY <3>1, <3>2
  <2>3. QED
    BY <1>10, <2>1, <2>2 DEF TakeTask, Typed, TypeOK, Started, Outcomes, callerVars, flagVars, procVars
<1>11. CASE FinishEvent
  BY <1>11 DEF FinishEvent, Typed, TypeOK, Started, Outcomes, callerVars, ownerVars,
     nativeVars, flagVars, procVars
<1>12. CASE EventError
  BY <1>12 DEF EventError, Typed, TypeOK, Started, callerVars, ownerVars, taskVars,
     nativeVars, flagVars, procVars
<1>13. CASE CloseFrees
  <2>1. frees' \in Nat
    BY <1>13 DEF CloseFrees, Typed, TypeOK
  <2>2. QED
    BY <1>13, <2>1, Zenon
    DEF CloseFrees, Typed, TypeOK, Started, callerVars, taskVars, flagVars, procVars
<1>14. CASE CloseFlags
  BY <1>14 DEF CloseFlags, Typed, TypeOK, Started, callerVars, taskVars,
     nativeVars, procVars
<1>15. CASE CloseInterrupts
  BY <1>15 DEF CloseInterrupts, HasHandlerThread, Typed, TypeOK, Started, callerVars,
     taskVars, nativeVars, procVars
<1>16. CASE CloseEnds
  BY <1>16 DEF CloseEnds, Typed, TypeOK, Started, callerVars, ownerVars, nativeVars, flagVars, procVars
<1>17. CASE CloseOpen
  BY <1>17 DEF CloseOpen, CloseSizes, MapChanges, CloseThrows, Typed, TypeOK, Started, callerVars, taskVars,
     nativeVars, flagVars, procVars
<1>18. CASE CloseFails
  BY <1>18 DEF CloseFails, Typed, TypeOK, Started, Outcomes, callerVars, nativeVars, flagVars, procVars
<1>19. CASE NotifyPoster
  BY <1>19 DEF NotifyPoster, Typed, TypeOK, Started, nativeVars, flagVars, procVars, Calls
<1>20. CASE UNCHANGED vars
  BY <1>20 DEF vars, Typed, TypeOK, Started, callerVars, ownerVars, taskVars,
     nativeVars, flagVars, procVars
<1>21. QED
  BY <1>1, <1>2, <1>3, <1>4, <1>5, <1>6, <1>7, <1>8, <1>9, <1>10, <1>11, <1>12,
     <1>13, <1>14, <1>15, <1>16, <1>17, <1>18, <1>19, <1>20 DEF Next, CallerStep, OwnerStep, CloseOpen

\* A step of the owner that leaves callers, tasks and the running task alone.
LEMMA TaskFrame ==
    ASSUME TaskInv, UNCHANGED <<callerVars, ownerVars, taskVars>> \/
                    UNCHANGED <<callerVars, running, taskVars>>
    PROVE  TaskInv'
  BY DEF TaskInv, CallStages, QueueStages, Filled, NoLostWakeup, WokenFor,
     Current, callerVars, ownerVars, taskVars

LEMMA TaskInit == Init => TaskInv
  BY EventQueueAssumption DEF EventQueueAssumption, Init, TaskInv, CallStages,
     QueueStages, Filled, NoLostWakeup, WokenFor, Calls

\* Starting a call renames the current call of its thread; the tasks of all
\* other calls stay as they are.
LEMMA BeginTasks ==
    ASSUME Typed, TaskInv, NEW c \in Callers, NEW k \in Kinds, Begin(c, k),
           UNCHANGED <<disturbed, running, taskVars>>,
           pc' = pc \/ pc' = [pc EXCEPT ![c] = "admitted"]
    PROVE  TaskInv'
<1> DEFINE x == <<c, made[c] + 1>>
<1>1. /\ made'[c] = made[c] + 1
      /\ \A d \in Callers : d # c => made'[d] = made[d]
      /\ x \in Calls
  BY NextIsCall
<1>2. made[c] \in Nat /\ stage[x] = "new" /\ outcome[x] = "unset"
  <2>1. made[c] \in Nat /\ made[c] + 1 \in 1..MaxCalls
    BY <1>1 DEF Typed, TypeOK, Calls
  <2>2. made[c] + 1 > made[c]
    BY <2>1
  <2>3. stage[x] = "new"
    BY <2>1, <2>2 DEF TaskInv, CallStages
  <2>4. QED
    BY <1>1, <2>1, <2>3 DEF TaskInv, Filled
<1>3. \A y \in Calls : y # x => kindOf'[y] = kindOf[y]
  BY <1>1 DEF Begin, Typed, TypeOK
<1>4. \A d \in Callers : pc'[d] \notin {"idle", "admitted"} =>
          d # c /\ pc'[d] = pc[d] /\ Current(d)' = Current(d)
  BY <1>1 DEF Begin, Typed, TypeOK, Current
<1>5. \A d \in Callers : pc[d] # "idle" => Current(d) \in Calls /\ Current(d) # x
  BY CurrentIsCall DEF Begin, Current
<1>6. CallStages'
  <2>1. \A d \in Callers, n \in 1..MaxCalls : n > made'[d] => stage'[<<d, n>>] = "new"
    <3>1. \A d \in Callers : made[d] \in Nat /\ made'[d] = IF d = c THEN made[d] + 1 ELSE made[d]
      BY <1>1 DEF Typed, TypeOK
    <3>2. \A d \in Callers, n \in 1..MaxCalls : n > made'[d] => n > made[d]
      BY <3>1
    <3>3. \A d \in Callers, n \in 1..MaxCalls : n > made[d] => stage[<<d, n>>] = "new"
      BY DEF TaskInv, CallStages
    <3>4. stage' = stage
      BY <1>1 DEF taskVars
    <3>5. QED
      BY <3>2, <3>3, <3>4
  <2>2. \A d \in Callers : pc'[d] = "admitted" => stage'[Current(d)'] = "new"
    <3>1. stage'[Current(c)'] = "new"
      BY <1>1, <1>2 DEF Current, taskVars
    <3>2. \A d \in Callers \ {c} : pc'[d] = pc[d] /\ Current(d)' = Current(d)
      BY <1>1 DEF Current, Typed, TypeOK
    <3>3. QED
      BY <3>1, <3>2 DEF TaskInv, CallStages, taskVars
  <2>3. \A d \in Callers : pc'[d] \in {"posted", "waiting", "woken"} =>
            stage'[Current(d)'] # "new" /\ kindOf'[Current(d)'] \in Blocking
    BY <1>3, <1>4, <1>5 DEF TaskInv, CallStages, taskVars
  <2>4. QED
    BY <2>1, <2>2, <2>3 DEF CallStages
<1>7. QueueStages'
  BY DEF TaskInv, QueueStages, taskVars
<1>8. Filled'
  BY <1>2, <1>3 DEF TaskInv, Filled, taskVars
<1>9. NoLostWakeup' /\ WokenFor'
  BY <1>3, <1>4, <1>5 DEF TaskInv, NoLostWakeup, WokenFor, taskVars
<1>10. QED
  BY <1>6, <1>7, <1>8, <1>9 DEF TaskInv

LEMMA TaskNext == Typed /\ TaskInv /\ Typed' /\ [Next]_vars => TaskInv'
<1> SUFFICES ASSUME Typed, TaskInv, Typed', [Next]_vars PROVE TaskInv'
  OBVIOUS
<1> USE EventQueueAssumption DEF EventQueueAssumption
<1>1. ASSUME NEW c \in Callers, NEW k \in Posted,
             CallRefused(c, k) \/ CallAdmitted(c, k)
      PROVE  TaskInv'
  BY <1>1, BeginTasks DEF CallRefused, CallAdmitted, Posted, ownerVars
<1>2. ASSUME NEW c \in Callers, CreateContext(c)
      PROVE  TaskInv'
  BY <1>2, BeginTasks DEF CreateContext, Kinds, ownerVars
<1>3. ASSUME NEW c \in Callers, CheckThread(c) \/ EnterWait(c) \/ WakeEarly(c) \/ Return(c)
      PROVE  TaskInv'
  <2>1. /\ UNCHANGED <<made, kindOf, running, taskVars>>
        /\ \A d \in Callers : d # c => pc'[d] = pc[d]
        /\ disturbed \subseteq disturbed'
        /\ Current(c) \in Calls
    BY <1>3, CurrentIsCall, SMTT(30)
    DEF CheckThread, EnterWait, WakeEarly, Return, Typed, TypeOK, ownerVars
  <2>2. pc'[c] # "admitted"
    BY <1>3 DEF CheckThread, EnterWait, WakeEarly, Return, AfterPost, Typed, TypeOK
  <2>3. pc'[c] # "idle" => pc[c] \in {"posted", "waiting", "woken"}
    BY <1>3 DEF CheckThread, EnterWait, WakeEarly, Return, Typed, TypeOK
  <2>4. pc'[c] = "waiting" => stage[Current(c)] # "notified"
    BY <1>3 DEF CheckThread, EnterWait, WakeEarly, Return, AfterPost, Typed, TypeOK
  <2>5. pc'[c] = "woken" => stage[Current(c)] = "notified" \/ Current(c) \in disturbed'
    BY <1>3 DEF CheckThread, EnterWait, WakeEarly, Return, AfterPost, Typed, TypeOK
  <2>6. \A d \in Callers : Current(d)' = Current(d)
    BY <2>1 DEF Current
  <2>7. pc'[c] \in {"idle", "posted", "waiting", "woken"}
    BY <2>2 DEF Typed, TypeOK
  <2>8. CallStages'
    BY <2>1, <2>2, <2>3, <2>6 DEF TaskInv, CallStages, taskVars
  <2>9. QueueStages' /\ Filled'
    BY <2>1 DEF TaskInv, QueueStages, Filled, taskVars
  <2>10. NoLostWakeup'
    <3>1. pc'[c] = "waiting" =>
            /\ stage'[Current(c)] \in {"queued", "running", "finished"}
            /\ kindOf'[Current(c)] \in Blocking
      BY <2>1, <2>3, <2>4 DEF TaskInv, CallStages, taskVars, Typed, TypeOK
    <3>2. QED
      BY <2>1, <2>6, <3>1 DEF TaskInv, NoLostWakeup, taskVars
  <2>11. WokenFor'
    BY <2>1, <2>5, <2>6 DEF TaskInv, WokenFor, taskVars
  <2>12. QED
    BY <2>8, <2>9, <2>10, <2>11 DEF TaskInv
<1>4. ASSUME NEW c \in Callers, PostTask(c)
      PROVE  TaskInv'
  <2> DEFINE x == Current(c)
  <2>1. x \in Calls /\ stage[x] = "new" /\ pc[c] = "admitted"
    BY <1>4, CurrentIsCall DEF PostTask, TaskInv, CallStages
  <2>2. /\ stage'[x] = "queued"
        /\ \A y \in Calls : y # x => stage'[y] = stage[y]
        /\ UNCHANGED <<made, kindOf, disturbed, running, outcome>>
        /\ \A d \in Callers : d # c => pc'[d] = pc[d]
        /\ pc'[c] \in {"posted", "idle"}
        /\ pc'[c] = "posted" => kindOf[x] \in Blocking
    BY <1>4, <2>1 DEF PostTask, Typed, TypeOK, ownerVars
  <2>3. \A d \in Callers : Current(d)' = Current(d) /\ (d # c => Current(d) # x)
    BY <2>2 DEF Current
  <2>4. CallStages'
    <3>1. \A d \in Callers, n \in 1..MaxCalls : n > made'[d] => stage'[<<d, n>>] = "new"
      BY <2>1, <2>2 DEF TaskInv, CallStages, Current, Calls, Typed, TypeOK
    <3>2. \A d \in Callers : d # c /\ pc[d] # "idle" => stage'[Current(d)] = stage[Current(d)]
      BY <2>2, <2>3, CurrentIsCall
    <3>3. QED
      BY <2>1, <2>2, <2>3, <3>1, <3>2 DEF TaskInv, CallStages
  <2>5. QueueStages'
    <3>1. /\ queue' = Append(queue, x)
          /\ queue \in Seq(Calls)
      BY <1>4 DEF PostTask, Enqueued, Typed, TypeOK
    <3>2. /\ DOMAIN queue' = 1..(Len(queue) + 1)
          /\ queue'[Len(queue) + 1] = x
          /\ \A i \in 1..Len(queue) : queue'[i] = queue[i] /\ queue[i] \in Calls
          /\ DOMAIN queue = 1..Len(queue)
          /\ Len(queue) \in Nat
      BY <2>1, <3>1
    <3>3. \A i \in 1..Len(queue) : queue[i] # x
      BY <2>1, <3>2 DEF TaskInv, QueueStages
    <3>4. \A i \in DOMAIN queue' : stage'[queue'[i]] = "queued"
      BY <2>2, <3>2, <3>3 DEF TaskInv, QueueStages
    <3>5. \A i, j \in DOMAIN queue' : queue'[i] = queue'[j] => i = j
      BY <3>2, <3>3 DEF TaskInv, QueueStages
    <3>6. running' # NoCall => stage'[running'] \in {"running", "finished"}
      BY <2>1, <2>2 DEF TaskInv, QueueStages, Typed, TypeOK
    <3>7. \A y \in Calls : stage'[y] \in {"running", "finished"} => running' = y
      BY <2>1, <2>2 DEF TaskInv, QueueStages
    <3>8. QED
      BY <3>4, <3>5, <3>6, <3>7 DEF QueueStages
  <2>6. Filled'
    BY <2>1, <2>2 DEF TaskInv, Filled
  <2>7. NoLostWakeup' /\ WokenFor'
    <3>1. \A d \in Callers : pc'[d] \in {"waiting", "woken"} =>
              d # c /\ pc[d] = pc'[d] /\ Current(d) \in Calls /\ stage'[Current(d)] = stage[Current(d)]
      BY <2>2, <2>3, CurrentIsCall
    <3>2. QED
      BY <2>2, <2>3, <3>1 DEF TaskInv, NoLostWakeup, WokenFor
  <2>8. QED
    BY <2>4, <2>5, <2>6, <2>7 DEF TaskInv
<1>5. CASE TakeTask
  <2> DEFINE x == Head(queue)
  <2>1. /\ queue \in Seq(Calls) /\ queue # <<>>
        /\ x \in Calls /\ x = queue[1]
        /\ queue' = Tail(queue) /\ running' = x
        /\ running = NoCall /\ NoCall \notin Calls
        /\ UNCHANGED callerVars
    BY <1>5 DEF TakeTask, Typed, TypeOK, Calls
  <2>2. stage[x] = "queued" /\ outcome[x] = "unset"
    <3>1. 1 \in DOMAIN queue
      BY <2>1
    <3>2. QED
      BY <2>1, <3>1 DEF TaskInv, QueueStages, Filled
  <2>3. /\ stage'[x] \in {"running", "finished"}
        /\ \A y \in Calls : y # x => stage'[y] = stage[y] /\ outcome'[y] = outcome[y]
        /\ stage'[x] = "running" => outcome'[x] = "unset"
        /\ stage'[x] = "finished" => outcome'[x] = "skipped"
    BY <1>5, <2>1, <2>2 DEF TakeTask, Typed, TypeOK
  <2>4. \A d \in Callers : Current(d)' = Current(d)
    BY <2>1 DEF Current, callerVars
  <2>5. CallStages'
    <3>1. \A d \in Callers, n \in 1..MaxCalls : n > made[d] => <<d, n>> # x /\ <<d, n>> \in Calls
      BY <2>2 DEF TaskInv, CallStages, Calls
    <3>2. \A d \in Callers : pc[d] = "admitted" => Current(d) # x /\ Current(d) \in Calls
      BY <2>2, CurrentIsCall DEF TaskInv, CallStages
    <3>3. \A d \in Callers : pc[d] # "idle" => Current(d) \in Calls
      BY CurrentIsCall
    <3>4. QED
      BY <2>1, <2>3, <2>4, <3>1, <3>2, <3>3, SMTT(30) DEF TaskInv, CallStages, callerVars
  <2>6. QueueStages'
    <3>1. /\ Len(queue) \in Nat \ {0} /\ DOMAIN queue = 1..Len(queue)
          /\ DOMAIN queue' = 1..(Len(queue) - 1)
          /\ \A i \in 1..(Len(queue) - 1) : queue'[i] = queue[i + 1]
      BY <2>1
    <3>2. \A i \in 1..(Len(queue) - 1) : i + 1 \in DOMAIN queue /\ i + 1 # 1 /\ queue[i + 1] \in Calls
      BY <2>1, <3>1
    <3>3. \A i \in 1..(Len(queue) - 1) : queue[i + 1] # x
      BY <2>1, <3>1, <3>2 DEF TaskInv, QueueStages
    <3>4. \A i \in DOMAIN queue' : stage'[queue'[i]] = "queued"
      <4> SUFFICES ASSUME NEW i \in 1..(Len(queue) - 1)
                   PROVE  stage'[queue[i + 1]] = "queued"
        BY <3>1
      <4>1. stage[queue[i + 1]] = "queued"
        BY <3>2 DEF TaskInv, QueueStages
      <4>2. QED
        BY <2>3, <3>2, <3>3, <4>1
    <3>5. \A i, j \in DOMAIN queue' : queue'[i] = queue'[j] => i = j
      <4> SUFFICES ASSUME NEW i \in 1..(Len(queue) - 1), NEW j \in 1..(Len(queue) - 1),
                          queue[i + 1] = queue[j + 1]
                   PROVE  i = j
        BY <3>1
      <4>1. i + 1 = j + 1
        BY <3>2 DEF TaskInv, QueueStages
      <4>2. QED
        BY <3>1, <4>1
    <3>6. \A y \in Calls : stage'[y] \in {"running", "finished"} => running' = y
      BY <2>1, <2>3 DEF TaskInv, QueueStages
    <3>7. stage'[running'] \in {"running", "finished"}
      BY <2>1, <2>3
    <3>8. QED
      BY <3>4, <3>5, <3>6, <3>7, Zenon DEF QueueStages
  <2>7. Filled'
    BY <2>1, <2>3 DEF TaskInv, Filled, callerVars
  <2>8. NoLostWakeup' /\ WokenFor'
    <3>1. \A d \in Callers : pc[d] \in {"waiting", "woken"} => Current(d) \in Calls
      BY CurrentIsCall
    <3>2. QED
      BY <2>1, <2>2, <2>3, <2>4, <3>1, SMTT(30) DEF TaskInv, NoLostWakeup, WokenFor, callerVars
  <2>9. QED
    BY <2>5, <2>6, <2>7, <2>8 DEF TaskInv
<1>6. CASE FinishEvent \/ CloseFails \/ CloseEnds
  <2>1. /\ running \in Calls /\ stage[running] = "running"
        /\ stage' = [stage EXCEPT ![running] = "finished"]
        /\ UNCHANGED <<callerVars, running, queue>>
        /\ \A y \in Calls : y # running => outcome'[y] = outcome[y]
        /\ kindOf[running] \in Blocking => outcome'[running] # "unset"
    BY <1>6 DEF FinishEvent, CloseFails, CloseEnds, Typed, TypeOK, ownerVars, Blocking
  <2>2. /\ stage'[running] = "finished"
        /\ \A y \in Calls : y # running => stage'[y] = stage[y]
    BY <2>1 DEF Typed, TypeOK
  <2>3. \A d \in Callers : Current(d)' = Current(d)
    BY <2>1 DEF Current, callerVars
  <2>4. \A d \in Callers : pc[d] # "idle" => Current(d) \in Calls
    BY CurrentIsCall
  <2>5. CallStages'
    <3>1. \A d \in Callers, n \in 1..MaxCalls : n > made[d] => <<d, n>> # running /\ <<d, n>> \in Calls
      BY <2>1 DEF TaskInv, CallStages, Calls
    <3>2. \A d \in Callers : pc[d] = "admitted" => Current(d) # running
      BY <2>1 DEF TaskInv, CallStages
    <3>3. QED
      BY <2>1, <2>2, <2>3, <2>4, <3>1, <3>2 DEF TaskInv, CallStages, callerVars
  <2>6. QueueStages'
    <3>1. \A i \in DOMAIN queue : queue[i] # running /\ queue[i] \in Calls
      BY <2>1 DEF TaskInv, QueueStages, Typed, TypeOK
    <3>2. QED
      BY <2>1, <2>2, <3>1 DEF TaskInv, QueueStages
  <2>7. Filled'
    BY <2>1, <2>2 DEF TaskInv, Filled, callerVars
  <2>8. NoLostWakeup' /\ WokenFor'
    BY <2>1, <2>2, <2>3, <2>4 DEF TaskInv, NoLostWakeup, WokenFor, callerVars
  <2>9. QED
    BY <2>5, <2>6, <2>7, <2>8 DEF TaskInv
<1>7. CASE NotifyPoster
  <2> DEFINE c == running[1]
  <2>1. /\ running \in Calls /\ stage[running] = "finished" /\ c \in Callers
        /\ running' = NoCall /\ NoCall \notin Calls
        /\ UNCHANGED <<made, kindOf, disturbed, queue, outcome>>
    BY <1>7 DEF NotifyPoster, Typed, TypeOK, Calls
  <2>2. /\ stage'[running] = "notified"
        /\ \A y \in Calls : y # running => stage'[y] = stage[y]
    BY <1>7, <2>1 DEF NotifyPoster, Typed, TypeOK
  <2>3. \A d \in Callers : Current(d)' = Current(d)
    BY <2>1 DEF Current
  <2>4. \A d \in Callers : pc[d] # "idle" => Current(d) \in Calls
    BY CurrentIsCall
  <2>5. \A d \in Callers : Current(d) = running => d = c
    BY DEF Current
  <2>6. \A d \in Callers :
          \/ pc'[d] = pc[d]
          \/ d = c /\ Current(d) = running /\ pc[d] = "waiting" /\ pc'[d] = "woken"
    BY <1>7, <2>1 DEF NotifyPoster, Typed, TypeOK
  <2>7. \A d \in Callers : Current(d) = running /\ pc[d] = "waiting" => pc'[d] = "woken"
    BY <1>7, <2>1, <2>5 DEF NotifyPoster, Notifies, Typed, TypeOK, TaskInv, NoLostWakeup
  <2>8. CallStages'
    <3>1. \A d \in Callers, n \in 1..MaxCalls : n > made[d] => <<d, n>> # running /\ <<d, n>> \in Calls
      BY <2>1 DEF TaskInv, CallStages, Calls
    <3>2. \A d \in Callers : pc[d] = "admitted" => Current(d) # running
      BY <2>1 DEF TaskInv, CallStages
    <3>3. QED
      BY <2>1, <2>2, <2>3, <2>4, <2>6, <3>1, <3>2 DEF TaskInv, CallStages
  <2>9. QueueStages'
    <3>1. \A i \in DOMAIN queue : queue[i] # running /\ queue[i] \in Calls
      BY <2>1 DEF TaskInv, QueueStages, Typed, TypeOK
    <3>2. QED
      BY <2>1, <2>2, <3>1 DEF TaskInv, QueueStages
  <2>10. Filled'
    BY <2>1, <2>2 DEF TaskInv, Filled
  <2>11. NoLostWakeup'
    BY <2>1, <2>2, <2>3, <2>4, <2>6, <2>7 DEF TaskInv, NoLostWakeup
  <2>12. WokenFor'
    BY <2>1, <2>2, <2>3, <2>4, <2>6 DEF TaskInv, WokenFor
  <2>13. QED
    BY <2>8, <2>9, <2>10, <2>11, <2>12 DEF TaskInv
<1>8. CASE OwnerCall \/ EventError \/ CloseOpen \/ CloseFrees \/ CloseFlags \/ CloseInterrupts
  BY <1>8, TaskFrame DEF OwnerCall, EventError, CloseOpen, CloseSizes, MapChanges, CloseThrows, CloseFrees, CloseFlags, CloseInterrupts,
     ownerVars
<1>9. CASE UNCHANGED vars
  BY <1>9, TaskFrame DEF vars
<1>10. QED
  BY <1>1, <1>2, <1>3, <1>4, <1>5, <1>6, <1>7, <1>8, <1>9 DEF Next, CallerStep, OwnerStep, CloseOpen

LEMMA ReleaseInit == Init => ReleaseOrder
  BY DEF Init, ReleaseOrder

LEMMA ReleaseNext == Typed /\ ReleaseOrder /\ [Next]_vars => ReleaseOrder'
<1> SUFFICES ASSUME Typed, ReleaseOrder, [Next]_vars PROVE ReleaseOrder'
  OBVIOUS
<1>1. CASE CloseFrees
  BY <1>1 DEF CloseFrees, OwnerActive, ReleaseOrder, Typed, TypeOK, flagVars
<1>2. CASE CloseFlags
  BY <1>2 DEF CloseFlags, ReleaseOrder, Typed, TypeOK, nativeVars
<1>3. CASE CloseInterrupts
  BY <1>3 DEF CloseInterrupts, ReleaseOrder, Typed, TypeOK, nativeVars
<1>4. CASE CloseOpen
  BY <1>4 DEF CloseOpen, CloseSizes, MapChanges, CloseThrows, OwnerActive, ReleaseOrder, Typed, TypeOK,
     nativeVars, flagVars
<1>5. CASE CloseFails
  BY <1>5 DEF CloseFails, ReleaseOrder, Typed, TypeOK, nativeVars, flagVars
<1>6. CASE UNCHANGED <<alive, frees, flagVars, closing>>
  BY <1>6 DEF ReleaseOrder, flagVars
<1>7. ASSUME NEW c \in Callers, CallerStep(c)
      PROVE  UNCHANGED <<alive, frees, flagVars, closing>>
  BY <1>7 DEF CallerStep, CallRefused, CallAdmitted, CheckThread, PostTask, EnterWait,
     WakeEarly, Return, CreateContext, ownerVars, nativeVars
<1>8. CASE OwnerCall \/ TakeTask \/ FinishEvent \/ EventError \/ CloseEnds \/ NotifyPoster
  BY <1>6, <1>8 DEF OwnerCall, TakeTask, FinishEvent, EventError, CloseEnds, NotifyPoster,
     ownerVars, nativeVars
<1>9. CASE UNCHANGED vars
  BY <1>6, <1>9 DEF vars, ownerVars, nativeVars
<1>10. QED
  BY <1>1, <1>2, <1>3, <1>4, <1>5, <1>6, <1>7, <1>8, <1>9 DEF Next, OwnerStep, CloseOpen

\* The inductive invariant of the hand-over.
THEOREM Inductive == Spec => []IInv
<1>1. Init => IInv
  BY TypedInit, TaskInit, ReleaseInit DEF IInv
<1>2. IInv /\ [Next]_vars => IInv'
  BY TypedNext, TaskNext, ReleaseNext DEF IInv
<1>3. QED
  BY <1>1, <1>2, PTL DEF Spec

\* Type correctness: in particular no call returns an empty result array.
THEOREM TypeCorrect == Spec => []TypeOK
<1>1. IInv => TypeOK
  BY DEF IInv, Typed
<1>2. QED
  BY Inductive, <1>1, PTL

\* No wake-up is lost: a caller asleep in result.wait() has a task that the
\* owner has still to notify, whatever the interleaving of handler.post, the
\* owner's notifyAll and the caller's synchronized block (EventQueue.java:51-66).
THEOREM NoWakeupIsLost == Spec => []NoLostWakeup
<1>1. IInv => NoLostWakeup
  BY DEF IInv, TaskInv
<1>2. QED
  BY Inductive, <1>1, PTL

\* The native runtime is freed at most once (QuickJS.java:65-80).
THEOREM FreedAtMostOnce == Spec => []FreedOnce
<1>1. IInv => FreedOnce
  BY DEF IInv, ReleaseOrder, FreedOnce
<1>2. QED
  BY Inductive, <1>1, PTL

\* An event of postVoid, and an operation that the owner runs in line, starts
\* only on a live runtime, even when the poster read a stale released flag.
THEOREM VoidEventsStartAlive == Spec => []VoidEventsAlive
<1>1. Init => VoidEventsAlive
  BY DEF Init, VoidEventsAlive
<1>2. IInv /\ VoidEventsAlive /\ [Next]_vars => VoidEventsAlive'
  <2> SUFFICES ASSUME IInv, VoidEventsAlive, [Next]_vars PROVE VoidEventsAlive'
    OBVIOUS
  <2>1. closing = "no" /\ ~released => Health = "live"
    BY DEF IInv, ReleaseOrder, Health
  <2>2. CASE OwnerCall
    <3>1. use' = {<<"inline", "live">>}
      BY <2>1, <2>2 DEF OwnerCall, OwnerActive
    <3>2. QED
      BY <3>1 DEF VoidEventsAlive
  <2>3. CASE TakeTask
    BY <2>1, <2>3 DEF TakeTask, RunsEvent, VoidEventsAlive
  <2>4. ASSUME NEW c \in Callers, CreateContext(c)
        PROVE  VoidEventsAlive'
    BY <2>4 DEF CreateContext, VoidEventsAlive
  <2>5. CASE UNCHANGED use
    BY <2>5 DEF VoidEventsAlive
  <2>6. ASSUME NEW c \in Callers, CallerStep(c), ~CreateContext(c)
        PROVE  UNCHANGED use
    BY <2>6 DEF CallerStep, CallRefused, CallAdmitted, CheckThread, PostTask, EnterWait,
       WakeEarly, Return, nativeVars
  <2>7. CASE FinishEvent \/ EventError \/ CloseOpen \/ CloseFrees \/ CloseFlags \/ CloseInterrupts
             \/ CloseFails \/ CloseEnds \/ NotifyPoster
    BY <2>5, <2>7 DEF FinishEvent, EventError, CloseOpen, CloseSizes, MapChanges, CloseThrows, CloseFrees, CloseFlags, CloseInterrupts,
       CloseFails, CloseEnds, NotifyPoster, nativeVars
  <2>8. CASE UNCHANGED vars
    BY <2>5, <2>8 DEF vars, nativeVars
  <2>9. QED
    BY <2>2, <2>3, <2>4, <2>5, <2>6, <2>7, <2>8 DEF Next, OwnerStep, CloseOpen
<1>3. QED
  BY <1>1, <1>2, Inductive, PTL DEF Spec

\* The hand-over is a serial executor: each posted task is dispatched once, one
\* at a time, in the order of handler.post.
THEOREM Refinement == Spec => ImplementsSerialExecutor
<1> DEFINE Done == {x \in Calls : stage[x] = "notified"}
<1>1. Init => Executor!ExecInit
  BY DEF Init, Executor!ExecInit
<1>2. IInv /\ [Next]_vars => [Executor!ExecNext]_(Executor!execVars)
  <2> SUFFICES ASSUME IInv, [Next]_vars
               PROVE  \/ Executor!ExecNext
                      \/ UNCHANGED <<queue, running, Done>>
    BY DEF Executor!execVars
  <2> USE EventQueueAssumption DEF EventQueueAssumption
  <2>1. ASSUME NEW c \in Callers, PostTask(c)
        PROVE  Executor!Submit(Current(c)) /\ Current(c) \in Calls
    <3>1. Current(c) \in Calls /\ stage[Current(c)] = "new"
      BY <2>1, CurrentIsCall DEF PostTask, IInv, TaskInv, CallStages
    <3>2. Executor!Fresh(Current(c))
      BY <3>1 DEF Executor!Fresh, IInv, TaskInv, QueueStages, Calls
    <3>3. Done' = Done
      BY <2>1, <3>1 DEF PostTask, IInv, Typed, TypeOK
    <3>4. QED
      BY <2>1, <3>1, <3>2, <3>3 DEF Executor!Submit, PostTask, Enqueued, ownerVars
  <2>2. CASE TakeTask
    <3>1. Head(queue) \in Calls /\ stage[Head(queue)] = "queued"
      BY <2>2 DEF TakeTask, IInv, Typed, TypeOK, TaskInv, QueueStages
    <3>2. Done' = Done
      BY <2>2, <3>1 DEF TakeTask, IInv, Typed, TypeOK
    <3>3. Executor!Start
      BY <2>2, <3>2 DEF Executor!Start, TakeTask
    <3>4. QED
      BY <3>3 DEF Executor!ExecNext
  <2>3. CASE NotifyPoster
    <3>1. running \in Calls
      BY <2>3 DEF NotifyPoster, IInv, Typed, TypeOK
    <3>2. Done' = Done \union {running}
      BY <2>3, <3>1 DEF NotifyPoster, IInv, Typed, TypeOK
    <3>3. Executor!Complete
      BY <2>3, <3>2 DEF Executor!Complete, NotifyPoster
    <3>4. QED
      BY <3>3 DEF Executor!ExecNext
  <2>4. CASE FinishEvent \/ CloseFails \/ CloseEnds
    <3>1. running \in Calls /\ stage[running] = "running"
      BY <2>4 DEF FinishEvent, CloseFails, CloseEnds, IInv, Typed, TypeOK
    <3>2. Done' = Done
      BY <2>4, <3>1 DEF FinishEvent, CloseFails, CloseEnds, IInv, Typed, TypeOK
    <3>3. QED
      BY <2>4, <3>2 DEF FinishEvent, CloseFails, CloseEnds, ownerVars
  <2>5. ASSUME NEW c \in Callers, CallerStep(c), ~PostTask(c)
        PROVE  UNCHANGED <<queue, running, stage>>
    BY <2>5 DEF CallerStep, CallRefused, CallAdmitted, CheckThread, EnterWait, WakeEarly,
       Return, CreateContext, ownerVars, taskVars
  <2>6. CASE OwnerCall \/ EventError \/ CloseOpen \/ CloseFrees \/ CloseFlags \/ CloseInterrupts
    BY <2>6 DEF OwnerCall, EventError, CloseOpen, CloseSizes, MapChanges, CloseThrows, CloseFrees, CloseFlags, CloseInterrupts,
       ownerVars, taskVars
  <2>7. CASE UNCHANGED vars
    BY <2>7 DEF vars, ownerVars, taskVars
  <2>8. ASSUME NEW c \in Callers, CallerStep(c)
        PROVE  Executor!ExecNext \/ UNCHANGED <<queue, running, Done>>
    BY <2>1, <2>5, <2>8 DEF Executor!ExecNext
  <2>9. QED
    BY <2>2, <2>3, <2>4, <2>6, <2>7, <2>8 DEF Next, OwnerStep, CloseOpen
<1>3. QED
  BY <1>1, <1>2, Inductive, PTL DEF Spec, ImplementsSerialExecutor, Executor!Spec

-----------------------------------------------------------------------------
(* What a call promises to its caller *)

\* A thread that has made a call has a current one.
LEMMA CurrentOfMade ==
    ASSUME Typed, NEW c \in Callers, made[c] > 0
    PROVE  Current(c) \in Calls
  BY DEF Typed, TypeOK, Current, Calls

\* The outcome of a call and the stage of its task stay what they are once the call
\* is over, because the owner fills only the result array of the task it dispatches.
Promises == OwnOutcome /\ BlocksUntilDone

LEMMA PromisesInit == Init => Promises
  BY DEF Init, Promises, OwnOutcome, BlocksUntilDone

LEMMA BeginPromises ==
    ASSUME IInv, Promises, NEW c \in Callers, NEW k \in Kinds, Begin(c, k),
           UNCHANGED <<disturbed, taskVars>>,
           \A d \in Callers \ {c} : pc'[d] = pc[d] /\ ret'[d] = ret[d],
           k \in Blocking => ret'[c] \in {"refused", "none"}
    PROVE  Promises'
<1> DEFINE x == <<c, made[c] + 1>>
<1>1. /\ made'[c] = made[c] + 1
      /\ \A d \in Callers : d # c => made'[d] = made[d]
      /\ x \in Calls
  BY NextIsCall DEF IInv
<1>2. stage[x] = "new"
  <2>1. made[c] \in Nat /\ made[c] + 1 \in 1..MaxCalls
    BY <1>1 DEF IInv, Typed, TypeOK, Calls
  <2>2. made[c] + 1 > made[c]
    BY <2>1
  <2>3. QED
    BY <2>1, <2>2 DEF IInv, TaskInv, CallStages
<1>3. kindOf'[x] = k /\ \A y \in Calls : y # x => kindOf'[y] = kindOf[y]
  BY <1>1 DEF Begin, IInv, Typed, TypeOK
<1>4. Current(c)' = x
  BY <1>1 DEF Current
<1>5. \A d \in Callers \ {c} :
          /\ Current(d)' = Current(d) /\ Current(d) # x
          /\ made'[d] > 0 => made[d] > 0 /\ Current(d) \in Calls
  BY <1>1, CurrentOfMade DEF Current, IInv
<1>6. OwnOutcome'
  <2> SUFFICES ASSUME NEW d \in Callers, made'[d] > 0, kindOf'[Current(d)'] \in Blocking
               PROVE  /\ ret'[d] = "null" => Current(d)' \in disturbed'
                      /\ ret'[d] \in Outcomes =>
                            ret'[d] = outcome'[Current(d)'] /\ ret'[d] # "unset"
    BY DEF OwnOutcome
  <2>1. CASE d = c
    BY <2>1, <1>3, <1>4 DEF Outcomes
  <2>2. CASE d # c
    BY <2>2, <1>3, <1>5 DEF Promises, OwnOutcome, taskVars
  <2>3. QED
    BY <2>1, <2>2
<1>7. BlocksUntilDone'
  <2> SUFFICES ASSUME NEW d \in Callers, pc'[d] = "idle", made'[d] > 0,
                      kindOf'[Current(d)'] \in Blocking, Current(d)' \notin disturbed'
               PROVE  stage'[Current(d)'] \in {"new", "notified"}
    BY DEF BlocksUntilDone
  <2>1. CASE d = c
    BY <2>1, <1>2, <1>4 DEF taskVars
  <2>2. CASE d # c
    BY <2>2, <1>3, <1>5 DEF Promises, BlocksUntilDone, taskVars
  <2>3. QED
    BY <2>1, <2>2
<1>8. QED
  BY <1>6, <1>7 DEF Promises

LEMMA PromisesNext == IInv /\ Promises /\ [Next]_vars => Promises'
<1> SUFFICES ASSUME IInv, Promises, [Next]_vars PROVE Promises'
  OBVIOUS
<1>1. ASSUME NEW c \in Callers, NEW k \in Posted,
             CallRefused(c, k) \/ CallAdmitted(c, k)
      PROVE  Promises'
  <2>1. \A d \in Callers \ {c} : pc'[d] = pc[d] /\ ret'[d] = ret[d]
    BY <1>1 DEF CallRefused, CallAdmitted, IInv, Typed, TypeOK
  <2>2. ret'[c] \in {"refused", "none"}
    BY <1>1 DEF CallRefused, CallAdmitted, IInv, Typed, TypeOK
  <2>3. QED
    BY <1>1, <2>1, <2>2, BeginPromises DEF CallRefused, CallAdmitted, Posted
<1>2. ASSUME NEW c \in Callers, CreateContext(c)
      PROVE  Promises'
  <2>1. \A d \in Callers \ {c} : pc'[d] = pc[d] /\ ret'[d] = ret[d]
    BY <1>2 DEF CreateContext, IInv, Typed, TypeOK
  <2>2. QED
    BY <1>2, <2>1, BeginPromises DEF CreateContext, Kinds, Blocking
<1>3. ASSUME NEW c \in Callers, CheckThread(c) \/ EnterWait(c) \/ WakeEarly(c) \/ Return(c)
      PROVE  Promises'
  <2>1. /\ UNCHANGED <<made, kindOf, taskVars>>
        /\ \A d \in Callers \ {c} : pc'[d] = pc[d] /\ ret'[d] = ret[d]
        /\ disturbed \subseteq disturbed'
        /\ Current(c) \in Calls
    BY <1>3, CurrentIsCall
    DEF CheckThread, EnterWait, WakeEarly, Return, IInv, Typed, TypeOK, ownerVars
  <2>2. \A d \in Callers : Current(d)' = Current(d)
    BY <2>1 DEF Current
  <2>3. kindOf[Current(c)] \in Blocking =>
            /\ ret'[c] = "null" => Current(c) \in disturbed'
            /\ ret'[c] \in Outcomes => ret'[c] = outcome[Current(c)] /\ ret'[c] # "unset"
    <3>1. CASE CheckThread(c)
      BY <3>1 DEF CheckThread, Outcomes, IInv, Typed, TypeOK
    <3>2. CASE EnterWait(c) \/ WakeEarly(c)
      <4>1. ret'[c] = ret[c] /\ made[c] > 0
        BY <3>2 DEF EnterWait, WakeEarly, IInv, Typed, TypeOK, Started
      <4>2. QED
        BY <2>1, <4>1 DEF Promises, OwnOutcome
    <3>3. CASE Return(c)
      <4>1. PICK r \in MayReturn(Current(c)) : ret'[c] = r
        BY <3>3 DEF Return, IInv, Typed, TypeOK
      <4>2. stage[Current(c)] # "notified" => Current(c) \in disturbed
        BY <3>3 DEF Return, IInv, TaskInv, WokenFor
      <4>3. CASE stage[Current(c)] = "notified"
        BY <2>1, <4>1, <4>3 DEF MayReturn, IInv, TaskInv, Filled, Outcomes, Typed, TypeOK
      <4>4. CASE stage[Current(c)] # "notified"
        BY <2>1, <4>1, <4>2, <4>4 DEF MayReturn, Outcomes
      <4>5. QED
        BY <4>3, <4>4
    <3>4. QED
      BY <1>3, <3>1, <3>2, <3>3
  <2>4. pc'[c] = "idle" /\ Current(c) \notin disturbed' => stage[Current(c)] \in {"new", "notified"}
    <3>1. CASE CheckThread(c)
      BY <3>1 DEF CheckThread, IInv, TaskInv, CallStages
    <3>2. CASE EnterWait(c) \/ WakeEarly(c)
      BY <3>2 DEF EnterWait, WakeEarly, AfterPost, IInv, Typed, TypeOK
    <3>3. CASE Return(c)
      BY <3>3, <2>1 DEF Return, IInv, TaskInv, WokenFor
    <3>4. QED
      BY <1>3, <3>1, <3>2, <3>3
  <2>5. QED
    BY <2>1, <2>2, <2>3, <2>4 DEF Promises, OwnOutcome, BlocksUntilDone, taskVars
<1>4. ASSUME NEW c \in Callers, PostTask(c)
      PROVE  Promises'
  <2> DEFINE x == Current(c)
  <2>1. x \in Calls /\ made[c] > 0
    BY <1>4, CurrentIsCall DEF PostTask, IInv, Typed, TypeOK, Started
  <2>2. /\ UNCHANGED <<made, kindOf, disturbed, outcome>>
        /\ \A d \in Callers \ {c} : pc'[d] = pc[d] /\ ret'[d] = ret[d]
        /\ \A y \in Calls : y # x => stage'[y] = stage[y]
    BY <1>4, <2>1 DEF PostTask, IInv, Typed, TypeOK
  <2>3. \A d \in Callers : Current(d)' = Current(d)
    BY <2>2 DEF Current
  <2>4. kindOf[x] \in Blocking => ret'[c] = ret[c] /\ pc'[c] = "posted"
    BY <1>4 DEF PostTask, IInv, Typed, TypeOK
  <2>5. \A d \in Callers \ {c} : made[d] > 0 => Current(d) \in Calls /\ Current(d) # x
    BY CurrentOfMade DEF Current, IInv
  <2>6. OwnOutcome'
    BY <2>1, <2>2, <2>3, <2>4 DEF Promises, OwnOutcome
  <2>7. BlocksUntilDone'
    BY <2>2, <2>3, <2>4, <2>5 DEF Promises, BlocksUntilDone
  <2>8. QED
    BY <2>6, <2>7 DEF Promises
<1>5. CASE TakeTask \/ FinishEvent \/ CloseFails \/ CloseEnds \/ NotifyPoster
  <2>1. /\ UNCHANGED <<made, kindOf, disturbed, ret>>
        /\ \A d \in Callers : pc'[d] = "idle" => pc[d] = "idle"
    BY <1>5 DEF TakeTask, FinishEvent, CloseFails, CloseEnds, NotifyPoster, callerVars, IInv, Typed, TypeOK, Calls
  <2>2. \A d \in Callers : Current(d)' = Current(d)
    BY <2>1 DEF Current
  <2>3. \A y \in Calls :
          /\ outcome[y] # "unset" => outcome'[y] = outcome[y]
          /\ stage[y] \in {"new", "notified"} => stage'[y] = stage[y]
    <3>1. CASE TakeTask
      <4>1. Head(queue) \in Calls /\ 1 \in DOMAIN queue /\ Head(queue) = queue[1]
        BY <3>1 DEF TakeTask, IInv, Typed, TypeOK
      <4>2. stage[Head(queue)] = "queued" /\ outcome[Head(queue)] = "unset"
        BY <4>1 DEF IInv, TaskInv, QueueStages, Filled
      <4>3. QED
        BY <3>1, <4>1, <4>2 DEF TakeTask, IInv, Typed, TypeOK
    <3>2. CASE FinishEvent \/ CloseFails \/ CloseEnds
      <4>1. running \in Calls /\ stage[running] = "running" /\ outcome[running] = "unset"
        BY <3>2 DEF FinishEvent, CloseFails, CloseEnds, IInv, Typed, TypeOK, TaskInv, Filled
      <4>2. QED
        BY <3>2, <4>1 DEF FinishEvent, CloseFails, CloseEnds, IInv, Typed, TypeOK
    <3>3. CASE NotifyPoster
      BY <3>3 DEF NotifyPoster, IInv, Typed, TypeOK
    <3>4. QED
      BY <1>5, <3>1, <3>2, <3>3
  <2>4. \A d \in Callers : made[d] > 0 => Current(d) \in Calls
    BY CurrentOfMade DEF IInv
  <2>5. OwnOutcome'
    BY <2>1, <2>2, <2>3, <2>4 DEF Promises, OwnOutcome
  <2>6. BlocksUntilDone'
    BY <2>1, <2>2, <2>3, <2>4 DEF Promises, BlocksUntilDone
  <2>7. QED
    BY <2>5, <2>6 DEF Promises
<1>6. CASE UNCHANGED <<callerVars, taskVars>>
  BY <1>6 DEF Promises, OwnOutcome, BlocksUntilDone, Current, callerVars, taskVars
<1>7. CASE OwnerCall \/ EventError \/ CloseOpen \/ CloseFrees \/ CloseFlags \/ CloseInterrupts
  BY <1>6, <1>7 DEF OwnerCall, EventError, CloseOpen, CloseSizes, MapChanges, CloseThrows, CloseFrees, CloseFlags, CloseInterrupts
<1>8. CASE UNCHANGED vars
  BY <1>6, <1>8 DEF vars
<1>9. QED
  BY <1>1, <1>2, <1>3, <1>4, <1>5, <1>7, <1>8 DEF Next, CallerStep, OwnerStep, CloseOpen

\* A blocking call returns what its own event produced, or null after an early
\* wake-up, whatever the owner and the other callers do meanwhile
\* (EventQueue.java:51-75).
THEOREM ReturnsOwnOutcome == Spec => []OwnOutcome
<1>1. Promises => OwnOutcome
  BY DEF Promises
<1>2. QED
  BY PromisesInit, PromisesNext, Inductive, <1>1, PTL DEF Spec

\* Unless it is woken early, a blocking call returns only when its event is over.
THEOREM BlocksUntilEventIsOver == Spec => []BlocksUntilDone
<1>1. Promises => BlocksUntilDone
  BY DEF Promises
<1>2. QED
  BY PromisesInit, PromisesNext, Inductive, <1>1, PTL DEF Spec

-----------------------------------------------------------------------------
(* The order of one caller's events *)

\* Every queued task is in the message queue, behind the tasks that its caller
\* posted before.
InQueue == \A x \in Calls : stage[x] = "queued" => \E i \in DOMAIN queue : queue[i] = x

QueueOrder ==
    \A i, j \in DOMAIN queue : i < j /\ queue[i][1] = queue[j][1] => queue[i][2] < queue[j][2]

OrderInv == InQueue /\ QueueOrder /\ ProgramOrder

LEMMA OrderInit == Init => OrderInv
  BY DEF Init, OrderInv, InQueue, QueueOrder, ProgramOrder, Calls

LEMMA OrderFrame == ASSUME OrderInv, UNCHANGED <<queue, stage>> PROVE OrderInv'
  BY DEF OrderInv, InQueue, QueueOrder, ProgramOrder

LEMMA OrderNext == IInv /\ OrderInv /\ [Next]_vars => OrderInv'
<1> SUFFICES ASSUME IInv, OrderInv, [Next]_vars PROVE OrderInv'
  OBVIOUS
<1>1. ASSUME NEW c \in Callers, PostTask(c)
      PROVE  OrderInv'
  <2> DEFINE x == Current(c)
             n == Len(queue)
  <2>1. x \in Calls /\ stage[x] = "new" /\ x[1] = c /\ x[2] = made[c]
    BY <1>1, CurrentIsCall DEF PostTask, IInv, TaskInv, CallStages, Current
  <2>2. /\ n \in Nat /\ DOMAIN queue = 1..n /\ queue' = Append(queue, x)
        /\ DOMAIN queue' = 1..(n + 1) /\ queue'[n + 1] = x
        /\ \A i \in 1..n : queue'[i] = queue[i] /\ queue[i] \in Calls
    BY <1>1, <2>1 DEF PostTask, Enqueued, IInv, Typed, TypeOK
  <2>3. stage'[x] = "queued" /\ \A y \in Calls : y # x => stage'[y] = stage[y]
    BY <1>1, <2>1 DEF PostTask, IInv, Typed, TypeOK
  <2>4. \A i \in 1..n : queue[i][1] = c => queue[i][2] < made[c]
    <3> SUFFICES ASSUME NEW i \in 1..n, queue[i][1] = c
                 PROVE  queue[i][2] < made[c]
      OBVIOUS
    <3>1. PICK k \in 1..MaxCalls : queue[i] = <<c, k>>
      BY <2>2 DEF Calls
    <3>2. stage[<<c, k>>] = "queued"
      BY <2>2, <3>1 DEF IInv, TaskInv, QueueStages
    <3>3. ~(k > made[c]) /\ k # made[c]
      BY <2>1, <3>2 DEF IInv, TaskInv, CallStages, Current
    <3>4. made[c] \in Nat /\ k \in Nat
      BY EventQueueAssumption DEF EventQueueAssumption, IInv, Typed, TypeOK
    <3>5. QED
      BY <3>1, <3>3, <3>4
  <2>5. InQueue'
    <3> SUFFICES ASSUME NEW y \in Calls, stage'[y] = "queued"
                 PROVE  \E i \in 1..(n + 1) : queue'[i] = y
      BY <2>2 DEF InQueue
    <3>1. CASE y = x
      BY <2>2, <3>1
    <3>2. CASE y # x
      <4>1. PICK i \in 1..n : queue[i] = y
        BY <2>2, <2>3, <3>2 DEF OrderInv, InQueue
      <4>2. QED
        BY <2>2, <4>1
    <3>3. QED
      BY <3>1, <3>2
  <2>6. QueueOrder'
    <3> SUFFICES ASSUME NEW i \in 1..(n + 1), NEW j \in 1..(n + 1), i < j,
                        queue'[i][1] = queue'[j][1]
                 PROVE  queue'[i][2] < queue'[j][2]
      BY <2>2 DEF QueueOrder
    <3>1. i \in 1..n
      BY <2>2
    <3>2. CASE j = n + 1
      BY <2>1, <2>2, <2>4, <3>1, <3>2
    <3>3. CASE j # n + 1
      <4>1. j \in 1..n
        BY <2>2, <3>3
      <4>2. QED
        BY <2>2, <3>1, <4>1 DEF OrderInv, QueueOrder
    <3>4. QED
      BY <3>2, <3>3
  <2>7. ProgramOrder'
    <3> SUFFICES ASSUME NEW d \in Callers, NEW i \in 1..MaxCalls, NEW j \in 1..MaxCalls, i < j,
                        stage'[<<d, j>>] \notin {"new", "queued"}
                 PROVE  stage'[<<d, i>>] \in {"new", "notified"}
      BY DEF ProgramOrder
    <3>1. <<d, i>> \in Calls /\ <<d, j>> \in Calls
      BY DEF Calls
    <3>2. <<d, j>> # x /\ stage[<<d, j>>] \notin {"new", "queued"}
      BY <2>3, <3>1
    <3>3. stage[<<d, i>>] \in {"new", "notified"}
      BY <3>2 DEF OrderInv, ProgramOrder
    <3>4. CASE <<d, i>> = x
      <4>1. d = c /\ i = made[c]
        BY <2>1, <3>4
      <4>2. j > made[c]
        BY <4>1
      <4>3. QED
        BY <3>2, <4>1, <4>2 DEF IInv, TaskInv, CallStages
    <3>5. QED
      BY <2>3, <3>1, <3>3, <3>4
  <2>8. QED
    BY <2>5, <2>6, <2>7 DEF OrderInv
<1>2. CASE TakeTask
  <2> DEFINE x == Head(queue)
             n == Len(queue)
  <2>1. /\ n \in Nat \ {0} /\ DOMAIN queue = 1..n /\ 1 \in DOMAIN queue /\ x = queue[1]
        /\ queue' = Tail(queue) /\ DOMAIN queue' = 1..(n - 1)
        /\ \A i \in 1..(n - 1) : queue'[i] = queue[i + 1] /\ i + 1 \in 1..n
        /\ \A i \in 1..n : queue[i] \in Calls
        /\ running = NoCall
    BY <1>2 DEF TakeTask, IInv, Typed, TypeOK
  <2>2. x \in Calls /\ stage[x] = "queued"
    BY <2>1 DEF IInv, TaskInv, QueueStages
  <2>3. stage'[x] \in {"running", "finished"} /\ \A y \in Calls : y # x => stage'[y] = stage[y]
    BY <1>2, <2>2 DEF TakeTask, IInv, Typed, TypeOK
  <2>4. \A y \in Calls : stage[y] \notin {"running", "finished"}
    BY <2>1, EventQueueAssumption DEF EventQueueAssumption, IInv, TaskInv, QueueStages, Calls
  <2>5. InQueue'
    <3> SUFFICES ASSUME NEW y \in Calls, stage'[y] = "queued"
                 PROVE  \E i \in 1..(n - 1) : queue'[i] = y
      BY <2>1 DEF InQueue
    <3>1. y # x /\ stage[y] = "queued"
      BY <2>3
    <3>2. PICK i \in 1..n : queue[i] = y
      BY <2>1, <3>1 DEF OrderInv, InQueue
    <3>3. i - 1 \in 1..(n - 1) /\ (i - 1) + 1 = i
      BY <2>1, <3>1, <3>2
    <3>4. QED
      BY <2>1, <3>2, <3>3
  <2>6. QueueOrder'
    <3> SUFFICES ASSUME NEW i \in 1..(n - 1), NEW j \in 1..(n - 1), i < j,
                        queue[i + 1][1] = queue[j + 1][1]
                 PROVE  queue[i + 1][2] < queue[j + 1][2]
      BY <2>1 DEF QueueOrder
    <3>1. i + 1 < j + 1 /\ i + 1 \in DOMAIN queue /\ j + 1 \in DOMAIN queue
      BY <2>1
    <3>2. QED
      BY <3>1 DEF OrderInv, QueueOrder
  <2>7. ProgramOrder'
    <3> SUFFICES ASSUME NEW d \in Callers, NEW i \in 1..MaxCalls, NEW j \in 1..MaxCalls, i < j,
                        stage'[<<d, j>>] \notin {"new", "queued"}
                 PROVE  stage'[<<d, i>>] \in {"new", "notified"}
      BY DEF ProgramOrder
    <3>1. <<d, i>> \in Calls /\ <<d, j>> \in Calls
      BY DEF Calls
    <3>2. CASE <<d, j>> = x
      <4>1. <<d, i>> # x
        BY <3>2
      <4>2. stage[<<d, i>>] # "queued"
        <5> SUFFICES ASSUME stage[<<d, i>>] = "queued" PROVE FALSE
          OBVIOUS
        <5>1. PICK k \in 1..n : queue[k] = <<d, i>>
          BY <2>1, <3>1 DEF OrderInv, InQueue
        <5>2. 1 < k
          BY <2>1, <4>1, <5>1
        <5>3. queue[1][1] = queue[k][1] /\ queue[1][2] = j /\ queue[k][2] = i
          BY <2>1, <3>2, <5>1
        <5>4. j < i
          BY <2>1, <5>2, <5>3 DEF OrderInv, QueueOrder
        <5>5. QED
          BY <5>4, EventQueueAssumption DEF EventQueueAssumption
      <4>3. QED
        BY <2>3, <2>4, <3>1, <4>1, <4>2 DEF IInv, Typed, TypeOK
    <3>3. CASE <<d, j>> # x
      <4>1. stage[<<d, i>>] \in {"new", "notified"}
        BY <2>3, <3>1, <3>3 DEF OrderInv, ProgramOrder
      <4>2. QED
        BY <2>2, <2>3, <3>1, <4>1
    <3>4. QED
      BY <3>2, <3>3
  <2>8. QED
    BY <2>5, <2>6, <2>7 DEF OrderInv
<1>3. CASE FinishEvent \/ CloseFails \/ CloseEnds \/ NotifyPoster
  <2>1. /\ UNCHANGED queue
        /\ running \in Calls /\ stage[running] \in {"running", "finished"}
        /\ \E s \in {"finished", "notified"} : stage' = [stage EXCEPT ![running] = s]
    BY <1>3 DEF FinishEvent, CloseFails, CloseEnds, NotifyPoster, IInv, Typed, TypeOK
  <2>2. /\ stage'[running] \in {"finished", "notified"}
        /\ \A y \in Calls : y # running => stage'[y] = stage[y]
    BY <2>1 DEF IInv, Typed, TypeOK
  <2>3. InQueue' /\ QueueOrder'
    BY <2>1, <2>2 DEF OrderInv, InQueue, QueueOrder
  <2>4. ProgramOrder'
    <3> SUFFICES ASSUME NEW d \in Callers, NEW i \in 1..MaxCalls, NEW j \in 1..MaxCalls, i < j,
                        stage'[<<d, j>>] \notin {"new", "queued"}
                 PROVE  stage'[<<d, i>>] \in {"new", "notified"}
      BY DEF ProgramOrder
    <3>1. <<d, i>> \in Calls /\ <<d, j>> \in Calls
      BY DEF Calls
    <3>2. stage[<<d, j>>] \notin {"new", "queued"}
      BY <2>1, <2>2, <3>1
    <3>3. stage[<<d, i>>] \in {"new", "notified"}
      BY <3>2 DEF OrderInv, ProgramOrder
    <3>4. QED
      BY <2>1, <2>2, <3>1, <3>3
  <2>5. QED
    BY <2>3, <2>4 DEF OrderInv
<1>4. ASSUME NEW c \in Callers, CallerStep(c), ~PostTask(c)
      PROVE  UNCHANGED <<queue, stage>>
  BY <1>4 DEF CallerStep, CallRefused, CallAdmitted, CheckThread, EnterWait, WakeEarly,
     Return, CreateContext, taskVars
<1>5. CASE OwnerCall \/ EventError \/ CloseOpen \/ CloseFrees \/ CloseFlags \/ CloseInterrupts
  BY <1>5, OrderFrame DEF OwnerCall, EventError, CloseOpen, CloseSizes, MapChanges, CloseThrows, CloseFrees, CloseFlags, CloseInterrupts, taskVars
<1>6. CASE UNCHANGED vars
  BY <1>6, OrderFrame DEF vars, taskVars
<1>7. QED
  BY <1>1, <1>2, <1>3, <1>4, <1>5, <1>6, OrderFrame DEF Next, OwnerStep, CloseOpen

\* The events of one caller run in the order of its calls, and one is over before
\* the next starts, even if the caller gave up waiting for it (EventQueue.java:49-66).
THEOREM EventsInProgramOrder == Spec => []ProgramOrder
<1>1. OrderInv => ProgramOrder
  BY DEF OrderInv
<1>2. QED
  BY OrderInit, OrderNext, Inductive, <1>1, PTL DEF Spec
=============================================================================
