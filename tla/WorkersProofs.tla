---------------------------- MODULE WorkersProofs ----------------------------
(***************************************************************************)
(* Proofs about Workers for any sets of workers and timers, any number of  *)
(* messages and both builds.                                               *)
(***************************************************************************)
EXTENDS Workers, FiniteSetTheorems, TLAPS

Close == <<"close", "-">>
Early == <<"message", "early">>

LEMMA EventTypes ==
    /\ Close \in Events /\ <<"script", "-">> \in Events
    /\ <<"message", "early">> \in Events /\ <<"message", "late">> \in Events
    /\ <<"reply", "-">> \in Events
    /\ \A t \in Timers : <<"timer", t>> \in Events
    /\ \A e \in Events : e[1] = "timer" => e[2] \in Timers
    /\ \A e \in Events : e[1] = "close" => e = Close
  BY DEF Events, Close

LEMMA PostedTypes ==
    ASSUME TypeOK, NEW r \in Runtimes, NEW e \in Events
    PROVE  /\ Posted(queue, r, e) \in [Runtimes -> Seq(Events)]
           /\ \A s \in Runtimes \ {r} : Posted(queue, r, e)[s] = queue[s]
           /\ released[r] => Posted(queue, r, e)[r] = queue[r]
           /\ ~released[r] => Posted(queue, r, e)[r] = Append(queue[r], e)
  BY DEF TypeOK, Posted

LEMMA ClosePostedTypes ==
    ASSUME TypeOK, NEW ws \in SUBSET WorkerIds
    PROVE  /\ ClosePosted(ws) \in [Runtimes -> Seq(Events)]
           /\ \A r \in Runtimes : ClosePosted(ws)[r] =
                 IF r \in ws /\ ~terminate[r] /\ ~released[r]
                 THEN Append(queue[r], Close) ELSE queue[r]
<1>1. ASSUME NEW r \in Runtimes
      PROVE  ClosePosted(ws)[r] = IF r \in ws /\ ~terminate[r] /\ ~released[r]
                                  THEN Append(queue[r], Close) ELSE queue[r]
  <2>1. ClosePosted(ws)[r] = IF r \in ws /\ ~terminate[r]
                             THEN Posted(queue, r, Close)[r] ELSE queue[r]
    BY DEF ClosePosted, Close
  <2>2. Posted(queue, r, Close)[r] = IF released[r] THEN queue[r] ELSE Append(queue[r], Close)
    BY EventTypes, PostedTypes
  <2>3. CASE r \in ws /\ ~terminate[r]
    BY <2>1, <2>2, <2>3
  <2>4. CASE ~(r \in ws /\ ~terminate[r])
    BY <2>1, <2>4
  <2>5. QED
    BY <2>3, <2>4
<1>2. ASSUME NEW r \in Runtimes PROVE ClosePosted(ws)[r] \in Seq(Events)
  <2>1. queue[r] \in Seq(Events)
    BY DEF TypeOK
  <2>2. Append(queue[r], Close) \in Seq(Events)
    BY <2>1, EventTypes
  <2>3. QED
    BY <1>1, <2>1, <2>2
<1>3. ClosePosted(ws) = [r \in Runtimes |-> ClosePosted(ws)[r]]
  BY DEF ClosePosted
<1>4. QED
  BY <1>1, <1>2, <1>3

LEMMA RegisteredTypes == TypeOK => Registered \subseteq WorkerIds
  BY DEF TypeOK, Registered

-----------------------------------------------------------------------------
(* Types *)

LEMMA TypeInit == Init => TypeOK
<1> SUFFICES ASSUME Init PROVE TypeOK
  OBVIOUS
<1>1. /\ released \in [Runtimes -> BOOLEAN] /\ running \in [WorkerIds -> BOOLEAN]
      /\ terminate \in [WorkerIds -> BOOLEAN]
      /\ nanBoxing \in BOOLEAN /\ crashed \in BOOLEAN
  BY Zenon DEF Init
<1>2. /\ open \in [Runtimes -> {"none", "open", "closed"}]
      /\ queue \in [Runtimes -> Seq(Events)]
      /\ looked \in [Runtimes -> Nat \union {None}] /\ thrown \subseteq WorkerIds
      /\ thread \in [WorkerIds -> Progress]
      /\ workers \in [Tags -> WorkerIds \union {None}]
      /\ lateRuns \subseteq {"message", "reply", "timer", "script"}
  BY DEF Init, Runtimes, Progress
<1>3. timer \in [Timers -> TimerStates]
  BY DEF Init, TimerStates
<1>4. QED
  BY <1>1, <1>2, <1>3 DEF TypeOK

LEMMA DiesTypes ==
    ASSUME TypeOK, Dies
    PROVE  TypeOK' /\ \A r \in Runtimes : queue'[r] = <<>>
<1>1. running' \in [WorkerIds -> BOOLEAN] /\ crashed' \in BOOLEAN
  BY Zenon DEF Dies
<1>2. timer' \in [Timers -> TimerStates]
  BY DEF Dies, TimerStates
<1>3. queue' \in [Runtimes -> Seq(Events)] /\ \A r \in Runtimes : queue'[r] = <<>>
  BY DEF Dies
<1>4. QED
  BY <1>1, <1>2, <1>3 DEF Dies, TypeOK, closeVars, workerVars

\* Every event that a Looper takes is one of Events, so what is left is typed.
LEMMA TakesTypes ==
    ASSUME TypeOK, NEW r \in Runtimes, NEW kind, Takes(r, kind)
    PROVE  /\ Head(queue[r]) \in Events /\ Head(queue[r])[1] = kind
           /\ queue' \in [Runtimes -> Seq(Events)]
           /\ queue[r] # <<>> /\ queue'[r] = Tail(queue[r])
           /\ \A s \in Runtimes \ {r} : queue'[s] = queue[s]
<1>1. queue[r] \in Seq(Events) /\ queue[r] # <<>>
  BY DEF TypeOK, Takes, Due
<1>2. Head(queue[r]) \in Events /\ Tail(queue[r]) \in Seq(Events)
  BY <1>1
<1>3. QED
  BY <1>1, <1>2 DEF TypeOK, Takes, Due

LEMMA RunsTypes ==
    ASSUME TypeOK, NEW r \in Runtimes, NEW kind \in {"message", "reply", "timer", "script"},
           NEW runs \in BOOLEAN, Runs(r, kind, runs)
    PROVE  /\ running' \in [WorkerIds -> BOOLEAN]
           /\ lateRuns' \subseteq {"message", "reply", "timer", "script"}
           /\ lateRuns' \subseteq {kind}
           /\ ~runs \/ open[r] = "open" => lateRuns' = {}
<1>1. \A w \in WorkerIds : (IF w = r THEN runs ELSE running[w]) \in BOOLEAN
  BY Zenon DEF TypeOK
<1>2. running' \in [WorkerIds -> BOOLEAN]
  BY <1>1, Zenon DEF Runs
<1>3. QED
  BY <1>2 DEF Runs

LEMMA MapSizeTypes == MapSize \in Nat
<1>1. IsFiniteSet(Runtimes)
  BY WorkersAssumption, FS_AddElement DEF WorkersAssumption, Runtimes
<1>2. IsFiniteSet({r \in Runtimes : open[r] = "open"})
  BY <1>1, FS_Subset
<1>3. QED
  BY <1>2, FS_CardinalityType DEF MapSize

LEMMA ArrayTypes == \A r \in Runtimes : ArrayFits(r) \in BOOLEAN /\ ArrayFilled(r) \in BOOLEAN
  BY DEF ArrayFits, ArrayFilled

\* What CloseContext and CloseRuntime do to the workers is what Worker.close does to
\* some of them.
LEMMA MainClosesTypes ==
    ASSUME TypeOK, NEW closes \in BOOLEAN, MainCloses(closes)
    PROVE  /\ open' = [open EXCEPT ![Main] = IF closes THEN "closed" ELSE @]
           /\ \E ws \in SUBSET Registered : queue' = ClosePosted(ws) /\ terminate' = Terminated(ws)
<1> DEFINE ws == IF closes /\ open[Main] = "open" THEN PluginsClosed ELSE {}
<1>1. ws \in SUBSET Registered
  BY DEF PluginsClosed
<1>2. queue' = ClosePosted(ws) /\ terminate' = Terminated(ws)
  BY DEF MainCloses
<1>3. QED
  BY <1>1, <1>2 DEF MainCloses

LEMMA TypeNext == TypeOK /\ [Next]_vars => TypeOK'
<1> SUFFICES ASSUME TypeOK, [Next]_vars PROVE TypeOK'
  OBVIOUS
<1> USE WorkersAssumption DEF WorkersAssumption, procVars, workerVars, runtimeVars, closeVars
<1>0. Main \in Runtimes /\ WorkerIds \subseteq Runtimes /\ Sleepers \subseteq Runtimes
  BY DEF Runtimes
<1>1. ASSUME NEW w \in WorkerIds, NewWorker(w) PROVE TypeOK'
  BY <1>1 DEF NewWorker, TypeOK, Tag, Tags, Progress
<1>2. ASSUME NEW w \in WorkerIds, PostMessage(w) PROVE TypeOK'
  <2>1. queue' \in [Runtimes -> Seq(Events)]
    BY <1>2, EventTypes, PostedTypes DEF PostMessage, Runtimes
  <2>2. QED
    BY <1>2, <2>1 DEF PostMessage, TypeOK
<1>3. ASSUME NEW w \in WorkerIds, Reply(w) PROVE TypeOK'
  <2>1. queue' \in [Runtimes -> Seq(Events)]
    BY <1>3, EventTypes, PostedTypes DEF Reply, Runtimes
  <2>2. QED
    BY <1>3, <2>1 DEF Reply, TypeOK
<1>4. ASSUME NEW w \in WorkerIds, Terminate(w) PROVE TypeOK'
  <2>1. queue' \in [Runtimes -> Seq(Events)]
    BY <1>4, ClosePostedTypes DEF Terminate
  <2>2. terminate' \in [WorkerIds -> BOOLEAN]
    BY <1>4, Zenon DEF Terminate, Terminated
  <2>3. QED
    BY <1>4, <2>1, <2>2 DEF Terminate, TypeOK
<1>5. ASSUME NEW r \in Runtimes, NEW t \in Timers, SetTimeout(r, t) PROVE TypeOK'
  <2>1. timer' \in [Timers -> TimerStates]
    BY <1>5 DEF SetTimeout, TypeOK, TimerStates
  <2>2. QED
    BY <1>5, <2>1 DEF SetTimeout, TypeOK
<1>6. ASSUME NEW w \in WorkerIds, ThreadAdmitted(w) PROVE TypeOK'
  BY <1>6 DEF ThreadAdmitted, TypeOK, Progress
<1>7. ASSUME NEW w \in WorkerIds, ThreadPosts(w) PROVE TypeOK'
  <2>1. queue' \in [Runtimes -> Seq(Events)]
    BY <1>0, <1>7, EventTypes DEF ThreadPosts, TypeOK
  <2>2. QED
    BY <1>7, <2>1 DEF ThreadPosts, TypeOK, Progress
<1>8. ASSUME NEW t \in Timers, TimerExpires(t) PROVE TypeOK'
  <2> DEFINE r == timer[t][2]
  <2>1. r \in Runtimes
    BY <1>8 DEF TypeOK, TimerStates, TimerExpires
  <2>2. queue' \in [Runtimes -> Seq(Events)]
    BY <1>8, <2>1, EventTypes, PostedTypes DEF TimerExpires
  <2>3. timer' \in [Timers -> TimerStates]
    BY <1>8, <2>1 DEF TimerExpires, TypeOK, TimerStates
  <2>4. QED
    BY <1>8, <2>2, <2>3 DEF TimerExpires, TypeOK
<1>9. ASSUME Dies PROVE TypeOK'
  BY <1>9, DiesTypes
<1>10. ASSUME NEW w \in WorkerIds, RunScript(w) PROVE TypeOK'
  <2>1. queue' \in [Runtimes -> Seq(Events)] /\ running' \in [WorkerIds -> BOOLEAN]
        /\ lateRuns' \subseteq {"message", "reply", "timer", "script"}
    BY <1>0, <1>10, TakesTypes, RunsTypes DEF RunScript
  <2>2. QED
    BY <1>10, <2>1 DEF RunScript, TypeOK, Progress
<1>11. ASSUME NEW w \in WorkerIds, RunMessage(w) PROVE TypeOK'
  <2>1. PICK b \in BOOLEAN : Runs(w, "message", ~released[w] /\ b)
    BY <1>11 DEF RunMessage
  <2>2. queue' \in [Runtimes -> Seq(Events)] /\ running' \in [WorkerIds -> BOOLEAN]
        /\ lateRuns' \subseteq {"message", "reply", "timer", "script"}
    BY <1>0, <1>11, <2>1, TakesTypes, RunsTypes DEF RunMessage
  <2>3. QED
    BY <1>11, <2>2 DEF RunMessage, TypeOK
<1>12. CASE RunReply
  <2>1. PICK b \in BOOLEAN : Runs(Main, "reply", ~released[Main] /\ b)
    BY <1>12 DEF RunReply
  <2>2. queue' \in [Runtimes -> Seq(Events)] /\ running' \in [WorkerIds -> BOOLEAN]
        /\ lateRuns' \subseteq {"message", "reply", "timer", "script"}
    BY <1>0, <1>12, <2>1, TakesTypes, RunsTypes DEF RunReply
  <2>3. QED
    BY <1>12, <2>2 DEF RunReply, TypeOK
<1>13. ASSUME NEW r \in Runtimes, RunTimer(r) PROVE TypeOK'
  <2>1. Fires(r) \in BOOLEAN
    BY DEF Fires
  <2>2. queue' \in [Runtimes -> Seq(Events)] /\ running' \in [WorkerIds -> BOOLEAN]
        /\ lateRuns' \subseteq {"message", "reply", "timer", "script"}
    BY <1>13, <2>1, TakesTypes, RunsTypes DEF RunTimer
  <2>3. timer' \in [Timers -> TimerStates]
    BY <1>13 DEF RunTimer, TypeOK, TimerStates
  <2>4. QED
    BY <1>13, <2>2, <2>3 DEF RunTimer, TypeOK
<1>14. ASSUME NEW w \in WorkerIds, CloseLooks(w) PROVE TypeOK'
  <2>1. queue' \in [Runtimes -> Seq(Events)]
    BY <1>0, <1>14, TakesTypes DEF CloseLooks
  <2>2. QED
    BY <1>14, <2>1, MapSizeTypes DEF CloseLooks, TypeOK
<1>15. ASSUME NEW w \in WorkerIds, RunClose(w) PROVE TypeOK'
  <2>1. released' \in [Runtimes -> BOOLEAN]
    BY <1>15, ArrayTypes, Zenon DEF RunClose, TypeOK
  <2>2. open' \in [Runtimes -> {"none", "open", "closed"}] /\ looked' \in [Runtimes -> Nat \union {None}]
        /\ thrown' \subseteq WorkerIds
    BY <1>15 DEF RunClose, TypeOK
  <2>3. QED
    BY <1>15, <2>1, <2>2 DEF RunClose, TypeOK
<1>16. ASSUME NEW w \in WorkerIds, EndEvent(w) PROVE TypeOK'
  <2>1. running' \in [WorkerIds -> BOOLEAN]
    BY <1>16, Zenon DEF EndEvent, TypeOK
  <2>2. QED
    BY <1>16, <2>1 DEF EndEvent, TypeOK
<1>17. ASSUME NEW closes \in BOOLEAN, MainCloses(closes)
       PROVE  /\ open' \in [Runtimes -> {"none", "open", "closed"}]
              /\ queue' \in [Runtimes -> Seq(Events)] /\ terminate' \in [WorkerIds -> BOOLEAN]
  <2>1. PICK ws \in SUBSET WorkerIds : queue' = ClosePosted(ws) /\ terminate' = Terminated(ws)
    BY <1>17, RegisteredTypes, MainClosesTypes
  <2>2. terminate' \in [WorkerIds -> BOOLEAN]
    BY <2>1, Zenon DEF Terminated
  <2>3. open' \in [Runtimes -> {"none", "open", "closed"}]
    BY <1>17, MainClosesTypes DEF TypeOK
  <2>4. QED
    BY <2>1, <2>2, <2>3, ClosePostedTypes
<1>18. CASE CloseContext
  BY <1>17, <1>18 DEF CloseContext, TypeOK
<1>19. CASE CloseRuntimeLooks
  BY <1>19, MapSizeTypes DEF CloseRuntimeLooks, TypeOK
<1>20. CASE CloseRuntime
  <2>1. ArrayFilled(Main) \in BOOLEAN
    BY DEF ArrayFilled
  <2>2. released' \in [Runtimes -> BOOLEAN]
    BY <1>20, ArrayTypes, Zenon DEF CloseRuntime, TypeOK
  <2>3. looked' \in [Runtimes -> Nat \union {None}]
    BY <1>20 DEF CloseRuntime, TypeOK
  <2>4. QED
    BY <1>17, <1>20, <2>1, <2>2, <2>3 DEF CloseRuntime, TypeOK
<1>21. CASE UNCHANGED vars
  BY <1>21 DEF vars, TypeOK
<1>22. QED
  BY <1>0, <1>1, <1>2, <1>3, <1>4, <1>5, <1>6, <1>7, <1>8, <1>9, <1>10, <1>11, <1>12, <1>13,
     <1>14, <1>15, <1>16, <1>18, <1>19, <1>20, <1>21
  DEF Next, ScriptStep, ThreadStep, WorkerLooperStep, LooperStep, MainLooperStep,
      ThreadThrows, SleepThrows, LooperDies

\* The parameters and the state are of the right type in every reachable state.
THEOREM TypeCorrect == Spec => []TypeOK
<1>1. QED
  BY TypeInit, TypeNext, PTL DEF Spec

-----------------------------------------------------------------------------
(* Callbacks *)

\* CallbacksInTime is not inductive: a message runs JS when its runtime is not released
\* and its context is not closed, which says nothing unless nothing is posted to a
\* worker, or set to go off in it, before its context is made.
LifeInv ==
    /\ \A w \in WorkerIds : open[w] = "none" => queue[w] = <<>> /\ thread[w] = "none"
    /\ \A k \in Tags : workers[k] # None => open[workers[k]] # "none"
    /\ open[Main] # "none"
    /\ \A t \in Timers : timer[t][1] = "asleep" => open[timer[t][2]] # "none"
    /\ CallbacksInTime

LEMMA LifeInit == Init => LifeInv
  BY WorkersAssumption DEF Init, LifeInv, CallbacksInTime, Runtimes, WorkersAssumption

\* A step that registers nothing, that keeps the contexts that were made, and that adds
\* events only to the queues of these.
LEMMA LifeFrame ==
    ASSUME TypeOK, LifeInv, workers' = workers,
           \A r \in Runtimes : open[r] # "none" => open'[r] # "none",
           \A w \in WorkerIds : open[w] = "none" =>
               (queue'[w] = <<>> \/ queue'[w] = queue[w]) /\ thread'[w] = thread[w],
           \A t \in Timers : \/ timer'[t] = timer[t]
                             \/ timer'[t][1] # "asleep"
                             \/ timer'[t][2] \in Runtimes /\ open[timer'[t][2]] # "none",
           lateRuns' \subseteq {"script"}
    PROVE  LifeInv'
<1>1. /\ Main \in Runtimes /\ WorkerIds \subseteq Runtimes
      /\ \A t \in Timers : timer[t][1] = "asleep" => timer[t][2] \in Runtimes
      /\ \A k \in Tags : workers[k] # None => workers[k] \in Runtimes
  <2>1. Main \in Runtimes /\ WorkerIds \subseteq Runtimes
    BY DEF Runtimes
  <2>2. \A t \in Timers : timer[t] \in TimerStates
    BY DEF TypeOK
  <2>3. \A t \in Timers : timer[t][1] = "asleep" => timer[t][2] \in Runtimes
    BY <2>2 DEF TimerStates
  <2>4. \A k \in Tags : workers[k] # None => workers[k] \in Runtimes
    BY <2>1 DEF TypeOK
  <2>5. QED
    BY <2>1, <2>3, <2>4
<1>2. \A t \in Timers : timer'[t][1] = "asleep" => open'[timer'[t][2]] # "none"
  BY <1>1 DEF LifeInv
<1>3. \A w \in WorkerIds : open'[w] = "none" => queue'[w] = <<>> /\ thread'[w] = "none"
  BY <1>1 DEF LifeInv
<1>4. \A k \in Tags : workers'[k] # None => open'[workers'[k]] # "none"
  <2> SUFFICES ASSUME NEW k \in Tags, workers[k] # None PROVE open'[workers[k]] # "none"
    OBVIOUS
  <2>1. workers[k] \in Runtimes /\ open[workers[k]] # "none"
    BY <1>1 DEF LifeInv
  <2>2. QED
    BY <2>1
<1>5. open'[Main] # "none"
  BY <1>1 DEF LifeInv
<1>6. CallbacksInTime'
  BY DEF CallbacksInTime
<1>7. QED
  BY <1>2, <1>3, <1>4, <1>5, <1>6 DEF LifeInv

LEMMA LifeNext == TypeOK /\ LifeInv /\ [Next]_vars => LifeInv'
<1> SUFFICES ASSUME TypeOK, LifeInv, [Next]_vars PROVE LifeInv'
  OBVIOUS
<1> USE WorkersAssumption DEF WorkersAssumption, procVars, workerVars, runtimeVars, closeVars
<1>0. /\ WorkerIds \subseteq Runtimes /\ Main \in Runtimes /\ Main \notin WorkerIds
      /\ Sleepers \subseteq Runtimes
      /\ lateRuns \subseteq {"script"} /\ open[Main] # "none"
      /\ \A w \in WorkerIds : open[w] \in {"none", "open", "closed"}
  BY DEF Runtimes, LifeInv, TypeOK, CallbacksInTime
<1>1. ASSUME NEW w \in WorkerIds, NewWorker(w) PROVE LifeInv'
  <2>1. lateRuns' = lateRuns /\ open' = [open EXCEPT ![w] = "open"]
    BY <1>1 DEF NewWorker
  <2>2. \A k \in Tags : workers'[k] # None => open'[workers'[k]] # "none"
    BY <1>0, <1>1, <2>1 DEF NewWorker, LifeInv, TypeOK, Tag, Tags
  <2>3. \A t \in Timers : timer'[t][1] = "asleep" => open'[timer'[t][2]] # "none"
    BY <1>1, <2>1 DEF NewWorker, LifeInv, TypeOK, TimerStates
  <2>4. /\ \A v \in WorkerIds : open'[v] = "none" => queue'[v] = <<>> /\ thread'[v] = "none"
        /\ open'[Main] # "none"
    BY <1>0, <1>1, <2>1 DEF NewWorker, LifeInv, TypeOK
  <2>5. QED
    BY <1>0, <2>1, <2>2, <2>3, <2>4 DEF LifeInv, CallbacksInTime
<1>2. ASSUME NEW w \in WorkerIds, PostMessage(w) PROVE LifeInv'
  <2>1. \A v \in WorkerIds \ {w} : queue'[v] = queue[v]
    BY <1>0, <1>2 DEF PostMessage, Posted, TypeOK
  <2>2. QED
    BY <1>0, <1>2, <2>1, LifeFrame DEF PostMessage
<1>3. ASSUME NEW w \in WorkerIds, Reply(w) PROVE LifeInv'
  <2>1. \A v \in WorkerIds : queue'[v] = queue[v]
    <3>1. <<"reply", "-">> \in Events
      BY EventTypes
    <3>2. \A v \in WorkerIds : Posted(queue, Main, <<"reply", "-">>)[v] = queue[v]
      BY <1>0, <3>1, PostedTypes
    <3>3. QED
      BY <1>3, <3>2 DEF Reply
  <2>2. QED
    BY <1>0, <1>3, <2>1, LifeFrame DEF Reply
<1>4. ASSUME NEW w \in WorkerIds, Terminate(w) PROVE LifeInv'
  <2>1. \A v \in WorkerIds \ {w} : ClosePosted({w})[v] = queue[v]
    BY <1>0, ClosePostedTypes
  <2>2. QED
    BY <1>0, <1>4, <2>1, LifeFrame DEF Terminate
<1>5. ASSUME NEW r \in Runtimes, NEW t \in Timers, SetTimeout(r, t) PROVE LifeInv'
  <2>1. PICK s \in {<<"asleep", r>>, <<"negative", "-">>} : timer' = [timer EXCEPT ![t] = s]
    BY <1>5 DEF SetTimeout
  <2>2. open[r] # "none"
    BY <1>5 DEF SetTimeout, InScript
  <2>3. \A u \in Timers : timer'[u] = timer[u] \/ timer'[u] = s
    BY <2>1 DEF TypeOK
  <2>4. \A u \in Timers : \/ timer'[u] = timer[u]
                          \/ timer'[u][1] # "asleep"
                          \/ timer'[u][2] \in Runtimes /\ open[timer'[u][2]] # "none"
    BY <2>2, <2>3
  <2>5. QED
    BY <1>0, <1>5, <2>4, LifeFrame DEF SetTimeout
<1>6. ASSUME NEW w \in WorkerIds, ThreadAdmitted(w) PROVE LifeInv'
  <2>1. \A v \in WorkerIds : open[v] = "none" => thread'[v] = thread[v]
    BY <1>6 DEF ThreadAdmitted, LifeInv, TypeOK
  <2>2. QED
    BY <1>0, <1>6, <2>1, LifeFrame DEF ThreadAdmitted
<1>7. ASSUME NEW w \in WorkerIds, ThreadPosts(w) PROVE LifeInv'
  <2>1. \A v \in WorkerIds : open[v] = "none" => thread'[v] = thread[v] /\ queue'[v] = queue[v]
    BY <1>0, <1>7 DEF ThreadPosts, LifeInv, TypeOK
  <2>2. QED
    BY <1>0, <1>7, <2>1, LifeFrame DEF ThreadPosts
<1>8. ASSUME NEW t \in Timers, TimerExpires(t) PROVE LifeInv'
  <2> DEFINE r == timer[t][2]
  <2>1. r \in Runtimes /\ open[r] # "none"
    BY <1>8 DEF TypeOK, TimerStates, TimerExpires, LifeInv
  <2>2. \A s \in Runtimes \ {r} : queue'[s] = queue[s]
    BY <1>8, <2>1, EventTypes, PostedTypes DEF TimerExpires
  <2>3. \A u \in Timers : timer'[u] = timer[u] \/ timer'[u][1] # "asleep"
    BY <1>8 DEF TimerExpires, TypeOK
  <2> HIDE DEF r
  <2>4. QED
    BY <1>0, <1>8, <2>1, <2>2, <2>3, LifeFrame DEF TimerExpires
<1>9. ASSUME Dies PROVE LifeInv'
  <2>1. \A t \in Timers : timer'[t][1] # "asleep"
    BY <1>9 DEF Dies
  <2>2. QED
    BY <1>0, <1>9, <2>1, DiesTypes, LifeFrame DEF Dies
<1>10. ASSUME NEW r \in Runtimes, NEW kind, Takes(r, kind)
       PROVE  \A v \in WorkerIds : open[v] = "none" => queue'[v] = queue[v]
  BY <1>0, <1>10, TakesTypes DEF LifeInv
<1>11. ASSUME NEW w \in WorkerIds, RunScript(w) PROVE LifeInv'
  <2>1. open[w] # "none"
    BY <1>0, <1>11, TakesTypes DEF RunScript, LifeInv
  <2>2. lateRuns' \subseteq {"script"}
    BY <1>0, <1>11, RunsTypes DEF RunScript
  <2>3. \A v \in WorkerIds : open[v] = "none" => thread'[v] = thread[v]
    BY <1>11, <2>1 DEF RunScript, TypeOK
  <2>4. QED
    BY <1>0, <1>10, <1>11, <2>2, <2>3, LifeFrame DEF RunScript
<1>12. ASSUME NEW w \in WorkerIds, RunMessage(w) PROVE LifeInv'
  <2>1. PICK b \in BOOLEAN : Runs(w, "message", ~released[w] /\ b)
    BY <1>12 DEF RunMessage
  <2>2. open[w] # "none"
    BY <1>0, <1>12, TakesTypes DEF RunMessage, LifeInv
  <2>3. released[w] \/ open[w] = "open"
    BY <1>0, <1>12, <2>2 DEF RunMessage, Disposed
  <2>4. lateRuns' = {}
    BY <1>0, <2>1, <2>3, RunsTypes
  <2>5. QED
    BY <1>0, <1>10, <1>12, <2>4, LifeFrame DEF RunMessage
<1>13. CASE RunReply
  <2>1. PICK b \in BOOLEAN : Runs(Main, "reply", ~released[Main] /\ b)
    BY <1>13 DEF RunReply
  <2>2. released[Main] \/ open[Main] = "open"
    BY <1>0, <1>13 DEF RunReply, Disposed, TypeOK
  <2>3. lateRuns' = {}
    BY <1>0, <2>1, <2>2, RunsTypes
  <2>4. QED
    BY <1>0, <1>10, <1>13, <2>3, LifeFrame DEF RunReply
<1>14. ASSUME NEW r \in Runtimes, RunTimer(r) PROVE LifeInv'
  <2>1. Fires(r) \in BOOLEAN /\ (Fires(r) => open[r] = "open")
    BY DEF Fires
  <2>2. lateRuns' = {}
    BY <1>14, <2>1, RunsTypes DEF RunTimer
  <2>3. \A u \in Timers : timer'[u] = timer[u] \/ timer'[u][1] # "asleep"
    BY <1>14 DEF RunTimer, TypeOK
  <2>4. QED
    BY <1>0, <1>10, <1>14, <2>2, <2>3, LifeFrame DEF RunTimer
<1>15. ASSUME NEW w \in WorkerIds, CloseLooks(w) PROVE LifeInv'
  BY <1>0, <1>10, <1>15, LifeFrame DEF CloseLooks
<1>16. ASSUME NEW w \in WorkerIds, RunClose(w) PROVE LifeInv'
  <2>1. \A r \in Runtimes : open[r] # "none" => open'[r] # "none"
    BY <1>0, <1>16 DEF RunClose, TypeOK
  <2>2. QED
    BY <1>0, <1>16, <2>1, LifeFrame DEF RunClose
<1>17. ASSUME NEW w \in WorkerIds, EndEvent(w) PROVE LifeInv'
  BY <1>0, <1>17, LifeFrame DEF EndEvent
<1>18. ASSUME NEW closes \in BOOLEAN, MainCloses(closes)
       PROVE  /\ \A r \in Runtimes : open[r] # "none" => open'[r] # "none"
              /\ \A v \in WorkerIds : open[v] = "none" => queue'[v] = queue[v]
  <2>1. PICK ws \in SUBSET Registered : queue' = ClosePosted(ws)
    BY <1>18, MainClosesTypes
  <2>2. \A v \in WorkerIds : open[v] = "none" => v \notin ws
    BY DEF LifeInv, Registered
  <2>3. open' = [open EXCEPT ![Main] = IF closes THEN "closed" ELSE @]
    BY <1>18, MainClosesTypes
  <2>4. \A r \in Runtimes : open[r] # "none" => open'[r] # "none"
    BY <2>3 DEF TypeOK
  <2>5. QED
    BY <1>0, <2>1, <2>2, <2>4, RegisteredTypes, ClosePostedTypes
<1>19. CASE CloseContext
  BY <1>0, <1>18, <1>19, LifeFrame DEF CloseContext
<1>20. CASE CloseRuntimeLooks
  BY <1>0, <1>20, LifeFrame DEF CloseRuntimeLooks
<1>21. CASE CloseRuntime
  <2>1. ArrayFilled(Main) \in BOOLEAN
    BY DEF ArrayFilled
  <2>2. QED
    BY <1>0, <1>18, <1>21, <2>1, LifeFrame DEF CloseRuntime
<1>22. CASE UNCHANGED vars
  BY <1>0, <1>22, LifeFrame DEF vars
<1>23. QED
  BY <1>0, <1>1, <1>2, <1>3, <1>4, <1>5, <1>6, <1>7, <1>8, <1>9, <1>11, <1>12, <1>13,
     <1>14, <1>15, <1>16, <1>17, <1>19, <1>20, <1>21, <1>22
  DEF Next, ScriptStep, ThreadStep, WorkerLooperStep, LooperStep, MainLooperStep,
      ThreadThrows, SleepThrows, LooperDies

\* However many workers and timers there are and whatever is closed meanwhile, no
\* callback of a timer, message to a worker or reply runs JS in a context that is not
\* open.
THEOREM NoLateCallback == Spec => []CallbacksInTime
<1>1. LifeInv => CallbacksInTime
  BY DEF LifeInv
<1>2. QED
  BY TypeInit, TypeNext, LifeInit, LifeNext, <1>1, PTL DEF Spec

-----------------------------------------------------------------------------
(* Closing *)

\* The close of w has left the queue: it is at work, or has ended one way or the other.
CloseBegun(w) == looked[w] # None \/ released[w] \/ w \in thrown

\* What holds of the queue q of a worker that was asked to terminate or not, and whose
\* close has begun or not.  OrderlyClose needs more than it says: that a close waits
\* only after Worker.close has set its flag, that no early message stands behind it,
\* and that none is left already when QuickJS.close begins.
Orderly(q, asked, begun) ==
    /\ \A i \in DOMAIN q : q[i] = Close => asked /\ ~begun
    /\ begun => asked /\ \A i \in DOMAIN q : q[i] # Early
    /\ \A i, j \in DOMAIN q : i < j /\ q[i] = Close => q[j] # Close /\ q[j] # Early

LEMMA CloseBegunTypes == TypeOK => \A w \in WorkerIds : CloseBegun(w) \in BOOLEAN
  BY DEF TypeOK, CloseBegun, Runtimes

OrderlyInv == \A w \in WorkerIds : Orderly(queue[w], terminate[w], CloseBegun(w))

\* An event that is no close, and no early message once the worker was asked to
\* terminate, may be added.
LEMMA AppendOrderly ==
    ASSUME NEW q \in Seq(Events), NEW e \in Events, NEW asked \in BOOLEAN, NEW begun \in BOOLEAN,
           Orderly(q, asked, begun), e # Close, e = Early => ~asked
    PROVE  Orderly(Append(q, e), asked, begun)
<1>1. /\ DOMAIN Append(q, e) = 1 .. Len(q) + 1 /\ DOMAIN q = 1 .. Len(q) /\ Len(q) \in Nat
      /\ \A i \in 1 .. Len(q) : Append(q, e)[i] = q[i]
      /\ Append(q, e)[Len(q) + 1] = e
  OBVIOUS
<1>2. \A i \in 1 .. Len(q) + 1 : i \in 1 .. Len(q) \/ i = Len(q) + 1
  BY <1>1
<1> DEFINE a == Append(q, e)
<1> HIDE DEF a
<1>3. QED
  BY <1>1, <1>2 DEF Orderly, a

\* The first close may be added.
LEMMA CloseOrderly ==
    ASSUME NEW q \in Seq(Events), Orderly(q, FALSE, FALSE)
    PROVE  Orderly(Append(q, Close), TRUE, FALSE)
<1>1. /\ DOMAIN Append(q, Close) = 1 .. Len(q) + 1 /\ DOMAIN q = 1 .. Len(q) /\ Len(q) \in Nat
      /\ \A i \in 1 .. Len(q) : Append(q, Close)[i] = q[i]
  OBVIOUS
<1>2. \A i, j \in 1 .. Len(q) + 1 : i < j => i \in 1 .. Len(q)
  BY <1>1
<1>3. QED
  BY <1>1, <1>2 DEF Orderly

LEMMA TailIndices ==
    ASSUME NEW q \in Seq(Events), q # <<>>
    PROVE  /\ \A i \in DOMAIN Tail(q) : i + 1 \in DOMAIN q /\ Tail(q)[i] = q[i + 1] /\ 1 < i + 1
           /\ \A i, j \in DOMAIN Tail(q) : i < j => i + 1 < j + 1
           /\ 1 \in DOMAIN q /\ Head(q) = q[1]
  OBVIOUS

\* Taking an event from the queue keeps it orderly ...
LEMMA TailOrderly ==
    ASSUME NEW q \in Seq(Events), q # <<>>, NEW asked \in BOOLEAN, NEW begun \in BOOLEAN,
           Orderly(q, asked, begun)
    PROVE  Orderly(Tail(q), asked, begun)
  BY TailIndices DEF Orderly

\* ... and a close that is taken begins.
LEMMA BeginOrderly ==
    ASSUME NEW q \in Seq(Events), q # <<>>, Head(q) = Close,
           NEW asked \in BOOLEAN, NEW begun \in BOOLEAN, Orderly(q, asked, begun)
    PROVE  Orderly(Tail(q), asked, TRUE)
  BY TailIndices DEF Orderly

\* Terminating workers: each of them is asked, and gets a close if it was not before.
LEMMA TerminateOrderly ==
    ASSUME TypeOK, OrderlyInv, NEW ws \in SUBSET WorkerIds,
           queue' = ClosePosted(ws), terminate' = Terminated(ws),
           \A w \in WorkerIds : CloseBegun(w)' = CloseBegun(w)
    PROVE  OrderlyInv'
<1> SUFFICES ASSUME NEW w \in WorkerIds
             PROVE  Orderly(queue'[w], terminate'[w], CloseBegun(w)')
  BY DEF OrderlyInv
<1>1. /\ Orderly(queue[w], terminate[w], CloseBegun(w)) /\ CloseBegun(w)' = CloseBegun(w)
      /\ queue[w] \in Seq(Events) /\ terminate[w] \in BOOLEAN /\ CloseBegun(w) \in BOOLEAN
  BY CloseBegunTypes DEF OrderlyInv, TypeOK, Runtimes
<1>2. terminate'[w] = (terminate[w] \/ w \in ws)
  BY DEF Terminated
<1>3. queue'[w] = IF w \in ws /\ ~terminate[w] /\ ~released[w]
                  THEN Append(queue[w], Close) ELSE queue[w]
  BY ClosePostedTypes DEF Runtimes
<1>4. CASE w \in ws /\ ~terminate[w]
  <2>1. ~CloseBegun(w)
    BY <1>1, <1>4 DEF Orderly
  <2>2. terminate[w] = FALSE /\ CloseBegun(w) = FALSE /\ terminate'[w] = TRUE
    BY <1>1, <1>2, <1>4, <2>1
  <2>3. queue'[w] = Append(queue[w], Close)
    BY <1>3, <1>4, <2>1 DEF CloseBegun
  <2>4. QED
    BY <1>1, <2>2, <2>3, CloseOrderly
<1>5. CASE ~(w \in ws /\ ~terminate[w])
  <2>1. queue'[w] = queue[w] /\ terminate'[w] = terminate[w]
    BY <1>1, <1>2, <1>3, <1>5
  <2>2. QED
    BY <1>1, <2>1
<1>6. QED
  BY <1>4, <1>5

LEMMA OrderlyInit == Init => OrderlyInv
  BY DEF Init, OrderlyInv, Orderly, CloseBegun, Runtimes

\* A step that asks nothing to terminate and takes no close further: an event is added to one
\* queue or taken from one, or none.
LEMMA OrderlyFrame ==
    ASSUME TypeOK, OrderlyInv, UNCHANGED <<released, closeVars, terminate>>,
           \A w \in WorkerIds :
              \/ queue'[w] = queue[w]
              \/ \E e \in Events : /\ e # Close /\ (e = Early => ~terminate[w])
                                   /\ queue'[w] = Append(queue[w], e)
              \/ queue[w] # <<>> /\ queue'[w] = Tail(queue[w])
    PROVE  OrderlyInv'
<1> SUFFICES ASSUME NEW w \in WorkerIds
             PROVE  Orderly(queue'[w], terminate[w], CloseBegun(w))
  BY DEF OrderlyInv, CloseBegun, closeVars
<1>1. /\ Orderly(queue[w], terminate[w], CloseBegun(w))
      /\ queue[w] \in Seq(Events) /\ terminate[w] \in BOOLEAN /\ CloseBegun(w) \in BOOLEAN
  BY CloseBegunTypes DEF OrderlyInv, TypeOK, Runtimes
<1>2. QED
  BY <1>1, AppendOrderly, TailOrderly

LEMMA OrderlyNext == TypeOK /\ OrderlyInv /\ [Next]_vars => OrderlyInv'
<1> SUFFICES ASSUME TypeOK, OrderlyInv, [Next]_vars PROVE OrderlyInv'
  OBVIOUS
<1> USE WorkersAssumption DEF WorkersAssumption, procVars, workerVars, runtimeVars, closeVars
<1>0. /\ WorkerIds \subseteq Runtimes /\ Main \in Runtimes /\ Main \notin WorkerIds
      /\ \A e \in Events : e[1] # "close" => e # Close
      /\ \A e \in Events : e[1] # "message" => e # Early
  BY DEF Runtimes, Close, Early
<1>1. ASSUME NEW r \in Runtimes, NEW e \in Events, queue' = Posted(queue, r, e),
             e # Close, r \in WorkerIds => (e = Early => ~terminate[r]),
             UNCHANGED <<released, closeVars, terminate>>
      PROVE  OrderlyInv'
  <2>1. \A w \in WorkerIds : \/ queue'[w] = queue[w]
                             \/ w = r /\ queue'[w] = Append(queue[w], e)
    <3>1. /\ \A s \in Runtimes \ {r} : queue'[s] = queue[s]
          /\ queue'[r] = queue[r] \/ queue'[r] = Append(queue[r], e)
      BY <1>1, PostedTypes
    <3>2. QED
      BY <1>0, <3>1
  <2>2. QED
    BY <1>1, <2>1, OrderlyFrame
<1>2. ASSUME NEW r \in Runtimes, NEW kind, Takes(r, kind), UNCHANGED <<released, closeVars, terminate>>
      PROVE  OrderlyInv'
  <2>1. \A w \in WorkerIds : \/ queue'[w] = queue[w]
                             \/ queue[w] # <<>> /\ queue'[w] = Tail(queue[w])
    BY <1>0, <1>2, TakesTypes
  <2>2. QED
    BY <1>2, <2>1, OrderlyFrame
<1>3. ASSUME UNCHANGED <<queue, released, closeVars, terminate>> PROVE OrderlyInv'
  BY <1>3, OrderlyFrame
<1>4. ASSUME NEW w \in WorkerIds, PostMessage(w) PROVE OrderlyInv'
  <2>1. PICK e \in {Early, <<"message", "late">>} :
             queue' = Posted(queue, w, e) /\ (e = Early => ~terminate[w])
    BY <1>4 DEF PostMessage, Early
  <2>2. e \in Events /\ e # Close
    BY EventTypes DEF Early, Close
  <2>3. QED
    BY <1>0, <1>1, <1>4, <2>1, <2>2 DEF PostMessage
<1>5. ASSUME NEW w \in WorkerIds, Reply(w) PROVE OrderlyInv'
  <2>1. <<"reply", "-">> \in Events /\ <<"reply", "-">> # Close
    BY EventTypes DEF Close
  <2>2. QED
    BY <1>0, <1>1, <1>5, <2>1 DEF Reply
<1>6. ASSUME NEW w \in WorkerIds, Terminate(w) PROVE OrderlyInv'
  BY <1>6, TerminateOrderly DEF Terminate, CloseBegun
<1>7. ASSUME NEW w \in WorkerIds, ThreadPosts(w) PROVE OrderlyInv'
  <2>1. <<"script", "-">> \in Events /\ <<"script", "-">> # Close /\ <<"script", "-">> # Early
    BY EventTypes DEF Close, Early
  <2>2. \A v \in WorkerIds : \/ queue'[v] = queue[v]
                             \/ queue'[v] = Append(queue[v], <<"script", "-">>)
    BY <1>0, <1>7 DEF ThreadPosts, TypeOK
  <2>3. QED
    BY <1>7, <2>1, <2>2, OrderlyFrame DEF ThreadPosts
<1>8. ASSUME NEW t \in Timers, TimerExpires(t) PROVE OrderlyInv'
  <2>1. <<"timer", t>> \in Events /\ <<"timer", t>> # Close /\ <<"timer", t>> # Early
    BY EventTypes DEF Close, Early
  <2>2. timer[t][2] \in Runtimes
    BY <1>8 DEF TypeOK, TimerStates, TimerExpires
  <2>3. QED
    BY <1>1, <1>8, <2>1, <2>2 DEF TimerExpires
<1>9. ASSUME NEW w \in WorkerIds, CloseLooks(w) PROVE OrderlyInv'
  <2>1. Takes(w, "close") /\ looked' = [looked EXCEPT ![w] = MapSize]
        /\ UNCHANGED <<terminate, released, thrown>>
    BY <1>9 DEF CloseLooks
  <2>2. /\ Head(queue[w]) = Close /\ queue[w] # <<>> /\ queue'[w] = Tail(queue[w])
        /\ \A v \in WorkerIds \ {w} : queue'[v] = queue[v]
    BY <1>0, <2>1, TakesTypes, EventTypes
  <2>3. /\ queue[w] \in Seq(Events) /\ terminate[w] \in BOOLEAN /\ CloseBegun(w) \in BOOLEAN
        /\ Orderly(queue[w], terminate[w], CloseBegun(w))
    BY <1>0 DEF TypeOK, OrderlyInv, CloseBegun
  <2>4. Orderly(queue'[w], terminate'[w], TRUE)
    BY <2>1, <2>2, <2>3, BeginOrderly
  <2>5. CloseBegun(w)' = TRUE /\ \A v \in WorkerIds \ {w} : CloseBegun(v)' = CloseBegun(v)
    BY <1>0, <2>1, MapSizeTypes DEF TypeOK, CloseBegun
  <2>6. QED
    BY <2>1, <2>2, <2>4, <2>5 DEF OrderlyInv
<1>10. ASSUME NEW w \in WorkerIds, RunClose(w) PROVE OrderlyInv'
  <2>1. /\ looked[w] # None /\ UNCHANGED <<queue, terminate>>
        /\ released' = [released EXCEPT ![w] = ArrayFits(w)]
        /\ looked' = [looked EXCEPT ![w] = None]
        /\ thrown' = IF ArrayFits(w) THEN thrown ELSE thrown \union {w}
    BY <1>10 DEF RunClose
  <2>2. CloseBegun(w) = TRUE /\ CloseBegun(w)' = TRUE
    BY <1>0, <2>1 DEF CloseBegun, TypeOK, ArrayFits
  <2>3. \A v \in WorkerIds \ {w} : CloseBegun(v)' = CloseBegun(v)
    BY <1>0, <2>1 DEF CloseBegun, TypeOK
  <2>4. QED
    BY <2>1, <2>2, <2>3 DEF OrderlyInv
<1>11. ASSUME NEW closes \in BOOLEAN, MainCloses(closes),
              \A w \in WorkerIds : CloseBegun(w)' = CloseBegun(w)
       PROVE  OrderlyInv'
  <2>1. PICK ws \in SUBSET WorkerIds : queue' = ClosePosted(ws) /\ terminate' = Terminated(ws)
    BY <1>11, RegisteredTypes, MainClosesTypes
  <2>2. QED
    BY <1>11, <2>1, TerminateOrderly
<1>12. CloseContext => OrderlyInv'
  BY <1>11 DEF CloseContext, CloseBegun
<1>13. CloseRuntimeLooks => OrderlyInv'
  <2> SUFFICES ASSUME CloseRuntimeLooks PROVE OrderlyInv'
    OBVIOUS
  <2>1. \A w \in WorkerIds : CloseBegun(w)' = CloseBegun(w)
    BY <1>0 DEF CloseRuntimeLooks, CloseBegun, TypeOK
  <2>2. QED
    BY <2>1 DEF CloseRuntimeLooks, OrderlyInv
<1>14. CloseRuntime => OrderlyInv'
  <2> SUFFICES ASSUME CloseRuntime PROVE OrderlyInv'
    OBVIOUS
  <2>1. \A w \in WorkerIds : CloseBegun(w)' = CloseBegun(w)
    BY <1>0 DEF CloseRuntime, CloseBegun, TypeOK
  <2>2. ArrayFilled(Main) \in BOOLEAN
    BY DEF ArrayFilled
  <2>3. QED
    BY <1>11, <2>1, <2>2 DEF CloseRuntime
<1>15. ASSUME Dies PROVE OrderlyInv'
  <2>1. \A w \in WorkerIds : CloseBegun(w)' = CloseBegun(w) /\ terminate'[w] = terminate[w]
    BY <1>15 DEF Dies, CloseBegun
  <2>2. \A w \in WorkerIds : queue'[w] = <<>>
    BY <1>0, <1>15, DiesTypes
  <2>3. QED
    BY <2>1, <2>2 DEF OrderlyInv, Orderly
<1>16. \A w \in WorkerIds : NewWorker(w) \/ ThreadAdmitted(w) \/ EndEvent(w) => OrderlyInv'
  BY <1>3 DEF NewWorker, ThreadAdmitted, EndEvent
<1>17. \A r \in Runtimes, t \in Timers : SetTimeout(r, t) => OrderlyInv'
  BY <1>3 DEF SetTimeout
<1>18. \A w \in WorkerIds : RunScript(w) \/ RunMessage(w) => OrderlyInv'
  BY <1>0, <1>2 DEF RunScript, RunMessage
<1>19. \A r \in Runtimes : RunTimer(r) => OrderlyInv'
  BY <1>2 DEF RunTimer
<1>20. RunReply => OrderlyInv'
  BY <1>0, <1>2 DEF RunReply
<1>21. UNCHANGED vars => OrderlyInv'
  BY <1>3 DEF vars
<1>22. Sleepers \subseteq Runtimes
  BY DEF Runtimes
<1>23. QED
  BY <1>0, <1>4, <1>5, <1>6, <1>7, <1>8, <1>9, <1>10, <1>12, <1>13, <1>14, <1>15, <1>16,
     <1>17, <1>18, <1>19, <1>20, <1>21, <1>22
  DEF Next, ScriptStep, ThreadStep, WorkerLooperStep, LooperStep, MainLooperStep,
      ThreadThrows, SleepThrows, LooperDies

LEMMA OrderlyEnough == TypeOK /\ OrderlyInv => OrderlyClose
<1> SUFFICES ASSUME TypeOK, OrderlyInv, NEW w \in WorkerIds
             PROVE  LET closes == {i \in DOMAIN queue[w] : queue[w][i] = Close} IN
                    /\ Cardinality(closes) <= 1
                    /\ released[w] => closes = {} /\ Early \notin Range(queue[w])
  BY DEF OrderlyClose, Close, Early
<1> DEFINE closes == {i \in DOMAIN queue[w] : queue[w][i] = Close}
<1>1. Orderly(queue[w], terminate[w], CloseBegun(w)) /\ queue[w] \in Seq(Events)
  BY DEF OrderlyInv, TypeOK, Runtimes
<1>2. DOMAIN queue[w] \subseteq Nat
  BY <1>1
<1>3. \A i, j \in closes : i = j
  BY <1>1, <1>2 DEF Orderly
<1>4. closes = {} \/ \E i : closes = {i}
  BY <1>3
<1>5. Cardinality(closes) <= 1
  <2>1. CASE closes = {}
    BY <2>1, FS_EmptySet
  <2>2. ASSUME NEW i, closes = {i} PROVE Cardinality(closes) <= 1
    BY <2>2, FS_Singleton
  <2>3. QED
    BY <1>4, <2>1, <2>2
<1>6. released[w] => closes = {} /\ Early \notin Range(queue[w])
  BY <1>1 DEF Orderly, CloseBegun, Range
<1>7. QED
  BY <1>5, <1>6

\* A worker's runtime is asked to close at most once, whichever of terminate() and the
\* plugin comes first, and every message sent before that is taken before it is released.
THEOREM ClosedInOrder == Spec => []OrderlyClose
<1>1. QED
  BY TypeInit, TypeNext, OrderlyInit, OrderlyNext, OrderlyEnough, PTL DEF Spec
=============================================================================
