------------------------- MODULE ReentrancyCheckProofs -------------------------
(***************************************************************************)
(* Proofs about ReentrancyCheck for any set of threads and any nesting.    *)
(***************************************************************************)
EXTENDS ReentrancyCheck, TLAPS

\* tid is the thread in the VM.
OwnerIsIn == \A t \in Threads : InVM(t) => tid = t

\* depth counts the open calls of the thread in the VM, and is 0 when no
\* thread is.
DepthCounts ==
    /\ tid = None => depth = 0
    /\ \A t \in Threads : tid = t => depth = calls[t]

\* Where a thread is says whether it has open calls, and between before()'s
\* increment and after()'s last step it was the last to write depth.
Places ==
    \A t \in Threads :
        /\ pc[t] \in {"taken", "clearing"} => calls[t] = 0
        /\ pc[t] \in {"again", "leaving"} => calls[t] > 0
        /\ pc[t] \in {"taken", "again"} => calls[t] < MaxDepth
        /\ calls[t] > 0 => last = t

\* With turns, only the thread whose turn it is is in the VM.
Turns == queued => ~crashed /\ \A t \in Threads : InVM(t) => turn = t

\* tid is a thread only while that thread is in the VM.
OwnerStays == tid # None => InVM(tid)

IInv == TypeOK /\ OwnerIsIn /\ OwnerStays /\ DepthCounts /\ Places /\ Turns

LEMMA InitInv == Init => IInv
<1> SUFFICES ASSUME Init PROVE IInv
  OBVIOUS
<1> USE ThreadsAssumption, DepthAssumption DEF ThreadsAssumption, DepthAssumption, Init
<1>1. TypeOK
  <2>1. queued \in BOOLEAN /\ crashed \in BOOLEAN
    OBVIOUS
  <2>2. depth \in 0..MaxDepth /\ calls \in [Threads -> 0..MaxDepth]
    OBVIOUS
  <2>3. turn = None /\ tid = None /\ last = None
    OBVIOUS
  <2>4. pc \in [Threads -> {"rest", "taken", "again", "leaving", "clearing"}]
    OBVIOUS
  <2> HIDE DEF Init
  <2> QED BY <2>1, <2>2, <2>3, <2>4, Zenon DEF TypeOK
<1>2. \A t \in Threads : ~InVM(t)
  <2> TAKE t \in Threads
  <2>1. calls[t] = 0 /\ pc[t] = "rest"
    BY Zenon
  <2> HIDE DEF Init
  <2>2. ~(calls[t] > 0)
    BY <2>1
  <2> QED BY <2>1, <2>2, Zenon DEF InVM
<1>3. Turns
  <2>1. ~crashed
    OBVIOUS
  <2> QED BY <1>2, <2>1 DEF Turns
<1>4. OwnerIsIn /\ OwnerStays
  BY <1>2 DEF OwnerIsIn, OwnerStays
<1>5. DepthCounts /\ Places
  BY DEF DepthCounts, Places
<1> QED BY <1>1, <1>3, <1>4, <1>5 DEF IInv

\* The read of depth in after() and of a nested before() returns what the
\* thread itself wrote.
LEMMA OwnRead ==
    ASSUME IInv, NEW t \in Threads, pc[t] \in {"again", "leaving"}
    PROVE  Visible(t) = {depth}
  BY DEF IInv, Places, Visible

\* A step of one thread, in which it is in the VM before and after or the
\* VM was free, leaves the others where they are.
LEMMA StepInv ==
    ASSUME IInv, NEW t \in Threads,
           \/ TakeTurn(t) \/ EndTurn(t)
           \/ BeforeTakes(t) \/ BeforeAgain(t) \/ BeforeTraps(t) \/ BeforeCounts(t)
           \/ AfterLoads(t) \/ AfterCounts(t) \/ AfterClears(t)
    PROVE  IInv'
<1> USE ThreadsAssumption, DepthAssumption DEF ThreadsAssumption, DepthAssumption
<1>1. CASE TakeTurn(t)
  BY <1>1 DEF IInv, TypeOK, OwnerIsIn, OwnerStays, DepthCounts, Places, Turns, InVM, TakeTurn
<1>2. CASE EndTurn(t)
  BY <1>2 DEF IInv, TypeOK, OwnerIsIn, OwnerStays, DepthCounts, Places, Turns, InVM, EndTurn
<1>3. CASE BeforeTakes(t)
  BY <1>3 DEF IInv, TypeOK, OwnerIsIn, OwnerStays, DepthCounts, Places, Turns, InVM,
              BeforeTakes, MayCall, TakesOver, Goto
<1>4. CASE BeforeAgain(t)
  BY <1>4 DEF IInv, TypeOK, OwnerIsIn, OwnerStays, DepthCounts, Places, Turns, InVM,
              BeforeAgain, MayCall, Goto
<1>5. CASE BeforeTraps(t)
  BY <1>5 DEF IInv, TypeOK, OwnerIsIn, OwnerStays, DepthCounts, Places, Turns, InVM,
              BeforeTraps, MayCall, Crash
<1>6. CASE BeforeCounts(t)
  <2>1. PICK d \in Visible(t) :
           IF AssertsIn(t, d)
           THEN /\ depth' = d + 1
                /\ last' = t
                /\ calls' = [calls EXCEPT ![t] = @ + 1]
                /\ pc' = [pc EXCEPT ![t] = "rest"]
                /\ UNCHANGED <<queued, turn, tid, crashed>>
           ELSE Crash
    BY <1>6 DEF BeforeCounts, Incremented, Goto
  <2>2. tid = t /\ depth = calls[t] /\ pc[t] \in {"taken", "again"} /\ calls[t] < MaxDepth
    BY <1>6 DEF IInv, OwnerIsIn, DepthCounts, Places, InVM, BeforeCounts
  <2>3. pc[t] = "taken" => calls[t] = 0
    BY DEF IInv, Places
  <2>4. pc[t] = "again" => calls[t] > 0 /\ d = depth
    BY OwnRead DEF IInv, Places
  <2>5. CASE AssertsIn(t, d)
    <3>1. d = depth
      BY <2>2, <2>3, <2>4, <2>5 DEF AssertsIn
    <3> QED
      BY <2>1, <2>2, <2>5, <3>1
      DEF IInv, TypeOK, OwnerIsIn, OwnerStays, DepthCounts, Places, Turns, InVM
  <2>6. CASE ~AssertsIn(t, d)
    <3>1. ~queued
      <4> SUFFICES ASSUME queued PROVE FALSE
        OBVIOUS
      <4>1. d = depth
        BY DEF Visible
      <4> QED BY <2>2, <2>3, <2>4, <2>6, <4>1 DEF AssertsIn, IInv, TypeOK
    <3>2. Crash
      BY <2>1, <2>6
    <3> QED
      BY <3>1, <3>2
      DEF IInv, TypeOK, OwnerIsIn, OwnerStays, DepthCounts, Places, Turns, InVM, Crash
  <2> QED BY <2>5, <2>6
<1>7. CASE AfterLoads(t)
  BY <1>7 DEF IInv, TypeOK, OwnerIsIn, OwnerStays, DepthCounts, Places, Turns, InVM,
              AfterLoads, Goto, Crash
<1>8. CASE AfterCounts(t)
  BY <1>8, OwnRead DEF IInv, TypeOK, OwnerIsIn, OwnerStays, DepthCounts, Places, Turns, InVM,
              AfterCounts, LastOut, Goto
<1>9. CASE AfterClears(t)
  BY <1>9 DEF IInv, TypeOK, OwnerIsIn, OwnerStays, DepthCounts, Places, Turns, InVM,
              AfterClears, Goto, Crash
<1> QED BY <1>1, <1>2, <1>3, <1>4, <1>5, <1>6, <1>7, <1>8, <1>9

\* The invariant of the checker: tid names the thread in the VM, depth counts
\* its open calls, and with turns it is the thread whose turn it is.
THEOREM Inductive == Spec => []IInv
<1>1. IInv /\ [Next]_vars => IInv'
  <2> SUFFICES ASSUME IInv, [Next]_vars PROVE IInv'
    OBVIOUS
  <2>1. CASE Next BY <2>1, StepInv DEF Next
  <2>2. CASE UNCHANGED vars
    BY <2>2 DEF vars, IInv, TypeOK, OwnerIsIn, OwnerStays, DepthCounts, Places, Turns, InVM
  <2> QED BY <2>1, <2>2
<1> QED BY InitInv, <1>1, PTL DEF Spec

\* For any number of threads and any nesting, the members keep their types:
\* in particular depth is never decremented below zero.
THEOREM TypeCorrect == Spec => []TypeOK
<1>1. IInv => TypeOK BY DEF IInv
<1> QED BY Inductive, <1>1, PTL

\* No two threads are ever in the VM, whether or not the callers synchronise
\* and whatever an unordered read of depth returns.
THEOREM NeverTwoInVM == Spec => []NoOverlap
<1>1. IInv => NoOverlap BY DEF IInv, OwnerIsIn, NoOverlap
<1> QED BY Inductive, <1>1, PTL

\* Callers that take turns never meet the trap or a failing assert.
THEOREM TurnsAreSafe == Spec => []NoFalseAlarm
<1>1. IInv => NoFalseAlarm BY DEF IInv, Turns, NoFalseAlarm
<1> QED BY Inductive, <1>1, PTL

\* The plain integer depth is accessed by the thread stored in tid only.
THEOREM DepthIsPrivate == Spec => []DepthOfOwner
<1>1. IInv => DepthOfOwner BY DEF IInv, OwnerIsIn, InVM, DepthOfOwner
<1> QED BY Inductive, <1>1, PTL
=============================================================================
