---------------------------- MODULE ReentrancyCheck ----------------------------
(***************************************************************************)
(* The ReentrancyCheck that decorates the Hermes runtime                   *)
(* (HermesExecutorFactory.cpp).  Every call into the VM is surrounded by   *)
(* before() and after(), which keep the thread that is in the VM in tid    *)
(* (atomic, relaxed) and the number of its open calls in depth (a plain    *)
(* integer).  Calls nest, because host functions call the VM again.        *)
(*                                                                         *)
(* Each access to tid or depth is a step.  The threads either take turns   *)
(* on a message queue (queued), which also makes the writes of one turn    *)
(* visible to the next, or call whenever they like.  In the second case    *)
(* nothing orders the accesses of two threads to depth, so that the first  *)
(* access after taking tid over from another thread may read any value.    *)
(***************************************************************************)
EXTENDS Integers

CONSTANTS
    Threads,    \* the threads that hold the runtime
    None,       \* std::thread::id(): no thread
    MaxDepth    \* bound: nested calls of a thread

ASSUME ThreadsAssumption == None \notin Threads
ASSUME DepthAssumption == MaxDepth \in Nat \ {0}

VARIABLES
    queued,     \* whether the threads take turns on the message queue
    turn,       \* the thread whose turn it is, None between turns
    tid, depth, \* the members of ReentrancyCheck
    last,       \* the thread that wrote depth last (None: the constructor)
    calls,      \* calls[t]: the open calls of thread t
    pc,         \* where thread t is within before() or after()
    crashed     \* a trap or a failed assert has ended the process

vars == <<queued, turn, tid, depth, last, calls, pc, crashed>>

Init ==
    /\ queued \in BOOLEAN
    /\ turn = None
    /\ tid = None
    /\ depth = 0
    /\ last = None
    /\ calls = [t \in Threads |-> 0]
    /\ pc = [t \in Threads |-> "rest"]
    /\ crashed = FALSE

Goto(t, l) == pc' = [pc EXCEPT ![t] = l]

Crash == crashed' = TRUE /\ UNCHANGED <<queued, turn, tid, depth, last, calls, pc>>

\* The message queue thread runs its jobs one after the other.
TakeTurn(t) ==
    /\ queued /\ ~crashed /\ turn = None
    /\ turn' = t
    /\ UNCHANGED <<queued, tid, depth, last, calls, pc, crashed>>

EndTurn(t) ==
    /\ queued /\ ~crashed /\ turn = t
    /\ pc[t] = "rest" /\ calls[t] = 0
    /\ turn' = None
    /\ UNCHANGED <<queued, tid, depth, last, calls, pc, crashed>>

MayCall(t) ==
    /\ ~crashed /\ pc[t] = "rest" /\ calls[t] < MaxDepth
    /\ queued => turn = t

\* Mutant: a plain store instead of the exchange.
TakesOver_Plain(t) == TRUE

\* tid.compare_exchange_strong lets a thread in if the stored tid is no thread's
\* (or, below, its own).
TakesOver(t) == tid = None

BeforeTakes(t) ==
    /\ MayCall(t)
    /\ TakesOver(t)
    /\ tid' = t
    /\ Goto(t, "taken")
    /\ UNCHANGED <<queued, turn, depth, last, calls, crashed>>

BeforeAgain(t) ==
    /\ MayCall(t)
    /\ tid = t
    /\ Goto(t, "again")
    /\ UNCHANGED <<queued, turn, tid, depth, last, calls, crashed>>

\* The stored tid is another thread's: __builtin_trap().
BeforeTraps(t) ==
    /\ MayCall(t)
    /\ tid \notin {None, t}
    /\ Crash

\* What a read of depth by t may return.
Visible(t) == IF queued \/ last \in {None, t} THEN {depth} ELSE 0..MaxDepth

\* ++depth
Incremented(d) == d + 1

\* assert(depth == 0) and ++depth after taking tid, assert(depth != 0) and
\* ++depth when the thread had it.
AssertsIn(t, d) ==
    \/ pc[t] = "taken" /\ d = 0
    \/ pc[t] = "again" /\ d # 0

BeforeCounts(t) ==
    /\ ~crashed /\ pc[t] \in {"taken", "again"}
    /\ \E d \in Visible(t) :
          IF AssertsIn(t, d)
          THEN /\ depth' = Incremented(d)
               /\ last' = t
               /\ calls' = [calls EXCEPT ![t] = @ + 1]
               /\ Goto(t, "rest")
               /\ UNCHANGED <<queued, turn, tid, crashed>>
          ELSE Crash

\* A call returns or throws: the destructor of Around calls after(), which
\* asserts that the stored tid is this thread's.
AfterLoads(t) ==
    /\ ~crashed /\ pc[t] = "rest" /\ calls[t] > 0
    /\ IF tid = t
       THEN Goto(t, "leaving") /\ UNCHANGED <<queued, turn, tid, depth, last, calls, crashed>>
       ELSE Crash

\* Mutants: tid is cleared one call too early, and never.
LastOut_Early(d) == d <= 1
LastOut_Never(d) == FALSE

\* --depth == 0
LastOut(d) == d = 0

AfterCounts(t) ==
    /\ ~crashed /\ pc[t] = "leaving"
    /\ \E d \in Visible(t) :
          /\ depth' = d - 1
          /\ Goto(t, IF LastOut(d - 1) THEN "clearing" ELSE "rest")
    /\ last' = t
    /\ calls' = [calls EXCEPT ![t] = @ - 1]
    /\ UNCHANGED <<queued, turn, tid, crashed>>

\* The second compare_exchange_strong and assert(didWrite).
AfterClears(t) ==
    /\ ~crashed /\ pc[t] = "clearing"
    /\ IF tid = t
       THEN /\ tid' = None
            /\ Goto(t, "rest")
            /\ UNCHANGED <<queued, turn, depth, last, calls, crashed>>
       ELSE Crash

Next ==
    \E t \in Threads :
        \/ TakeTurn(t) \/ EndTurn(t)
        \/ BeforeTakes(t) \/ BeforeAgain(t) \/ BeforeTraps(t) \/ BeforeCounts(t)
        \/ AfterLoads(t) \/ AfterCounts(t) \/ AfterClears(t)

Spec == Init /\ [][Next]_vars

-----------------------------------------------------------------------------
\* The members, the stacks of calls and the places in the code.
TypeOK ==
    /\ queued \in BOOLEAN /\ crashed \in BOOLEAN
    /\ turn \in Threads \union {None}
    /\ tid \in Threads \union {None} /\ last \in Threads \union {None}
    /\ depth \in 0..MaxDepth
    /\ calls \in [Threads -> 0..MaxDepth]
    /\ pc \in [Threads -> {"rest", "taken", "again", "leaving", "clearing"}]

\* Thread t is between the compare_exchange of before() that let it in and
\* the one of after() that lets others in.
InVM(t) == calls[t] > 0 \/ pc[t] # "rest"

\* "The main purpose of these checks is to observe a before/before race,
\* without an intervening after": whether or not the callers synchronise, and
\* whatever depth reads as, no two threads are ever in the VM; the second one
\* traps before it gets there.
NoOverlap == \A t, u \in Threads : InVM(t) /\ InVM(u) => t = u

\* Callers that take turns are never stopped: neither the trap nor one of the
\* four asserts fires, however deep the calls nest and whichever thread comes
\* next.
NoFalseAlarm == queued => ~crashed

\* depth is "only written or read from the owning thread": a thread that is
\* about to read or write the plain integer is the one stored in tid.
DepthOfOwner == \A t \in Threads : pc[t] \in {"taken", "again", "leaving"} => tid = t
=============================================================================
