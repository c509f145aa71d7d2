-------------------------------- MODULE Heap --------------------------------
(***************************************************************************)
(* The heap of one QuickJS runtime: reference counts, the list of objects  *)
(* whose count dropped to zero, and the collector of cycles (JS_RunGC).    *)
(*                                                                         *)
(* Two sorts of nodes matter.  Objects are freed through a list, at once   *)
(* or, while cycles are being removed, later.  Detached variables of       *)
(* closures (JSVarRef) are freed on the spot when their count drops to     *)
(* zero, and gc_free_cycles never frees one itself; shapes, async function *)
(* data and contexts are treated in the same way.                          *)
(*                                                                         *)
(* Everything here runs on the thread that owns the runtime, so one loop   *)
(* of the collector never interleaves with a script; the loops are split   *)
(* into steps because the lists they walk change below them.  The lists    *)
(* are sets: every order is tried.                                         *)
(***************************************************************************)
EXTENDS Integers, FiniteSets

CONSTANTS
    Objects,    \* bound: addresses of objects
    Errors,     \* the objects of class Error
    VarRefs,    \* bound: addresses of detached variables
    Slots,      \* bound: properties and captured variables of an object
    MaxHeld,    \* bound: references to one object that native code holds
    None

ASSUME HeapAssumption ==
    /\ IsFiniteSet(Objects) /\ IsFiniteSet(VarRefs) /\ IsFiniteSet(Slots)
    /\ Errors \subseteq Objects
    /\ Objects \intersect VarRefs = {}
    /\ None \notin Objects \union VarRefs
    /\ MaxHeld \in Nat \ {0}

Nodes == Objects \union VarRefs

VARIABLES
    list,       \* list[n]: the list that a node is in, "free" if it is not allocated
    count,      \* count[n]: ref_count
    marked,     \* the nodes with mark = 1
    props,      \* props[o][s]: what a property or a captured variable refers to
    value,      \* value[v]: the value of a detached variable
    held,       \* held[o]: references that Java handles and running code hold
    leaked,     \* leaked[o]: references that _getException took and nobody gives back
    exception,  \* rt->current_exception
    phase,      \* the loop of the collector that is running
    todo        \* the nodes that this loop has still to visit

heapVars == <<list, count, marked, props, value, held, leaked, exception, phase, todo>>

HeapTypeOK ==
    /\ list \in [Nodes -> {"free", "gc", "tmp", "zero"}]
    /\ count \in [Nodes -> Nat]
    /\ marked \subseteq Nodes
    /\ props \in [Objects -> [Slots -> Nodes \union {None}]]
    /\ value \in [VarRefs -> Objects \union {None}]
    /\ held \in [Objects -> 0 .. MaxHeld]
    /\ leaked \in [Objects -> Nat]
    /\ exception \in Objects \union {None}
    /\ phase \in {"run", "decref", "scan", "restore", "cycles"}
    /\ todo \subseteq Nodes

HeapInit ==
    /\ list = [n \in Nodes |-> "free"]
    /\ count = [n \in Nodes |-> 0]
    /\ marked = {}
    /\ props = [o \in Objects |-> [s \in Slots |-> None]]
    /\ value = [v \in VarRefs |-> None]
    /\ held = [o \in Objects |-> 0]
    /\ leaked = [o \in Objects |-> 0]
    /\ exception = None
    /\ phase = "run"
    /\ todo = {}

In(l) == {n \in Nodes : list[n] = l}
Allocated == Nodes \ In("free")

\* mark_children: how often m refers to n
Points(m, n) ==
    IF m \in VarRefs THEN IF value[m] = n THEN 1 ELSE 0
    ELSE Cardinality({s \in Slots : props[m][s] = n})

Children(m) == {n \in Nodes : Points(m, n) > 0}

\* free_zero_refcount has run: scripts and native code may go on.
Running == phase = "run" /\ In("zero") = {}

-----------------------------------------------------------------------------
(* Giving references back *)

\* The variables that are freed when back[n] references to each n are given back.
Dying(back) == {v \in VarRefs : back[v] > 0 /\ count[v] = back[v]}

\* The references that are given back in all: free_var_ref frees the value too.
Returned(back) ==
    [n \in Nodes |-> back[n] + Cardinality({v \in Dying(back) : value[v] = n})]

CountAfter(back) == [n \in Nodes |-> count[n] - Returned(back)[n]]

\* __JS_FreeValueRT: the objects that go to gc_zero_ref_count_list
Queued(back) ==
    IF phase = "cycles" THEN {}
    ELSE {o \in Objects : Returned(back)[o] > 0 /\ CountAfter(back)[o] = 0}

ListAfter(back) ==
    [n \in Nodes |-> CASE n \in Dying(back) -> "free"
                       [] n \in Queued(back) -> "zero"
                       [] OTHER -> list[n]]

ValueAfter(back) == [v \in VarRefs |-> IF v \in Dying(back) THEN None ELSE value[v]]

Once(n) == [m \in Nodes |-> IF m = n THEN 1 ELSE 0]

\* JS_FreeValue and free_var_ref for one reference to n, which may be none
GivesBack(n) ==
    /\ count' = CountAfter(Once(n))
    /\ list' = ListAfter(Once(n))
    /\ value' = ValueAfter(Once(n))

\* Mutant: an object that is referred to is freed at once when cycles are removed.
StaysAsZombie_Never(o, left) == FALSE

\* free_object: "used to tell the object is invalid when freeing cycles"
StaysAsZombie(o, left) == phase = "cycles" /\ left # 0

\* free_object
FreeObject(o) ==
    LET back == [n \in Nodes |-> Points(o, n)]
        left == CountAfter(back)[o]
    IN  /\ count' = CountAfter(back)
        /\ list' = [ListAfter(back) EXCEPT ![o] = IF StaysAsZombie(o, left) THEN "zero" ELSE "free"]
        /\ props' = [props EXCEPT ![o] = [s \in Slots |-> None]]
        /\ value' = ValueAfter(back)
        /\ marked' = marked \ ({o} \union Dying(back))

\* free_zero_refcount, one turn of its loop
FreeZeroRefcount(o) ==
    /\ phase = "run"
    /\ list[o] = "zero"
    /\ FreeObject(o)
    /\ UNCHANGED <<held, leaked, exception, phase, todo>>

-----------------------------------------------------------------------------
(* Native code and scripts *)

\* JS_NewObjectFromShape
NewObject(o) ==
    /\ Running
    /\ list[o] = "free"
    /\ list' = [list EXCEPT ![o] = "gc"]
    /\ count' = [count EXCEPT ![o] = 1]
    /\ held' = [held EXCEPT ![o] = 1]
    /\ UNCHANGED <<marked, props, value, leaked, exception, phase, todo>>

\* JS_DupValue of a property of o, or of the variable behind it
GetProperty(o, s) ==
    LET n == props[o][s]
        got == IF n \in VarRefs THEN value[n] ELSE n
    IN  /\ Running
        /\ held[o] > 0
        /\ got # None /\ held[got] < MaxHeld
        /\ count' = [count EXCEPT ![got] = @ + 1]
        /\ held' = [held EXCEPT ![got] = @ + 1]
        /\ UNCHANGED <<list, marked, props, value, leaked, exception, phase, todo>>

\* set_value on a property: the reference to o moves into p, the old value is freed.
SetProperty(p, s, o) ==
    /\ Running
    /\ held[p] > 0 /\ held[o] > 0
    /\ props[p][s] \notin VarRefs
    /\ GivesBack(props[p][s])
    /\ props' = [props EXCEPT ![p][s] = o]
    /\ held' = [held EXCEPT ![o] = @ - 1]
    /\ UNCHANGED <<marked, leaked, exception, phase, todo>>

\* set_value on a variable reference: all the closures that share it see the new value.
SetVariable(p, s, o) ==
    LET v == props[p][s] IN
    /\ Running
    /\ held[p] > 0 /\ held[o] > 0
    /\ v \in VarRefs
    /\ count' = CountAfter(Once(value[v]))
    /\ list' = ListAfter(Once(value[v]))
    /\ value' = [value EXCEPT ![v] = o]
    /\ held' = [held EXCEPT ![o] = @ - 1]
    /\ UNCHANGED <<marked, props, leaked, exception, phase, todo>>

\* delete_property: free_property gives back the value, or the variable that an
\* element of an arguments object stands for.
DeleteProperty(p, s) ==
    /\ Running
    /\ held[p] > 0
    /\ props[p][s] # None
    /\ GivesBack(props[p][s])
    /\ props' = [props EXCEPT ![p][s] = None]
    /\ UNCHANGED <<marked, held, leaked, exception, phase, todo>>

\* close_var_refs: the frame that returns closure p leaves its variable, of value o,
\* to it.
CloseVarRef(p, s, v, o) ==
    /\ Running
    /\ held[p] > 0 /\ held[o] > 0
    /\ props[p][s] = None /\ list[v] = "free"
    /\ list' = [list EXCEPT ![v] = "gc"]
    /\ value' = [value EXCEPT ![v] = o]
    /\ props' = [props EXCEPT ![p][s] = v]
    /\ count' = [count EXCEPT ![v] = 1, ![o] = @ + 1]
    /\ UNCHANGED <<marked, held, leaked, exception, phase, todo>>

\* js_closure2: closure q captures a variable of the closure p that makes it.
Capture(p, s, q, t) ==
    LET v == props[p][s] IN
    /\ Running
    /\ held[p] > 0 /\ held[q] > 0
    /\ v \in VarRefs /\ props[q][t] = None
    /\ props' = [props EXCEPT ![q][t] = v]
    /\ count' = [count EXCEPT ![v] = @ + 1]
    /\ UNCHANGED <<list, marked, value, held, leaked, exception, phase, todo>>

\* JS_FreeValue: a handle is released, or a local variable goes out of scope.
FreeValue(o) ==
    /\ Running
    /\ held[o] > 0
    /\ GivesBack(o)
    /\ held' = [held EXCEPT ![o] = @ - 1]
    /\ UNCHANGED <<marked, props, leaked, exception, phase, todo>>

-----------------------------------------------------------------------------
(* The collector *)

\* js_trigger_gc, when enough was allocated: gc_decref starts.
RunGC ==
    /\ Running
    /\ phase' = "decref"
    /\ todo' = In("gc")
    /\ UNCHANGED <<list, count, marked, props, value, held, leaked, exception>>

\* gc_decref_child moves a node with mark = 1, gc_decref the node it visits.
Exhausted(p, left) ==
    {n \in Children(p) \union {p} : left[n] = 0 /\ n \in marked \union {p}}

\* gc_decref
Decref(p) ==
    LET left == [n \in Nodes |-> count[n] - Points(p, n)] IN
    /\ phase = "decref" /\ p \in todo
    /\ count' = left
    /\ marked' = marked \union {p}
    /\ list' = [n \in Nodes |-> IF n \in Exhausted(p, left) THEN "tmp" ELSE list[n]]
    /\ todo' = todo \ {p}
    /\ UNCHANGED <<props, value, held, leaked, exception, phase>>

\* Mutant: the children of a node that is kept are not kept.
Rescued_None(p) == {}

\* gc_scan_incref_child: the children that go back to gc_obj_list
Rescued(p) == {n \in Children(p) : count[n] = 0}

\* gc_scan, first loop: "keep the objects with a refcount > 0 and their children"
Scan(p) ==
    /\ phase = "scan" /\ p \in todo
    /\ count' = [n \in Nodes |-> count[n] + Points(p, n)]
    /\ list' = [n \in Nodes |-> IF n \in Rescued(p) THEN "gc" ELSE list[n]]
    /\ marked' = marked \ ({p} \union Rescued(p))
    /\ todo' = (todo \ {p}) \union Rescued(p)
    /\ UNCHANGED <<props, value, held, leaked, exception, phase>>

\* gc_scan, second loop: "restore the refcount of the objects to be deleted"
Restore(p) ==
    /\ phase = "restore" /\ p \in todo
    /\ count' = [n \in Nodes |-> count[n] + Points(p, n)]
    /\ todo' = todo \ {p}
    /\ UNCHANGED <<list, marked, props, value, held, leaked, exception, phase>>

\* gc_free_cycles: objects are freed, "the rest will be automatically removed".
FreeCycle(p) ==
    /\ phase = "cycles" /\ list[p] = "tmp"
    /\ \/ p \in Objects /\ FreeObject(p)
       \/ /\ p \in VarRefs
          /\ list' = [list EXCEPT ![p] = "zero"]
          /\ UNCHANGED <<count, marked, props, value>>
    /\ UNCHANGED <<held, leaked, exception, phase, todo>>

\* One loop of the collector is over, the next one starts.
NextLoop ==
    /\ todo = {}
    /\ \/ phase = "decref" /\ phase' = "scan" /\ todo' = In("gc")
       \/ phase = "scan" /\ phase' = "restore" /\ todo' = In("tmp")
       \/ phase = "restore" /\ phase' = "cycles" /\ todo' = {}
    /\ UNCHANGED <<list, count, marked, props, value, held, leaked, exception>>

\* Mutant: the second loop of gc_free_cycles is missing.
FreeZombies_Kept ==
    /\ phase = "cycles" /\ In("tmp") = {}
    /\ phase' = "run"
    /\ UNCHANGED <<list, count, marked, props, value, held, leaked, exception, todo>>

\* The end of gc_free_cycles: what is in gc_zero_ref_count_list is freed.
FreeZombies ==
    /\ phase = "cycles" /\ In("tmp") = {}
    /\ phase' = "run"
    /\ list' = [n \in Nodes |-> IF list[n] = "zero" THEN "free" ELSE list[n]]
    /\ count' = [n \in Nodes |-> IF list[n] = "zero" THEN 0 ELSE count[n]]
    /\ marked' = marked \ In("zero")
    /\ UNCHANGED <<props, value, held, leaked, exception, todo>>

Collector ==
    \/ RunGC \/ NextLoop \/ FreeZombies
    \/ \E p \in Nodes : Decref(p) \/ Scan(p) \/ Restore(p) \/ FreeCycle(p)
    \/ \E o \in Objects : FreeZeroRefcount(o)

Mutator ==
    \/ \E o \in Objects : NewObject(o) \/ FreeValue(o)
    \/ \E p \in Objects, s \in Slots : GetProperty(p, s) \/ DeleteProperty(p, s)
    \/ \E p, o \in Objects, s \in Slots : SetProperty(p, s, o) \/ SetVariable(p, s, o)
    \/ \E p, o \in Objects, s \in Slots, v \in VarRefs : CloseVarRef(p, s, v, o)
    \/ \E p, q \in Objects, s, t \in Slots : Capture(p, s, q, t)

-----------------------------------------------------------------------------
(* Properties *)

\* The nodes whose references to others are at the moment taken off the counts.
TakenOff ==
    CASE phase = "decref" -> marked
      [] phase \in {"scan", "restore"} -> todo \union (IF phase = "scan" THEN In("tmp") ELSE {})
      [] OTHER -> {}

\* Where nodes keep references, and the reference that is kept there.
Places == (Objects \X Slots) \union (VarRefs \X {None})
Target(pl) == IF pl[1] \in VarRefs THEN value[pl[1]] ELSE props[pl[1]][pl[2]]

\* The references to n that no node keeps.
External(n) ==
    (IF n \in Objects THEN held[n] + leaked[n] ELSE 0) + (IF exception = n THEN 1 ELSE 0)

\* The references to n that exist, less those taken off.
Counted(n) ==
    Cardinality({pl \in Places : pl[1] \in Allocated \ TakenOff /\ Target(pl) = n}) + External(n)

\* At every step of the collector the count of a node is the number of references
\* to it that are counted at that step: gc_decref and gc_scan undo each other, and
\* free_object gives back what it held, a cycle or not.
Balanced == \A n \in Allocated : count[n] = Counted(n)

\* Nothing refers to freed memory: not a property or variable of a node, not a
\* handle, not the pending exception (free_object, free_var_ref, gc_free_cycles).
NoDangling ==
    /\ \A m \in Allocated : Children(m) \subseteq Allocated
    /\ \A o \in Objects : held[o] + leaked[o] > 0 \/ exception = o => o \in Allocated \ In("zero")

\* What native code reaches, through any number of references.
Roots == {o \in Objects : held[o] + leaked[o] > 0 \/ exception = o}
Reachable ==
    CHOOSE S \in SUBSET Nodes :
        /\ Roots \subseteq S
        /\ \A m \in S : Children(m) \subseteq S
        /\ \A T \in SUBSET S :
              Roots \subseteq T /\ (\A m \in T : Children(m) \subseteq T) => T = S

\* The assertions in the code: counts do not underflow (gc_decref_child), what
\* is kept is referred to (gc_scan), what is queued is not (free_zero_refcount),
\* marks are clear when a collection starts (gc_decref), and only objects are left
\* at the end (gc_free_cycles).
AssertsHold ==
    /\ phase = "decref" =>
          \A p \in todo : p \notin marked /\ \A n \in Nodes : Points(p, n) <= count[n]
    /\ phase = "scan" => \A p \in todo : count[p] > 0
    /\ phase = "run" => \A n \in In("zero") : count[n] = 0
    /\ phase = "cycles" /\ In("tmp") = {} => In("zero") \subseteq Objects

\* When a collection is over, exactly the nodes that native code reaches are left:
\* no cycle survives, and nothing that a script can still use was freed.
ExactlyGarbage == [][phase = "cycles" /\ phase' = "run" => Allocated' = Reachable']_heapVars
=============================================================================
