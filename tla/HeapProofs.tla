----------------------------- MODULE HeapProofs -----------------------------
(***************************************************************************)
(* Proofs about the reference counts and the cycle collector of module     *)
(* Heap, for any finite heap, under scripts that call, throw and catch,    *)
(* and about the exceptions of module Scripts.                             *)
(*                                                                         *)
(* The heap is a graph: a function from places to what they refer to.  An  *)
(* operation moves a few references, and the lemmas on graphs tell how     *)
(* many references each node then has.                                     *)
(***************************************************************************)
EXTENDS Scripts, FiniteSetTheorems, TLAPS

\* The heap as a graph, and the places of the nodes in L that refer to n in a graph f.
Graph == [pl \in Places |-> Target(pl)]
At(f, L, n) == {pl \in Places : pl[1] \in L /\ f[pl] = n}

\* Nothing is kept in freed nodes, nor in objects that are freed but for their memory;
\* nothing refers to freed nodes; and what refers to a variable keeps it allocated.
GraphInv ==
    /\ \A pl \in Places : list[pl[1]] = "free" => Graph[pl] = None
    /\ phase = "cycles" =>
          \A pl \in Places : pl[1] \in Objects /\ list[pl[1]] = "zero" => Graph[pl] = None
    /\ \A pl \in Places : Graph[pl] # None => list[Graph[pl]] # "free"
    /\ \A n \in Nodes : list[n] = "free" => External(n) = 0
    /\ \A v \in VarRefs : list[v] # "free" => \E pl \in Places : Graph[pl] = v

\* The count of every node is right at every step of the collector.
CountInv ==
    \A n \in Nodes : count[n] = Cardinality(At(Graph, Nodes \ TakenOff, n)) + External(n)

\* What scripts do not reach when cycles are removed.
Garbage == In("tmp") \union In("zero")

\* Native code and the nodes that are kept do not refer to garbage.
Secluded ==
    \A n \in Garbage :
        External(n) = 0 /\ \A pl \in Places : Graph[pl] = n => list[pl[1]] # "gc"

\* What each loop of the collector may rely on.
PhaseInv ==
    /\ phase = "run" =>
          /\ In("tmp") = {} /\ marked = {} /\ todo = {}
          /\ \A n \in In("zero") : n \in Objects /\ count[n] = 0
    /\ phase = "decref" =>
          /\ In("zero") = {} /\ todo \subseteq In("gc") /\ marked = Allocated \ todo
          /\ \A n \in marked : list[n] = "tmp" <=> count[n] = 0
    /\ phase = "scan" =>
          /\ In("zero") = {} /\ todo \subseteq In("gc")
          /\ In("tmp") \subseteq marked /\ marked \subseteq todo \union In("tmp")
          /\ \A n \in Allocated : list[n] = "tmp" <=> count[n] = 0
    /\ phase = "restore" =>
          /\ In("zero") = {} /\ todo \subseteq In("tmp") /\ marked = In("tmp") /\ Secluded
    /\ phase = "cycles" => todo = {} /\ marked \subseteq Garbage /\ Secluded

HeapInv == HeapTypeOK /\ GraphInv /\ CountInv /\ PhaseInv

-----------------------------------------------------------------------------
(* Graphs *)

Graphs == [Places -> Nodes \union {None}]

LEMMA PlaceFacts ==
    /\ IsFiniteSet(Places)
    /\ \A pl \in Places : pl[1] \in Nodes
    /\ \A o \in Objects, s \in Slots : <<o, s>> \in Places
    /\ \A v \in VarRefs : <<v, None>> \in Places
    /\ \A pl \in Places : pl[1] \in Objects => pl[2] \in Slots /\ pl = <<pl[1], pl[2]>>
    /\ \A pl \in Places : pl[1] \in VarRefs => pl = <<pl[1], None>>
<1> USE HeapAssumption DEF HeapAssumption
<1>1. IsFiniteSet(Objects \X Slots)
  BY FS_Product
<1>2. IsFiniteSet({None})
  BY FS_Singleton
<1>3. IsFiniteSet(VarRefs \X {None})
  BY <1>2, FS_Product
<1>4. IsFiniteSet(Places)
  BY <1>1, <1>3, FS_Union DEF Places
<1>5. QED
  BY <1>4 DEF Places, Nodes

LEMMA NodeFacts ==
    /\ Objects \subseteq Nodes /\ VarRefs \subseteq Nodes /\ None \notin Nodes
    /\ \A o \in Objects : o \notin VarRefs
    /\ \A n \in Nodes : n \in Objects \/ n \in VarRefs
    /\ Errors \subseteq Objects /\ MaxHeld \in Nat
  BY HeapAssumption DEF HeapAssumption, Nodes

LEMMA AtFacts ==
    ASSUME NEW f, NEW L, NEW n
    PROVE  IsFiniteSet(At(f, L, n)) /\ Cardinality(At(f, L, n)) \in Nat
<1>1. At(f, L, n) \subseteq Places
  BY DEF At
<1>2. QED
  BY <1>1, PlaceFacts, FS_Subset, FS_CardinalityType

\* The references from the nodes in L and from one more node.
LEMMA AtGrow ==
    ASSUME NEW f, NEW L, NEW p, p \notin L, NEW n
    PROVE  Cardinality(At(f, L \union {p}, n)) =
              Cardinality(At(f, L, n)) + Cardinality(At(f, {p}, n))
<1>1. At(f, L \union {p}, n) = At(f, L, n) \union At(f, {p}, n)
  BY DEF At
<1>2. At(f, L, n) \intersect At(f, {p}, n) = {}
  BY DEF At
<1>3. Cardinality(At(f, L, n) \intersect At(f, {p}, n)) = 0
  BY <1>2, FS_EmptySet
<1>4. /\ IsFiniteSet(At(f, L, n)) /\ IsFiniteSet(At(f, {p}, n))
      /\ Cardinality(At(f, L, n)) \in Nat /\ Cardinality(At(f, {p}, n)) \in Nat
  BY AtFacts
<1> DEFINE S == At(f, L, n)
           T == At(f, {p}, n)
<1> HIDE DEF S, T
<1>5. Cardinality(S \union T) = Cardinality(S) + Cardinality(T) - Cardinality(S \intersect T)
  BY <1>4, FS_Union DEF S, T
<1>6. Cardinality(S \union T) = Cardinality(S) + Cardinality(T)
  BY <1>3, <1>4, <1>5 DEF S, T
<1>7. QED
  BY <1>1, <1>6 DEF S, T

\* The graph f with a new reference at one place
Put(f, q, x) == [f EXCEPT ![q] = x]

LEMMA AtPut ==
    ASSUME NEW f \in Graphs, NEW q \in Places, NEW x \in Nodes \union {None}, NEW n
    PROVE  Cardinality(At(Put(f, q, x), Nodes, n)) =
              Cardinality(At(f, Nodes, n)) - (IF f[q] = n THEN 1 ELSE 0) + (IF x = n THEN 1 ELSE 0)
<1> DEFINE S == At(f, Nodes, n)
           g == Put(f, q, x)
<1>1. IsFiniteSet(S) /\ Cardinality(S) \in Nat
  BY AtFacts
<1>2. q[1] \in Nodes /\ (q \in S <=> f[q] = n)
  BY PlaceFacts DEF At
<1>3. At(g, Nodes, n) = IF x = n THEN (S \ {q}) \union {q} ELSE S \ {q}
  <2>1. \A pl \in Places : g[pl] = IF pl = q THEN x ELSE f[pl]
    BY DEF Graphs, Put
  <2> HIDE DEF g
  <2>2. QED
    BY <1>2, <2>1 DEF At
<1>4. /\ IsFiniteSet(S \ {q})
      /\ Cardinality(S \ {q}) = IF q \in S THEN Cardinality(S) - 1 ELSE Cardinality(S)
  BY <1>1, FS_RemoveElement
<1> HIDE DEF S, g
<1>5. Cardinality((S \ {q}) \union {q}) = Cardinality(S \ {q}) + 1
  BY <1>4, FS_AddElement
<1>6. CASE x = n
  <2>1. Cardinality(At(g, Nodes, n)) = Cardinality(S \ {q}) + 1
    BY <1>3, <1>5, <1>6
  <2>2. CASE f[q] = n
    BY <1>1, <1>2, <1>4, <1>6, <2>1, <2>2 DEF S, g
  <2>3. CASE f[q] # n
    BY <1>1, <1>2, <1>4, <1>6, <2>1, <2>3 DEF S, g
  <2>4. QED
    BY <2>2, <2>3
<1>7. CASE x # n
  <2>1. Cardinality(At(g, Nodes, n)) = Cardinality(S \ {q})
    BY <1>3, <1>7
  <2>2. CASE f[q] = n
    BY <1>1, <1>2, <1>4, <1>7, <2>1, <2>2 DEF S, g
  <2>3. CASE f[q] # n
    BY <1>1, <1>2, <1>4, <1>7, <2>1, <2>3 DEF S, g
  <2>4. QED
    BY <2>2, <2>3
<1>8. QED
  BY <1>6, <1>7

\* The graph f without what the nodes in D keep.
Cleared(f, D) == [pl \in Places |-> IF pl[1] \in D THEN None ELSE f[pl]]

LEMMA AtCleared ==
    ASSUME NEW f \in Graphs, NEW D \in SUBSET Nodes, NEW n \in Nodes
    PROVE  /\ Cleared(f, D) \in Graphs
           /\ At(Cleared(f, D), Nodes, n) = At(f, Nodes, n) \ At(f, D, n)
           /\ Cardinality(At(Cleared(f, D), Nodes, n)) =
                 Cardinality(At(f, Nodes, n)) - Cardinality(At(f, D, n))
           /\ Cardinality(At(f, D, n)) <= Cardinality(At(f, Nodes, n))
<1>1. Cleared(f, D) \in Graphs
  BY DEF Cleared, Graphs
<1>2. At(Cleared(f, D), Nodes, n) = At(f, Nodes, n) \ At(f, D, n)
  BY NodeFacts DEF Cleared, At
<1>3. At(f, D, n) \subseteq At(f, Nodes, n)
  BY DEF At
<1>4. At(f, Nodes, n) \intersect At(f, D, n) = At(f, D, n)
  BY <1>3
<1>5. IsFiniteSet(At(f, Nodes, n))
  BY AtFacts
<1> DEFINE S == At(f, Nodes, n)
           T == At(f, D, n)
<1> HIDE DEF S, T
<1>6. Cardinality(S \ T) = Cardinality(S) - Cardinality(S \intersect T)
  BY <1>5, FS_Difference DEF S, T
<1>7. Cardinality(T) <= Cardinality(S)
  BY <1>3, <1>5, FS_Subset DEF S, T
<1>8. Cardinality(S \ T) = Cardinality(S) - Cardinality(T)
  BY <1>4, <1>6 DEF S, T
<1>9. QED
  BY <1>1, <1>2, <1>7, <1>8 DEF S, T

\* The references that the variables in D keep, counted by variables.
LEMMA AtVariables ==
    ASSUME NEW f \in Graphs, NEW D \in SUBSET VarRefs, NEW n
    PROVE  Cardinality(At(f, D, n)) = Cardinality({v \in D : f[<<v, None>>] = n})
<1> DEFINE S == {v \in D : f[<<v, None>>] = n}
           T == At(f, D, n)
           b == [v \in S |-> <<v, None>>]
<1>1. IsFiniteSet(S)
  BY HeapAssumption, FS_Subset DEF HeapAssumption
<1>2. b \in [S -> T] /\ \A v, w \in S : b[v] = b[w] => v = w
  BY PlaceFacts DEF At
<1>3. \A pl \in T : \E v \in S : b[v] = pl
  BY PlaceFacts DEF At
<1>4. b \in Bijection(S, T)
  <2> HIDE DEF S, T, b
  <2>1. QED
    BY <1>2, <1>3 DEF Bijection, Injection, Surjection, IsInjective
<1>5. QED
  BY <1>1, <1>4, FS_Bijection DEF ExistsBijection

LEMMA GraphFacts ==
    ASSUME HeapTypeOK
    PROVE  /\ Graph \in Graphs
           /\ \A o \in Objects, s \in Slots : Graph[<<o, s>>] = props[o][s]
           /\ \A v \in VarRefs : Graph[<<v, None>>] = value[v] /\ value[v] \notin VarRefs
           /\ \A pl \in Places : pl[1] \in VarRefs => Graph[pl] \notin VarRefs
<1>1. \A pl \in Places : Target(pl) \in Nodes \union {None}
  BY PlaceFacts, NodeFacts DEF Target, HeapTypeOK
<1>2. \A v \in VarRefs : value[v] \notin VarRefs
  BY NodeFacts DEF HeapTypeOK
<1>3. QED
  BY <1>1, <1>2, PlaceFacts, NodeFacts DEF Graph, Graphs, Target

\* mark_children counts what a node keeps.
LEMMA PointsCount ==
    ASSUME HeapTypeOK, NEW m \in Nodes, NEW n \in Nodes
    PROVE  Points(m, n) = Cardinality(At(Graph, {m}, n))
<1>1. CASE m \in VarRefs
  <2>1. At(Graph, {m}, n) = IF value[m] = n THEN {<<m, None>>} ELSE {}
    BY <1>1, GraphFacts, PlaceFacts DEF At
  <2>2. Cardinality({<<m, None>>}) = 1 /\ Cardinality({}) = 0
    BY FS_Singleton, FS_EmptySet
  <2>3. QED
    BY <1>1, <2>1, <2>2 DEF Points
<1>2. CASE m \in Objects
  <2> DEFINE S == {s \in Slots : props[m][s] = n}
             T == At(Graph, {m}, n)
             b == [s \in S |-> <<m, s>>]
  <2>1. IsFiniteSet(S)
    BY HeapAssumption, FS_Subset DEF HeapAssumption
  <2>2. b \in [S -> T] /\ \A s, t \in S : b[s] = b[t] => s = t
    BY <1>2, PlaceFacts, GraphFacts DEF At
  <2>3. \A pl \in T : \E s \in S : b[s] = pl
    <3> SUFFICES ASSUME NEW pl \in T PROVE \E s \in S : b[s] = pl
      OBVIOUS
    <3>1. pl \in Places /\ pl[1] = m /\ Graph[pl] = n
      BY DEF At
    <3>2. pl[2] \in Slots /\ pl = <<m, pl[2]>>
      BY <1>2, <3>1, PlaceFacts
    <3>3. pl[2] \in S
      BY <1>2, <3>1, <3>2, GraphFacts
    <3>4. QED
      BY <3>2, <3>3
  <2>4. b \in Bijection(S, T)
    <3> HIDE DEF S, T, b
    <3>1. QED
      BY <2>2, <2>3 DEF Bijection, Injection, Surjection, IsInjective
  <2>5. Cardinality(T) = Cardinality(S)
    BY <2>1, <2>4, FS_Bijection DEF ExistsBijection
  <2>6. Points(m, n) = Cardinality(S)
    BY <1>2, NodeFacts DEF Points
  <2>7. QED
    BY <2>5, <2>6
<1>3. QED
  BY <1>1, <1>2, NodeFacts

LEMMA PointsTypes ==
    ASSUME HeapTypeOK
    PROVE  /\ \A m, n \in Nodes : Points(m, n) \in Nat
           /\ \A m, n \in Nodes : n \in Children(m) <=> \E pl \in Places : pl[1] = m /\ Graph[pl] = n
<1> SUFFICES ASSUME NEW m \in Nodes, NEW n \in Nodes
             PROVE  /\ Points(m, n) \in Nat
                    /\ n \in Children(m) <=> \E pl \in Places : pl[1] = m /\ Graph[pl] = n
  OBVIOUS
<1>1. Points(m, n) = Cardinality(At(Graph, {m}, n)) /\ IsFiniteSet(At(Graph, {m}, n))
      /\ Cardinality(At(Graph, {m}, n)) \in Nat
  BY PointsCount, AtFacts
<1>2. Cardinality(At(Graph, {m}, n)) = 0 <=> At(Graph, {m}, n) = {}
  BY <1>1, FS_EmptySet
<1>3. At(Graph, {m}, n) # {} <=> \E pl \in Places : pl[1] = m /\ Graph[pl] = n
  BY DEF At
<1>4. QED
  BY <1>1, <1>2, <1>3 DEF Children

-----------------------------------------------------------------------------
(* Giving references back *)

\* The lists L, the counts C, the graph g and the references ext from outside agree.
Sound(L, C, g, ext) ==
    /\ \A pl \in Places : L[pl[1]] = "free" => g[pl] = None
    /\ \A pl \in Places : g[pl] # None => L[g[pl]] # "free"
    /\ \A n \in Nodes : L[n] = "free" => ext[n] = 0
    /\ \A v \in VarRefs : L[v] # "free" => \E pl \in Places : g[pl] = v
    /\ \A n \in Nodes : C[n] = Cardinality(At(g, Nodes, n)) + ext[n]

\* The same before back[n] references to each n are given back, which the graph f and
\* ext do not hold any more.
Debited(f, ext, back) ==
    /\ f \in Graphs /\ ext \in [Nodes -> Nat] /\ back \in [Nodes -> Nat]
    /\ \A v \in VarRefs : ext[v] = 0
    /\ \A v \in Dying(back) : f[<<v, None>>] = value[v]
    /\ \A pl \in Places : list[pl[1]] = "free" => f[pl] = None
    /\ \A pl \in Places : f[pl] # None => list[f[pl]] # "free"
    /\ \A n \in Nodes : list[n] = "free" => ext[n] = 0 /\ back[n] = 0
    /\ \A v \in VarRefs : list[v] # "free" => count[v] > 0
    /\ \A n \in Nodes : count[n] = Cardinality(At(f, Nodes, n)) + ext[n] + back[n]

LEMMA NoneAt ==
    ASSUME NEW f, NEW n
    PROVE  Cardinality(At(f, Nodes, n)) = 0 <=> \A pl \in Places : f[pl] # n
<1>1. IsFiniteSet(At(f, Nodes, n))
  BY AtFacts
<1>2. Cardinality(At(f, Nodes, n)) = 0 <=> At(f, Nodes, n) = {}
  BY <1>1, FS_EmptySet
<1>3. QED
  BY <1>2, PlaceFacts DEF At

\* What is given back in all is what the graph loses and what was debited.
LEMMA Cascade ==
    ASSUME HeapTypeOK, NEW f, NEW ext, NEW back, Debited(f, ext, back)
    PROVE  /\ CountAfter(back) \in [Nodes -> Nat]
           /\ Cleared(f, Dying(back)) \in Graphs
           /\ \A n \in Nodes : /\ Returned(back)[n] \in Nat
                               /\ CountAfter(back)[n] <= count[n] - back[n]
                               /\ CountAfter(back)[n] =
                                     Cardinality(At(Cleared(f, Dying(back)), Nodes, n)) + ext[n]
           /\ \A v \in VarRefs : CountAfter(back)[v] = count[v] - back[v]
           /\ \A v \in Dying(back) : \A pl \in Places : f[pl] # v
<1> DEFINE D == Dying(back)
           K(n) == Cardinality({v \in D : value[v] = n})
<1>1. D \subseteq VarRefs /\ D \subseteq Nodes
  BY NodeFacts DEF Dying
<1>2. f \in Graphs /\ ext \in [Nodes -> Nat] /\ back \in [Nodes -> Nat]
  BY DEF Debited
<1>3. \A n \in Nodes : K(n) = Cardinality(At(f, D, n)) /\ K(n) \in Nat
  <2> SUFFICES ASSUME NEW n \in Nodes
               PROVE  K(n) = Cardinality(At(f, D, n)) /\ K(n) \in Nat
    OBVIOUS
  <2>1. {v \in D : value[v] = n} = {v \in D : f[<<v, None>>] = n}
    BY DEF Debited
  <2>2. Cardinality(At(f, D, n)) = Cardinality({v \in D : f[<<v, None>>] = n})
    BY <1>1, <1>2, AtVariables
  <2>3. Cardinality(At(f, D, n)) \in Nat
    BY AtFacts
  <2>4. QED
    BY <2>1, <2>2, <2>3
<1>4. \A v \in VarRefs : K(v) = 0
  <2> SUFFICES ASSUME NEW v \in VarRefs
               PROVE  K(v) = 0
    OBVIOUS
  <2>1. {w \in D : value[w] = v} = {}
    BY <1>1, GraphFacts
  <2>2. QED
    BY <2>1, FS_EmptySet
<1>5. \A n \in Nodes : Returned(back)[n] = back[n] + K(n)
  BY DEF Returned
<1>6. \A n \in Nodes : CountAfter(back)[n] = count[n] - (back[n] + K(n))
  BY <1>5 DEF CountAfter
<1>7. ASSUME NEW n \in Nodes
      PROVE  /\ Cardinality(At(Cleared(f, D), Nodes, n)) = Cardinality(At(f, Nodes, n)) - K(n)
             /\ Cardinality(At(Cleared(f, D), Nodes, n)) \in Nat
             /\ Cardinality(At(f, Nodes, n)) \in Nat
  BY <1>1, <1>2, <1>3, AtCleared, AtFacts
<1>8. Cleared(f, D) \in Graphs
  BY <1>2 DEF Cleared, Graphs
<1> HIDE DEF D, K
<1>9. ASSUME NEW n \in Nodes
      PROVE  /\ Returned(back)[n] \in Nat
             /\ CountAfter(back)[n] <= count[n] - back[n]
             /\ CountAfter(back)[n] = Cardinality(At(Cleared(f, D), Nodes, n)) + ext[n]
             /\ CountAfter(back)[n] \in Nat
  <2>1. count[n] = Cardinality(At(f, Nodes, n)) + ext[n] + back[n]
    BY DEF Debited
  <2>2. count[n] \in Nat /\ back[n] \in Nat /\ ext[n] \in Nat /\ K(n) \in Nat
    BY <1>2, <1>3 DEF HeapTypeOK
  <2>3. QED
    BY <1>5, <1>6, <1>7, <2>1, <2>2
<1>10. CountAfter(back) \in [Nodes -> Nat]
  BY <1>9 DEF CountAfter
<1>11. \A v \in VarRefs : CountAfter(back)[v] = count[v] - back[v]
  <2> SUFFICES ASSUME NEW v \in VarRefs
               PROVE  CountAfter(back)[v] = count[v] - back[v]
    OBVIOUS
  <2>1. v \in Nodes /\ count[v] \in Nat /\ back[v] \in Nat
    BY <1>2, NodeFacts DEF HeapTypeOK
  <2>2. QED
    BY <1>4, <1>6, <2>1
<1>12. ASSUME NEW v \in D, NEW pl \in Places
       PROVE  f[pl] # v
  <2>1. v \in Nodes /\ v \in VarRefs /\ count[v] = back[v] /\ back[v] \in Nat /\ ext[v] = 0
    BY <1>1, <1>2 DEF D, Dying, Debited
  <2>2. count[v] = Cardinality(At(f, Nodes, v)) + ext[v] + back[v]
    BY <2>1 DEF Debited
  <2>3. Cardinality(At(f, Nodes, v)) = 0
    BY <2>1, <2>2, AtFacts
  <2>4. QED
    BY <2>3, NoneAt
<1>13. QED
  BY <1>8, <1>9, <1>10, <1>11, <1>12 DEF D

LEMMA ListFacts ==
    ASSUME HeapTypeOK, NEW back
    PROVE  /\ ListAfter(back) \in [Nodes -> {"free", "gc", "tmp", "zero"}]
           /\ Dying(back) \subseteq VarRefs /\ Queued(back) \subseteq Objects
           /\ \A n \in Dying(back) : ListAfter(back)[n] = "free"
           /\ \A n \in Queued(back) : ListAfter(back)[n] = "zero"
           /\ \A n \in Nodes : n \notin Dying(back) /\ n \notin Queued(back) => ListAfter(back)[n] = list[n]
           /\ phase = "cycles" => Queued(back) = {}
           /\ \A o \in Queued(back) : CountAfter(back)[o] = 0
<1>1. Dying(back) \subseteq VarRefs /\ Queued(back) \subseteq Objects
  BY DEF Dying, Queued
<1>2. \A n \in Nodes : ListAfter(back)[n] = IF n \in Dying(back) THEN "free"
                                            ELSE IF n \in Queued(back) THEN "zero" ELSE list[n]
  <2> SUFFICES ASSUME NEW n \in Nodes
               PROVE  ListAfter(back)[n] = IF n \in Dying(back) THEN "free"
                                           ELSE IF n \in Queued(back) THEN "zero" ELSE list[n]
    OBVIOUS
  <2>1. CASE n \in Dying(back)
    BY <1>1, <2>1, NodeFacts DEF ListAfter
  <2>2. CASE n \notin Dying(back) /\ n \in Queued(back)
    BY <2>2 DEF ListAfter
  <2>3. CASE n \notin Dying(back) /\ n \notin Queued(back)
    BY <2>3 DEF ListAfter
  <2>4. QED
    BY <2>1, <2>2, <2>3
<1>3. ListAfter(back) \in [Nodes -> {"free", "gc", "tmp", "zero"}]
  <2>1. ListAfter(back) = [n \in Nodes |-> ListAfter(back)[n]]
    BY DEF ListAfter
  <2>2. \A n \in Nodes : list[n] \in {"free", "gc", "tmp", "zero"}
    BY DEF HeapTypeOK
  <2>3. QED
    BY <1>2, <2>1, <2>2
<1>4. phase = "cycles" => Queued(back) = {}
  BY DEF Queued
<1>5. \A o \in Queued(back) : CountAfter(back)[o] = 0
  BY DEF Queued
<1>6. \A n \in Nodes : n \in Dying(back) => n \notin Queued(back)
  BY <1>1, NodeFacts
<1>7. QED
  BY <1>1, <1>2, <1>3, <1>4, <1>5, <1>6, NodeFacts

\* When references are given back, everything agrees again.
LEMMA CascadeSound ==
    ASSUME HeapTypeOK, NEW f, NEW ext, NEW back, Debited(f, ext, back)
    PROVE  /\ Sound(ListAfter(back), CountAfter(back), Cleared(f, Dying(back)), ext)
           /\ \A o \in Queued(back) : list[o] # "free"
<1> DEFINE D == Dying(back)
           L == ListAfter(back)
           g == Cleared(f, D)
<1>1. \A o \in Queued(back) : list[o] # "free"
  <2> SUFFICES ASSUME NEW o \in Queued(back), list[o] = "free"
               PROVE  FALSE
    OBVIOUS
  <2>1. o \in Nodes /\ o \in Objects /\ Returned(back)[o] > 0
    BY NodeFacts DEF Queued
  <2>2. \A pl \in Places : f[pl] # o
    BY <2>1, NodeFacts DEF Debited
  <2>3. \A v \in D : value[v] # o
    <3>1. \A v \in D : f[<<v, None>>] = value[v]
      BY DEF Debited
    <3>2. \A v \in D : <<v, None>> \in Places
      BY PlaceFacts, ListFacts
    <3>3. QED
      BY <2>2, <3>1, <3>2
  <2>4. Cardinality({v \in D : value[v] = o}) = 0
    <3>1. {v \in D : value[v] = o} = {}
      BY <2>3
    <3>2. QED
      BY <3>1, FS_EmptySet
  <2>5. back[o] = 0
    BY <2>1 DEF Debited
  <2>6. Returned(back)[o] = 0
    BY <2>1, <2>4, <2>5 DEF Returned
  <2>7. QED
    BY <2>1, <2>6
<1> DEFINE C == CountAfter(back)
<1>2. /\ g \in Graphs
      /\ \A pl \in Places : g[pl] = IF pl[1] \in D THEN None ELSE f[pl]
  BY Cascade DEF Cleared
<1>3. \A n \in Nodes : C[n] = Cardinality(At(g, Nodes, n)) + ext[n]
  BY Cascade
<1>4. \A v \in D : \A pl \in Places : f[pl] # v
  BY Cascade
<1>5. D \subseteq VarRefs
  BY ListFacts
<1>6. \A n \in Nodes : L[n] = "free" => n \in D \/ list[n] = "free"
  BY ListFacts
<1>7. \A n \in Nodes : list[n] = "free" => L[n] = "free"
  BY <1>1, ListFacts
<1>8. \A n \in Nodes : L[n] # "free" => n \notin D
  BY ListFacts
<1>9. \A v \in VarRefs : C[v] = count[v] - back[v] /\ C[v] \in Nat
  BY Cascade, NodeFacts
<1>10. f \in Graphs /\ back \in [Nodes -> Nat] /\ count \in [Nodes -> Nat]
  BY DEF Debited, HeapTypeOK
<1> HIDE DEF D, L, g, C
<1>11. \A pl \in Places : L[pl[1]] = "free" => g[pl] = None
  BY <1>2, <1>6, PlaceFacts DEF Debited
<1>12. \A pl \in Places : g[pl] # None => L[g[pl]] # "free"
  <2> SUFFICES ASSUME NEW pl \in Places, g[pl] # None
               PROVE  L[g[pl]] # "free"
    OBVIOUS
  <2>1. g[pl] = f[pl] /\ f[pl] \in Nodes
    BY <1>2, <1>10 DEF Graphs
  <2>2. list[f[pl]] # "free"
    BY <2>1, NodeFacts DEF Debited
  <2>3. QED
    BY <1>4, <1>6, <2>1, <2>2
<1>13. \A n \in Nodes : L[n] = "free" => ext[n] = 0
  BY <1>5, <1>6 DEF Debited
<1>14. ASSUME NEW v \in VarRefs, L[v] # "free"
       PROVE  \E pl \in Places : g[pl] = v
  <2>1. v \in Nodes /\ v \notin D /\ list[v] # "free"
    BY <1>7, <1>8, <1>14, NodeFacts
  <2>2. count[v] > 0 /\ ext[v] = 0
    BY <2>1 DEF Debited
  <2>3. count[v] # back[v] \/ ~(back[v] > 0)
    BY <2>1 DEF D, Dying
  <2>4. C[v] # 0
    BY <1>9, <1>10, <2>1, <2>2, <2>3
  <2>5. Cardinality(At(g, Nodes, v)) # 0
    BY <1>3, <2>1, <2>2, <2>4
  <2>6. QED
    BY <2>5, NoneAt
<1>15. Sound(L, C, g, ext)
  BY <1>3, <1>11, <1>12, <1>13, <1>14 DEF Sound
<1>16. QED
  BY <1>1, <1>15 DEF D, L, g, C

-----------------------------------------------------------------------------
(* Scripts and native code *)

\* External as a function
Ext == [n \in Nodes |-> External(n)]

LEMMA ExtFacts ==
    ASSUME HeapTypeOK
    PROVE  /\ Ext \in [Nodes -> Nat]
           /\ \A n \in Nodes : External(n) = Ext[n]
           /\ \A v \in VarRefs : Ext[v] = 0
           /\ \A o \in Objects : Ext[o] = held[o] + leaked[o] + (IF exception = o THEN 1 ELSE 0)
           /\ \A o \in Objects : held[o] \in 0 .. MaxHeld /\ held[o] \in Nat /\ leaked[o] \in Nat
<1>1. \A n \in Nodes : External(n) = Ext[n]
  BY DEF Ext
<1>2. \A o \in Objects : held[o] \in 0 .. MaxHeld /\ held[o] \in Nat /\ leaked[o] \in Nat
  BY NodeFacts DEF HeapTypeOK
<1>3. ASSUME NEW v \in VarRefs
      PROVE  External(v) = 0
  <2>1. v \notin Objects /\ exception # v
    BY NodeFacts DEF HeapTypeOK
  <2>2. QED
    BY <2>1 DEF External
<1>4. ASSUME NEW o \in Objects
      PROVE  /\ External(o) = held[o] + leaked[o] + (IF exception = o THEN 1 ELSE 0)
             /\ External(o) \in Nat
  BY <1>2 DEF External
<1>5. \A n \in Nodes : External(n) \in Nat
  BY <1>3, <1>4, NodeFacts
<1>6. Ext \in [Nodes -> Nat]
  BY <1>5 DEF Ext
<1>7. QED
  BY <1>1, <1>2, <1>3, <1>4, <1>6, NodeFacts

LEMMA SoundNow ==
    ASSUME HeapInv, phase \in {"run", "cycles"}
    PROVE  /\ Sound(list, count, Graph, Ext)
           /\ \A v \in VarRefs : list[v] # "free" => count[v] > 0
<1>1. HeapTypeOK /\ GraphInv /\ CountInv
  BY DEF HeapInv
<1>2. TakenOff = {}
  BY DEF TakenOff
<1>3. \A n \in Nodes : count[n] = Cardinality(At(Graph, Nodes, n)) + Ext[n]
  <2>1. Nodes \ {} = Nodes
    OBVIOUS
  <2>2. QED
    BY <1>1, <1>2, <2>1, ExtFacts DEF CountInv
<1>4. Sound(list, count, Graph, Ext)
  <2>1. \A n \in Nodes : list[n] = "free" => Ext[n] = 0
    BY <1>1, ExtFacts DEF GraphInv
  <2>2. QED
    BY <1>1, <1>3, <2>1 DEF GraphInv, Sound
<1>5. ASSUME NEW v \in VarRefs, list[v] # "free"
      PROVE  count[v] > 0
  <2>1. v \in Nodes /\ Ext[v] = 0
    BY <1>1, ExtFacts, NodeFacts
  <2>2. Cardinality(At(Graph, Nodes, v)) # 0
    BY <1>1, <1>5, NoneAt DEF GraphInv
  <2>3. QED
    BY <1>3, <2>1, <2>2, AtFacts
<1>6. QED
  BY <1>4, <1>5

\* Outside a collection only objects that nothing refers to wait to be freed.
Idle(L, C) == \A n \in Nodes : L[n] # "tmp" /\ (L[n] = "zero" => n \in Objects /\ C[n] = 0)

LEMMA Resumes ==
    ASSUME HeapTypeOK', phase' = "run", marked' = {}, todo' = {},
           Sound(list', count', Graph', Ext'), Idle(list', count')
    PROVE  HeapInv'
<1>1. TakenOff' = {}
  BY DEF TakenOff
<1>2. \A n \in Nodes : External(n)' = Ext'[n]
  BY DEF Ext
<1>3. CountInv'
  <2>1. Nodes \ {} = Nodes
    OBVIOUS
  <2>2. QED
    BY <1>1, <1>2, <2>1 DEF CountInv, Sound
<1>4. GraphInv'
  <2>1. \A n \in Nodes : list'[n] = "free" => External(n)' = 0
    BY <1>2 DEF Sound
  <2>2. QED
    BY <2>1 DEF GraphInv, Sound
<1>5. PhaseInv'
  BY DEF PhaseInv, Idle, In
<1>6. QED
  BY <1>3, <1>4, <1>5 DEF HeapInv

LEMMA RunFacts ==
    ASSUME HeapInv, phase = "run"
    PROVE  /\ marked = {} /\ todo = {} /\ Idle(list, count)
           /\ Running => \A n \in Nodes : list[n] \in {"free", "gc"}
           /\ Running => \A o \in Objects : Ext[o] # 0 => list[o] = "gc"
<1>1. marked = {} /\ todo = {} /\ Idle(list, count)
  BY DEF HeapInv, PhaseInv, Idle, In
<1>2. Running => \A n \in Nodes : list[n] \in {"free", "gc"}
  BY <1>1 DEF HeapInv, HeapTypeOK, Running, In, Idle
<1>3. \A o \in Objects : Ext[o] # 0 => list[o] # "free"
  BY SoundNow, NodeFacts DEF Sound
<1>4. QED
  BY <1>1, <1>2, <1>3, NodeFacts

LEMMA CascadeIdle ==
    ASSUME HeapInv, phase = "run", NEW f, NEW ext, NEW back, Debited(f, ext, back)
    PROVE  Idle(ListAfter(back), CountAfter(back))
<1>1. HeapTypeOK
  BY DEF HeapInv
<1> DEFINE L == ListAfter(back)
           C == CountAfter(back)
<1> HIDE DEF L, C
<1>2. ASSUME NEW n \in Nodes
      PROVE  L[n] # "tmp" /\ (L[n] = "zero" => n \in Objects /\ C[n] = 0)
  <2>1. list[n] # "tmp" /\ (list[n] = "zero" => n \in Objects /\ count[n] = 0)
    BY RunFacts DEF Idle
  <2>2. C[n] \in Nat /\ C[n] <= count[n] - back[n]
    BY <1>1, Cascade DEF C
  <2>3. count[n] \in Nat /\ back[n] \in Nat
    BY <1>1 DEF HeapTypeOK, Debited
  <2>4. count[n] = 0 => C[n] = 0
    BY <2>2, <2>3
  <2>5. CASE n \in Dying(back) \/ n \in Queued(back)
    BY <1>1, <2>5, ListFacts DEF L, C
  <2>6. CASE n \notin Dying(back) /\ n \notin Queued(back)
    <3>1. L[n] = list[n]
      BY <1>1, <2>6, ListFacts DEF L
    <3>2. QED
      BY <2>1, <2>4, <3>1
  <2>7. QED
    BY <2>5, <2>6
<1>3. QED
  BY <1>2 DEF Idle, L, C

\* An operation that gives references back while no collection runs.
LEMMA GivingBack ==
    ASSUME HeapInv, phase = "run", NEW f, NEW ext, NEW back, Debited(f, ext, back),
           list' = ListAfter(back), count' = CountAfter(back),
           Graph' = Cleared(f, Dying(back)), Ext' = ext, UNCHANGED <<marked, phase, todo>>,
           props' \in [Objects -> [Slots -> Nodes \union {None}]],
           value' \in [VarRefs -> Objects \union {None}],
           held' \in [Objects -> 0 .. MaxHeld], leaked' \in [Objects -> Nat],
           exception' \in Objects \union {None}
    PROVE  HeapInv'
<1>1. HeapTypeOK
  BY DEF HeapInv
<1>2. HeapTypeOK'
  <2>1. list' \in [Nodes -> {"free", "gc", "tmp", "zero"}]
    BY <1>1, ListFacts
  <2>2. count' \in [Nodes -> Nat]
    BY <1>1, Cascade
  <2>3. QED
    BY <1>1, <2>1, <2>2 DEF HeapTypeOK
<1>3. Sound(list', count', Graph', Ext')
  BY <1>1, CascadeSound
<1>4. Idle(list', count')
  BY CascadeIdle
<1>5. marked' = {} /\ todo' = {}
  BY RunFacts
<1>6. QED
  BY <1>2, <1>3, <1>4, <1>5, Resumes

LEMMA OnceFacts ==
    ASSUME NEW x
    PROVE  /\ Once(x) \in [Nodes -> Nat]
           /\ \A n \in Nodes : Once(x)[n] = IF n = x THEN 1 ELSE 0
           /\ x \notin VarRefs => Dying(Once(x)) = {}
<1>1. \A n \in Nodes : Once(x)[n] = IF n = x THEN 1 ELSE 0
  BY DEF Once
<1>2. Once(x) \in [Nodes -> Nat]
  BY DEF Once
<1>3. x \notin VarRefs => Dying(Once(x)) = {}
  BY <1>1, NodeFacts DEF Dying
<1>4. QED
  BY <1>1, <1>2, <1>3

\* One reference from outside is given back, or moves to a place q whose old reference
\* is given back.
LEMMA DebitedDrop ==
    ASSUME HeapInv, Running, NEW x \in Objects \union {None}, NEW ext \in [Nodes -> Nat],
           \A n \in Nodes : Ext[n] = ext[n] + Once(x)[n]
    PROVE  Debited(Graph, ext, Once(x))
<1>1. HeapTypeOK /\ phase = "run"
  BY DEF HeapInv, Running
<1>2. Sound(list, count, Graph, Ext) /\ \A v \in VarRefs : list[v] # "free" => count[v] > 0
  BY <1>1, SoundNow
<1>3. Graph \in Graphs /\ Once(x) \in [Nodes -> Nat] /\ Ext \in [Nodes -> Nat]
  BY <1>1, GraphFacts, OnceFacts, ExtFacts
<1>4. \A n \in Nodes : Ext[n] = 0 => ext[n] = 0 /\ Once(x)[n] = 0
  BY <1>3
<1>5. \A v \in VarRefs : ext[v] = 0
  BY <1>1, <1>4, ExtFacts, NodeFacts
<1>6. \A v \in Dying(Once(x)) : Graph[<<v, None>>] = value[v]
  BY <1>1, GraphFacts DEF Dying
<1>7. ASSUME NEW n \in Nodes
      PROVE  count[n] = Cardinality(At(Graph, Nodes, n)) + ext[n] + Once(x)[n]
  <2>1. count[n] = Cardinality(At(Graph, Nodes, n)) + Ext[n]
    BY <1>2 DEF Sound
  <2>2. Cardinality(At(Graph, Nodes, n)) \in Nat /\ ext[n] \in Nat /\ Once(x)[n] \in Nat
    BY <1>3, AtFacts
  <2>3. QED
    BY <2>1, <2>2
<1>8. QED
  BY <1>2, <1>3, <1>4, <1>5, <1>6, <1>7 DEF Debited, Sound

LEMMA DebitedPut ==
    ASSUME HeapInv, Running, NEW q \in Places, list[q[1]] = "gc",
           NEW x \in Objects \union {None}, x # None => list[x] = "gc",
           q[1] \in VarRefs => Graph[q] \notin VarRefs,
           NEW ext \in [Nodes -> Nat], \A n \in Nodes : Ext[n] = ext[n] + Once(x)[n]
    PROVE  Debited(Put(Graph, q, x), ext, Once(Graph[q]))
<1> DEFINE f == Put(Graph, q, x)
           back == Once(Graph[q])
<1>1. HeapTypeOK /\ phase = "run"
  BY DEF HeapInv, Running
<1>2. Sound(list, count, Graph, Ext) /\ \A v \in VarRefs : list[v] # "free" => count[v] > 0
  BY <1>1, SoundNow
<1>3. Graph \in Graphs /\ back \in [Nodes -> Nat] /\ Ext \in [Nodes -> Nat] /\ x \in Nodes \union {None}
  BY <1>1, GraphFacts, OnceFacts, ExtFacts, NodeFacts
<1>4. f \in Graphs /\ \A pl \in Places : f[pl] = IF pl = q THEN x ELSE Graph[pl]
  BY <1>3 DEF Graphs, Put
<1>5. \A n \in Nodes : Once(x)[n] \in Nat
  BY OnceFacts
<1>6. \A n \in Nodes : Ext[n] = 0 => ext[n] = 0
  BY <1>5
<1>7. \A v \in VarRefs : ext[v] = 0
  BY <1>1, <1>6, ExtFacts, NodeFacts
<1>8. \A v \in Dying(back) : f[<<v, None>>] = value[v]
  <2>1. CASE q[1] \in VarRefs
    <3>1. Dying(back) = {}
      BY <2>1, OnceFacts
    <3>2. QED
      BY <3>1
  <2>2. CASE q[1] \notin VarRefs
    <3> SUFFICES ASSUME NEW v \in Dying(back)
                 PROVE  f[<<v, None>>] = value[v]
      OBVIOUS
    <3>1. v \in VarRefs /\ <<v, None>> \in Places /\ <<v, None>> # q
      BY <2>2, PlaceFacts DEF Dying
    <3>2. QED
      BY <1>1, <1>4, <3>1, GraphFacts
  <2>3. QED
    BY <2>1, <2>2
<1>9. \A n \in Nodes : list[n] = "free" => back[n] = 0
  BY <1>2, OnceFacts, NodeFacts DEF Sound
<1>10. ASSUME NEW n \in Nodes
       PROVE  count[n] = Cardinality(At(f, Nodes, n)) + ext[n] + back[n]
  <2>1. count[n] = Cardinality(At(Graph, Nodes, n)) + Ext[n]
    BY <1>2 DEF Sound
  <2>2. Cardinality(At(f, Nodes, n)) = Cardinality(At(Graph, Nodes, n))
           - (IF Graph[q] = n THEN 1 ELSE 0) + (IF x = n THEN 1 ELSE 0)
    BY <1>3, AtPut
  <2>3. back[n] = (IF Graph[q] = n THEN 1 ELSE 0) /\ Once(x)[n] = (IF x = n THEN 1 ELSE 0)
    BY OnceFacts
  <2>4. Cardinality(At(Graph, Nodes, n)) \in Nat /\ ext[n] \in Nat /\ Ext[n] = ext[n] + Once(x)[n]
    BY AtFacts
  <2> HIDE DEF f, back
  <2>5. QED
    BY <2>1, <2>2, <2>3, <2>4
<1>11. \A pl \in Places : list[pl[1]] = "free" => f[pl] = None
  BY <1>2, <1>4 DEF Sound
<1>12. \A pl \in Places : f[pl] # None => list[f[pl]] # "free"
  BY <1>2, <1>4 DEF Sound
<1>13. \A n \in Nodes : list[n] = "free" => ext[n] = 0
  BY <1>2, <1>6 DEF Sound
<1> HIDE DEF f, back
<1>14. Debited(f, ext, back)
  BY <1>2, <1>3, <1>4, <1>7, <1>8, <1>9, <1>10, <1>11, <1>12, <1>13 DEF Debited
<1>15. QED
  BY <1>14 DEF f, back

\* The graph after the variables that die are gone.
LEMMA GraphAfter ==
    ASSUME HeapTypeOK, NEW back, NEW f, value' = ValueAfter(back),
           \A v \in VarRefs : f[<<v, None>>] = value[v],
           \A o \in Objects, s \in Slots : f[<<o, s>>] = props'[o][s]
    PROVE  /\ Graph' = Cleared(f, Dying(back))
           /\ value' \in [VarRefs -> Objects \union {None}]
<1>1. Dying(back) \subseteq VarRefs
  BY DEF Dying
<1>2. \A v \in VarRefs : value'[v] = IF v \in Dying(back) THEN None ELSE value[v]
  BY DEF ValueAfter
<1>3. value' \in [VarRefs -> Objects \union {None}]
  <2>1. \A v \in VarRefs : value[v] \in Objects \union {None}
    BY DEF HeapTypeOK
  <2>2. QED
    BY <2>1 DEF ValueAfter
<1>4. ASSUME NEW pl \in Places
      PROVE  Target(pl)' = IF pl[1] \in Dying(back) THEN None ELSE f[pl]
  <2>1. CASE pl[1] \in VarRefs
    <3>1. pl = <<pl[1], None>> /\ Target(pl)' = value'[pl[1]]
      BY <2>1, PlaceFacts DEF Target
    <3>2. QED
      BY <1>2, <2>1, <3>1
  <2>2. CASE pl[1] \in Objects
    <3>1. pl = <<pl[1], pl[2]>> /\ pl[2] \in Slots /\ pl[1] \notin VarRefs
      BY <2>2, PlaceFacts, NodeFacts
    <3>2. Target(pl)' = props'[pl[1]][pl[2]]
      BY <3>1 DEF Target
    <3>3. QED
      BY <1>1, <2>2, <3>1, <3>2
  <2>3. QED
    BY <2>1, <2>2, PlaceFacts, NodeFacts
<1>5. Graph' = Cleared(f, Dying(back))
  BY <1>4 DEF Graph, Cleared
<1>6. QED
  BY <1>3, <1>5

LEMMA HeldIsAllocated ==
    ASSUME HeapInv, Running, NEW o \in Objects, held[o] > 0
    PROVE  list[o] = "gc" /\ o \in Nodes
<1>1. HeapTypeOK /\ phase = "run"
  BY DEF HeapInv, Running
<1>2. Ext[o] = held[o] + leaked[o] + (IF exception = o THEN 1 ELSE 0)
  BY <1>1, ExtFacts
<1>3. held[o] \in Nat /\ leaked[o] \in Nat
  BY <1>1, ExtFacts
<1>4. Ext[o] # 0
  BY <1>2, <1>3
<1>5. QED
  BY <1>1, <1>4, RunFacts, NodeFacts

\* A reference from outside is gone: a handle's or a local variable's, or the slot's.
LEMMA HeldLess ==
    ASSUME HeapTypeOK, NEW o \in Objects, held[o] > 0,
           held' = [held EXCEPT ![o] = @ - 1], UNCHANGED <<leaked, exception>>
    PROVE  /\ held' \in [Objects -> 0 .. MaxHeld]
           /\ Ext' \in [Nodes -> Nat]
           /\ \A n \in Nodes : Ext[n] = Ext'[n] + Once(o)[n]
<1>1. held' \in [Objects -> 0 .. MaxHeld]
  BY ExtFacts, NodeFacts DEF HeapTypeOK
<1>2. ASSUME NEW n \in Nodes
      PROVE  External(n)' \in Nat /\ External(n) = External(n)' + Once(o)[n]
  <2>1. External(n)' = (IF n \in Objects THEN held'[n] + leaked[n] ELSE 0) + (IF exception = n THEN 1 ELSE 0)
    BY DEF External
  <2>2. External(n) = (IF n \in Objects THEN held[n] + leaked[n] ELSE 0) + (IF exception = n THEN 1 ELSE 0)
    BY DEF External
  <2>3. CASE n = o
    <3>1. held'[n] = held[n] - 1 /\ Once(o)[n] = 1 /\ n \in Objects
      BY <2>3, OnceFacts DEF HeapTypeOK
    <3>2. held[n] \in Nat /\ leaked[n] \in Nat /\ held[n] > 0
      BY <2>3, ExtFacts
    <3>3. QED
      BY <2>1, <2>2, <3>1, <3>2
  <2>4. CASE n # o
    <3>1. (n \in Objects => held'[n] = held[n]) /\ Once(o)[n] = 0
      BY <2>4, OnceFacts DEF HeapTypeOK
    <3>2. External(n) \in Nat
      BY ExtFacts
    <3>3. QED
      BY <2>1, <2>2, <3>1, <3>2
  <2>5. QED
    BY <2>3, <2>4
<1>3. QED
  BY <1>1, <1>2 DEF Ext

LEMMA SlotEmptied ==
    ASSUME HeapTypeOK, exception' = None, UNCHANGED <<held, leaked>>
    PROVE  /\ Ext' \in [Nodes -> Nat]
           /\ \A n \in Nodes : Ext[n] = Ext'[n] + Once(exception)[n]
<1>1. ASSUME NEW n \in Nodes
      PROVE  External(n)' \in Nat /\ External(n) = External(n)' + Once(exception)[n]
  <2>1. n # None /\ Once(exception)[n] = IF exception = n THEN 1 ELSE 0
    BY NodeFacts, OnceFacts
  <2>2. External(n)' = IF n \in Objects THEN held[n] + leaked[n] ELSE 0
    <3>1. External(n)' = (IF n \in Objects THEN held[n] + leaked[n] ELSE 0) + (IF exception' = n THEN 1 ELSE 0)
      BY DEF External
    <3>2. n \in Objects => held[n] \in Nat /\ leaked[n] \in Nat
      BY ExtFacts
    <3>3. QED
      BY <2>1, <3>1, <3>2
  <2>3. External(n) = (IF n \in Objects THEN held[n] + leaked[n] ELSE 0) + (IF exception = n THEN 1 ELSE 0)
    BY DEF External
  <2>4. n \in Objects => held[n] \in Nat /\ leaked[n] \in Nat
    BY ExtFacts
  <2>5. QED
    BY <2>1, <2>2, <2>3, <2>4
<1>2. QED
  BY <1>1 DEF Ext

LEMMA FreeValueStep ==
    ASSUME HeapInv, NEW o \in Objects, FreeValue(o)
    PROVE  HeapInv'
<1>1. HeapTypeOK /\ Running /\ phase = "run" /\ held[o] > 0
  BY DEF HeapInv, FreeValue, Running
<1>2. /\ list' = ListAfter(Once(o)) /\ count' = CountAfter(Once(o)) /\ value' = ValueAfter(Once(o))
      /\ held' = [held EXCEPT ![o] = @ - 1]
      /\ UNCHANGED <<marked, props, leaked, exception, phase, todo>>
  BY DEF FreeValue, GivesBack
<1>3. /\ held' \in [Objects -> 0 .. MaxHeld]
      /\ Ext' \in [Nodes -> Nat] /\ \A n \in Nodes : Ext[n] = Ext'[n] + Once(o)[n]
  BY <1>1, <1>2, HeldLess
<1>4. Debited(Graph, Ext', Once(o))
  BY <1>1, <1>3, DebitedDrop
<1>5. Graph' = Cleared(Graph, Dying(Once(o))) /\ value' \in [VarRefs -> Objects \union {None}]
  BY <1>1, <1>2, GraphFacts, GraphAfter
<1>6. QED
  BY <1>1, <1>2, <1>3, <1>4, <1>5, GivingBack DEF HeapTypeOK

\* JS_Throw and JS_GetException free what was in the slot.
LEMMA SlotStep ==
    ASSUME HeapInv, Running, GivesBack(exception), exception' = None,
           UNCHANGED <<marked, props, held, leaked, phase, todo>>
    PROVE  HeapInv'
<1>1. HeapTypeOK /\ phase = "run" /\ exception \in Objects \union {None}
  BY DEF HeapInv, Running, HeapTypeOK
<1>2. /\ list' = ListAfter(Once(exception)) /\ count' = CountAfter(Once(exception))
      /\ value' = ValueAfter(Once(exception))
  BY DEF GivesBack
<1>3. Ext' \in [Nodes -> Nat] /\ \A n \in Nodes : Ext[n] = Ext'[n] + Once(exception)[n]
  BY <1>1, SlotEmptied
<1>4. Debited(Graph, Ext', Once(exception))
  BY <1>1, <1>3, DebitedDrop
<1>5. /\ Graph' = Cleared(Graph, Dying(Once(exception)))
      /\ value' \in [VarRefs -> Objects \union {None}]
  BY <1>1, <1>2, GraphFacts, GraphAfter
<1>6. QED
  BY <1>1, <1>2, <1>3, <1>4, <1>5, GivingBack DEF HeapTypeOK

\* A property, or a captured variable, is assigned.
Assigned(p, s, x) == props' = [props EXCEPT ![p][s] = x]

LEMMA PropertyPut ==
    ASSUME HeapTypeOK, NEW p \in Objects, NEW s \in Slots, NEW x \in Nodes \union {None},
           Assigned(p, s, x)
    PROVE  /\ <<p, s>> \in Places /\ Graph[<<p, s>>] = props[p][s]
           /\ props' \in [Objects -> [Slots -> Nodes \union {None}]]
           /\ Put(Graph, <<p, s>>, x) \in Graphs
           /\ \A v \in VarRefs : Put(Graph, <<p, s>>, x)[<<v, None>>] = value[v]
           /\ \A o \in Objects, t \in Slots : Put(Graph, <<p, s>>, x)[<<o, t>>] = props'[o][t]
<1> DEFINE q == <<p, s>>
           f == Put(Graph, q, x)
<1>1. q \in Places /\ q[1] = p /\ q[1] \notin VarRefs /\ Graph[q] = props[p][s] /\ Graph \in Graphs
  BY PlaceFacts, GraphFacts, NodeFacts
<1>2. props' \in [Objects -> [Slots -> Nodes \union {None}]]
  BY DEF HeapTypeOK, Assigned
<1>3. f \in Graphs /\ \A pl \in Places : f[pl] = IF pl = q THEN x ELSE Graph[pl]
  BY <1>1 DEF Graphs, Put
<1>4. \A v \in VarRefs : f[<<v, None>>] = value[v]
  <2> SUFFICES ASSUME NEW v \in VarRefs
               PROVE  f[<<v, None>>] = value[v]
    OBVIOUS
  <2>1. <<v, None>> \in Places /\ <<v, None>> # q
    BY PlaceFacts, NodeFacts
  <2>2. QED
    BY <1>3, <2>1, GraphFacts
<1>5. \A o \in Objects, t \in Slots : f[<<o, t>>] = props'[o][t]
  <2> SUFFICES ASSUME NEW o \in Objects, NEW t \in Slots
               PROVE  f[<<o, t>>] = props'[o][t]
    OBVIOUS
  <2>1. <<o, t>> \in Places /\ Graph[<<o, t>>] = props[o][t]
    BY PlaceFacts, GraphFacts
  <2>2. (<<o, t>> = q) <=> (o = p /\ t = s)
    OBVIOUS
  <2>3. props'[o][t] = IF o = p /\ t = s THEN x ELSE props[o][t]
    BY DEF HeapTypeOK, Assigned
  <2> HIDE DEF f, q
  <2>4. QED
    BY <1>3, <2>1, <2>2, <2>3
<1>6. QED
  BY <1>1, <1>2, <1>3, <1>4, <1>5

LEMMA DeletePropertyStep ==
    ASSUME HeapInv, NEW p \in Objects, NEW s \in Slots, DeleteProperty(p, s)
    PROVE  HeapInv'
<1> DEFINE q == <<p, s>>
           f == Put(Graph, q, None)
           back == Once(props[p][s])
<1>1. HeapTypeOK /\ Running /\ phase = "run" /\ held[p] > 0
  BY DEF HeapInv, DeleteProperty, Running
<1>2. /\ list' = ListAfter(back) /\ count' = CountAfter(back) /\ value' = ValueAfter(back)
      /\ Assigned(p, s, None)
      /\ UNCHANGED <<marked, held, leaked, exception, phase, todo>>
  BY DEF DeleteProperty, GivesBack, Assigned
<1>3. /\ q \in Places /\ Graph[q] = props[p][s]
      /\ props' \in [Objects -> [Slots -> Nodes \union {None}]]
      /\ \A v \in VarRefs : f[<<v, None>>] = value[v]
      /\ \A o \in Objects, t \in Slots : f[<<o, t>>] = props'[o][t]
  BY <1>1, <1>2, PropertyPut
<1>4. q[1] \notin VarRefs /\ list[q[1]] = "gc"
  BY <1>1, HeldIsAllocated, NodeFacts
<1>5. Ext' = Ext /\ Ext \in [Nodes -> Nat] /\ \A n \in Nodes : Ext[n] = Ext[n] + Once(None)[n]
  <2>1. Ext' = Ext
    BY <1>2 DEF Ext, External
  <2>2. \A n \in Nodes : Once(None)[n] = 0
    BY OnceFacts, NodeFacts
  <2>3. QED
    BY <1>1, <2>1, <2>2, ExtFacts
<1>6. Debited(f, Ext, back)
  BY <1>1, <1>3, <1>4, <1>5, DebitedPut
<1> HIDE DEF q, f, back
<1>7. Graph' = Cleared(f, Dying(back)) /\ value' \in [VarRefs -> Objects \union {None}]
  <2>1. HeapTypeOK /\ value' = ValueAfter(back)
    BY <1>1, <1>2
  <2>2. /\ \A v \in VarRefs : f[<<v, None>>] = value[v]
        /\ \A r \in Objects, t \in Slots : f[<<r, t>>] = props'[r][t]
    BY <1>3
  <2>3. QED
    BY ONLY <2>1, <2>2, GraphAfter
<1>8. QED
  BY <1>1, <1>2, <1>3, <1>5, <1>6, <1>7, GivingBack DEF HeapTypeOK

LEMMA SetPropertyStep ==
    ASSUME HeapInv, NEW p \in Objects, NEW s \in Slots, NEW o \in Objects, SetProperty(p, s, o)
    PROVE  HeapInv'
<1> DEFINE q == <<p, s>>
           f == Put(Graph, q, o)
           back == Once(props[p][s])
<1>1. HeapTypeOK /\ Running /\ phase = "run" /\ held[p] > 0 /\ held[o] > 0
  BY DEF HeapInv, SetProperty, Running
<1>2. /\ list' = ListAfter(back) /\ count' = CountAfter(back) /\ value' = ValueAfter(back)
      /\ Assigned(p, s, o) /\ held' = [held EXCEPT ![o] = @ - 1]
      /\ UNCHANGED <<marked, leaked, exception, phase, todo>>
  BY DEF SetProperty, GivesBack, Assigned
<1>3. list[o] = "gc" /\ o \in Nodes /\ q[1] \notin VarRefs /\ list[q[1]] = "gc"
  BY <1>1, HeldIsAllocated, NodeFacts
<1>4. /\ q \in Places /\ Graph[q] = props[p][s]
      /\ props' \in [Objects -> [Slots -> Nodes \union {None}]]
      /\ \A v \in VarRefs : f[<<v, None>>] = value[v]
      /\ \A r \in Objects, t \in Slots : f[<<r, t>>] = props'[r][t]
  BY <1>1, <1>2, <1>3, PropertyPut
<1>5. /\ held' \in [Objects -> 0 .. MaxHeld]
      /\ Ext' \in [Nodes -> Nat] /\ \A n \in Nodes : Ext[n] = Ext'[n] + Once(o)[n]
  BY <1>1, <1>2, HeldLess
<1>6. Debited(f, Ext', back)
  BY <1>1, <1>3, <1>4, <1>5, DebitedPut
<1> HIDE DEF q, f, back
<1>7. Graph' = Cleared(f, Dying(back)) /\ value' \in [VarRefs -> Objects \union {None}]
  <2>1. HeapTypeOK /\ value' = ValueAfter(back)
    BY <1>1, <1>2
  <2>2. /\ \A v \in VarRefs : f[<<v, None>>] = value[v]
        /\ \A r \in Objects, t \in Slots : f[<<r, t>>] = props'[r][t]
    BY <1>4
  <2>3. QED
    BY ONLY <2>1, <2>2, GraphAfter
<1>8. QED
  BY <1>1, <1>2, <1>4, <1>5, <1>6, <1>7, GivingBack DEF HeapTypeOK

LEMMA SetVariableStep ==
    ASSUME HeapInv, NEW p \in Objects, NEW s \in Slots, NEW o \in Objects, SetVariable(p, s, o)
    PROVE  HeapInv'
<1> DEFINE v == props[p][s]
           q == <<v, None>>
           f == Put(Graph, q, o)
           back == Once(value[v])
<1>1. HeapTypeOK /\ Running /\ phase = "run" /\ held[p] > 0 /\ held[o] > 0 /\ v \in VarRefs
  BY DEF HeapInv, SetVariable, Running
<1>2. /\ list' = ListAfter(back) /\ count' = CountAfter(back) /\ value' = [value EXCEPT ![v] = o]
      /\ held' = [held EXCEPT ![o] = @ - 1]
      /\ UNCHANGED <<marked, props, leaked, exception, phase, todo>>
  BY DEF SetVariable
<1>3. list[o] = "gc" /\ o \in Nodes /\ v \in Nodes
  BY <1>1, HeldIsAllocated, NodeFacts
<1>4. /\ q \in Places /\ q[1] = v /\ Graph[q] = value[v] /\ Graph[q] \notin VarRefs
      /\ Graph \in Graphs /\ Graph[<<p, s>>] = v /\ <<p, s>> \in Places
  BY <1>1, PlaceFacts, GraphFacts
<1>5. list[v] = "gc"
  <2>1. list[v] # "free"
    BY <1>1, <1>3, <1>4, SoundNow, NodeFacts DEF Sound
  <2>2. QED
    BY <1>1, <1>3, <2>1, RunFacts
<1>6. /\ held' \in [Objects -> 0 .. MaxHeld]
      /\ Ext' \in [Nodes -> Nat] /\ \A n \in Nodes : Ext[n] = Ext'[n] + Once(o)[n]
  BY <1>1, <1>2, HeldLess
<1>7. Debited(f, Ext', back)
  <2>1. Debited(f, Ext', Once(Graph[q]))
    BY <1>1, <1>3, <1>4, <1>5, <1>6, DebitedPut
  <2>2. QED
    BY <1>4, <2>1
<1>8. value' \in [VarRefs -> Objects \union {None}]
  BY <1>1, <1>2 DEF HeapTypeOK
<1>9. Dying(back) = {}
  BY <1>1, <1>4, OnceFacts
<1>10. f \in Graphs /\ \A pl \in Places : f[pl] = IF pl = q THEN o ELSE Graph[pl]
  BY <1>3, <1>4 DEF Graphs, Put
<1>11. ASSUME NEW pl \in Places
       PROVE  Target(pl)' = f[pl]
  <2>1. CASE pl[1] \in VarRefs
    <3>1. pl = <<pl[1], None>> /\ Target(pl)' = value'[pl[1]] /\ Graph[pl] = value[pl[1]]
      BY <1>1, <2>1, PlaceFacts, GraphFacts DEF Target
    <3>2. value'[pl[1]] = IF pl[1] = v THEN o ELSE value[pl[1]]
      BY <1>1, <1>2, <2>1 DEF HeapTypeOK
    <3>3. (pl = q) <=> (pl[1] = v)
      BY <3>1
    <3> HIDE DEF f
    <3>4. QED
      BY <1>10, <3>1, <3>2, <3>3
  <2>2. CASE pl[1] \notin VarRefs
    <3>1. Target(pl)' = Target(pl) /\ pl # q
      BY <1>1, <1>2, <1>4, <2>2 DEF Target
    <3>2. Graph[pl] = Target(pl)
      BY DEF Graph
    <3> HIDE DEF f
    <3>3. QED
      BY <1>10, <3>1, <3>2
  <2>3. QED
    BY <2>1, <2>2
<1> HIDE DEF q, f, back, v
<1>12. Graph' = Cleared(f, Dying(back))
  BY <1>9, <1>11 DEF Graph, Cleared
<1>13. QED
  BY <1>1, <1>2, <1>6, <1>7, <1>8, <1>12, GivingBack DEF HeapTypeOK

\* A reference from outside is added to an object, which may be new.
LEMMA Gaining ==
    ASSUME NEW L, NEW C \in [Nodes -> Nat], NEW g \in Graphs, NEW ext \in [Nodes -> Nat], NEW o \in Objects,
           Sound(L, C, g, ext), Idle(L, C),
           \A n \in Nodes : list'[n] = IF n = o THEN "gc" ELSE L[n],
           \A n \in Nodes : count'[n] = C[n] + Once(o)[n],
           \A n \in Nodes : Ext'[n] = ext[n] + Once(o)[n],
           Graph' = g, HeapTypeOK', phase' = "run", marked' = {}, todo' = {}
    PROVE  HeapInv'
<1>1. \A n \in Nodes : Once(o)[n] = IF n = o THEN 1 ELSE 0
  BY OnceFacts
<1>2. Idle(list', count')
  <2> SUFFICES ASSUME NEW n \in Nodes
               PROVE  list'[n] # "tmp" /\ (list'[n] = "zero" => n \in Objects /\ count'[n] = 0)
    BY DEF Idle
  <2>1. CASE n = o
    BY <2>1
  <2>2. CASE n # o
    BY <1>1, <2>2 DEF Idle
  <2>3. QED
    BY <2>1, <2>2
<1>3. ASSUME NEW n \in Nodes
      PROVE  count'[n] = Cardinality(At(Graph', Nodes, n)) + Ext'[n]
  <2>1. C[n] = Cardinality(At(g, Nodes, n)) + ext[n] /\ ext[n] \in Nat
    BY DEF Sound
  <2>2. Cardinality(At(g, Nodes, n)) \in Nat /\ Once(o)[n] \in Nat
    BY <1>1, AtFacts
  <2>3. count'[n] = C[n] + Once(o)[n] /\ Ext'[n] = ext[n] + Once(o)[n]
    OBVIOUS
  <2>4. QED
    BY <2>1, <2>2, <2>3
<1>4. \A n \in Nodes : list'[n] = "free" => Ext'[n] = 0
  <2> SUFFICES ASSUME NEW n \in Nodes, list'[n] = "free"
               PROVE  Ext'[n] = 0
    OBVIOUS
  <2>1. n # o /\ L[n] = "free"
    OBVIOUS
  <2>2. ext[n] = 0 /\ Once(o)[n] = 0
    BY <1>1, <2>1 DEF Sound
  <2>3. QED
    BY <2>2
<1>5. \A pl \in Places : list'[pl[1]] = "free" => g[pl] = None
  BY PlaceFacts DEF Sound
<1>6. \A pl \in Places : g[pl] # None => list'[g[pl]] # "free"
  BY DEF Sound, Graphs
<1>7. \A v \in VarRefs : list'[v] # "free" => \E pl \in Places : g[pl] = v
  BY NodeFacts DEF Sound
<1>8. Sound(list', count', Graph', Ext')
  BY <1>3, <1>4, <1>5, <1>6, <1>7 DEF Sound
<1>9. QED
  BY <1>2, <1>8, Resumes

LEMMA HeldMore ==
    ASSUME HeapTypeOK, NEW o \in Objects, held[o] < MaxHeld,
           held' = [held EXCEPT ![o] = @ + 1], UNCHANGED <<leaked, exception>>
    PROVE  /\ held' \in [Objects -> 0 .. MaxHeld]
           /\ \A n \in Nodes : Ext'[n] = Ext[n] + Once(o)[n]
<1>1. held' \in [Objects -> 0 .. MaxHeld]
  BY ExtFacts, NodeFacts DEF HeapTypeOK
<1>2. ASSUME NEW n \in Nodes
      PROVE  External(n)' = External(n) + Once(o)[n]
  <2>1. External(n)' = (IF n \in Objects THEN held'[n] + leaked[n] ELSE 0) + (IF exception = n THEN 1 ELSE 0)
    BY DEF External
  <2>2. External(n) = (IF n \in Objects THEN held[n] + leaked[n] ELSE 0) + (IF exception = n THEN 1 ELSE 0)
    BY DEF External
  <2>3. CASE n = o
    <3>1. held'[n] = held[n] + 1 /\ Once(o)[n] = 1 /\ n \in Objects
      BY <2>3, OnceFacts DEF HeapTypeOK
    <3>2. held[n] \in Nat /\ leaked[n] \in Nat
      BY <2>3, ExtFacts
    <3>3. QED
      BY <2>1, <2>2, <3>1, <3>2
  <2>4. CASE n # o
    <3>1. (n \in Objects => held'[n] = held[n]) /\ Once(o)[n] = 0
      BY <2>4, OnceFacts DEF HeapTypeOK
    <3>2. External(n) \in Nat
      BY ExtFacts
    <3>3. QED
      BY <2>1, <2>2, <3>1, <3>2
  <2>5. QED
    BY <2>3, <2>4
<1>3. QED
  BY <1>1, <1>2 DEF Ext

\* Nothing refers to a node that is not allocated.
LEMMA FreeIsUnknown ==
    ASSUME HeapInv, phase \in {"run", "cycles"}, NEW n \in Nodes, list[n] = "free"
    PROVE  /\ count[n] = 0 /\ Ext[n] = 0
           /\ \A pl \in Places : Graph[pl] # n /\ (pl[1] = n => Graph[pl] = None)
<1>1. Sound(list, count, Graph, Ext)
  BY SoundNow
<1>2. Ext[n] = 0 /\ \A pl \in Places : Graph[pl] # n /\ (pl[1] = n => Graph[pl] = None)
  BY <1>1, NodeFacts DEF Sound
<1>3. Cardinality(At(Graph, Nodes, n)) = 0
  BY <1>2, NoneAt
<1>4. count[n] = Cardinality(At(Graph, Nodes, n)) + Ext[n]
  BY <1>1 DEF Sound
<1>5. QED
  BY <1>2, <1>3, <1>4

LEMMA NewObjectStep ==
    ASSUME HeapInv, NEW o \in Objects, NewObject(o)
    PROVE  HeapInv'
<1>1. HeapTypeOK /\ Running /\ phase = "run" /\ list[o] = "free" /\ o \in Nodes
  BY NodeFacts DEF HeapInv, NewObject, Running
<1>2. /\ list' = [list EXCEPT ![o] = "gc"] /\ count' = [count EXCEPT ![o] = 1]
      /\ held' = [held EXCEPT ![o] = 1]
      /\ UNCHANGED <<marked, props, value, leaked, exception, phase, todo>>
  BY DEF NewObject
<1>3. Sound(list, count, Graph, Ext) /\ Idle(list, count) /\ marked' = {} /\ todo' = {}
  BY <1>1, <1>2, SoundNow, RunFacts
<1>4. count[o] = 0 /\ Ext[o] = 0
  BY <1>1, FreeIsUnknown
<1>5. held[o] = 0
  BY <1>1, <1>4, ExtFacts
<1>6. held' = [held EXCEPT ![o] = @ + 1] /\ held[o] < MaxHeld
  BY <1>1, <1>2, <1>5, HeapAssumption DEF HeapAssumption, HeapTypeOK
<1>7. held' \in [Objects -> 0 .. MaxHeld] /\ \A n \in Nodes : Ext'[n] = Ext[n] + Once(o)[n]
  BY <1>1, <1>2, <1>6, HeldMore
<1>8. /\ HeapTypeOK' /\ count \in [Nodes -> Nat]
      /\ \A n \in Nodes : list'[n] = IF n = o THEN "gc" ELSE list[n]
  BY <1>1, <1>2, <1>7 DEF HeapTypeOK
<1>9. \A n \in Nodes : count'[n] = count[n] + Once(o)[n]
  BY <1>1, <1>2, <1>4, OnceFacts DEF HeapTypeOK
<1>10. Graph' = Graph
  BY <1>2 DEF Graph, Target
<1>11. QED
  BY <1>1, <1>2, <1>3, <1>7, <1>8, <1>9, <1>10, GraphFacts, ExtFacts, Gaining

LEMMA GetPropertyStep ==
    ASSUME HeapInv, NEW p \in Objects, NEW s \in Slots, GetProperty(p, s)
    PROVE  HeapInv'
<1> DEFINE x == props[p][s]
           o == IF x \in VarRefs THEN value[x] ELSE x
<1>1. HeapTypeOK /\ Running /\ phase = "run" /\ o # None /\ held[o] < MaxHeld
  BY DEF HeapInv, GetProperty, Running
<1>2. /\ count' = [count EXCEPT ![o] = @ + 1] /\ held' = [held EXCEPT ![o] = @ + 1]
      /\ UNCHANGED <<list, marked, props, value, leaked, exception, phase, todo>>
  BY DEF GetProperty
<1>3. o \in Objects /\ o \in Nodes
  BY <1>1, NodeFacts DEF HeapTypeOK
<1>4. \E pl \in Places : Graph[pl] = o
  <2>1. CASE x \in VarRefs
    BY <1>1, <2>1, GraphFacts, PlaceFacts
  <2>2. CASE x \notin VarRefs
    BY <1>1, <2>2, GraphFacts, PlaceFacts
  <2>3. QED
    BY <2>1, <2>2
<1> HIDE DEF x, o
<1>5. Sound(list, count, Graph, Ext) /\ Idle(list, count) /\ marked' = {} /\ todo' = {}
  BY <1>1, <1>2, SoundNow, RunFacts
<1>6. list[o] = "gc"
  BY <1>1, <1>3, <1>4, <1>5, RunFacts, NodeFacts DEF Sound
<1>7. held' \in [Objects -> 0 .. MaxHeld] /\ \A n \in Nodes : Ext'[n] = Ext[n] + Once(o)[n]
  BY <1>1, <1>2, <1>3, HeldMore
<1>8. HeapTypeOK' /\ count \in [Nodes -> Nat]
  BY <1>1, <1>2, <1>3, <1>7 DEF HeapTypeOK
<1>9. \A n \in Nodes : count'[n] = count[n] + Once(o)[n]
  BY <1>1, <1>2, <1>3, OnceFacts DEF HeapTypeOK
<1>10. Graph' = Graph
  BY <1>2 DEF Graph, Target
<1>11. \A n \in Nodes : list'[n] = IF n = o THEN "gc" ELSE list[n]
  BY <1>2, <1>6
<1>12. QED
  BY <1>1, <1>2, <1>3, <1>5, <1>7, <1>8, <1>9, <1>10, <1>11, GraphFacts, ExtFacts, Gaining

LEMMA ThrowStep ==
    ASSUME HeapInv, Running, NEW o \in Objects, Throwable(o), Throw(o),
           UNCHANGED <<marked, props, held, leaked, phase, todo>>
    PROVE  HeapInv'
<1> DEFINE back == Once(exception)
           L == ListAfter(back)
           C == CountAfter(back)
           g == Cleared(Graph, Dying(back))
           ext == [n \in Nodes |-> IF n \in Objects THEN held[n] + leaked[n] ELSE 0]
<1>1. HeapTypeOK /\ phase = "run" /\ exception \in Objects \union {None} /\ o \in Nodes
  BY NodeFacts DEF HeapInv, Running, HeapTypeOK
<1>2. /\ exception' = o /\ list' = [L EXCEPT ![o] = "gc"] /\ count' = [C EXCEPT ![o] = @ + 1]
      /\ value' = ValueAfter(back)
  BY DEF Throw
<1>3. ext \in [Nodes -> Nat]
  BY <1>1, ExtFacts
<1>4. ASSUME NEW n \in Nodes
      PROVE  Ext[n] = ext[n] + back[n] /\ Ext'[n] = ext[n] + Once(o)[n]
  <2>1. ext[n] = (IF n \in Objects THEN held[n] + leaked[n] ELSE 0) /\ ext[n] \in Nat
    BY <1>3
  <2>2. back[n] = (IF exception = n THEN 1 ELSE 0) /\ Once(o)[n] = (IF o = n THEN 1 ELSE 0)
    BY OnceFacts
  <2>3. Ext[n] = (IF n \in Objects THEN held[n] + leaked[n] ELSE 0) + (IF exception = n THEN 1 ELSE 0)
    BY DEF Ext, External
  <2>4. Ext'[n] = (IF n \in Objects THEN held[n] + leaked[n] ELSE 0) + (IF o = n THEN 1 ELSE 0)
    BY <1>2 DEF Ext, External
  <2> HIDE DEF ext, back
  <2>5. QED
    BY <2>1, <2>2, <2>3, <2>4
<1>5. Debited(Graph, ext, back)
  BY <1>1, <1>3, <1>4, DebitedDrop
<1>6. g = Graph' /\ value' \in [VarRefs -> Objects \union {None}]
  BY <1>1, <1>2, GraphFacts, GraphAfter
<1> HIDE DEF back, L, C, g, ext
<1>7. Sound(L, C, g, ext) /\ Idle(L, C)
  BY <1>1, <1>5, CascadeSound, CascadeIdle DEF L, C, g
<1>8. C \in [Nodes -> Nat] /\ g \in Graphs
  BY <1>1, <1>5, Cascade DEF C, g
<1>9. L \in [Nodes -> {"free", "gc", "tmp", "zero"}]
  BY <1>1, ListFacts DEF L
<1>10. marked' = {} /\ todo' = {}
  BY <1>1, RunFacts
<1>11. HeapTypeOK'
  BY <1>1, <1>2, <1>6, <1>8, <1>9 DEF HeapTypeOK
<1>12. /\ \A n \in Nodes : list'[n] = IF n = o THEN "gc" ELSE L[n]
       /\ \A n \in Nodes : count'[n] = C[n] + Once(o)[n]
  BY <1>1, <1>2, <1>8, <1>9, OnceFacts
<1>13. QED
  BY <1>1, <1>3, <1>4, <1>6, <1>7, <1>8, <1>10, <1>11, <1>12, Gaining

\* What is taken out of the slot and leaked is still counted.
LEMMA LeakStep ==
    ASSUME HeapInv, Running, exception' = None,
           leaked' = [o \in Objects |-> leaked[o] + Once(exception)[o]],
           UNCHANGED <<list, count, marked, props, value, held, phase, todo>>
    PROVE  HeapInv'
<1>1. HeapTypeOK /\ phase = "run"
  BY DEF HeapInv, Running
<1>2. \A o \in Objects : leaked'[o] = leaked[o] + (IF exception = o THEN 1 ELSE 0) /\ leaked'[o] \in Nat
  BY <1>1, OnceFacts, NodeFacts, ExtFacts
<1>3. HeapTypeOK'
  BY <1>1, <1>2 DEF HeapTypeOK
<1>4. ASSUME NEW n \in Nodes
      PROVE  External(n)' = External(n)
  <2>1. External(n)' = IF n \in Objects THEN held[n] + leaked'[n] ELSE 0
    <3>1. External(n)' = (IF n \in Objects THEN held[n] + leaked'[n] ELSE 0) + (IF exception' = n THEN 1 ELSE 0)
      BY DEF External
    <3>2. exception' # n /\ (n \in Objects => held[n] \in Nat /\ leaked'[n] \in Nat)
      BY <1>1, <1>2, NodeFacts, ExtFacts
    <3>3. QED
      BY <3>1, <3>2
  <2>2. External(n) = (IF n \in Objects THEN held[n] + leaked[n] ELSE 0) + (IF exception = n THEN 1 ELSE 0)
    BY DEF External
  <2>3. n \notin Objects => exception # n
    BY <1>1, NodeFacts DEF HeapTypeOK
  <2>4. n \in Objects => held[n] \in Nat /\ leaked[n] \in Nat /\ leaked'[n] = leaked[n] + (IF exception = n THEN 1 ELSE 0)
    BY <1>1, <1>2, ExtFacts
  <2>5. QED
    BY <2>1, <2>2, <2>3, <2>4
<1>5. Ext' = Ext
  BY <1>4 DEF Ext
<1>6. Graph' = Graph
  BY DEF Graph, Target
<1>7. Sound(list, count, Graph, Ext) /\ Idle(list, count) /\ marked' = {} /\ todo' = {}
  BY <1>1, SoundNow, RunFacts
<1>8. QED
  BY <1>1, <1>3, <1>5, <1>6, <1>7, Resumes

LEMMA CaptureStep ==
    ASSUME HeapInv, NEW p \in Objects, NEW s \in Slots, NEW q \in Objects, NEW t \in Slots,
           Capture(p, s, q, t)
    PROVE  HeapInv'
<1> DEFINE v == props[p][s]
           pl == <<q, t>>
           g == Put(Graph, pl, v)
<1>1. /\ HeapTypeOK /\ Running /\ phase = "run" /\ held[q] > 0
      /\ v \in VarRefs /\ v \in Nodes /\ props[q][t] = None
  BY NodeFacts DEF HeapInv, Capture, Running
<1>2. /\ Assigned(q, t, v) /\ count' = [count EXCEPT ![v] = @ + 1]
      /\ UNCHANGED <<list, marked, value, held, leaked, exception, phase, todo>>
  BY DEF Capture, Assigned
<1>3. Sound(list, count, Graph, Ext) /\ Idle(list, count) /\ marked' = {} /\ todo' = {}
  BY <1>1, <1>2, SoundNow, RunFacts
<1>4. /\ pl \in Places /\ Graph[pl] = None /\ g \in Graphs
      /\ props' \in [Objects -> [Slots -> Nodes \union {None}]]
      /\ \A w \in VarRefs : g[<<w, None>>] = value[w]
      /\ \A r \in Objects, i \in Slots : g[<<r, i>>] = props'[r][i]
  BY <1>1, <1>2, PropertyPut
<1>5. Graph[<<p, s>>] = v /\ <<p, s>> \in Places /\ Graph \in Graphs
  BY <1>1, GraphFacts, PlaceFacts
<1>6. list[v] # "free" /\ list[v] # "zero" /\ list[q] = "gc"
  BY <1>1, <1>3, <1>5, HeldIsAllocated, NodeFacts DEF Sound, Idle
<1>7. \A i \in Places : g[i] = IF i = pl THEN v ELSE Graph[i]
  BY <1>4, <1>5 DEF Graphs, Put
<1>8. Graph' = g
  <2>1. ASSUME NEW i \in Places
        PROVE  Target(i)' = g[i]
    <3>1. CASE i[1] \in VarRefs
      BY <1>2, <1>4, <3>1, PlaceFacts DEF Target
    <3>2. CASE i[1] \in Objects
      BY <1>4, <3>2, PlaceFacts, NodeFacts DEF Target
    <3>3. QED
      BY <3>1, <3>2, PlaceFacts, NodeFacts
  <2>2. g = [i \in Places |-> g[i]]
    BY <1>4 DEF Graphs
  <2>3. QED
    BY <2>1, <2>2 DEF Graph
<1>9. Ext' = Ext
  BY <1>2 DEF Ext, External
<1>10. HeapTypeOK'
  BY <1>1, <1>2, <1>4 DEF HeapTypeOK
<1>11. \A n \in Nodes : count'[n] = Cardinality(At(g, Nodes, n)) + Ext[n]
  <2> SUFFICES ASSUME NEW n \in Nodes
               PROVE  count'[n] = Cardinality(At(g, Nodes, n)) + Ext[n]
    OBVIOUS
  <2>1. Cardinality(At(g, Nodes, n)) = Cardinality(At(Graph, Nodes, n))
           - (IF Graph[pl] = n THEN 1 ELSE 0) + (IF v = n THEN 1 ELSE 0)
    BY <1>1, <1>4, <1>5, AtPut
  <2>2. Graph[pl] # n
    BY <1>4, NodeFacts
  <2>3. count'[n] = count[n] + (IF v = n THEN 1 ELSE 0)
    BY <1>1, <1>2 DEF HeapTypeOK
  <2>4. count[n] = Cardinality(At(Graph, Nodes, n)) + Ext[n]
    BY <1>3 DEF Sound
  <2>5. Cardinality(At(Graph, Nodes, n)) \in Nat /\ Ext[n] \in Nat
    BY <1>1, AtFacts, ExtFacts
  <2> HIDE DEF g, v, pl
  <2>6. QED
    BY <2>1, <2>2, <2>3, <2>4, <2>5
<1>12. \A n \in Nodes : n # v => count'[n] = count[n]
  BY <1>1, <1>2 DEF HeapTypeOK
<1> HIDE DEF g, v, pl
<1>13. Sound(list', count', Graph', Ext')
  <2>1. \A i \in Places : list[i[1]] = "free" => g[i] = None
    BY <1>3, <1>6, <1>7 DEF Sound, pl
  <2>2. \A i \in Places : g[i] # None => list[g[i]] # "free"
    BY <1>3, <1>6, <1>7 DEF Sound
  <2>3. \A w \in VarRefs : list[w] # "free" => \E i \in Places : g[i] = w
    <3> SUFFICES ASSUME NEW w \in VarRefs, list[w] # "free"
                 PROVE  \E i \in Places : g[i] = w
      OBVIOUS
    <3>1. PICK i \in Places : Graph[i] = w
      BY <1>3 DEF Sound
    <3>2. i # pl
      BY <1>4, <3>1, NodeFacts
    <3>3. QED
      BY <1>7, <3>1, <3>2
  <2>4. QED
    BY <1>2, <1>3, <1>8, <1>9, <1>11, <2>1, <2>2, <2>3 DEF Sound
<1>14. Idle(list', count')
  BY <1>2, <1>3, <1>6, <1>12 DEF Idle
<1>15. QED
  BY <1>1, <1>2, <1>3, <1>10, <1>13, <1>14, Resumes

LEMMA CloseVarRefStep ==
    ASSUME HeapInv, NEW p \in Objects, NEW s \in Slots, NEW v \in VarRefs, NEW o \in Objects,
           CloseVarRef(p, s, v, o)
    PROVE  HeapInv'
<1> DEFINE q == <<p, s>>
           r == <<v, None>>
           f == Put(Graph, q, v)
           g == Put(f, r, o)
<1>1. /\ HeapTypeOK /\ Running /\ phase = "run" /\ held[p] > 0 /\ held[o] > 0
      /\ v \in Nodes /\ o \in Nodes /\ o # v /\ p # v /\ props[p][s] = None /\ list[v] = "free"
  BY NodeFacts DEF HeapInv, CloseVarRef, Running
<1>2. /\ list' = [list EXCEPT ![v] = "gc"] /\ value' = [value EXCEPT ![v] = o]
      /\ Assigned(p, s, v) /\ count' = [count EXCEPT ![v] = 1, ![o] = @ + 1]
      /\ UNCHANGED <<marked, held, leaked, exception, phase, todo>>
  BY DEF CloseVarRef, Assigned
<1>3. Sound(list, count, Graph, Ext) /\ Idle(list, count) /\ marked' = {} /\ todo' = {}
  BY <1>1, <1>2, SoundNow, RunFacts
<1>4. /\ q \in Places /\ Graph[q] = None /\ f \in Graphs
      /\ props' \in [Objects -> [Slots -> Nodes \union {None}]]
      /\ \A w \in VarRefs : f[<<w, None>>] = value[w]
      /\ \A u \in Objects, i \in Slots : f[<<u, i>>] = props'[u][i]
  BY <1>1, <1>2, PropertyPut
<1>5. /\ count[v] = 0
      /\ \A i \in Places : Graph[i] # v /\ (i[1] = v => Graph[i] = None)
  BY <1>1, FreeIsUnknown
<1>6. list[o] = "gc" /\ list[p] = "gc"
  BY <1>1, HeldIsAllocated
<1>7. r \in Places /\ r # q /\ r[1] = v /\ Graph[r] = None /\ Graph \in Graphs
  BY <1>1, <1>5, PlaceFacts, GraphFacts
<1>8. \A i \in Places : f[i] = IF i = q THEN v ELSE Graph[i]
  BY <1>4, <1>7 DEF Graphs, Put
<1>9. g \in Graphs /\ \A i \in Places : g[i] = IF i = r THEN o ELSE f[i]
  BY <1>1, <1>4, <1>7 DEF Graphs, Put
<1>10. Graph' = g
  <2>1. ASSUME NEW i \in Places
        PROVE  Target(i)' = g[i]
    <3>1. CASE i[1] \in VarRefs
      <4>1. i = <<i[1], None>> /\ Target(i)' = value'[i[1]] /\ f[i] = value[i[1]]
        BY <1>4, <3>1, PlaceFacts DEF Target
      <4>2. value'[i[1]] = IF i[1] = v THEN o ELSE value[i[1]]
        BY <1>1, <1>2, <3>1 DEF HeapTypeOK
      <4>3. (i = r) <=> (i[1] = v)
        BY <4>1
      <4> HIDE DEF g, f
      <4>4. QED
        BY <1>9, <4>1, <4>2, <4>3
    <3>2. CASE i[1] \in Objects
      <4>1. i = <<i[1], i[2]>> /\ i[2] \in Slots /\ i[1] \notin VarRefs
        BY <3>2, PlaceFacts, NodeFacts
      <4>2. Target(i)' = props'[i[1]][i[2]]
        BY <4>1 DEF Target
      <4>3. i # r /\ f[i] = props'[i[1]][i[2]]
        BY <1>4, <1>7, <3>2, <4>1
      <4> HIDE DEF g, f
      <4>4. QED
        BY <1>9, <4>2, <4>3
    <3>3. QED
      BY <3>1, <3>2, PlaceFacts, NodeFacts
  <2>2. g = [i \in Places |-> g[i]]
    BY <1>9 DEF Graphs
  <2> HIDE DEF g
  <2>3. QED
    BY <2>1, <2>2 DEF Graph
<1>11. Ext' = Ext
  BY <1>2 DEF Ext, External
<1>12. \A n \in Nodes : count'[n] = count[n] + (IF v = n THEN 1 ELSE 0) + (IF o = n THEN 1 ELSE 0)
  <2> SUFFICES ASSUME NEW n \in Nodes
               PROVE  count'[n] = count[n] + (IF v = n THEN 1 ELSE 0) + (IF o = n THEN 1 ELSE 0)
    OBVIOUS
  <2>1. count'[n] = IF n = v THEN 1 ELSE IF n = o THEN count[n] + 1 ELSE count[n]
    BY <1>1, <1>2 DEF HeapTypeOK
  <2>2. count[n] \in Nat
    BY <1>1 DEF HeapTypeOK
  <2>3. QED
    BY <1>1, <1>5, <2>1, <2>2
<1>13. HeapTypeOK'
  <2>1. count' \in [Nodes -> Nat]
    <3>1. \A n \in Nodes : count[n] \in Nat
      BY <1>1 DEF HeapTypeOK
    <3>2. \A n \in Nodes : count'[n] \in Nat
      BY <1>12, <3>1
    <3>3. count' = [n \in Nodes |-> count'[n]]
      BY <1>1, <1>2 DEF HeapTypeOK
    <3>4. QED
      BY <3>2, <3>3
  <2>2. /\ list' \in [Nodes -> {"free", "gc", "tmp", "zero"}]
        /\ value' \in [VarRefs -> Objects \union {None}]
    BY <1>1, <1>2 DEF HeapTypeOK
  <2>3. QED
    BY <1>1, <1>2, <1>4, <2>1, <2>2 DEF HeapTypeOK
<1>14. \A n \in Nodes : count'[n] = Cardinality(At(g, Nodes, n)) + Ext[n]
  <2> SUFFICES ASSUME NEW n \in Nodes
               PROVE  count'[n] = Cardinality(At(g, Nodes, n)) + Ext[n]
    OBVIOUS
  <2>1. Cardinality(At(f, Nodes, n)) = Cardinality(At(Graph, Nodes, n))
           - (IF Graph[q] = n THEN 1 ELSE 0) + (IF v = n THEN 1 ELSE 0)
    BY <1>1, <1>4, <1>7, AtPut
  <2>2. Cardinality(At(g, Nodes, n)) = Cardinality(At(f, Nodes, n))
           - (IF f[r] = n THEN 1 ELSE 0) + (IF o = n THEN 1 ELSE 0)
    BY <1>1, <1>4, <1>7, AtPut
  <2>3. Graph[q] # n /\ f[r] # n
    BY <1>4, <1>7, <1>8, NodeFacts
  <2>4. count[n] = Cardinality(At(Graph, Nodes, n)) + Ext[n]
    BY <1>3 DEF Sound
  <2>5. Cardinality(At(Graph, Nodes, n)) \in Nat /\ Ext[n] \in Nat
    BY <1>1, AtFacts, ExtFacts
  <2> HIDE DEF g, f, q, r
  <2>6. QED
    BY <1>12, <2>1, <2>2, <2>3, <2>4, <2>5
<1>15. \A n \in Nodes : list'[n] = IF n = v THEN "gc" ELSE list[n]
  BY <1>1, <1>2 DEF HeapTypeOK
<1>16. \A i \in Places : g[i] = IF i = r THEN o ELSE IF i = q THEN v ELSE Graph[i]
  BY <1>8, <1>9
<1>17. q[1] = p
  OBVIOUS
<1> HIDE DEF g, f, q, r
<1>18. Sound(list', count', Graph', Ext')
  <2>1. \A i \in Places : list'[i[1]] = "free" => g[i] = None
    BY <1>1, <1>3, <1>6, <1>7, <1>15, <1>16, <1>17, PlaceFacts DEF Sound
  <2>2. \A i \in Places : g[i] # None => list'[g[i]] # "free"
    <3> SUFFICES ASSUME NEW i \in Places, g[i] # None
                 PROVE  list'[g[i]] # "free"
      OBVIOUS
    <3>1. CASE i = r \/ i = q
      BY <1>1, <1>6, <1>15, <1>16, <3>1
    <3>2. CASE i # r /\ i # q
      <4>1. g[i] = Graph[i] /\ g[i] \in Nodes /\ list[Graph[i]] # "free"
        BY <1>3, <1>7, <1>16, <3>2 DEF Sound, Graphs
      <4>2. QED
        BY <1>15, <4>1
    <3>3. QED
      BY <3>1, <3>2
  <2>3. \A w \in VarRefs : list'[w] # "free" => \E i \in Places : g[i] = w
    <3> SUFFICES ASSUME NEW w \in VarRefs, list'[w] # "free"
                 PROVE  \E i \in Places : g[i] = w
      OBVIOUS
    <3>1. CASE w = v
      BY <1>4, <1>7, <1>16, <3>1
    <3>2. CASE w # v
      <4>1. list[w] # "free"
        BY <1>15, <3>2, NodeFacts
      <4>2. PICK i \in Places : Graph[i] = w
        BY <1>3, <4>1 DEF Sound
      <4>3. i # q /\ i # r
        BY <1>4, <1>7, <4>2, NodeFacts
      <4>4. QED
        BY <1>16, <4>2, <4>3
    <3>3. QED
      BY <3>1, <3>2
  <2>4. \A n \in Nodes : list'[n] = "free" => Ext[n] = 0
    BY <1>3, <1>15 DEF Sound
  <2>5. QED
    BY <1>10, <1>11, <1>14, <2>1, <2>2, <2>3, <2>4 DEF Sound
<1>19. Idle(list', count')
  <2> SUFFICES ASSUME NEW n \in Nodes
               PROVE  list'[n] # "tmp" /\ list'[n] # "zero"
    BY DEF Idle
  <2>1. list[n] \in {"free", "gc"}
    BY <1>1, RunFacts
  <2>2. QED
    BY <1>15, <2>1
<1>20. QED
  BY <1>1, <1>2, <1>3, <1>13, <1>18, <1>19, Resumes

-----------------------------------------------------------------------------
(* Freeing objects *)

\* free_object: everything agrees afterwards, whether the object is kept as a zombie or not.
LEMMA FreeObjectSound ==
    ASSUME HeapInv, phase \in {"run", "cycles"}, NEW o \in Objects, Ext[o] = 0, list[o] # "free",
           phase = "run" => count[o] = 0,
           FreeObject(o), UNCHANGED <<held, leaked, exception, phase, todo>>
    PROVE  /\ HeapTypeOK' /\ Ext' = Ext /\ Sound(list', count', Graph', Ext')
           /\ \A pl \in Places : Graph'[pl] # None => Graph'[pl] = Graph[pl] /\ pl[1] # o
           /\ phase = "run" => Idle(list', count')
           /\ list'[o] \in {"free", "zero"}
           /\ phase = "cycles" => \A n \in Nodes : n # o => list'[n] \in {list[n], "free"}
           /\ phase = "cycles" => \A n \in Objects : n # o => list'[n] = list[n]
           /\ \A pl \in Places : pl[1] # o /\ list'[pl[1]] # "free" => Graph'[pl] = Graph[pl]
           /\ marked' \subseteq {n \in marked : n # o /\ (phase = "cycles" => list'[n] = list[n])}
<1> DEFINE back == [n \in Nodes |-> Points(o, n)]
           f == Cleared(Graph, {o})
           D == Dying(back)
           L == ListAfter(back)
           C == CountAfter(back)
           g == Cleared(f, D)
<1>1. HeapTypeOK /\ o \in Nodes /\ o \notin VarRefs
  BY NodeFacts DEF HeapInv
<1>2. /\ count' = C /\ value' = ValueAfter(back)
      /\ list' = [L EXCEPT ![o] = IF phase = "cycles" /\ C[o] # 0 THEN "zero" ELSE "free"]
      /\ props' = [props EXCEPT ![o] = [s \in Slots |-> None]]
      /\ marked' = marked \ ({o} \union D)
  BY DEF FreeObject, StaysAsZombie
<1>3. Sound(list, count, Graph, Ext) /\ \A v \in VarRefs : list[v] # "free" => count[v] > 0
  BY SoundNow
<1>4. Graph \in Graphs /\ f \in Graphs /\ \A pl \in Places : f[pl] = IF pl[1] = o THEN None ELSE Graph[pl]
  BY <1>1, GraphFacts DEF Cleared, Graphs
<1>5. back \in [Nodes -> Nat] /\ \A n \in Nodes : back[n] = Points(o, n)
  BY <1>1, PointsTypes
<1>6. \A v \in VarRefs : f[<<v, None>>] = value[v]
  <2> SUFFICES ASSUME NEW v \in VarRefs
               PROVE  f[<<v, None>>] = value[v]
    OBVIOUS
  <2>1. <<v, None>> \in Places /\ v # o /\ Graph[<<v, None>>] = value[v]
    BY <1>1, PlaceFacts, GraphFacts
  <2> HIDE DEF f
  <2>2. QED
    BY <1>4, <2>1
<1>7. \A n \in Nodes : list[n] = "free" => back[n] = 0
  <2> SUFFICES ASSUME NEW n \in Nodes, list[n] = "free"
               PROVE  Points(o, n) = 0
    BY <1>5
  <2>1. n \notin Children(o)
    BY <1>1, FreeIsUnknown, PointsTypes
  <2>2. QED
    BY <1>1, <2>1, PointsTypes DEF Children
<1>8. \A n \in Nodes : count[n] = Cardinality(At(f, Nodes, n)) + Ext[n] + back[n]
  <2> SUFFICES ASSUME NEW n \in Nodes
               PROVE  count[n] = Cardinality(At(f, Nodes, n)) + Ext[n] + back[n]
    OBVIOUS
  <2>1. Cardinality(At(f, Nodes, n)) = Cardinality(At(Graph, Nodes, n)) - Cardinality(At(Graph, {o}, n))
    BY <1>1, <1>4, AtCleared
  <2>2. back[n] = Cardinality(At(Graph, {o}, n))
    BY <1>1, <1>5, PointsCount
  <2>3. count[n] = Cardinality(At(Graph, Nodes, n)) + Ext[n]
    BY <1>3 DEF Sound
  <2>4. /\ Cardinality(At(Graph, Nodes, n)) \in Nat /\ Cardinality(At(Graph, {o}, n)) \in Nat
        /\ Ext[n] \in Nat
    BY <1>1, AtFacts, ExtFacts
  <2> HIDE DEF f, back
  <2>5. QED
    BY <2>1, <2>2, <2>3, <2>4
<1>9. Ext \in [Nodes -> Nat] /\ \A v \in VarRefs : Ext[v] = 0
  BY <1>1, ExtFacts
<1> HIDE DEF f, back
<1>10. D \subseteq VarRefs
  BY <1>1, ListFacts
<1>11. Debited(f, Ext, back)
  <2>1. \A pl \in Places : list[pl[1]] = "free" => f[pl] = None
    BY <1>3, <1>4 DEF Sound
  <2>2. \A pl \in Places : f[pl] # None => list[f[pl]] # "free"
    BY <1>3, <1>4 DEF Sound
  <2>3. \A n \in Nodes : list[n] = "free" => Ext[n] = 0
    BY <1>3 DEF Sound
  <2>4. QED
    BY <1>3, <1>4, <1>5, <1>6, <1>7, <1>8, <1>9, <1>10, <2>1, <2>2, <2>3 DEF Debited
<1>12. \A r \in Objects, t \in Slots : f[<<r, t>>] = props'[r][t]
  <2> SUFFICES ASSUME NEW r \in Objects, NEW t \in Slots
               PROVE  f[<<r, t>>] = props'[r][t]
    OBVIOUS
  <2>1. <<r, t>> \in Places /\ Graph[<<r, t>>] = props[r][t]
    BY <1>1, PlaceFacts, GraphFacts
  <2>2. props'[r][t] = IF r = o THEN None ELSE props[r][t]
    BY <1>1, <1>2 DEF HeapTypeOK
  <2>3. QED
    BY <1>4, <2>1, <2>2
<1>13. Graph' = g /\ value' \in [VarRefs -> Objects \union {None}]
  <2>1. value' = ValueAfter(back)
    BY <1>2
  <2>2. QED
    BY <1>1, <1>6, <1>12, <2>1, GraphAfter
<1>14. props' \in [Objects -> [Slots -> Nodes \union {None}]]
  BY <1>1, <1>2 DEF HeapTypeOK
<1>15. Sound(L, C, g, Ext) /\ C \in [Nodes -> Nat] /\ g \in Graphs
  BY <1>1, <1>11, CascadeSound, Cascade
<1>16. L \in [Nodes -> {"free", "gc", "tmp", "zero"}]
  BY <1>1, ListFacts
<1>17. \A n \in Nodes : n # o => list'[n] = L[n]
  BY <1>2, <1>16
<1>18. list'[o] = IF phase = "cycles" /\ C[o] # 0 THEN "zero" ELSE "free"
  BY <1>1, <1>2, <1>16
<1>19. phase = "run" => C[o] = 0
  <2>1. C[o] <= count[o] - back[o] /\ C[o] \in Nat /\ back[o] \in Nat
    BY <1>1, <1>5, <1>11, <1>15, Cascade
  <2>2. QED
    BY <2>1
<1>20. list'[o] = "free" => \A pl \in Places : g[pl] # o
  <2> SUFFICES ASSUME list'[o] = "free"
               PROVE  \A pl \in Places : g[pl] # o
    OBVIOUS
  <2>1. C[o] = 0
    BY <1>18, <1>19
  <2>2. C[o] = Cardinality(At(g, Nodes, o)) + Ext[o]
    BY <1>1, <1>15 DEF Sound
  <2>3. Cardinality(At(g, Nodes, o)) = 0
    BY <2>1, <2>2, AtFacts
  <2>4. QED
    BY <2>3, NoneAt
<1>21. /\ \A pl \in Places : g[pl] = IF pl[1] \in D THEN None ELSE f[pl]
       /\ \A n \in D : L[n] = "free"
       /\ phase = "cycles" => \A n \in Nodes : n \notin D => L[n] = list[n]
       /\ phase = "cycles" => \A n \in Nodes : L[n] \in {list[n], "free"}
  <2>1. phase = "cycles" => \A n \in Nodes : n \notin D => L[n] = list[n]
    BY <1>1, ListFacts
  <2>2. \A n \in D : L[n] = "free"
    BY <1>1, ListFacts
  <2>3. \A pl \in Places : g[pl] = IF pl[1] \in D THEN None ELSE f[pl]
    BY DEF Cleared
  <2>4. QED
    BY <2>1, <2>2, <2>3
<1>22. phase = "run" => Idle(L, C)
  BY <1>11, CascadeIdle
<1>23. Ext' = Ext
  BY DEF Ext, External
<1> HIDE DEF D, L, C, g
<1>24. HeapTypeOK'
  <2>1. list' \in [Nodes -> {"free", "gc", "tmp", "zero"}]
    BY <1>2, <1>16
  <2>2. marked' \subseteq Nodes
    BY <1>1, <1>2 DEF HeapTypeOK
  <2>3. QED
    BY <1>1, <1>2, <1>13, <1>14, <1>15, <2>1, <2>2 DEF HeapTypeOK
<1>25. Sound(list', count', Graph', Ext')
  <2>1. \A pl \in Places : list'[pl[1]] = "free" => g[pl] = None
    <3> SUFFICES ASSUME NEW pl \in Places, list'[pl[1]] = "free"
                 PROVE  g[pl] = None
      OBVIOUS
    <3>1. CASE pl[1] = o
      BY <1>4, <1>21, <3>1
    <3>2. CASE pl[1] # o
      BY <1>15, <1>17, <3>2, PlaceFacts DEF Sound
    <3>3. QED
      BY <3>1, <3>2
  <2>2. \A pl \in Places : g[pl] # None => list'[g[pl]] # "free"
    <3> SUFFICES ASSUME NEW pl \in Places, g[pl] # None
                 PROVE  list'[g[pl]] # "free"
      OBVIOUS
    <3>1. g[pl] \in Nodes /\ L[g[pl]] # "free"
      BY <1>15 DEF Sound, Graphs
    <3>2. QED
      BY <1>17, <1>20, <3>1
  <2>3. \A n \in Nodes : list'[n] = "free" => Ext[n] = 0
    BY <1>15, <1>17 DEF Sound
  <2>4. \A v \in VarRefs : list'[v] # "free" => \E pl \in Places : g[pl] = v
    BY <1>1, <1>15, <1>17, NodeFacts DEF Sound
  <2>5. \A n \in Nodes : C[n] = Cardinality(At(g, Nodes, n)) + Ext[n]
    BY <1>15 DEF Sound
  <2>6. QED
    BY <1>2, <1>13, <1>23, <2>1, <2>2, <2>3, <2>4, <2>5 DEF Sound
<1>26. \A pl \in Places : Graph'[pl] # None => Graph'[pl] = Graph[pl] /\ pl[1] # o
  BY <1>4, <1>13, <1>21
<1>27. phase = "run" => Idle(list', count')
  <2> SUFFICES ASSUME phase = "run", NEW n \in Nodes
               PROVE  list'[n] # "tmp" /\ (list'[n] = "zero" => n \in Objects /\ count'[n] = 0)
    BY DEF Idle
  <2>1. CASE n = o
    BY <1>18, <2>1
  <2>2. CASE n # o
    BY <1>2, <1>17, <1>22, <2>2 DEF Idle
  <2>3. QED
    BY <2>1, <2>2
<1>28. phase = "cycles" => \A n \in Nodes : n # o => list'[n] \in {list[n], "free"}
  BY <1>17, <1>21
<1>29. marked' \subseteq {n \in marked : n # o /\ (phase = "cycles" => list'[n] = list[n])}
  <2> SUFFICES ASSUME NEW n \in marked'
               PROVE  n \in marked /\ n # o /\ (phase = "cycles" => list'[n] = list[n])
    OBVIOUS
  <2>1. n \in marked /\ n # o /\ n \notin D /\ n \in Nodes
    BY <1>1, <1>2 DEF HeapTypeOK
  <2>2. QED
    BY <1>17, <1>21, <2>1
<1>30. phase = "cycles" => \A n \in Objects : n # o => list'[n] = list[n]
  BY <1>10, <1>17, <1>21, NodeFacts
<1>31. \A pl \in Places : pl[1] # o /\ list'[pl[1]] # "free" => Graph'[pl] = Graph[pl]
  <2> SUFFICES ASSUME NEW pl \in Places, pl[1] # o, list'[pl[1]] # "free"
               PROVE  Graph'[pl] = Graph[pl]
    OBVIOUS
  <2>1. pl[1] \notin D
    BY <1>17, <1>21, PlaceFacts
  <2>2. QED
    BY <1>4, <1>13, <1>21, <2>1
<1>32. QED
  BY <1>18, <1>23, <1>24, <1>25, <1>26, <1>27, <1>28, <1>29, <1>30, <1>31

LEMMA FreeZeroRefcountStep ==
    ASSUME HeapInv, NEW o \in Objects, FreeZeroRefcount(o)
    PROVE  HeapInv'
<1>1. /\ HeapTypeOK /\ phase = "run" /\ phase' = "run" /\ list[o] = "zero" /\ FreeObject(o) /\ o \in Nodes
      /\ UNCHANGED <<held, leaked, exception, phase, todo>>
  BY NodeFacts DEF HeapInv, FreeZeroRefcount
<1>2. count[o] = 0 /\ marked = {} /\ todo = {}
  BY <1>1, RunFacts DEF Idle
<1>3. Ext[o] = 0
  <2>1. count[o] = Cardinality(At(Graph, Nodes, o)) + Ext[o]
    BY <1>1, SoundNow DEF Sound
  <2>2. Cardinality(At(Graph, Nodes, o)) \in Nat /\ Ext[o] \in Nat
    BY <1>1, AtFacts, ExtFacts
  <2>3. QED
    BY <1>2, <2>1, <2>2
<1>4. /\ HeapTypeOK' /\ Sound(list', count', Graph', Ext') /\ Idle(list', count')
      /\ marked' \subseteq marked
  BY <1>1, <1>2, <1>3, FreeObjectSound
<1>5. marked' = {} /\ todo' = {}
  BY <1>1, <1>2, <1>4
<1>6. QED
  BY <1>1, <1>4, <1>5, Resumes

\* The invariant while cycles are removed, from its parts.
LEMMA Purging ==
    ASSUME HeapTypeOK', phase' = "cycles", todo' = {}, Sound(list', count', Graph', Ext'),
           \A pl \in Places : pl[1] \in Objects /\ list'[pl[1]] = "zero" => Graph'[pl] = None,
           \A n \in marked' : list'[n] \in {"tmp", "zero"},
           \A n \in Nodes : list'[n] \in {"tmp", "zero"} =>
              Ext'[n] = 0 /\ \A pl \in Places : Graph'[pl] = n => list'[pl[1]] # "gc"
    PROVE  HeapInv'
<1>1. TakenOff' = {}
  BY DEF TakenOff
<1>2. \A n \in Nodes : External(n)' = Ext'[n]
  BY DEF Ext
<1>3. CountInv'
  <2>1. Nodes \ {} = Nodes
    OBVIOUS
  <2>2. QED
    BY <1>1, <1>2, <2>1 DEF CountInv, Sound
<1>4. GraphInv'
  <2>1. \A n \in Nodes : list'[n] = "free" => External(n)' = 0
    BY <1>2 DEF Sound
  <2>2. QED
    BY <2>1 DEF GraphInv, Sound
<1>5. marked' \subseteq Nodes
  BY DEF HeapTypeOK
<1>6. Secluded'
  BY <1>2 DEF Secluded, Garbage, In
<1>7. (marked \subseteq Garbage)'
  BY <1>5 DEF Garbage, In
<1>8. PhaseInv'
  BY <1>6, <1>7 DEF PhaseInv
<1>9. QED
  BY <1>3, <1>4, <1>8 DEF HeapInv

LEMMA CyclesFacts ==
    ASSUME HeapInv, phase = "cycles"
    PROVE  /\ HeapTypeOK /\ todo = {} /\ Sound(list, count, Graph, Ext)
           /\ \A pl \in Places : pl[1] \in Objects /\ list[pl[1]] = "zero" => Graph[pl] = None
           /\ \A n \in marked : n \in Nodes /\ list[n] \in {"tmp", "zero"}
           /\ \A n \in Nodes : list[n] \in {"tmp", "zero"} =>
                 Ext[n] = 0 /\ \A pl \in Places : Graph[pl] = n => list[pl[1]] # "gc"
<1>1. HeapTypeOK /\ todo = {} /\ Sound(list, count, Graph, Ext)
  BY SoundNow DEF HeapInv, PhaseInv
<1>2. \A pl \in Places : pl[1] \in Objects /\ list[pl[1]] = "zero" => Graph[pl] = None
  BY DEF HeapInv, GraphInv
<1>3. marked \subseteq Garbage /\ Secluded
  BY DEF HeapInv, PhaseInv
<1>4. \A n \in marked : n \in Nodes /\ list[n] \in {"tmp", "zero"}
  BY <1>3 DEF Garbage, In
<1>5. \A n \in Nodes : list[n] \in {"tmp", "zero"} =>
         Ext[n] = 0 /\ \A pl \in Places : Graph[pl] = n => list[pl[1]] # "gc"
  BY <1>1, <1>3, ExtFacts DEF Secluded, Garbage, In
<1>6. QED
  BY <1>1, <1>2, <1>4, <1>5

\* When gc_free_cycles has seen every node, only objects without references are left.
LEMMA ZombiesAreObjects ==
    ASSUME HeapInv, phase = "cycles", In("tmp") = {}
    PROVE  /\ \A n \in In("zero") : n \in Objects /\ Ext[n] = 0
           /\ \A n \in In("zero") : \A pl \in Places : Graph[pl] # n
<1>1. \A pl \in Places : Graph[pl] # None /\ Graph[pl] \in In("zero") => pl[1] \in VarRefs /\ list[pl[1]] = "zero"
  <2> SUFFICES ASSUME NEW pl \in Places, Graph[pl] # None, Graph[pl] \in In("zero")
               PROVE  pl[1] \in VarRefs /\ list[pl[1]] = "zero"
    OBVIOUS
  <2>1. list[pl[1]] # "gc" /\ list[pl[1]] # "free"
    BY CyclesFacts DEF Sound, In
  <2>2. pl[1] \in Nodes /\ list[pl[1]] \in {"free", "gc", "tmp", "zero"} /\ list[pl[1]] # "tmp"
    BY PlaceFacts, CyclesFacts DEF HeapTypeOK, In
  <2>3. list[pl[1]] = "zero"
    BY <2>1, <2>2
  <2>4. QED
    BY <2>2, <2>3, CyclesFacts, NodeFacts
<1>2. \A n \in In("zero") : n \in Objects
  <2> SUFFICES ASSUME NEW v \in VarRefs, v \in In("zero")
               PROVE  FALSE
    BY NodeFacts DEF In
  <2>1. PICK pl \in Places : Graph[pl] = v
    BY CyclesFacts DEF Sound, In
  <2>2. pl[1] \in VarRefs
    BY <1>1, <2>1, NodeFacts
  <2>3. QED
    BY <2>1, <2>2, CyclesFacts, GraphFacts
<1>3. \A n \in In("zero") : \A pl \in Places : Graph[pl] # n
  <2> SUFFICES ASSUME NEW n \in In("zero"), NEW pl \in Places, Graph[pl] = n
               PROVE  FALSE
    OBVIOUS
  <2>1. pl[1] \in VarRefs /\ list[pl[1]] = "zero" /\ pl[1] \in Nodes
    BY <1>1, <1>2, NodeFacts
  <2>2. pl[1] \in Objects
    BY <1>2, <2>1 DEF In
  <2>3. QED
    BY <2>1, <2>2, NodeFacts
<1>4. QED
  BY <1>2, <1>3, CyclesFacts DEF In

LEMMA FreeCycleStep ==
    ASSUME HeapInv, NEW p \in Nodes, FreeCycle(p)
    PROVE  HeapInv'
<1>1. /\ phase = "cycles" /\ phase' = "cycles" /\ list[p] = "tmp"
      /\ UNCHANGED <<held, leaked, exception, phase, todo>>
  BY DEF FreeCycle
<1>2. /\ HeapTypeOK /\ todo = {} /\ Sound(list, count, Graph, Ext)
      /\ \A pl \in Places : pl[1] \in Objects /\ list[pl[1]] = "zero" => Graph[pl] = None
      /\ \A n \in marked : n \in Nodes /\ list[n] \in {"tmp", "zero"}
      /\ \A n \in Nodes : list[n] \in {"tmp", "zero"} =>
            Ext[n] = 0 /\ \A pl \in Places : Graph[pl] = n => list[pl[1]] # "gc"
  BY <1>1, CyclesFacts
<1>3. CASE p \in Objects /\ FreeObject(p)
  <2>1. /\ HeapTypeOK' /\ Ext' = Ext /\ Sound(list', count', Graph', Ext')
        /\ \A pl \in Places : Graph'[pl] # None => Graph'[pl] = Graph[pl] /\ pl[1] # p
        /\ list'[p] \in {"free", "zero"}
        /\ \A n \in Nodes : n # p => list'[n] \in {list[n], "free"}
        /\ marked' \subseteq {n \in marked : n # p /\ list'[n] = list[n]}
    BY <1>1, <1>2, <1>3, FreeObjectSound
  <2>2. \A n \in marked' : list'[n] \in {"tmp", "zero"}
    BY <1>2, <2>1
  <2>3. \A pl \in Places : pl[1] \in Objects /\ list'[pl[1]] = "zero" => Graph'[pl] = None
    <3> SUFFICES ASSUME NEW pl \in Places, pl[1] \in Objects, list'[pl[1]] = "zero", Graph'[pl] # None
                 PROVE  FALSE
      OBVIOUS
    <3>1. Graph'[pl] = Graph[pl] /\ pl[1] # p /\ pl[1] \in Nodes
      BY <2>1, PlaceFacts
    <3>2. list[pl[1]] = "zero"
      BY <2>1, <3>1
    <3>3. QED
      BY <1>2, <3>1, <3>2
  <2>4. ASSUME NEW n \in Nodes, list'[n] \in {"tmp", "zero"}
        PROVE  Ext'[n] = 0 /\ \A pl \in Places : Graph'[pl] = n => list'[pl[1]] # "gc"
    <3>1. list[n] \in {"tmp", "zero"}
      BY <1>1, <2>1, <2>4
    <3>2. ASSUME NEW pl \in Places, Graph'[pl] = n
          PROVE  list'[pl[1]] # "gc"
      <4>1. Graph[pl] = n /\ pl[1] # p /\ pl[1] \in Nodes
        BY <2>1, <3>2, PlaceFacts, NodeFacts
      <4>2. list[pl[1]] # "gc"
        BY <1>2, <3>1, <4>1
      <4>3. QED
        BY <2>1, <4>1, <4>2
    <3>3. QED
      BY <1>2, <2>1, <3>1, <3>2
  <2>5. todo' = {}
    BY <1>1, <1>2
  <2>6. QED
    BY <1>1, <2>1, <2>2, <2>3, <2>4, <2>5, Purging
<1>4. CASE p \in VarRefs /\ list' = [list EXCEPT ![p] = "zero"] /\ UNCHANGED <<count, marked, props, value>>
  <2>1. Graph' = Graph /\ Ext' = Ext /\ todo' = {}
    BY <1>1, <1>2, <1>4 DEF Graph, Target, Ext, External
  <2>2. \A n \in Nodes : list'[n] = IF n = p THEN "zero" ELSE list[n]
    BY <1>2, <1>4 DEF HeapTypeOK
  <2>3. HeapTypeOK'
    BY <1>1, <1>2, <1>4 DEF HeapTypeOK
  <2>4. Sound(list', count', Graph', Ext')
    <3>1. \A n \in Nodes : list'[n] = "free" <=> list[n] = "free"
      BY <1>1, <2>2
    <3>2. Graph \in Graphs
      BY <1>2, GraphFacts
    <3>3. QED
      BY <1>2, <1>4, <2>1, <3>1, <3>2, PlaceFacts, NodeFacts DEF Sound, Graphs
  <2>5. \A pl \in Places : pl[1] \in Objects /\ list'[pl[1]] = "zero" => Graph[pl] = None
    BY <1>2, <1>4, <2>2, NodeFacts
  <2>6. \A n \in marked : list'[n] \in {"tmp", "zero"}
    BY <1>2, <2>2
  <2>7. ASSUME NEW n \in Nodes, list'[n] \in {"tmp", "zero"}
        PROVE  Ext[n] = 0 /\ \A pl \in Places : Graph[pl] = n => list'[pl[1]] # "gc"
    <3>1. list[n] \in {"tmp", "zero"}
      BY <1>1, <2>2, <2>7
    <3>2. QED
      BY <1>2, <2>2, <3>1, PlaceFacts
  <2>8. QED
    BY <1>1, <1>4, <2>1, <2>3, <2>4, <2>5, <2>6, <2>7, Purging
<1>5. QED
  BY <1>3, <1>4 DEF FreeCycle

LEMMA FreeZombiesStep ==
    ASSUME HeapInv, FreeZombies
    PROVE  HeapInv'
<1>1. /\ phase = "cycles" /\ phase' = "run" /\ In("tmp") = {} /\ marked' = marked \ In("zero")
      /\ list' = [n \in Nodes |-> IF list[n] = "zero" THEN "free" ELSE list[n]]
      /\ count' = [n \in Nodes |-> IF list[n] = "zero" THEN 0 ELSE count[n]]
      /\ UNCHANGED <<props, value, held, leaked, exception, todo>>
  BY DEF FreeZombies
<1>2. /\ HeapTypeOK /\ todo = {} /\ Sound(list, count, Graph, Ext)
      /\ \A pl \in Places : pl[1] \in Objects /\ list[pl[1]] = "zero" => Graph[pl] = None
      /\ \A n \in marked : n \in Nodes /\ list[n] \in {"tmp", "zero"}
  BY <1>1, CyclesFacts
<1>3. \A n \in Nodes : list[n] # "tmp"
  BY <1>1 DEF In
<1>4. \A n \in Nodes : list[n] = "zero" => n \in Objects /\ Ext[n] = 0 /\ \A pl \in Places : Graph[pl] # n
  BY <1>1, ZombiesAreObjects DEF In
<1>5. \A n \in Nodes : /\ list'[n] = IF list[n] = "zero" THEN "free" ELSE list[n]
                       /\ count'[n] = IF list[n] = "zero" THEN 0 ELSE count[n]
  BY <1>1
<1>6. HeapTypeOK'
  BY <1>1, <1>2 DEF HeapTypeOK
<1>7. Graph' = Graph /\ Ext' = Ext /\ todo' = {} /\ Graph \in Graphs
  BY <1>1, <1>2, GraphFacts DEF Graph, Target, Ext, External
<1>8. marked' = {}
  BY <1>1, <1>2, <1>3 DEF In
<1>9. Idle(list', count')
  BY <1>3, <1>5 DEF Idle
<1>10. Sound(list', count', Graph, Ext)
  <2>1. \A pl \in Places : list'[pl[1]] = "free" => Graph[pl] = None
    BY <1>2, <1>4, <1>5, PlaceFacts DEF Sound
  <2>2. \A pl \in Places : Graph[pl] # None => list'[Graph[pl]] # "free"
    BY <1>2, <1>4, <1>5, <1>7 DEF Sound, Graphs
  <2>3. \A n \in Nodes : list'[n] = "free" => Ext[n] = 0
    BY <1>2, <1>4, <1>5 DEF Sound
  <2>4. \A v \in VarRefs : list'[v] # "free" => \E pl \in Places : Graph[pl] = v
    BY <1>2, <1>5, NodeFacts DEF Sound
  <2>5. \A n \in Nodes : count'[n] = Cardinality(At(Graph, Nodes, n)) + Ext[n]
    <3> SUFFICES ASSUME NEW n \in Nodes
                 PROVE  count'[n] = Cardinality(At(Graph, Nodes, n)) + Ext[n]
      OBVIOUS
    <3>1. CASE list[n] = "zero"
      <4>1. Cardinality(At(Graph, Nodes, n)) = 0
        BY <1>4, <3>1, NoneAt
      <4>2. QED
        BY <1>4, <1>5, <3>1, <4>1
    <3>2. CASE list[n] # "zero"
      BY <1>2, <1>5, <3>2 DEF Sound
    <3>3. QED
      BY <3>1, <3>2
  <2>6. QED
    BY <2>1, <2>2, <2>3, <2>4, <2>5 DEF Sound
<1>11. QED
  BY <1>1, <1>6, <1>7, <1>8, <1>9, <1>10, Resumes

-----------------------------------------------------------------------------
(* The loops that mark *)

\* These loops move nodes between lists, and leave the graph alone.
LEMMA GraphKept ==
    ASSUME HeapTypeOK, GraphInv, UNCHANGED <<props, value, held, leaked, exception>>,
           \A n \in Nodes : list'[n] = "free" <=> list[n] = "free",
           \A n \in Nodes : list'[n] # "zero"
    PROVE  GraphInv' /\ Graph' = Graph /\ \A n \in Nodes : External(n)' = External(n)
<1>1. Graph' = Graph /\ \A n \in Nodes : External(n)' = External(n)
  BY DEF Graph, Target, External
<1>2. Graph \in Graphs
  BY GraphFacts
<1>3. /\ \A pl \in Places : list'[pl[1]] = "free" => Graph[pl] = None
      /\ \A pl \in Places : Graph[pl] # None => list'[Graph[pl]] # "free"
      /\ \A n \in Nodes : list'[n] = "free" => External(n) = 0
      /\ \A v \in VarRefs : list'[v] # "free" => \E pl \in Places : Graph[pl] = v
  BY <1>2, PlaceFacts, NodeFacts DEF GraphInv, Graphs
<1>4. GraphInv'
  BY <1>1, <1>3, PlaceFacts DEF GraphInv
<1>5. QED
  BY <1>1, <1>4

\* A node's references are taken off the counts, or put back.
LEMMA TakeOff ==
    ASSUME HeapTypeOK, CountInv, NEW p \in Nodes, p \notin TakenOff, TakenOff' = TakenOff \union {p},
           \A n \in Nodes : count'[n] = count[n] - Points(p, n),
           Graph' = Graph, \A n \in Nodes : External(n)' = External(n)
    PROVE  CountInv' /\ \A n \in Nodes : count'[n] \in Nat
<1> DEFINE L == Nodes \ (TakenOff \union {p})
<1>1. Nodes \ TakenOff = L \union {p} /\ p \notin L
  OBVIOUS
<1> HIDE DEF L
<1>2. ASSUME NEW n \in Nodes
      PROVE  count'[n] = Cardinality(At(Graph, L, n)) + External(n) /\ count'[n] \in Nat
  <2>1. count[n] = Cardinality(At(Graph, L \union {p}, n)) + External(n)
    BY <1>1 DEF CountInv
  <2>2. Cardinality(At(Graph, L \union {p}, n)) = Cardinality(At(Graph, L, n)) + Points(p, n)
    <3>1. Cardinality(At(Graph, L \union {p}, n)) =
             Cardinality(At(Graph, L, n)) + Cardinality(At(Graph, {p}, n))
      BY <1>1, AtGrow
    <3>2. QED
      BY <3>1, PointsCount
  <2>3. Cardinality(At(Graph, L, n)) \in Nat /\ External(n) \in Nat /\ Points(p, n) \in Nat
    BY AtFacts, ExtFacts, PointsTypes
  <2>4. QED
    BY <2>1, <2>2, <2>3
<1>3. CountInv'
  BY <1>2 DEF CountInv, L
<1>4. QED
  BY <1>2, <1>3

LEMMA PutBack ==
    ASSUME HeapTypeOK, CountInv, NEW p \in Nodes, p \in TakenOff, TakenOff' = TakenOff \ {p},
           \A n \in Nodes : count'[n] = count[n] + Points(p, n),
           Graph' = Graph, \A n \in Nodes : External(n)' = External(n)
    PROVE  CountInv'
<1> DEFINE L == Nodes \ TakenOff
<1>1. Nodes \ (TakenOff \ {p}) = L \union {p} /\ p \notin L
  OBVIOUS
<1> HIDE DEF L
<1>2. ASSUME NEW n \in Nodes
      PROVE  count'[n] = Cardinality(At(Graph, L \union {p}, n)) + External(n)
  <2>1. count[n] = Cardinality(At(Graph, L, n)) + External(n)
    BY DEF CountInv, L
  <2>2. Cardinality(At(Graph, L \union {p}, n)) = Cardinality(At(Graph, L, n)) + Points(p, n)
    <3>1. Cardinality(At(Graph, L \union {p}, n)) =
             Cardinality(At(Graph, L, n)) + Cardinality(At(Graph, {p}, n))
      BY <1>1, AtGrow
    <3>2. QED
      BY <3>1, PointsCount
  <2>3. Cardinality(At(Graph, L, n)) \in Nat /\ External(n) \in Nat /\ Points(p, n) \in Nat
    BY AtFacts, ExtFacts, PointsTypes
  <2>4. QED
    BY <2>1, <2>2, <2>3
<1>3. QED
  BY <1>1, <1>2 DEF CountInv

LEMMA RunGCStep ==
    ASSUME HeapInv, RunGC
    PROVE  HeapInv'
<1>1. /\ Running /\ phase = "run" /\ phase' = "decref" /\ todo' = In("gc")
      /\ UNCHANGED <<list, count, marked, props, value, held, leaked, exception>>
      /\ HeapTypeOK /\ GraphInv /\ CountInv
  BY DEF RunGC, Running, HeapInv
<1>2. marked = {} /\ \A n \in Nodes : list[n] \in {"free", "gc"}
  BY <1>1, RunFacts
<1>3. GraphInv' /\ Graph' = Graph /\ \A n \in Nodes : External(n)' = External(n)
  BY <1>1, <1>2, GraphKept
<1>4. TakenOff = {} /\ TakenOff' = {}
  BY <1>1, <1>2 DEF TakenOff
<1>5. CountInv'
  BY <1>1, <1>3, <1>4 DEF CountInv
<1>6. HeapTypeOK'
  BY <1>1 DEF HeapTypeOK, In
<1>7. PhaseInv'
  BY <1>1, <1>2 DEF PhaseInv, In, Allocated
<1>8. QED
  BY <1>3, <1>5, <1>6, <1>7 DEF HeapInv

LEMMA DecrefStep ==
    ASSUME HeapInv, NEW p \in Nodes, Decref(p)
    PROVE  HeapInv'
<1> DEFINE left == [n \in Nodes |-> count[n] - Points(p, n)]
           X == Exhausted(p, left)
<1>1. /\ phase = "decref" /\ phase' = "decref" /\ p \in todo /\ count' = left
      /\ marked' = marked \union {p} /\ todo' = todo \ {p}
      /\ list' = [n \in Nodes |-> IF n \in X THEN "tmp" ELSE list[n]]
      /\ UNCHANGED <<props, value, held, leaked, exception, phase>>
      /\ HeapTypeOK /\ GraphInv /\ CountInv
  BY DEF Decref, HeapInv
<1>2. /\ \A n \in Nodes : list[n] # "zero" /\ (n \in todo => list[n] = "gc")
      /\ \A n \in Nodes : n \in marked <=> list[n] # "free" /\ n \notin todo
      /\ \A n \in marked : list[n] = "tmp" <=> count[n] = 0
      /\ todo \subseteq Nodes /\ marked \subseteq Nodes
  BY <1>1 DEF HeapInv, PhaseInv, In, Allocated, HeapTypeOK
<1>3. \A n \in Nodes : count'[n] = count[n] - Points(p, n)
  BY <1>1
<1>4. \A n \in Nodes : n \in X <=> (Points(p, n) > 0 \/ n = p) /\ count'[n] = 0 /\ (n \in marked \/ n = p)
  BY <1>1 DEF Exhausted, Children
<1> HIDE DEF left, X
<1>5. \A n \in Nodes : list'[n] = IF n \in X THEN "tmp" ELSE list[n]
  BY <1>1
<1>6. \A n \in X : n \in Nodes => list[n] # "free" /\ n \notin todo \ {p}
  <2>1. p \in todo /\ list[p] = "gc"
    BY <1>1, <1>2
  <2>2. QED
    BY <1>2, <1>4, <2>1
<1>7. GraphInv' /\ Graph' = Graph /\ \A n \in Nodes : External(n)' = External(n)
  <2>1. /\ \A n \in Nodes : list'[n] = "free" <=> list[n] = "free"
        /\ \A n \in Nodes : list'[n] # "zero"
    BY <1>2, <1>5, <1>6
  <2>2. QED
    BY <1>1, <2>1, GraphKept
<1>8. TakenOff = marked /\ TakenOff' = marked \union {p} /\ p \notin marked
  BY <1>1, <1>2 DEF TakenOff
<1>9. CountInv' /\ \A n \in Nodes : count'[n] \in Nat
  BY <1>1, <1>3, <1>7, <1>8, TakeOff
<1>10. HeapTypeOK'
  <2>1. list' \in [Nodes -> {"free", "gc", "tmp", "zero"}]
    BY <1>1 DEF HeapTypeOK
  <2>2. count' \in [Nodes -> Nat]
    BY <1>1, <1>9 DEF left
  <2>3. QED
    BY <1>1, <2>1, <2>2 DEF HeapTypeOK
<1>11. ASSUME NEW n \in Nodes, n \in marked'
       PROVE  list'[n] = "tmp" <=> count'[n] = 0
  <2>1. Points(p, n) \in Nat /\ count[n] \in Nat /\ count'[n] \in Nat
    BY <1>1, <1>9, PointsTypes DEF HeapTypeOK
  <2>2. CASE n = p
    BY <1>1, <1>2, <1>4, <1>5, <2>2
  <2>3. CASE n # p /\ Points(p, n) > 0
    <3>1. n \in marked /\ count[n] # 0
      BY <1>1, <1>3, <1>11, <2>1, <2>3
    <3>2. QED
      BY <1>2, <1>4, <1>5, <2>3, <3>1
  <2>4. CASE n # p /\ ~(Points(p, n) > 0)
    <3>1. n \in marked /\ count'[n] = count[n] /\ n \notin X
      BY <1>1, <1>3, <1>4, <1>11, <2>1, <2>4
    <3>2. QED
      BY <1>2, <1>5, <3>1
  <2>5. QED
    BY <2>2, <2>3, <2>4
<1>12. /\ \A n \in Nodes : list'[n] # "zero" /\ (n \in todo' => list'[n] = "gc")
       /\ \A n \in Nodes : n \in marked' <=> list'[n] # "free" /\ n \notin todo'
  BY <1>1, <1>2, <1>5, <1>6
<1>13. PhaseInv'
  <2>1. marked' \subseteq Nodes /\ todo' \subseteq Nodes
    BY <1>10 DEF HeapTypeOK
  <2>2. QED
    BY <1>1, <1>11, <1>12, <2>1 DEF PhaseInv, In, Allocated
<1>14. QED
  BY <1>7, <1>9, <1>10, <1>13 DEF HeapInv

LEMMA ScanStep ==
    ASSUME HeapInv, NEW p \in Nodes, Scan(p)
    PROVE  HeapInv'
<1> DEFINE X == Rescued(p)
<1>1. /\ phase = "scan" /\ phase' = "scan" /\ p \in todo
      /\ count' = [n \in Nodes |-> count[n] + Points(p, n)]
      /\ marked' = marked \ ({p} \union X) /\ todo' = (todo \ {p}) \union X
      /\ list' = [n \in Nodes |-> IF n \in X THEN "gc" ELSE list[n]]
      /\ UNCHANGED <<props, value, held, leaked, exception, phase>>
      /\ HeapTypeOK /\ GraphInv /\ CountInv
  BY DEF Scan, HeapInv
<1>2. /\ \A n \in Nodes : list[n] # "zero" /\ (n \in todo => list[n] = "gc")
      /\ \A n \in Nodes : (list[n] = "tmp" => n \in marked) /\ (n \in marked => n \in todo \/ list[n] = "tmp")
      /\ \A n \in Nodes : list[n] # "free" => (list[n] = "tmp" <=> count[n] = 0)
      /\ todo \subseteq Nodes /\ marked \subseteq Nodes
  BY <1>1 DEF HeapInv, PhaseInv, In, Allocated, HeapTypeOK
<1>3. \A n \in Nodes : /\ Points(p, n) \in Nat /\ count[n] \in Nat
                       /\ count'[n] = count[n] + Points(p, n)
  BY <1>1, PointsTypes DEF HeapTypeOK
<1>4. X \subseteq Nodes /\ \A n \in Nodes : n \in X <=> Points(p, n) > 0 /\ count[n] = 0
  BY DEF Rescued, Children
<1>5. \A n \in Nodes : Points(p, n) > 0 => list[n] # "free"
  <2> SUFFICES ASSUME NEW n \in Nodes, Points(p, n) > 0
               PROVE  list[n] # "free"
    OBVIOUS
  <2>1. n \in Children(p)
    BY DEF Children
  <2>2. QED
    BY <1>1, <2>1, PointsTypes, NodeFacts DEF GraphInv
<1> HIDE DEF X
<1>6. \A n \in X : list[n] = "tmp"
  BY <1>2, <1>4, <1>5
<1>7. \A n \in Nodes : list'[n] = IF n \in X THEN "gc" ELSE list[n]
  BY <1>1
<1>8. list[p] = "gc" /\ p \notin X
  BY <1>1, <1>2, <1>6
<1>9. GraphInv' /\ Graph' = Graph /\ \A n \in Nodes : External(n)' = External(n)
  <2>1. /\ \A n \in Nodes : list'[n] = "free" <=> list[n] = "free"
        /\ \A n \in Nodes : list'[n] # "zero"
    BY <1>2, <1>6, <1>7
  <2>2. QED
    BY <1>1, <2>1, GraphKept
<1>10. TakenOff = todo \union In("tmp") /\ TakenOff' = todo' \union In("tmp")'
  BY <1>1 DEF TakenOff
<1>11. p \in TakenOff /\ TakenOff' = TakenOff \ {p}
  <2>1. \A n \in Nodes : n \in In("tmp")' <=> list[n] = "tmp" /\ n \notin X
    BY <1>7 DEF In
  <2>2. In("tmp")' \subseteq Nodes
    BY DEF In
  <2>3. \A n \in Nodes : n \in In("tmp") <=> list[n] = "tmp"
    BY DEF In
  <2>4. In("tmp") \subseteq Nodes
    BY DEF In
  <2>5. QED
    BY <1>1, <1>2, <1>4, <1>6, <1>8, <1>10, <2>1, <2>2, <2>3, <2>4
<1>12. CountInv'
  BY <1>1, <1>3, <1>9, <1>11, PutBack
<1>13. HeapTypeOK'
  <2>1. list' \in [Nodes -> {"free", "gc", "tmp", "zero"}]
    BY <1>1 DEF HeapTypeOK
  <2>2. count' \in [Nodes -> Nat]
    <3>1. \A n \in Nodes : count[n] + Points(p, n) \in Nat
      BY <1>3
    <3>2. QED
      BY <1>1, <3>1
  <2>3. QED
    BY <1>1, <1>4, <2>1, <2>2 DEF HeapTypeOK
<1>14. ASSUME NEW n \in Nodes, list'[n] # "free"
       PROVE  list'[n] = "tmp" <=> count'[n] = 0
  <2>1. list[n] # "free"
    BY <1>6, <1>7, <1>14
  <2>2. CASE Points(p, n) > 0
    <3>1. count'[n] # 0
      BY <1>3, <2>2
    <3>2. list'[n] # "tmp"
      BY <1>2, <1>4, <1>7, <2>1, <2>2
    <3>3. QED
      BY <3>1, <3>2
  <2>3. CASE ~(Points(p, n) > 0)
    <3>1. count'[n] = count[n]
      BY <1>3, <2>3
    <3>2. list'[n] = list[n]
      BY <1>4, <1>7, <2>3
    <3>3. QED
      BY <1>2, <2>1, <3>1, <3>2
  <2>4. QED
    BY <2>2, <2>3
<1>15. /\ \A n \in Nodes : list'[n] # "zero" /\ (n \in todo' => list'[n] = "gc")
       /\ \A n \in Nodes : (list'[n] = "tmp" => n \in marked') /\ (n \in marked' => n \in todo' \/ list'[n] = "tmp")
  BY <1>1, <1>2, <1>7, <1>8
<1>16. PhaseInv'
  <2>1. marked' \subseteq Nodes /\ todo' \subseteq Nodes
    BY <1>13 DEF HeapTypeOK
  <2>2. QED
    BY <1>1, <1>14, <1>15, <2>1 DEF PhaseInv, In, Allocated
<1>17. QED
  BY <1>9, <1>12, <1>13, <1>16 DEF HeapInv

LEMMA RestoreStep ==
    ASSUME HeapInv, NEW p \in Nodes, Restore(p)
    PROVE  HeapInv'
<1>1. /\ phase = "restore" /\ phase' = "restore" /\ p \in todo
      /\ count' = [n \in Nodes |-> count[n] + Points(p, n)] /\ todo' = todo \ {p}
      /\ UNCHANGED <<list, marked, props, value, held, leaked, exception, phase>>
      /\ HeapTypeOK /\ GraphInv /\ CountInv
  BY DEF Restore, HeapInv
<1>2. \A n \in Nodes : list[n] # "zero"
  BY <1>1 DEF HeapInv, PhaseInv, In
<1>3. GraphInv' /\ Graph' = Graph /\ \A n \in Nodes : External(n)' = External(n)
  BY <1>1, <1>2, GraphKept
<1>4. TakenOff = todo /\ TakenOff' = todo'
  BY <1>1 DEF TakenOff
<1>5. CountInv'
  BY <1>1, <1>3, <1>4, PutBack
<1>6. HeapTypeOK'
  <2>1. \A n \in Nodes : count[n] + Points(p, n) \in Nat
    BY <1>1, PointsTypes DEF HeapTypeOK
  <2>2. count' \in [Nodes -> Nat]
    BY <1>1, <2>1
  <2>3. QED
    BY <1>1, <2>2 DEF HeapTypeOK
<1>7. PhaseInv'
  <2>1. Secluded /\ In("zero") = {} /\ todo \subseteq In("tmp") /\ marked = In("tmp")
    BY <1>1 DEF HeapInv, PhaseInv
  <2>2. Secluded'
    BY <1>1, <1>3, <2>1 DEF Secluded, Garbage, In
  <2>3. In("zero")' = {} /\ todo' \subseteq In("tmp")' /\ marked' = In("tmp")'
    BY <1>1, <2>1 DEF In
  <2>4. QED
    BY <1>1, <2>2, <2>3 DEF PhaseInv
<1>8. QED
  BY <1>3, <1>5, <1>6, <1>7 DEF HeapInv

LEMMA NextLoopStep ==
    ASSUME HeapInv, NextLoop
    PROVE  HeapInv'
<1>1. /\ todo = {} /\ UNCHANGED <<list, count, marked, props, value, held, leaked, exception>>
      /\ HeapTypeOK /\ GraphInv /\ CountInv /\ PhaseInv
      /\ phase \in {"decref", "scan", "restore"}
  BY DEF NextLoop, HeapInv
<1>2. \A n \in Nodes : list[n] \in {"free", "gc", "tmp", "zero"} /\ list[n] # "zero"
  BY <1>1 DEF HeapTypeOK, PhaseInv, In
<1>3. GraphInv' /\ Graph' = Graph /\ \A n \in Nodes : External(n)' = External(n)
  BY <1>1, <1>2, GraphKept
<1>4. HeapTypeOK'
  BY <1>1 DEF HeapTypeOK, NextLoop, In
<1>5. ASSUME TakenOff' = TakenOff
      PROVE  CountInv'
  BY <1>1, <1>3, <1>5 DEF CountInv
<1>6. CASE phase = "decref" /\ phase' = "scan" /\ todo' = In("gc")
  <2>1. TakenOff = marked /\ TakenOff' = In("gc") \union In("tmp")
    BY <1>1, <1>6 DEF TakenOff, In
  <2>2. marked = Allocated /\ \A n \in marked : list[n] = "tmp" <=> count[n] = 0
    BY <1>1, <1>6 DEF PhaseInv
  <2>3. Allocated = In("gc") \union In("tmp")
    BY <1>2 DEF Allocated, In
  <2>4. PhaseInv'
    BY <1>1, <1>2, <1>6, <2>2, <2>3 DEF PhaseInv, In, Allocated
  <2>5. QED
    BY <1>3, <1>4, <1>5, <2>1, <2>2, <2>3, <2>4 DEF HeapInv
<1>7. CASE phase = "scan" /\ phase' = "restore" /\ todo' = In("tmp")
  <2>1. TakenOff = In("tmp") /\ TakenOff' = In("tmp")
    BY <1>1, <1>7 DEF TakenOff
  <2>2. /\ marked = In("tmp") /\ In("zero") = {}
        /\ \A n \in Nodes : list[n] = "tmp" => count[n] = 0
    BY <1>1, <1>7 DEF PhaseInv, Allocated, In
  <2>3. ASSUME NEW n \in Nodes, list[n] = "tmp"
        PROVE  External(n) = 0 /\ \A pl \in Places : Graph[pl] = n => list[pl[1]] = "tmp"
    <3>1. count[n] = 0 /\ count[n] = Cardinality(At(Graph, Nodes \ In("tmp"), n)) + External(n)
      BY <1>1, <2>1, <2>2, <2>3 DEF CountInv
    <3>2. Cardinality(At(Graph, Nodes \ In("tmp"), n)) \in Nat /\ External(n) \in Nat
      BY <1>1, AtFacts, ExtFacts
    <3>3. Cardinality(At(Graph, Nodes \ In("tmp"), n)) = 0 /\ External(n) = 0
      BY <3>1, <3>2
    <3>4. At(Graph, Nodes \ In("tmp"), n) = {}
      BY <3>3, AtFacts, FS_EmptySet
    <3>5. QED
      BY <3>3, <3>4, PlaceFacts DEF At, In
  <2>4. Secluded'
    BY <1>1, <1>2, <1>3, <2>3 DEF Secluded, Garbage, In
  <2>5. In("zero")' = {} /\ todo' \subseteq In("tmp")' /\ marked' = In("tmp")'
    BY <1>1, <1>7, <2>2 DEF In
  <2>6. PhaseInv'
    BY <1>7, <2>4, <2>5 DEF PhaseInv
  <2>7. QED
    BY <1>3, <1>4, <1>5, <2>1, <2>6 DEF HeapInv
<1>8. CASE phase = "restore" /\ phase' = "cycles" /\ todo' = {}
  <2>1. TakenOff = {} /\ TakenOff' = {}
    BY <1>1, <1>8 DEF TakenOff
  <2>2. Secluded /\ marked = In("tmp")
    BY <1>1, <1>8 DEF PhaseInv
  <2>3. Secluded'
    BY <1>1, <1>3, <2>2 DEF Secluded, Garbage, In
  <2>4. PhaseInv'
    BY <1>1, <1>8, <2>2, <2>3 DEF PhaseInv, Garbage, In
  <2>5. QED
    BY <1>3, <1>4, <1>5, <2>1, <2>4 DEF HeapInv
<1>9. QED
  BY <1>6, <1>7, <1>8 DEF NextLoop

-----------------------------------------------------------------------------
(* Theorems *)

LEMMA HeapInvInit == Init => HeapInv
<1> SUFFICES ASSUME Init PROVE HeapInv
  OBVIOUS
<1>1. HeapInit
  BY DEF Init
<1>2. HeapTypeOK
  BY <1>1, NodeFacts DEF HeapInit, HeapTypeOK
<1>3. \A pl \in Places : Graph[pl] = None
  BY <1>1, PlaceFacts, NodeFacts DEF Graph, Target, HeapInit
<1>4. Ext \in [Nodes -> Nat] /\ \A n \in Nodes : External(n) = Ext[n] /\ Ext[n] = 0
  <2>1. \A o \in Objects : Ext[o] = 0
    BY <1>1, <1>2, ExtFacts, NodeFacts DEF HeapInit
  <2>2. QED
    BY <1>2, <2>1, ExtFacts, NodeFacts
<1>5. \A n \in Nodes : list[n] = "free" /\ count[n] = 0
  BY <1>1 DEF HeapInit
<1>6. GraphInv
  BY <1>3, <1>4, <1>5, NodeFacts DEF GraphInv
<1>7. TakenOff = {}
  BY <1>1 DEF TakenOff, HeapInit
<1>8. ASSUME NEW n \in Nodes
      PROVE  count[n] = Cardinality(At(Graph, Nodes, n)) + External(n)
  <2>1. Cardinality(At(Graph, Nodes, n)) = 0
    BY <1>3, NoneAt, NodeFacts
  <2>2. QED
    BY <1>4, <1>5, <2>1
<1>9. CountInv
  <2>1. Nodes \ {} = Nodes
    OBVIOUS
  <2>2. QED
    BY <1>7, <1>8, <2>1 DEF CountInv
<1>10. PhaseInv
  BY <1>1, <1>5 DEF PhaseInv, In, HeapInit
<1>11. QED
  BY <1>2, <1>6, <1>9, <1>10 DEF HeapInv

LEMMA HeapInvStep == HeapInv /\ [Next]_vars => HeapInv'
<1> SUFFICES ASSUME HeapInv, [Next]_vars PROVE HeapInv'
  OBVIOUS
<1>1. ASSUME UNCHANGED heapVars
      PROVE  HeapInv'
  <2>1. HeapTypeOK' /\ TakenOff' = TakenOff /\ Graph' = Graph /\ \A n : External(n)' = External(n)
    BY <1>1 DEF heapVars, HeapInv, HeapTypeOK, TakenOff, In, Graph, Target, External
  <2>2. GraphInv'
    BY <1>1, <2>1 DEF heapVars, HeapInv, GraphInv
  <2>3. CountInv'
    BY <1>1, <2>1 DEF heapVars, HeapInv, CountInv
  <2>4. Secluded => Secluded'
    BY <1>1, <2>1 DEF heapVars, Secluded, Garbage, In
  <2>5. PhaseInv'
    BY <1>1, <2>4 DEF heapVars, HeapInv, PhaseInv, In, Allocated, Garbage
  <2>6. QED
    BY <2>1, <2>2, <2>3, <2>5 DEF HeapInv
<1>2. ASSUME Collector
      PROVE  HeapInv'
  BY <1>2, RunGCStep, NextLoopStep, FreeZombiesStep, DecrefStep, ScanStep, RestoreStep,
     FreeCycleStep, FreeZeroRefcountStep DEF Collector
<1>3. ASSUME Mutator
      PROVE  HeapInv'
  BY <1>3, NewObjectStep, FreeValueStep, GetPropertyStep, DeletePropertyStep, SetPropertyStep,
     SetVariableStep, CloseVarRefStep, CaptureStep DEF Mutator
<1>4. ASSUME NEW t \in Threads, CallReturns(t)
      PROVE  HeapInv'
  BY <1>1, <1>4 DEF CallReturns
<1>5. ASSUME NEW t \in Threads, NEW checked \in BOOLEAN, CallCatches(t, checked)
      PROVE  HeapInv'
  BY <1>5, SlotStep DEF CallCatches
<1>6. ASSUME NEW t \in Threads, NEW checked \in BOOLEAN, NEW o \in Objects, CallThrows(t, checked, o)
      PROVE  HeapInv'
  BY <1>6, ThrowStep DEF CallThrows
<1>7. ASSUME NEW t \in Threads, QueryFindsNoError(t)
      PROVE  HeapInv'
  BY <1>7, LeakStep DEF QueryFindsNoError, Taken
<1>8. ASSUME NEW t \in Threads, QueryReports(t)
      PROVE  HeapInv'
  BY <1>8, SlotStep DEF QueryReports, Taken, Reported
<1>9. ASSUME NEW t \in Threads, NEW o \in Objects, QueryRaises(t, o)
      PROVE  HeapInv'
  BY <1>9, ThrowStep DEF QueryRaises
<1>10. CASE Next
  BY <1>2, <1>3, <1>4, <1>5, <1>6, <1>7, <1>8, <1>9, <1>10 DEF Next
<1>11. CASE UNCHANGED vars
  BY <1>1, <1>11 DEF vars
<1>12. QED
  BY <1>10, <1>11

\* The heap is as HeapInv says at every step, whatever scripts and collections do.
THEOREM HeapInvariant == Spec => []HeapInv
<1>1. QED
  BY HeapInvInit, HeapInvStep, PTL DEF Spec

\* For any finite heap: at every step of every collection and of every script the count of
\* an allocated node is the number of references to it, those that gc_decref has taken off
\* left out (Balanced; quickjs.c gc_decref, gc_scan, free_object, free_var_ref).
THEOREM CountsAreExact == Spec => []Balanced
<1>1. HeapInv => Balanced
  <2> SUFFICES ASSUME HeapInv, NEW n \in Allocated
               PROVE  count[n] = Counted(n)
    BY DEF Balanced
  <2>1. n \in Nodes /\ HeapTypeOK /\ GraphInv /\ CountInv
    BY DEF Allocated, HeapInv
  <2>2. \A pl \in Places : Graph[pl] = Target(pl)
    BY DEF Graph
  <2>3. {pl \in Places : pl[1] \in Allocated \ TakenOff /\ Target(pl) = n}
           = At(Graph, Nodes \ TakenOff, n)
    BY <2>1, <2>2, PlaceFacts, NodeFacts DEF At, GraphInv, Allocated, In
  <2>4. QED
    BY <2>1, <2>3 DEF Counted, CountInv
<1>2. QED
  BY <1>1, HeapInvariant, PTL

\* For any finite heap: no property, variable, handle or pending exception ever refers to
\* freed memory, and what native code holds is never about to be freed (NoDangling).
THEOREM NothingDangles == Spec => []NoDangling
<1>1. HeapInv => NoDangling
  <2> SUFFICES ASSUME HeapInv
               PROVE  NoDangling
    OBVIOUS
  <2>1. HeapTypeOK /\ GraphInv /\ CountInv /\ PhaseInv
    BY DEF HeapInv
  <2>2. ASSUME NEW m \in Allocated, NEW n \in Children(m)
        PROVE  n \in Allocated
    <3>1. m \in Nodes /\ n \in Nodes
      BY DEF Allocated, Children
    <3>2. PICK pl \in Places : Graph[pl] = n
      BY <2>1, <2>2, <3>1, PointsTypes
    <3>3. QED
      BY <2>1, <3>1, <3>2, NodeFacts DEF GraphInv, Allocated, In
  <2>3. ASSUME NEW o \in Objects, External(o) # 0
        PROVE  o \in Allocated \ In("zero")
    <3>1. o \in Nodes /\ list[o] # "free"
      BY <2>1, <2>3, NodeFacts DEF GraphInv
    <3>2. CASE phase = "run"
      <4>1. count[o] = Cardinality(At(Graph, Nodes, o)) + Ext[o] /\ External(o) = Ext[o]
        BY <2>1, <3>1, <3>2, SoundNow, ExtFacts DEF Sound
      <4>2. Cardinality(At(Graph, Nodes, o)) \in Nat /\ Ext[o] \in Nat
        BY <2>1, <3>1, AtFacts, ExtFacts
      <4>3. count[o] # 0
        BY <2>3, <4>1, <4>2
      <4>4. QED
        BY <2>1, <3>1, <3>2, <4>3 DEF PhaseInv, Allocated, In
    <3>3. CASE phase = "cycles"
      BY <2>1, <2>3, <3>1, <3>3 DEF PhaseInv, Secluded, Garbage, Allocated, In
    <3>4. CASE phase \in {"decref", "scan", "restore"}
      BY <2>1, <3>1, <3>4 DEF PhaseInv, Allocated, In
    <3>5. QED
      BY <2>1, <3>2, <3>3, <3>4 DEF HeapTypeOK
  <2>4. ASSUME NEW o \in Objects, held[o] + leaked[o] > 0 \/ exception = o
        PROVE  External(o) # 0
    <3>1. held[o] \in Nat /\ leaked[o] \in Nat
      BY <2>1, ExtFacts
    <3>2. QED
      BY <2>4, <3>1 DEF External
  <2>5. QED
    BY <2>2, <2>3, <2>4 DEF NoDangling
<1>2. QED
  BY <1>1, HeapInvariant, PTL

\* For any finite heap: no assertion of the collector ever fails, no count underflows in
\* gc_decref_child, and gc_free_cycles leaves only objects to be freed (AssertsHold).
THEOREM AssertionsHold == Spec => []AssertsHold
<1>1. HeapInv => AssertsHold
  <2> SUFFICES ASSUME HeapInv
               PROVE  AssertsHold
    OBVIOUS
  <2>1. HeapTypeOK /\ GraphInv /\ CountInv /\ PhaseInv
    BY DEF HeapInv
  <2>2. ASSUME phase = "decref", NEW p \in todo
        PROVE  p \notin marked /\ \A n \in Nodes : Points(p, n) <= count[n]
    <3>1. p \in Nodes /\ p \notin marked
      BY <2>1, <2>2 DEF PhaseInv, HeapTypeOK
    <3> DEFINE L == Nodes \ (TakenOff \union {p})
    <3>2. TakenOff = marked
      BY <2>2 DEF TakenOff
    <3>3. Nodes \ TakenOff = L \union {p} /\ p \notin L
      BY <3>1, <3>2
    <3> HIDE DEF L
    <3>4. ASSUME NEW n \in Nodes
          PROVE  Points(p, n) <= count[n]
      <4>1. count[n] = Cardinality(At(Graph, L \union {p}, n)) + External(n)
        BY <2>1, <3>3 DEF CountInv
      <4>2. Cardinality(At(Graph, L \union {p}, n)) =
               Cardinality(At(Graph, L, n)) + Cardinality(At(Graph, {p}, n))
        BY <3>3, AtGrow
      <4>3. Points(p, n) = Cardinality(At(Graph, {p}, n))
        BY <2>1, <3>1, PointsCount
      <4>4. Cardinality(At(Graph, L, n)) \in Nat /\ External(n) \in Nat /\ Points(p, n) \in Nat
        BY <2>1, <3>1, AtFacts, ExtFacts, PointsTypes
      <4>5. QED
        BY <4>1, <4>2, <4>3, <4>4
    <3>5. QED
      BY <3>1, <3>4
  <2>3. ASSUME phase = "scan", NEW p \in todo
        PROVE  count[p] > 0
    <3>1. p \in Nodes /\ list[p] = "gc" /\ count[p] \in Nat
      BY <2>1, <2>3 DEF PhaseInv, In, HeapTypeOK
    <3>2. count[p] # 0
      BY <2>1, <2>3, <3>1 DEF PhaseInv, In, Allocated
    <3>3. QED
      BY <3>1, <3>2
  <2>4. phase = "run" => \A n \in In("zero") : count[n] = 0
    BY <2>1 DEF PhaseInv
  <2>5. phase = "cycles" /\ In("tmp") = {} => In("zero") \subseteq Objects
    BY ZombiesAreObjects
  <2>6. QED
    BY <2>2, <2>3, <2>4, <2>5 DEF AssertsHold
<1>2. QED
  BY <1>1, HeapInvariant, PTL

-----------------------------------------------------------------------------
(* Exactly the garbage is collected *)

\* T holds what native code refers to and what the kept nodes in T refer to.
Closed(T) ==
    /\ \A n \in Nodes : External(n) # 0 => n \in T
    /\ \A pl \in Places : pl[1] \in T /\ list[pl[1]] = "gc" /\ Graph[pl] # None => Graph[pl] \in T

\* From the first turn of gc_scan on, every node that is kept is one that native code
\* reaches through kept nodes.
KeptInv ==
    phase \in {"scan", "restore", "cycles"} =>
        \A T \in SUBSET Nodes : Closed(T) => In("gc") \subseteq T

LEMMA KeptUnchanged ==
    ASSUME KeptInv, phase \in {"scan", "restore", "cycles"},
           \A n \in Nodes : External(n)' = External(n),
           \A n \in Nodes : list'[n] = "gc" <=> list[n] = "gc",
           \A pl \in Places : list[pl[1]] = "gc" => Graph'[pl] = Graph[pl]
    PROVE  KeptInv'
<1> SUFFICES ASSUME NEW T \in SUBSET Nodes, Closed(T)', NEW n \in Nodes, list'[n] = "gc"
             PROVE  n \in T
  BY DEF KeptInv, In
<1>1. Closed(T)
  BY PlaceFacts DEF Closed
<1>2. In("gc") \subseteq T
  BY <1>1 DEF KeptInv
<1>3. QED
  BY <1>2 DEF In

\* When everything is taken off the counts, only references from outside are left.
LEMMA KeptStarts ==
    ASSUME HeapInv, phase = "decref", todo = {}, NEW n \in Nodes, list[n] = "gc"
    PROVE  External(n) # 0
<1>1. HeapTypeOK /\ GraphInv /\ CountInv /\ marked = Allocated
      /\ \A m \in marked : list[m] = "tmp" <=> count[m] = 0
  BY DEF HeapInv, PhaseInv
<1>2. n \in marked
  BY <1>1 DEF Allocated, In
<1>3. count[n] # 0
  BY <1>1, <1>2
<1>4. TakenOff = Allocated
  BY <1>1 DEF TakenOff
<1>5. At(Graph, Nodes \ Allocated, n) = {}
  BY <1>1, NodeFacts DEF At, Allocated, In, GraphInv
<1>6. Cardinality(At(Graph, Nodes \ Allocated, n)) = 0
  BY <1>5, FS_EmptySet
<1>7. count[n] = Cardinality(At(Graph, Nodes \ Allocated, n)) + External(n)
  BY <1>1, <1>4 DEF CountInv
<1>8. QED
  BY <1>3, <1>6, <1>7

LEMMA KeptScan ==
    ASSUME HeapInv, KeptInv, NEW p \in Nodes, Scan(p)
    PROVE  KeptInv'
<1>1. /\ phase = "scan" /\ p \in todo /\ HeapTypeOK
      /\ list' = [n \in Nodes |-> IF n \in Rescued(p) THEN "gc" ELSE list[n]]
      /\ UNCHANGED <<props, value, held, leaked, exception>>
  BY DEF Scan, HeapInv
<1>2. Graph' = Graph /\ \A n \in Nodes : External(n)' = External(n)
  BY <1>1 DEF Graph, Target, External
<1>3. list[p] = "gc"
  BY <1>1 DEF HeapInv, PhaseInv, In
<1> SUFFICES ASSUME NEW T \in SUBSET Nodes, Closed(T)', NEW n \in Nodes, list'[n] = "gc"
             PROVE  n \in T
  BY DEF KeptInv, In
<1>4. \A m \in Nodes : list[m] = "gc" => list'[m] = "gc"
  BY <1>1
<1>5. Closed(T)
  BY <1>2, <1>4, PlaceFacts DEF Closed
<1>6. \A m \in Nodes : list[m] = "gc" => m \in T
  BY <1>1, <1>5 DEF KeptInv, In
<1>7. CASE n \in Rescued(p)
  <2>1. n \in Children(p)
    BY <1>7 DEF Rescued
  <2>2. PICK pl \in Places : pl[1] = p /\ Graph[pl] = n
    BY <1>1, <2>1, PointsTypes
  <2>3. QED
    BY <1>3, <1>5, <1>6, <2>2, NodeFacts DEF Closed
<1>8. CASE n \notin Rescued(p)
  BY <1>1, <1>6, <1>8
<1>9. QED
  BY <1>7, <1>8

LEMMA KeptFreeCycle ==
    ASSUME HeapInv, KeptInv, NEW p \in Nodes, FreeCycle(p)
    PROVE  KeptInv'
<1>1. /\ phase = "cycles" /\ list[p] = "tmp"
      /\ UNCHANGED <<held, leaked, exception, phase, todo>>
  BY DEF FreeCycle
<1>2. HeapTypeOK /\ Ext[p] = 0
  BY <1>1, CyclesFacts
<1>3. \A n \in Nodes : External(n)' = External(n)
  BY <1>1 DEF External
<1>4. CASE p \in Objects /\ FreeObject(p)
  <2>1. /\ Sound(list', count', Graph', Ext')
        /\ list'[p] \in {"free", "zero"}
        /\ \A n \in Nodes : n # p => list'[n] \in {list[n], "free"}
        /\ \A n \in Objects : n # p => list'[n] = list[n]
        /\ \A pl \in Places : pl[1] # p /\ list'[pl[1]] # "free" => Graph'[pl] = Graph[pl]
    BY <1>1, <1>2, <1>4, FreeObjectSound
  <2>2. ASSUME NEW v \in VarRefs, list[v] = "gc"
        PROVE  list'[v] = "gc"
    \* A variable that is kept has a kept object that refers to it, and does not die.
    <3> DEFINE T == In("gc") \ {v}
    <3>1. v \in Nodes /\ T \subseteq Nodes /\ v \notin T /\ v \in In("gc")
      BY <2>2, NodeFacts DEF In
    <3>2. ~Closed(T)
      BY <1>1, <3>1 DEF KeptInv
    <3>3. \A n \in Nodes : External(n) # 0 => n \in T
      <4> SUFFICES ASSUME NEW n \in Nodes, External(n) # 0
                   PROVE  list[n] = "gc" /\ n # v
        BY DEF In
      <4>1. Ext[n] # 0 /\ n # v
        BY <1>2, ExtFacts
      <4>2. list[n] \notin {"tmp", "zero", "free"}
        BY <1>1, <4>1, CyclesFacts DEF Sound
      <4>3. QED
        BY <1>2, <4>1, <4>2 DEF HeapTypeOK
    <3>4. PICK pl \in Places : pl[1] \in T /\ list[pl[1]] = "gc" /\ Graph[pl] # None /\ Graph[pl] \notin T
      BY <3>2, <3>3 DEF Closed
    <3>5. Graph[pl] = v
      <4>1. Graph[pl] \in Nodes
        BY <1>2, <3>4, GraphFacts DEF Graphs
      <4>2. list[Graph[pl]] \notin {"tmp", "zero", "free"}
        BY <1>1, <3>4, <4>1, CyclesFacts DEF Sound
      <4>3. list[Graph[pl]] = "gc"
        BY <1>2, <4>1, <4>2 DEF HeapTypeOK
      <4>4. QED
        BY <3>4, <4>1, <4>3 DEF In
    <3>6. pl[1] \in Objects
      BY <1>2, <3>5, GraphFacts, PlaceFacts, NodeFacts
    <3>7. pl[1] # p /\ list'[pl[1]] = "gc"
      BY <1>1, <2>1, <3>4, <3>6
    <3>8. Graph'[pl] = v
      BY <2>1, <3>5, <3>7
    <3>9. list'[v] # "free"
      BY <2>1, <3>1, <3>8, NodeFacts DEF Sound
    <3>10. QED
      BY <1>1, <2>1, <2>2, <3>1, <3>9
  <2>3. \A n \in Nodes : list'[n] = "gc" <=> list[n] = "gc"
    <3> SUFFICES ASSUME NEW n \in Nodes
                 PROVE  list'[n] = "gc" <=> list[n] = "gc"
      OBVIOUS
    <3>1. CASE n = p
      BY <1>1, <2>1, <3>1
    <3>2. CASE n # p /\ n \in Objects
      BY <2>1, <3>2
    <3>3. CASE n # p /\ n \in VarRefs
      BY <2>1, <2>2, <3>3
    <3>4. QED
      BY <3>1, <3>2, <3>3, NodeFacts
  <2>4. \A pl \in Places : list[pl[1]] = "gc" => Graph'[pl] = Graph[pl]
    BY <1>1, <2>1, <2>3, PlaceFacts
  <2>5. QED
    BY <1>1, <1>3, <2>3, <2>4, KeptUnchanged
<1>5. CASE p \in VarRefs /\ list' = [list EXCEPT ![p] = "zero"] /\ UNCHANGED <<count, marked, props, value>>
  <2>1. Graph' = Graph
    BY <1>5 DEF Graph, Target
  <2>2. \A n \in Nodes : list'[n] = "gc" <=> list[n] = "gc"
    BY <1>1, <1>2, <1>5 DEF HeapTypeOK
  <2>3. QED
    BY <1>1, <1>3, <2>1, <2>2, KeptUnchanged
<1>6. QED
  BY <1>4, <1>5 DEF FreeCycle

LEMMA KeptNextLoop ==
    ASSUME HeapInv, KeptInv, NextLoop
    PROVE  KeptInv'
<1>1. /\ todo = {} /\ UNCHANGED <<list, count, marked, props, value, held, leaked, exception>>
  BY DEF NextLoop
<1>2. Graph' = Graph /\ \A n \in Nodes : External(n)' = External(n)
  BY <1>1 DEF Graph, Target, External
<1>3. CASE phase \in {"scan", "restore"}
  BY <1>1, <1>2, <1>3, KeptUnchanged
<1>4. CASE phase = "decref"
  <2> SUFFICES ASSUME NEW T \in SUBSET Nodes, Closed(T)', NEW n \in Nodes, list'[n] = "gc"
               PROVE  n \in T
    BY DEF KeptInv, In
  <2>1. External(n) # 0
    BY <1>1, <1>4, KeptStarts
  <2>2. QED
    BY <1>2, <2>1 DEF Closed
<1>5. QED
  BY <1>3, <1>4 DEF NextLoop

LEMMA KeptStep == HeapInv /\ KeptInv /\ [Next]_vars => KeptInv'
<1> SUFFICES ASSUME HeapInv, KeptInv, [Next]_vars PROVE KeptInv'
  OBVIOUS
<1>1. ASSUME phase' \in {"run", "decref"}
      PROVE  KeptInv'
  BY <1>1 DEF KeptInv
<1>2. ASSUME UNCHANGED <<list, props, value, held, leaked, exception, phase>>
      PROVE  KeptInv'
  <2>1. Graph' = Graph /\ \A n \in Nodes : External(n)' = External(n)
    BY <1>2 DEF Graph, Target, External
  <2>2. CASE phase \in {"scan", "restore", "cycles"}
    BY <1>2, <2>1, <2>2, KeptUnchanged
  <2>3. CASE phase \notin {"scan", "restore", "cycles"}
    BY <1>2, <2>3 DEF KeptInv
  <2>4. QED
    BY <2>2, <2>3
<1>3. ASSUME Collector
      PROVE  KeptInv'
  <2>1. ASSUME RunGC \/ FreeZombies \/ (\E p \in Nodes : Decref(p)) \/ \E o \in Objects : FreeZeroRefcount(o)
        PROVE  phase' \in {"run", "decref"}
    BY <2>1 DEF RunGC, FreeZombies, Decref, FreeZeroRefcount
  <2>2. ASSUME NEW p \in Nodes, Restore(p)
        PROVE  KeptInv'
    BY <1>2, <2>2 DEF Restore
  <2>3. QED
    BY <1>1, <1>3, <2>1, <2>2, KeptNextLoop, KeptScan, KeptFreeCycle DEF Collector
<1>4. ASSUME Mutator
      PROVE  phase' = "run"
  <2>1. ASSUME NEW o \in Objects, NewObject(o) \/ FreeValue(o)
        PROVE  phase' = "run"
    BY <2>1 DEF NewObject, FreeValue, Running
  <2>2. ASSUME NEW p \in Objects, NEW s \in Slots, GetProperty(p, s) \/ DeleteProperty(p, s)
        PROVE  phase' = "run"
    BY <2>2 DEF GetProperty, DeleteProperty, Running
  <2>3. ASSUME NEW p \in Objects, NEW o \in Objects, NEW s \in Slots,
               SetProperty(p, s, o) \/ SetVariable(p, s, o)
        PROVE  phase' = "run"
    BY <2>3 DEF SetProperty, SetVariable, Running
  <2>4. ASSUME NEW p \in Objects, NEW o \in Objects, NEW s \in Slots, NEW v \in VarRefs,
               CloseVarRef(p, s, v, o)
        PROVE  phase' = "run"
    BY <2>4 DEF CloseVarRef, Running
  <2>5. ASSUME NEW p \in Objects, NEW q \in Objects, NEW s \in Slots, NEW t \in Slots,
               Capture(p, s, q, t)
        PROVE  phase' = "run"
    BY <2>5 DEF Capture, Running
  <2>6. QED
    BY <1>4, <2>1, <2>2, <2>3, <2>4, <2>5 DEF Mutator
<1>5. ASSUME NEW t \in Threads,
             \/ CallReturns(t) \/ QueryFindsNoError(t) \/ QueryReports(t)
             \/ \E checked \in BOOLEAN :
                   CallCatches(t, checked) \/ \E o \in Objects : CallThrows(t, checked, o)
             \/ \E o \in Objects : QueryRaises(t, o)
      PROVE  phase' = "run"
  BY <1>5 DEF CallReturns, QueryFindsNoError, QueryReports, CallCatches, CallThrows, QueryRaises,
     Running, heapVars
<1>6. CASE Next
  BY <1>1, <1>3, <1>4, <1>5, <1>6 DEF Next
<1>7. CASE UNCHANGED vars
  BY <1>2, <1>7 DEF vars, heapVars
<1>8. QED
  BY <1>6, <1>7

\* What is left when the zombies are freed is the least closed set.
LEMMA LeastClosed ==
    ASSUME NEW A \in SUBSET Nodes, Roots' \subseteq A, \A m \in A : Children(m)' \subseteq A,
           \A T \in SUBSET A : Roots' \subseteq T /\ (\A m \in T : Children(m)' \subseteq T) => T = A
    PROVE  Reachable' = A
<1> DEFINE P(S) == /\ Roots' \subseteq S
                   /\ \A m \in S : Children(m)' \subseteq S
                   /\ \A T \in SUBSET S :
                         Roots' \subseteq T /\ (\A m \in T : Children(m)' \subseteq T) => T = S
<1>1. P(A)
  OBVIOUS
<1>2. ASSUME NEW S \in SUBSET Nodes, P(S)
      PROVE  S = A
  <2> DEFINE I == S \intersect A
  <2>1. Roots' \subseteq I /\ \A m \in I : Children(m)' \subseteq I
    BY <1>1, <1>2
  <2>2. I \in SUBSET S /\ I \in SUBSET A
    OBVIOUS
  <2>3. I = S /\ I = A
    BY <1>2, <2>1, <2>2
  <2>4. QED
    BY <2>3
<1>3. Reachable' = CHOOSE S \in SUBSET Nodes : P(S)
  BY DEF Reachable
<1> HIDE DEF P
<1>4. QED
  BY <1>1, <1>2, <1>3

LEMMA OnlyGarbageIsFreed ==
    ASSUME HeapInv, KeptInv, FreeZombies
    PROVE  Allocated' = Reachable'
<1>1. /\ phase = "cycles" /\ In("tmp") = {} /\ HeapTypeOK
      /\ list' = [n \in Nodes |-> IF list[n] = "zero" THEN "free" ELSE list[n]]
      /\ UNCHANGED <<props, value, held, leaked, exception, todo>>
  BY DEF FreeZombies, HeapInv
<1> DEFINE A == In("gc")
<1>2. A \in SUBSET Nodes /\ \A n \in Nodes : n \in A <=> list[n] = "gc"
  BY DEF In
<1>3. Allocated' = A
  <2>1. \A n \in Nodes : list'[n] # "free" <=> list[n] = "gc"
    <3>1. \A n \in Nodes : list[n] \in {"free", "gc", "tmp", "zero"} /\ list[n] # "tmp"
      BY <1>1 DEF HeapTypeOK, In
    <3>2. QED
      BY <1>1, <3>1
  <2>2. QED
    BY <2>1 DEF Allocated, In
<1>4. \A m \in Nodes : Children(m)' = {n \in Nodes : \E pl \in Places : pl[1] = m /\ Graph[pl] = n}
  <2> SUFFICES ASSUME NEW m \in Nodes
               PROVE  Children(m)' = {n \in Nodes : \E pl \in Places : pl[1] = m /\ Graph[pl] = n}
    OBVIOUS
  <2>1. Children(m)' = Children(m)
    BY <1>1 DEF Children, Points
  <2>2. Children(m) \subseteq Nodes
    BY DEF Children
  <2>3. \A n \in Nodes : n \in Children(m) <=> \E pl \in Places : pl[1] = m /\ Graph[pl] = n
    BY <1>1, PointsTypes
  <2>4. QED
    BY <2>1, <2>2, <2>3
<1>5. \A n \in Nodes : n \in Roots' <=> External(n) # 0
  <2> SUFFICES ASSUME NEW n \in Nodes
               PROVE  n \in Roots' <=> External(n) # 0
    OBVIOUS
  <2>1. CASE n \in Objects
    <3>1. n \in Roots' <=> held[n] + leaked[n] > 0 \/ exception = n
      BY <1>1, <2>1 DEF Roots
    <3>2. External(n) = held[n] + leaked[n] + (IF exception = n THEN 1 ELSE 0)
      BY <2>1 DEF External
    <3>3. held[n] \in Nat /\ leaked[n] \in Nat
      BY <1>1, <2>1, ExtFacts
    <3>4. QED
      BY <3>1, <3>2, <3>3
  <2>2. CASE n \in VarRefs
    BY <1>1, <2>2, ExtFacts, NodeFacts DEF Roots
  <2>3. QED
    BY <2>1, <2>2, NodeFacts
<1>6. Roots' \subseteq Nodes
  BY NodeFacts DEF Roots
<1> HIDE DEF A
<1>7. Roots' \subseteq A
  <2> SUFFICES ASSUME NEW n \in Nodes, External(n) # 0
               PROVE  list[n] = "gc"
    BY <1>2, <1>5, <1>6
  <2>1. list[n] \notin {"tmp", "zero", "free"}
    BY <1>1, CyclesFacts, ExtFacts DEF Sound
  <2>2. QED
    BY <1>1, <2>1 DEF HeapTypeOK
<1>8. ASSUME NEW m \in A
      PROVE  Children(m)' \subseteq A
  <2> SUFFICES ASSUME NEW n \in Nodes, NEW pl \in Places, pl[1] = m, Graph[pl] = n
               PROVE  list[n] = "gc"
    BY <1>2, <1>4, <1>8
  <2>1. list[m] = "gc"
    BY <1>2, <1>8
  <2>2. list[n] \notin {"tmp", "zero", "free"}
    BY <1>1, <2>1, CyclesFacts, NodeFacts DEF Sound
  <2>3. QED
    BY <1>1, <2>2 DEF HeapTypeOK
<1>9. ASSUME NEW T \in SUBSET A, Roots' \subseteq T, \A m \in T : Children(m)' \subseteq T
      PROVE  T = A
  <2>1. Closed(T)
    <3>1. \A n \in Nodes : External(n) # 0 => n \in T
      BY <1>5, <1>9
    <3>2. ASSUME NEW pl \in Places, pl[1] \in T, Graph[pl] # None
          PROVE  Graph[pl] \in T
      <4>1. pl[1] \in Nodes /\ Graph[pl] \in Nodes
        BY <1>1, <3>2, PlaceFacts, GraphFacts DEF Graphs
      <4>2. Graph[pl] \in Children(pl[1])'
        BY <1>4, <4>1
      <4>3. QED
        BY <1>9, <3>2, <4>2
    <3>3. QED
      BY <3>1, <3>2 DEF Closed
  <2>2. T \in SUBSET Nodes
    BY <1>2
  <2>3. A \subseteq T
    BY <1>1, <2>1, <2>2 DEF KeptInv, A
  <2>4. QED
    BY <2>3
<1>10. Reachable' = A
  BY <1>2, <1>7, <1>8, <1>9, LeastClosed
<1>11. QED
  BY <1>3, <1>10

\* For any finite heap: when gc_free_cycles is over, the nodes that are left are exactly the
\* ones that native code reaches: every cycle of garbage is gone, and nothing that a script
\* can still use was freed (ExactlyGarbage).
THEOREM CollectsExactlyTheGarbage == Spec => ExactlyGarbage
<1>1. Init => KeptInv
  BY DEF Init, HeapInit, KeptInv
<1>2. HeapInv /\ KeptInv /\ [Next]_vars =>
         [phase = "cycles" /\ phase' = "run" => Allocated' = Reachable']_heapVars
  <2> SUFFICES ASSUME HeapInv, KeptInv, [Next]_vars, phase = "cycles", phase' = "run"
               PROVE  Allocated' = Reachable'
    OBVIOUS
  <2>1. ASSUME Collector
        PROVE  FreeZombies
    BY <2>1 DEF Collector, RunGC, NextLoop, Decref, Scan, Restore, FreeCycle, FreeZeroRefcount, Running
  <2>2. ~Mutator
    BY DEF Mutator, NewObject, FreeValue, GetProperty, DeleteProperty, SetProperty, SetVariable,
       CloseVarRef, Capture, Running
  <2>3. ~UNCHANGED vars
    BY DEF vars, heapVars
  <2>4. Collector
    BY <2>2, <2>3 DEF Next, CallReturns, QueryFindsNoError, QueryReports, CallCatches, CallThrows,
       QueryRaises, Running
  <2>5. QED
    BY <2>1, <2>4, OnlyGarbageIsFreed
<1>3. QED
  BY <1>1, <1>2, HeapInvariant, KeptStep, PTL DEF Spec, ExactlyGarbage

-----------------------------------------------------------------------------
(* The exceptions of calls, for any number of threads *)

\* The part of the state that these proofs are about.
CallTypeOK ==
    /\ call \in [Threads -> {"none", "returned", "raised", "other"}]
    /\ alone \in [Threads -> BOOLEAN]
    /\ source \in Threads \union {None, "unchecked"}
    /\ exception \in Objects \union {None}
    /\ source = None <=> exception = None

LEMMA Sources ==
    /\ None \notin Threads /\ "unchecked" \notin Threads /\ None \notin Objects
    /\ Errors \subseteq Objects /\ None # "unchecked"
  BY ScriptsAssumption, HeapAssumption DEF ScriptsAssumption, HeapAssumption, Nodes

\* Scripts and the collector leave the slot of the exception alone unless a script
\* throws.
LEMMA HeapKeepsException ==
    ASSUME Collector \/ Mutator
    PROVE  exception' = exception
  BY ZenonT(30) DEF Collector, Mutator, RunGC, NextLoop, FreeZombies, Decref, Scan, Restore, FreeCycle,
         FreeZeroRefcount, NewObject, FreeValue, GetProperty, DeleteProperty, SetProperty,
         SetVariable, CloseVarRef, Capture

LEMMA EndedTypes ==
    ASSUME CallTypeOK, NEW t \in Threads, NEW checked \in BOOLEAN,
           NEW how \in {"returned", "raised", "other"}, Ended(t, checked, how)
    PROVE  /\ call' \in [Threads -> {"none", "returned", "raised", "other"}]
           /\ alone' \in [Threads -> BOOLEAN]
           /\ call'[t] = IF checked THEN how ELSE "none"
           /\ \A u \in Threads \ {t} : call'[u] = call[u] /\ ~alone'[u]
           /\ alone'[t] => /\ checked /\ source # "unchecked"
                           /\ \A u \in Threads \ {t} : call[u] = "none"
<1>1. alone' \in [Threads -> BOOLEAN]
  BY Zenon DEF Ended
<1>2. QED
  BY <1>1 DEF Ended, CallTypeOK

LEMMA AnsweredTypes ==
    ASSUME CallTypeOK, NEW t \in Threads, NEW whose, Answered(t, whose)
    PROVE  /\ call' \in [Threads -> {"none", "returned", "raised", "other"}]
           /\ alone' \in [Threads -> BOOLEAN]
           /\ call'[t] = "none" /\ \A u \in Threads \ {t} : call'[u] = call[u]
           /\ \A u \in Threads : ~alone'[u]
           /\ told' = whose
<1>1. alone' \in [Threads -> BOOLEAN]
  BY Zenon DEF Answered
<1>2. QED
  BY <1>1 DEF Answered, CallTypeOK

-----------------------------------------------------------------------------
(* The invariant *)

\* Of a call that is alone: how it ended tells what is in the slot, and from whom.
SlotOf(t) ==
    /\ \A u \in Threads \ {t} : call[u] = "none"
    /\ call[t] = "raised" => source = t /\ exception \in Errors
    /\ call[t] = "other" => source = t /\ exception \notin Errors
    /\ call[t] = "returned" => exception = None

SlotInv ==
    /\ CallTypeOK
    /\ NothingLeftBehind
    /\ \A t \in Threads : alone[t] => SlotOf(t)

LEMMA SlotInit == Init => SlotInv
<1> SUFFICES ASSUME Init PROVE SlotInv
  OBVIOUS
<1>1. alone \in [Threads -> BOOLEAN]
  BY Zenon DEF Init
<1>2. QED
  BY <1>1, Sources DEF Init, HeapInit, SlotInv, CallTypeOK, NothingLeftBehind

LEMMA SlotNext == SlotInv /\ [Next]_vars => SlotInv'
<1> SUFFICES ASSUME SlotInv, [Next]_vars PROVE SlotInv'
  OBVIOUS
<1>0. CallTypeOK /\ NothingLeftBehind
  BY DEF SlotInv
\* Nothing that these properties look at is touched.
<1>a. ASSUME UNCHANGED <<call, alone, source, exception>> PROVE SlotInv'
  BY <1>a DEF SlotInv, CallTypeOK, NothingLeftBehind, SlotOf
<1>1. CASE (Collector \/ Mutator) /\ UNCHANGED <<call, alone, source>>
  BY <1>1, <1>a, HeapKeepsException
<1>2. ASSUME NEW t \in Threads, CallReturns(t) PROVE SlotInv'
  <2>1. /\ call[t] = "none" /\ Ended(t, TRUE, "returned") /\ exception' = exception
        /\ source' = source
    BY <1>2 DEF CallReturns, heapVars
  <2>2. /\ call' \in [Threads -> {"none", "returned", "raised", "other"}]
        /\ alone' \in [Threads -> BOOLEAN]
        /\ call'[t] = "returned"
        /\ \A u \in Threads \ {t} : call'[u] = call[u] /\ ~alone'[u]
        /\ alone'[t] => source # "unchecked" /\ \A u \in Threads \ {t} : call[u] = "none"
    BY <1>0, <2>1, EndedTypes
  <2>3. CallTypeOK' /\ NothingLeftBehind'
    BY <1>0, <2>1, <2>2 DEF CallTypeOK, NothingLeftBehind
  <2>4. ASSUME alone'[t] PROVE SlotOf(t)'
    <3>1. source = None
      BY <1>0, <2>1, <2>2, <2>4 DEF CallTypeOK, NothingLeftBehind
    <3>2. exception = None
      BY <1>0, <3>1 DEF CallTypeOK
    <3>3. QED
      BY <2>1, <2>2, <2>4, <3>2 DEF SlotOf
  <2>5. QED
    BY <2>2, <2>3, <2>4 DEF SlotInv
<1>3. ASSUME NEW t \in Threads, NEW checked \in BOOLEAN, CallCatches(t, checked) PROVE SlotInv'
  <2>1. /\ call[t] = "none" /\ Ended(t, checked, "returned")
        /\ exception' = None /\ source' = None
    BY <1>3 DEF CallCatches
  <2>2. /\ call' \in [Threads -> {"none", "returned", "raised", "other"}]
        /\ alone' \in [Threads -> BOOLEAN]
        /\ \A u \in Threads \ {t} : call'[u] = call[u] /\ ~alone'[u]
        /\ call'[t] \in {"returned", "none"}
        /\ alone'[t] => \A u \in Threads \ {t} : call[u] = "none"
    BY <1>0, <2>1, EndedTypes
  <2>3. CallTypeOK' /\ NothingLeftBehind'
    BY <2>1, <2>2, Sources DEF CallTypeOK, NothingLeftBehind
  <2>4. QED
    BY <2>1, <2>2, <2>3 DEF SlotInv, SlotOf
<1>4. ASSUME NEW t \in Threads, NEW checked \in BOOLEAN, NEW o \in Objects,
             CallThrows(t, checked, o)
      PROVE  SlotInv'
  <2> DEFINE how == IF o \in Errors THEN "raised" ELSE "other"
  <2>1. /\ call[t] = "none" /\ Ended(t, checked, how)
        /\ exception' = o /\ source' = IF checked THEN t ELSE "unchecked"
    BY <1>4 DEF CallThrows, Throw
  <2>2. how \in {"raised", "other"}
    OBVIOUS
  <2>3. /\ call' \in [Threads -> {"none", "returned", "raised", "other"}]
        /\ alone' \in [Threads -> BOOLEAN]
        /\ \A u \in Threads \ {t} : call'[u] = call[u] /\ ~alone'[u]
        /\ call'[t] = IF checked THEN how ELSE "none"
        /\ alone'[t] => checked /\ \A u \in Threads \ {t} : call[u] = "none"
    <3> HIDE DEF how
    <3>1. QED
      BY <1>0, <2>1, <2>2, EndedTypes
  <2>4. CallTypeOK'
    BY <2>1, <2>3, Sources DEF CallTypeOK
  <2>5. NothingLeftBehind'
    BY <2>1, <2>2, <2>3, Sources DEF NothingLeftBehind
  <2>6. QED
    BY <2>1, <2>3, <2>4, <2>5 DEF SlotInv, SlotOf
<1>5. ASSUME NEW t \in Threads, NEW whose, Answered(t, whose),
             \/ exception' = None /\ source' = None
             \/ exception' \in Objects /\ source' = "unchecked"
      PROVE  SlotInv'
  <2>1. /\ call' \in [Threads -> {"none", "returned", "raised", "other"}]
        /\ alone' \in [Threads -> BOOLEAN]
        /\ \A u \in Threads : ~alone'[u]
    BY <1>0, <1>5, AnsweredTypes
  <2>2. CallTypeOK' /\ NothingLeftBehind'
    BY <1>5, <2>1, Sources DEF CallTypeOK, NothingLeftBehind
  <2>3. QED
    BY <2>1, <2>2 DEF SlotInv
<1>6. ASSUME NEW t \in Threads, QueryFindsNoError(t) \/ QueryReports(t) PROVE SlotInv'
  BY <1>5, <1>6 DEF QueryFindsNoError, QueryReports, Taken
<1>7. ASSUME NEW t \in Threads, NEW o \in Objects, QueryRaises(t, o) PROVE SlotInv'
  BY <1>5, <1>7 DEF QueryRaises, Throw
<1>8. CASE UNCHANGED vars
  BY <1>8, <1>a DEF vars, heapVars, scriptVars
<1>9. QED
  BY <1>1, <1>2, <1>3, <1>4, <1>6, <1>7, <1>8 DEF Next

\* Whatever events of other threads run between a script and the query for its
\* exception, a call that checks leaves no exception of its own behind.
THEOREM ExceptionsAreTaken == Spec => []NothingLeftBehind
<1>1. SlotInv => NothingLeftBehind
  BY DEF SlotInv
<1>2. QED
  BY SlotInit, SlotNext, <1>1, PTL DEF Spec

\* A call that overlaps with no other, and before which no unchecked call left anything,
\* is told of its own Error or of none.
THEOREM CallsHearTheirOwn == Spec => OwnException
<1> DEFINE A == \A t \in Threads : alone[t] /\ call[t] # "none" /\ call'[t] = "none"
                    => told' = IF call[t] = "raised" THEN t ELSE None
<1>1. SlotInv /\ [Next]_vars => [A]_vars
  <2> SUFFICES ASSUME SlotInv, Next, NEW t \in Threads, alone[t], call[t] # "none",
                      call'[t] = "none"
               PROVE  told' = IF call[t] = "raised" THEN t ELSE None
    OBVIOUS
  <2>1. CallTypeOK /\ SlotOf(t)
    BY DEF SlotInv
  <2>2. \A u \in Threads \ {t} : call[u] = "none"
    BY <2>1 DEF SlotOf
  <2>3. ~ \E u \in Threads : \/ CallReturns(u)
                             \/ \E checked \in BOOLEAN :
                                   \/ CallCatches(u, checked)
                                   \/ \E o \in Objects : CallThrows(u, checked, o)
    <3>1. ASSUME NEW u \in Threads, NEW checked \in BOOLEAN, NEW how, call[u] = "none",
                 Ended(u, checked, how)
          PROVE  FALSE
      BY <2>1, <3>1 DEF Ended, CallTypeOK
    <3>2. QED
      BY <3>1 DEF CallReturns, CallCatches, CallThrows
  <2>4. PICK u \in Threads : \/ QueryFindsNoError(u) \/ QueryReports(u)
                             \/ \E o \in Objects : QueryRaises(u, o)
    BY <2>3 DEF Next
  <2>5. u = t
    BY <2>2, <2>4 DEF QueryFindsNoError, QueryReports, QueryRaises
  <2>6. CASE QueryFindsNoError(u)
    BY <2>1, <2>5, <2>6 DEF QueryFindsNoError, IsError, Answered, SlotOf
  <2>7. CASE QueryReports(u) \/ \E o \in Objects : QueryRaises(u, o)
    <3>1. exception \in Errors /\ told' = source
      BY <2>7 DEF QueryReports, QueryRaises, IsError, Answered
    <3>2. call[t] = "raised"
      BY <2>1, <3>1, Sources DEF SlotOf, CallTypeOK
    <3>3. QED
      BY <2>1, <3>1, <3>2 DEF SlotOf
  <2>8. QED
    BY <2>4, <2>6, <2>7
<1>2. QED
  BY SlotInit, SlotNext, <1>1, PTL DEF Spec, OwnException
=============================================================================
