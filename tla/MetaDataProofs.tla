--------------------------- MODULE MetaDataProofs ---------------------------
(***************************************************************************)
(* Proofs about MetaData for any number of classes, any hierarchy and any  *)
(* order in which they are scanned.                                        *)
(***************************************************************************)
EXTENDS MetaData, FiniteSetTheorems, WellFoundedInduction, TLAPS

-----------------------------------------------------------------------------
(* Induction, stated for sets instead of predicates *)

LEMMA LeastElement ==
    ASSUME NEW T \in SUBSET Nat, T # {}
    PROVE  \E x \in T : \A y \in T : x <= y
<1> DEFINE R == {p \in Nat \X Nat : p[1] < p[2]}
<1>1. IsWellFoundedOn(R, Nat)
  <2>1. R = OpToRel(<, Nat)
    BY DEF OpToRel
  <2>2. QED
    BY <2>1, NatLessThanWellFounded
<1>2. \A y, x \in T : <<y, x>> \notin R => x <= y
  OBVIOUS
<1> HIDE DEF R
<1>3. \E x \in T : \A y \in T : <<y, x>> \notin R
  BY <1>1, WFMin, Zenon
<1>4. QED
  BY <1>2, <1>3, Zenon

\* The least element is what Min chooses.
LEMMA MinIsLeast ==
    ASSUME NEW T \in SUBSET Nat, T # {}
    PROVE  Min(T) \in T /\ \A y \in T : Min(T) <= y
  BY LeastElement DEF Min

LEMMA Induction ==
    ASSUME NEW m \in Nat, NEW n \in Nat, NEW T, m \in T,
           \A k \in m + 1 .. n : k - 1 \in T => k \in T
    PROVE  m .. n \subseteq T
<1> DEFINE U == (m .. n) \ T
<1>1. SUFFICES ASSUME U # {} PROVE FALSE
  OBVIOUS
<1>2. PICK x \in U : \A y \in U : x <= y
  <2>1. U \in SUBSET Nat
    OBVIOUS
  <2> HIDE DEF U
  <2>2. QED
    BY <1>1, <2>1, LeastElement
<1>3. x \in m + 1 .. n /\ x - 1 \in m .. n
  BY <1>2
<1>4. x - 1 \in T
  BY <1>2, <1>3
<1>5. QED
  BY <1>2, <1>3, <1>4

\* f starts with x at m and goes on with next, as far as n.
Follows(f, m, n, x, next) == f[m] = x /\ \A k \in m + 1 .. n : f[k] = next[k][f[k - 1]]

\* A function that is given by its first value and by its next value at each step exists.
LEMMA Recursion ==
    ASSUME NEW m \in Nat, NEW n \in Nat, m <= n, NEW S, NEW x \in S,
           NEW next \in [m + 1 .. n -> [S -> S]]
    PROVE  \E f \in [m .. n -> S] : Follows(f, m, n, x, next)
<1> DEFINE Upto(k, f) == f[m] = x /\ \A j \in m + 1 .. k : f[j] = next[j][f[j - 1]]
           T == {k \in m .. n : \E f \in [m .. k -> S] : Upto(k, f)}
<1>1. m \in T
  <2> DEFINE f == [k \in m .. m |-> x]
  <2>1. f \in [m .. m -> S] /\ Upto(m, f)
    OBVIOUS
  <2>2. m \in m .. n
    OBVIOUS
  <2> HIDE DEF Upto, f
  <2>3. \E g \in [m .. m -> S] : Upto(m, g)
    BY <2>1
  <2>4. QED
    BY <2>2, <2>3
<1>2. ASSUME NEW k \in m + 1 .. n, k - 1 \in T PROVE k \in T
  <2>1. PICK f \in [m .. k - 1 -> S] : Upto(k - 1, f)
    BY <1>2
  <2> DEFINE g == [j \in m .. k |-> IF j = k THEN next[k][f[k - 1]] ELSE f[j]]
  <2>2. k - 1 \in m .. k - 1 /\ f[k - 1] \in S /\ k \in m .. n
    OBVIOUS
  <2>3. next[k][f[k - 1]] \in S
    BY <2>2
  <2>4. g \in [m .. k -> S] /\ g[k] = next[k][f[k - 1]] /\ \A j \in m .. k - 1 : g[j] = f[j]
    BY <2>3
  <2> HIDE DEF g
  <2>5. g[m] = x
    BY <2>1, <2>4
  <2>6. ASSUME NEW j \in m + 1 .. k PROVE g[j] = next[j][g[j - 1]]
    <3>1. CASE j = k
      BY <2>4, <3>1
    <3>2. CASE j # k
      <4>1. j \in m + 1 .. k - 1 /\ j - 1 \in m .. k - 1 /\ j \in m .. k - 1
        BY <3>2
      <4>2. QED
        BY <2>1, <2>4, <4>1
    <3>3. QED
      BY <3>1, <3>2
  <2>7. Upto(k, g)
    BY <2>5, <2>6
  <2> HIDE DEF Upto
  <2>8. \E h \in [m .. k -> S] : Upto(k, h)
    BY <2>4, <2>7
  <2>9. QED
    BY <2>2, <2>8
<1> HIDE DEF T
<1>3. m .. n \subseteq T
  BY <1>1, <1>2, Induction
<1>4. n \in m .. n
  OBVIOUS
<1>5. QED
  BY <1>3, <1>4 DEF T, Follows

-----------------------------------------------------------------------------
(* Superclasses *)

\* The superclass after d in a chain of superclasses.
Up(d) == IF d = 0 THEN 0 ELSE parent[d]

\* The loop of getSuperclasses comes to what its definition says.
LEMMA SuperclassesAre ==
    ASSUME parent \in [Classes -> 0 .. N], NEW c \in Classes
    PROVE  /\ Superclasses(c) \in [0 .. N -> 0 .. N]
           /\ Superclasses(c)[0] = c
           /\ \A k \in Classes : Superclasses(c)[k] = Up(Superclasses(c)[k - 1])
<1> USE MetaDataAssumption DEF MetaDataAssumption
<1> DEFINE next == [k \in Classes |-> [d \in 0 .. N |-> Up(d)]]
           Is(f) == f = [k \in 0 .. N |-> IF k = 0 THEN c
                                          ELSE IF f[k - 1] = 0 THEN 0 ELSE parent[f[k - 1]]]
<1>0. c \in 0 .. N /\ 0 \in Nat /\ 0 <= N /\ 0 + 1 .. N = Classes
  BY DEF Classes
<1>1. \A d \in 0 .. N : Up(d) \in 0 .. N
  BY DEF Up, Classes
<1>2. PICK f \in [0 .. N -> 0 .. N] : f[0] = c /\ \A k \in Classes : f[k] = next[k][f[k - 1]]
  <2>1. next \in [0 + 1 .. N -> [0 .. N -> 0 .. N]]
    BY <1>0, <1>1
  <2> DEFINE S == 0 .. N
  <2> HIDE DEF next, S
  <2>2. next \in [0 + 1 .. N -> [S -> S]] /\ c \in S
    BY <1>0, <2>1 DEF S
  <2>3. \E f \in [0 .. N -> S] : Follows(f, 0, N, c, next)
    BY <1>0, <2>2, Recursion
  <2>4. QED
    BY <1>0, <2>3 DEF S, Follows
<1>3. \A k \in Classes : k - 1 \in 0 .. N /\ f[k - 1] \in 0 .. N /\ k # 0
  <2>1. \A k \in Classes : k - 1 \in 0 .. N /\ k # 0
    BY DEF Classes
  <2>2. QED
    BY <2>1
<1>4. \A k \in Classes : f[k] = Up(f[k - 1])
  BY <1>2, <1>3
<1>5. Is(f)
  <2>1. f = [k \in 0 .. N |-> f[k]]
    OBVIOUS
  <2>2. \A k \in 0 .. N : k = 0 \/ k \in Classes
    BY DEF Classes
  <2>3. \A k \in 0 .. N : f[k] = IF k = 0 THEN c ELSE IF f[k - 1] = 0 THEN 0 ELSE parent[f[k - 1]]
    BY <1>2, <1>4, <2>2 DEF Up
  <2>4. QED
    BY <2>1, <2>3
<1>6. Superclasses(c) = CHOOSE g : Is(g)
  BY DEF Superclasses
<1>7. Is(Superclasses(c))
  <2> HIDE DEF Is
  <2>1. QED
    BY <1>5, <1>6, Zenon
<1>8. Superclasses(c) = f
  <2> DEFINE g == Superclasses(c)
             T == {k \in 0 .. N : g[k] = f[k]}
  <2>1. Is(g)
    BY <1>7
  <2> HIDE DEF g
  <2>2. \A k \in 0 .. N : g[k] = IF k = 0 THEN c ELSE IF g[k - 1] = 0 THEN 0 ELSE parent[g[k - 1]]
    BY <2>1, Zenon
  <2>3. \A k \in 0 .. N : f[k] = IF k = 0 THEN c ELSE IF f[k - 1] = 0 THEN 0 ELSE parent[f[k - 1]]
    BY <1>5, Zenon
  <2>4. 0 \in T
    <3>1. 0 \in 0 .. N
      BY <1>0
    <3>2. g[0] = c /\ f[0] = c
      BY <2>2, <2>3, <3>1, Zenon
    <3>3. QED
      BY <3>1, <3>2
  <2>5. ASSUME NEW k \in 0 + 1 .. N, k - 1 \in T PROVE k \in T
    <3>1. k \in 0 .. N /\ k - 1 \in 0 .. N /\ k # 0 /\ g[k - 1] = f[k - 1]
      BY <2>5
    <3>2. g[k] = f[k]
      BY <2>2, <2>3, <3>1, Zenon
    <3>3. QED
      BY <3>1, <3>2
  <2> HIDE DEF T
  <2>6. 0 .. N \subseteq T
    BY <1>0, <2>4, <2>5, Induction
  <2>7. \A k \in 0 .. N : g[k] = f[k]
    BY <2>6 DEF T
  <2>8. g = [k \in 0 .. N |-> g[k]] /\ f = [k \in 0 .. N |-> f[k]]
    <3>1. g = [k \in 0 .. N |-> IF k = 0 THEN c ELSE IF g[k - 1] = 0 THEN 0 ELSE parent[g[k - 1]]]
      BY <2>1
    <3> DEFINE h == [k \in 0 .. N |-> IF k = 0 THEN c ELSE IF g[k - 1] = 0 THEN 0 ELSE parent[g[k - 1]]]
    <3>2. h = [k \in 0 .. N |-> h[k]]
      BY Zenon
    <3> HIDE DEF h
    <3>3. QED
      BY <3>1, <3>2 DEF h
  <2>9. QED
    BY <2>7, <2>8 DEF g
<1>9. QED
  BY <1>2, <1>4, <1>8

LEMMA HierarchiesAreFunctions ==
    ASSUME parent \in Hierarchies
    PROVE  parent \in [Classes -> 0 .. N]
  BY DEF Hierarchies

\* A chain of superclasses that has ended does not start again.
LEMMA EndedChains ==
    ASSUME parent \in Hierarchies, NEW c \in Classes, NEW j \in 0 .. N, Superclasses(c)[j] = 0
    PROVE  \A k \in j .. N : Superclasses(c)[k] = 0
<1> DEFINE up == Superclasses(c)
           T == {k \in j .. N : up[k] = 0}
<1>1. j \in T /\ j \in Nat /\ N \in Nat
  BY MetaDataAssumption DEF MetaDataAssumption
<1>2. \A k \in Classes : up[k] = Up(up[k - 1])
  BY HierarchiesAreFunctions, SuperclassesAre
<1> HIDE DEF up
<1>3. ASSUME NEW k \in j + 1 .. N, k - 1 \in T PROVE k \in T
  <2>1. k \in Classes /\ k \in j .. N /\ up[k - 1] = 0
    BY <1>1, <1>3 DEF Classes
  <2>2. up[k] = 0
    BY <1>2, <2>1 DEF Up
  <2>3. QED
    BY <2>1, <2>2
<1> HIDE DEF T
<1>4. j .. N \subseteq T
  BY <1>1, <1>3, Induction
<1>5. QED
  BY <1>4 DEF T, up

\* No chain of superclasses is longer than there are classes: it would come back to one.
LEMMA ChainsEnd ==
    ASSUME parent \in Hierarchies, NEW c \in Classes
    PROVE  Superclasses(c)[N] = 0
<1> DEFINE up == Superclasses(c)
<1>1. N \in Nat /\ parent \in [Classes -> 0 .. N] /\ c \in Nat
  BY MetaDataAssumption, HierarchiesAreFunctions DEF MetaDataAssumption, Classes
<1>2. up \in [0 .. N -> 0 .. N] /\ \A k \in Classes : up[k] = Up(up[k - 1])
  BY <1>1, SuperclassesAre
<1>3. SUFFICES ASSUME up[N] # 0 PROVE FALSE
  OBVIOUS
<1>4. \A k \in 0 .. N : up[k] # 0
  <2>1. \A k \in 0 .. N : N \in k .. N
    BY <1>1
  <2>2. QED
    BY <1>3, <2>1, EndedChains
<1> HIDE DEF up
<1>5. up \in [0 .. N -> Classes]
  <2>1. \A k \in 0 .. N : up[k] \in Classes
    BY <1>1, <1>2, <1>4 DEF Classes
  <2>2. QED
    BY <1>2, <2>1
<1>6. \A k \in Classes : up[k] = parent[up[k - 1]]
  BY <1>1, <1>2, <1>4 DEF Up, Classes
<1>7. PICK x, y \in 0 .. N : x < y /\ up[x] = up[y]
  <2>1. IsFiniteSet(0 .. N) /\ Cardinality(0 .. N) = N + 1
    BY <1>1, FS_Interval
  <2>2. IsFiniteSet(Classes) /\ Cardinality(Classes) = N
    BY <1>1, FS_Interval DEF Classes
  <2>3. Cardinality(Classes) < Cardinality(0 .. N)
    BY <1>1, <2>1, <2>2
  <2>4. \E x, y \in 0 .. N : x # y /\ up[x] = up[y]
    <3> DEFINE D == 0 .. N
    <3> HIDE DEF D
    <3>1. /\ IsFiniteSet(D) /\ IsFiniteSet(Classes) /\ Cardinality(Classes) < Cardinality(D)
          /\ up \in [D -> Classes]
      BY <1>5, <2>1, <2>2, <2>3 DEF D
    <3>2. \E x, y \in D : x # y /\ up[x] = up[y]
      BY <3>1, FS_PigeonHole, Zenon
    <3>3. QED
      BY <3>2 DEF D
  <2>5. QED
    BY <1>1, <2>4
<1> DEFINE S == {up[k] : k \in x .. y - 1}
<1>8. S \in (SUBSET Classes) \ {{}}
  <2>1. x \in x .. y - 1 /\ \A k \in x .. y - 1 : k \in 0 .. N
    BY <1>1, <1>7
  <2>2. \A k \in x .. y - 1 : up[k] \in Classes
    BY <1>5, <2>1
  <2>3. QED
    BY <2>1, <2>2
<1>9. PICK d \in S : parent[d] \notin S
  <2> HIDE DEF S
  <2>1. QED
    BY <1>8 DEF Hierarchies
<1>10. PICK k \in x .. y - 1 : d = up[k]
  BY <1>9
<1>11. k + 1 \in Classes /\ (k + 1) - 1 = k /\ (k + 1 = y \/ k + 1 \in x .. y - 1) /\ x \in x .. y - 1
  BY <1>1, <1>7, <1>10 DEF Classes
<1>12. parent[d] = up[k + 1]
  BY <1>6, <1>10, <1>11
<1>13. up[k + 1] \in S
  BY <1>7, <1>11
<1>14. QED
  BY <1>9, <1>12, <1>13

-----------------------------------------------------------------------------
(* Ancestors: the least set that holds the superclass of c and theirs *)

LEMMA ParentIsAncestor ==
    ASSUME parent \in Hierarchies, NEW c \in Classes, parent[c] # 0
    PROVE  parent[c] \in Ancestors(c)
<1>1. 1 \in Classes /\ 1 - 1 = 0 /\ c # 0
  BY MetaDataAssumption DEF MetaDataAssumption, Classes
<1>2. Superclasses(c)[1] = parent[c]
  <2>1. Superclasses(c)[1] = Up(Superclasses(c)[1 - 1]) /\ Superclasses(c)[0] = c
    BY <1>1, HierarchiesAreFunctions, SuperclassesAre
  <2>2. QED
    BY <1>1, <2>1 DEF Up
<1>3. QED
  BY <1>1, <1>2 DEF Ancestors

LEMMA AncestorsAreClasses ==
    ASSUME parent \in Hierarchies, NEW c \in Classes
    PROVE  Ancestors(c) \subseteq Classes
<1>1. Superclasses(c) \in [0 .. N -> 0 .. N]
  BY HierarchiesAreFunctions, SuperclassesAre
<1>2. \A k \in Classes : k \in 0 .. N
  BY MetaDataAssumption DEF MetaDataAssumption, Classes
<1>3. \A k \in Classes : Superclasses(c)[k] \in 0 .. N
  BY <1>1, <1>2
<1>4. \A d \in 0 .. N : d # 0 => d \in Classes
  BY MetaDataAssumption DEF MetaDataAssumption, Classes
<1>5. QED
  BY <1>3, <1>4 DEF Ancestors

LEMMA AncestorsAreClosed ==
    ASSUME parent \in Hierarchies, NEW c \in Classes, NEW d \in Ancestors(c), parent[d] # 0
    PROVE  parent[d] \in Ancestors(c)
<1> DEFINE up == Superclasses(c)
<1>1. PICK k \in Classes : d = up[k] /\ d # 0
  BY DEF Ancestors
<1>2. up[N] = 0 /\ \A j \in Classes : up[j] = Up(up[j - 1])
  <2>1. up[N] = 0
    BY ChainsEnd
  <2>2. QED
    BY <2>1, HierarchiesAreFunctions, SuperclassesAre
<1>3. k # N
  BY <1>1, <1>2
<1>4. k + 1 \in Classes /\ (k + 1) - 1 = k
  BY <1>3, MetaDataAssumption DEF MetaDataAssumption, Classes
<1>5. up[k + 1] = parent[d]
  BY <1>1, <1>2, <1>4 DEF Up
<1>6. QED
  BY <1>4, <1>5 DEF Ancestors

LEMMA AncestorsAreLeast ==
    ASSUME parent \in Hierarchies, NEW c \in Classes, NEW S,
           parent[c] # 0 => parent[c] \in S,
           \A d \in S : parent[d] # 0 => parent[d] \in S
    PROVE  Ancestors(c) \subseteq S
<1> DEFINE up == Superclasses(c)
           T == {k \in 0 .. N : k # 0 => up[k] = 0 \/ up[k] \in S}
<1>1. N \in Nat /\ c # 0
  BY MetaDataAssumption DEF MetaDataAssumption, Classes
<1>2. up[0] = c /\ \A k \in Classes : up[k] = Up(up[k - 1])
  BY HierarchiesAreFunctions, SuperclassesAre
<1> HIDE DEF up
<1>3. 0 \in T
  BY <1>1
<1>4. ASSUME NEW k \in 0 + 1 .. N, k - 1 \in T PROVE k \in T
  <2>1. k \in 0 .. N /\ k \in Classes /\ (k - 1 # 0 => up[k - 1] = 0 \/ up[k - 1] \in S)
    BY <1>1, <1>4 DEF Classes
  <2>2. up[k] = Up(up[k - 1])
    BY <1>2, <2>1
  <2>3. k - 1 = 0 => up[k - 1] = c
    BY <1>2
  <2>4. up[k] = 0 \/ up[k] \in S
    BY <2>1, <2>2, <2>3 DEF Up
  <2>5. QED
    BY <2>1, <2>4
<1> HIDE DEF T
<1>5. 0 .. N \subseteq T
  BY <1>1, <1>3, <1>4, Induction
<1>6. \A k \in Classes : k \in 0 .. N /\ k # 0
  BY <1>1 DEF Classes
<1>7. \A k \in Classes : up[k] = 0 \/ up[k] \in S
  BY <1>5, <1>6 DEF T
<1>8. QED
  BY <1>7 DEF Ancestors, up

LEMMA AncestorsOfAncestors ==
    ASSUME parent \in Hierarchies, NEW c \in Classes, NEW b \in Ancestors(c)
    PROVE  Ancestors(b) \subseteq Ancestors(c)
<1>1. b \in Classes
  BY AncestorsAreClasses
<1>2. parent[b] # 0 => parent[b] \in Ancestors(c)
  BY AncestorsAreClosed
<1>3. \A d \in Ancestors(c) : parent[d] # 0 => parent[d] \in Ancestors(c)
  BY AncestorsAreClosed
<1>4. QED
  BY <1>1, <1>2, <1>3, AncestorsAreLeast

LEMMA AncestorsAreThroughTheParent ==
    ASSUME parent \in Hierarchies, NEW c \in Classes, NEW a \in Ancestors(c)
    PROVE  parent[c] \in Classes /\ a \in {parent[c]} \union Ancestors(parent[c])
<1>1. parent[c] # 0
  <2>1. SUFFICES ASSUME parent[c] = 0 PROVE FALSE
    OBVIOUS
  <2> DEFINE S == {}
  <2>2. \A d \in S : parent[d] # 0 => parent[d] \in S
    OBVIOUS
  <2> HIDE DEF S
  <2>3. Ancestors(c) \subseteq S
    BY <2>1, <2>2, AncestorsAreLeast, Zenon
  <2>4. QED
    BY <2>3 DEF S
<1>2. parent[c] \in Classes
  BY <1>1, ParentIsAncestor, AncestorsAreClasses
<1> DEFINE S == {parent[c]} \union Ancestors(parent[c])
<1>3. \A d \in S : parent[d] # 0 => parent[d] \in S
  BY <1>2, ParentIsAncestor, AncestorsAreClosed
<1>4. parent[c] \in S
  OBVIOUS
<1> HIDE DEF S
<1>5. Ancestors(c) \subseteq S
  BY <1>3, <1>4, AncestorsAreLeast
<1>6. QED
  BY <1>2, <1>5 DEF S

LEMMA NoClassIsItsAncestor ==
    ASSUME parent \in Hierarchies, NEW c \in Classes
    PROVE  c \notin Ancestors(c)
<1> DEFINE S == {b \in Classes : b \in Ancestors(b)}
<1>1. SUFFICES ASSUME c \in S PROVE FALSE
  OBVIOUS
<1>2. PICK b \in S : parent[b] \notin S
  <2>1. S \in (SUBSET Classes) \ {{}}
    BY <1>1
  <2> HIDE DEF S
  <2>2. QED
    BY <2>1 DEF Hierarchies
<1>3. parent[b] \in Classes /\ b \in {parent[b]} \union Ancestors(parent[b])
  BY <1>2, AncestorsAreThroughTheParent
<1>4. parent[b] \in Ancestors(b)
  <2>1. parent[b] # 0
    BY <1>3 DEF Classes
  <2>2. QED
    BY <1>2, <2>1, ParentIsAncestor
<1>5. CASE b = parent[b]
  BY <1>2, <1>5
<1>6. CASE b \in Ancestors(parent[b])
  <2>1. Ancestors(b) \subseteq Ancestors(parent[b])
    BY <1>3, <1>6, AncestorsOfAncestors
  <2>2. QED
    BY <1>2, <1>3, <1>4, <2>1
<1>7. QED
  BY <1>3, <1>5, <1>6

\* Among classes there is one without a subclass among them.
LEMMA LowestClass ==
    ASSUME parent \in Hierarchies, NEW T \in SUBSET Classes, T # {}
    PROVE  \E x \in T : \A y \in T : x \notin Ancestors(y)
<1> DEFINE height(c) == N - Cardinality(Ancestors(c))
<1>1. N \in Nat /\ IsFiniteSet(Classes) /\ Cardinality(Classes) = N
  BY MetaDataAssumption, FS_Interval DEF MetaDataAssumption, Classes
<1>2. \A c \in Classes : IsFiniteSet(Ancestors(c)) /\ Cardinality(Ancestors(c)) \in 0 .. N
  <2>1. SUFFICES ASSUME NEW c \in Classes
                 PROVE  IsFiniteSet(Ancestors(c)) /\ Cardinality(Ancestors(c)) \in 0 .. N
    OBVIOUS
  <2>2. IsFiniteSet(Ancestors(c)) /\ Cardinality(Ancestors(c)) <= N
    BY <1>1, AncestorsAreClasses, FS_Subset
  <2>3. Cardinality(Ancestors(c)) \in Nat
    BY <2>2, FS_CardinalityType
  <2>4. QED
    BY <1>1, <2>2, <2>3
<1>3. PICK x \in T : \A y \in T : height(x) <= height(y)
  <2> DEFINE H == {height(c) : c \in T}
  <2>1. H \in SUBSET Nat /\ H # {}
    BY <1>1, <1>2
  <2> HIDE DEF H
  <2>2. PICK h \in H : \A g \in H : h <= g
    BY <2>1, LeastElement
  <2>3. QED
    BY <2>2 DEF H
<1>4. ASSUME NEW y \in T, x \in Ancestors(y) PROVE FALSE
  <2>1. Ancestors(x) \subseteq Ancestors(y)
    BY <1>4, AncestorsOfAncestors
  <2>2. Ancestors(x) # Ancestors(y)
    BY <1>4, NoClassIsItsAncestor
  <2>3. Cardinality(Ancestors(x)) # Cardinality(Ancestors(y))
        /\ Cardinality(Ancestors(x)) <= Cardinality(Ancestors(y))
    BY <1>2, <2>1, <2>2, FS_Subset
  <2>4. QED
    BY <1>1, <1>2, <1>3, <2>3
<1>5. QED
  BY <1>3, <1>4

-----------------------------------------------------------------------------
(* The two loops of remove() *)

\* The loops keep to a set of lists that each of their steps keeps to.
LEMMA RowIs ==
    ASSUME NEW i \in Classes, NEW S, NEW l \in S,
           \A x \in S : \A j \in i + 1 .. N : Compared(x, i, j) \in S
    PROVE  \E g : /\ Row(l, i) = g[N] /\ g[i] = l
                  /\ \A j \in i + 1 .. N : g[j] = Compared(g[j - 1], i, j)
<1> DEFINE next == [j \in i + 1 .. N |-> [x \in S |-> Compared(x, i, j)]]
           Is(f) == f = [j \in i .. N |-> IF j = i THEN l ELSE Compared(f[j - 1], i, j)]
<1>1. i \in Nat /\ N \in Nat /\ i <= N /\ i \in i .. N
  BY MetaDataAssumption DEF MetaDataAssumption, Classes
<1>2. next \in [i + 1 .. N -> [S -> S]]
  OBVIOUS
<1>3. PICK f \in [i .. N -> S] : Follows(f, i, N, l, next)
  <2> HIDE DEF next
  <2>1. QED
    BY <1>1, <1>2, Recursion
<1>4. \A j \in i + 1 .. N : j \in i .. N /\ j - 1 \in i .. N /\ j # i
  BY <1>1
<1>5. \A j \in i .. N : j = i \/ j \in i + 1 .. N
  BY <1>1
<1>6. f[i] = l /\ \A j \in i + 1 .. N : f[j] = Compared(f[j - 1], i, j)
  <2>1. \A j \in i + 1 .. N : f[j - 1] \in S
    BY <1>4
  <2>2. QED
    BY <1>3, <2>1 DEF Follows
<1>7. Is(f)
  <2>1. f = [j \in i .. N |-> f[j]]
    OBVIOUS
  <2>2. \A j \in i .. N : f[j] = IF j = i THEN l ELSE Compared(f[j - 1], i, j)
    BY <1>5, <1>6, Zenon
  <2>3. QED
    BY <2>1, <2>2
<1> DEFINE g == CHOOSE h : Is(h)
<1>8. Row(l, i) = g[N]
  BY DEF Row
<1>9. Is(g)
  <2> HIDE DEF Is
  <2>1. QED
    BY <1>7, Zenon
<1> HIDE DEF g
<1>10. \A j \in i .. N : g[j] = IF j = i THEN l ELSE Compared(g[j - 1], i, j)
  BY <1>9, Zenon
<1>11. g[i] = l /\ \A j \in i + 1 .. N : g[j] = Compared(g[j - 1], i, j)
  BY <1>1, <1>4, <1>10, Zenon
<1>12. QED
  BY <1>8, <1>11

LEMMA RemoveParentsIs ==
    ASSUME NEW S, NEW l \in S,
           \A x \in S : \A i \in Classes : Row(x, i) \in S
    PROVE  \E g : /\ RemoveParents(l) = g[N] /\ g[0] = l
                  /\ \A i \in Classes : g[i] = Row(g[i - 1], i)
<1> DEFINE next == [i \in Classes |-> [x \in S |-> Row(x, i)]]
           Is(f) == f = [i \in 0 .. N |-> IF i = 0 THEN l ELSE Row(f[i - 1], i)]
<1>1. 0 \in Nat /\ N \in Nat /\ 0 <= N /\ 0 \in 0 .. N /\ 0 + 1 .. N = Classes
  BY MetaDataAssumption DEF MetaDataAssumption, Classes
<1>2. next \in [0 + 1 .. N -> [S -> S]]
  BY <1>1
<1>3. PICK f \in [0 .. N -> S] : Follows(f, 0, N, l, next)
  <2> HIDE DEF next
  <2>1. QED
    BY <1>1, <1>2, Recursion
<1>4. \A i \in Classes : i \in 0 .. N /\ i - 1 \in 0 .. N /\ i # 0
  BY <1>1 DEF Classes
<1>5. \A i \in 0 .. N : i = 0 \/ i \in Classes
  BY <1>1 DEF Classes
<1>6. f[0] = l /\ \A i \in Classes : f[i] = Row(f[i - 1], i)
  <2>1. \A i \in Classes : f[i - 1] \in S
    BY <1>4
  <2>2. QED
    BY <1>1, <1>3, <2>1 DEF Follows
<1>7. Is(f)
  <2>1. f = [i \in 0 .. N |-> f[i]]
    OBVIOUS
  <2>2. \A i \in 0 .. N : f[i] = IF i = 0 THEN l ELSE Row(f[i - 1], i)
    BY <1>5, <1>6, Zenon
  <2>3. QED
    BY <2>1, <2>2
<1> DEFINE g == CHOOSE h : Is(h)
<1>8. RemoveParents(l) = g[N]
  BY DEF RemoveParents
<1>9. Is(g)
  <2> HIDE DEF Is
  <2>1. QED
    BY <1>7, Zenon
<1> HIDE DEF g
<1>10. \A i \in 0 .. N : g[i] = IF i = 0 THEN l ELSE Row(g[i - 1], i)
  BY <1>9, Zenon
<1>11. g[0] = l /\ \A i \in Classes : g[i] = Row(g[i - 1], i)
  BY <1>1, <1>4, <1>10, Zenon
<1>12. QED
  BY <1>8, <1>11

\* The lists that the processors keep: an entry lists the superclasses of its own class.
MetaDataLists ==
    {l \in [Classes -> Entries \union {Null}] :
        \A c \in In(l) : l[c].supers = l[c].classname}

\* What may be left of list m while remove() works on it.
Shrunk(m) ==
    {l \in [Classes -> Entries \union {Null}] :
        \A c \in Classes : l[c] # m[c] => l[c] = Null /\ \E d \in In(m) : Replaces(m, d, c)}

\* Nothing in the list replaces entry c.
Unreplaced(m, c) == c \in In(m) /\ \A d \in In(m) : ~Replaces(m, d, c)

\* What the comparison of i with j is there for.
Settled(m, l, i, j) ==
    /\ Unreplaced(m, i) /\ Replaces(m, i, j) => l[j] = Null
    /\ Unreplaced(m, j) /\ Replaces(m, j, i) => l[i] = Null

\* All that is lost on the way from k to l is lost for good.
Loses(k, l) == \A c \in Classes : k[c] = Null => l[c] = Null

LEMMA ComparisonSettles ==
    ASSUME NEW m \in MetaDataLists, NEW l \in Shrunk(m), NEW i \in Classes, NEW j \in Classes,
           i # j
    PROVE  /\ Compared(l, i, j) \in Shrunk(m)
           /\ Loses(l, Compared(l, i, j))
           /\ Settled(m, Compared(l, i, j), i, j)
<1>1. ASSUME NEW c \in Classes, Unreplaced(m, c) PROVE l[c] = m[c] /\ l[c] # Null
  BY <1>1 DEF Unreplaced, Shrunk, In
<1>2. CASE l[i] = Null \/ l[j] = Null \/ name[i] # name[j]
  <2>1. Compared(l, i, j) = l
    BY <1>2 DEF Compared
  <2>2. Settled(m, l, i, j)
    BY <1>1, <1>2 DEF Settled, Replaces
  <2>3. QED
    BY <2>1, <2>2 DEF Loses
<1>3. CASE l[i] # Null /\ l[j] # Null /\ name[i] = name[j]
  <2> DEFINE pos == DeleteCondition(i, l[i], j, l[j])
  <2>1. l[i] = m[i] /\ l[j] = m[j] /\ i \in In(m) /\ j \in In(m)
    BY <1>3 DEF Shrunk, In
  <2>2. m[i].supers = m[i].classname /\ m[j].supers = m[j].classname
    BY <2>1 DEF MetaDataLists
  <2>3. /\ Replaces(m, i, j) <=> Lists(m[i], m[j]) /\ m[i].needs
        /\ Replaces(m, j, i) <=> Lists(m[j], m[i]) /\ m[j].needs
    BY <1>3, <2>2 DEF Replaces, Lists
  <2>4. pos = IF Replaces(m, i, j) THEN j ELSE IF Replaces(m, j, i) THEN i ELSE 0
    BY <2>1, <2>3 DEF DeleteCondition
  <2>5. i # 0 /\ j # 0
    BY DEF Classes
  <2>6. Compared(l, i, j) = IF pos = 0 THEN l ELSE [l EXCEPT ![pos] = Null]
    BY <1>3 DEF Compared
  <2> HIDE DEF pos
  <2>7. CASE Replaces(m, i, j)
    <3>1. Compared(l, i, j) = [l EXCEPT ![j] = Null]
      BY <2>4, <2>5, <2>6, <2>7
    <3>2. [l EXCEPT ![j] = Null] \in Shrunk(m)
      BY <2>1, <2>7 DEF Shrunk
    <3>3. Loses(l, [l EXCEPT ![j] = Null])
      BY DEF Loses, Shrunk
    <3>4. ~Unreplaced(m, j)
      BY <2>1, <2>7 DEF Unreplaced
    <3>5. [l EXCEPT ![j] = Null][j] = Null
      BY DEF Shrunk
    <3>6. QED
      BY <3>1, <3>2, <3>3, <3>4, <3>5 DEF Settled
  <2>8. CASE ~Replaces(m, i, j) /\ Replaces(m, j, i)
    <3>1. Compared(l, i, j) = [l EXCEPT ![i] = Null]
      BY <2>4, <2>5, <2>6, <2>8
    <3>2. [l EXCEPT ![i] = Null] \in Shrunk(m)
      BY <2>1, <2>8 DEF Shrunk
    <3>3. Loses(l, [l EXCEPT ![i] = Null])
      BY DEF Loses, Shrunk
    <3>4. [l EXCEPT ![i] = Null][i] = Null
      BY DEF Shrunk
    <3>5. QED
      BY <2>8, <3>1, <3>2, <3>3, <3>4 DEF Settled
  <2>9. CASE ~Replaces(m, i, j) /\ ~Replaces(m, j, i)
    <3>1. Compared(l, i, j) = l
      BY <2>4, <2>6, <2>9
    <3>2. QED
      BY <2>9, <3>1 DEF Settled, Loses
  <2>10. QED
    BY <2>7, <2>8, <2>9
<1>4. QED
  BY <1>2, <1>3

\* What is settled stays so.
LEMMA SettledStays ==
    ASSUME NEW m, NEW k, NEW l, Loses(k, l), NEW i \in Classes, NEW j \in Classes,
           Settled(m, k, i, j)
    PROVE  Settled(m, l, i, j)
  BY DEF Loses, Settled

\* The inner loop settles entry i with all behind it, although it goes on with the
\* entry's neighbours only as long as the entry is there.
LEMMA RowsSettle ==
    ASSUME NEW m \in MetaDataLists, NEW l \in Shrunk(m), NEW i \in Classes
    PROVE  /\ Row(l, i) \in Shrunk(m)
           /\ Loses(l, Row(l, i))
           /\ \A j \in i + 1 .. N : Settled(m, Row(l, i), i, j)
<1>1. i \in Nat /\ N \in Nat /\ i <= N
  BY MetaDataAssumption DEF MetaDataAssumption, Classes
<1>2. \A j \in i + 1 .. N : j \in Classes /\ j # i
  BY <1>1 DEF Classes
<1>3. \A x \in Shrunk(m) : \A j \in i + 1 .. N : Compared(x, i, j) \in Shrunk(m)
  BY <1>2, ComparisonSettles
<1>4. PICK g : /\ Row(l, i) = g[N] /\ g[i] = l
               /\ \A j \in i + 1 .. N : g[j] = Compared(g[j - 1], i, j)
  <2> DEFINE S == Shrunk(m)
  <2>1. l \in S /\ \A x \in S : \A j \in i + 1 .. N : Compared(x, i, j) \in S
    BY <1>3
  <2> HIDE DEF S
  <2>2. QED
    BY <2>1, RowIs
<1> DEFINE Holds(j) == /\ g[j] \in Shrunk(m) /\ Loses(l, g[j])
                       /\ \A q \in i + 1 .. j : Settled(m, g[j], i, q)
           T == {j \in i .. N : Holds(j)}
<1>5. i \in T
  <2>1. Holds(i)
    BY <1>1, <1>4 DEF Loses
  <2> HIDE DEF Holds
  <2>2. QED
    BY <1>1, <2>1
<1>6. ASSUME NEW j \in i + 1 .. N, j - 1 \in T PROVE j \in T
  <2>1. Holds(j - 1) /\ j \in i .. N
    BY <1>1, <1>6
  <2>2. g[j] = Compared(g[j - 1], i, j) /\ j \in Classes /\ i # j
    BY <1>2, <1>4
  <2>3. g[j] \in Shrunk(m) /\ Loses(g[j - 1], g[j]) /\ Settled(m, g[j], i, j)
    BY <2>1, <2>2, ComparisonSettles
  <2>4. Loses(l, g[j])
    BY <2>1, <2>3 DEF Loses
  <2>5. ASSUME NEW q \in i + 1 .. j PROVE Settled(m, g[j], i, q)
    <3>1. CASE q = j
      BY <2>3, <3>1
    <3>2. CASE q # j
      <4>1. q \in i + 1 .. j - 1 /\ q \in Classes
        BY <1>1, <3>2 DEF Classes
      <4>2. Settled(m, g[j - 1], i, q)
        BY <2>1, <4>1
      <4>3. QED
        BY <2>3, <4>1, <4>2, SettledStays
    <3>3. QED
      BY <3>1, <3>2
  <2>6. Holds(j)
    BY <2>3, <2>4, <2>5
  <2> HIDE DEF Holds
  <2>7. QED
    BY <2>1, <2>6
<1> HIDE DEF T
<1>7. i .. N \subseteq T
  BY <1>1, <1>5, <1>6, Induction
<1>8. N \in T
  BY <1>1, <1>7
<1>9. Holds(N)
  <2> HIDE DEF Holds
  <2>1. QED
    BY <1>8 DEF T
<1>10. QED
  BY <1>4, <1>9

LEMMA LoopsSettle ==
    ASSUME NEW m \in MetaDataLists
    PROVE  /\ RemoveParents(m) \in Shrunk(m)
           /\ \A i \in Classes : \A j \in i + 1 .. N : Settled(m, RemoveParents(m), i, j)
<1>1. N \in Nat /\ 0 \in Nat /\ 0 + 1 .. N = Classes
  BY MetaDataAssumption DEF MetaDataAssumption, Classes
<1>2. m \in Shrunk(m)
  <2>1. m \in [Classes -> Entries \union {Null}]
    BY DEF MetaDataLists
  <2>2. QED
    BY <2>1 DEF Shrunk
<1>3. PICK g : /\ RemoveParents(m) = g[N] /\ g[0] = m
               /\ \A i \in Classes : g[i] = Row(g[i - 1], i)
  <2> DEFINE S == Shrunk(m)
  <2>1. m \in S /\ \A x \in S : \A i \in Classes : Row(x, i) \in S
    BY <1>2, RowsSettle
  <2> HIDE DEF S
  <2>2. QED
    BY <2>1, RemoveParentsIs
<1> DEFINE Holds(i) == /\ g[i] \in Shrunk(m)
                       /\ \A p \in 1 .. i : \A q \in p + 1 .. N : Settled(m, g[i], p, q)
           T == {i \in 0 .. N : Holds(i)}
<1>4. 0 \in T
  <2>1. Holds(0)
    BY <1>2, <1>3
  <2> HIDE DEF Holds
  <2>2. QED
    BY <1>1, <2>1
<1>5. ASSUME NEW i \in 0 + 1 .. N, i - 1 \in T PROVE i \in T
  <2>1. Holds(i - 1) /\ i \in 0 .. N /\ i \in Classes
    BY <1>1, <1>5
  <2>2. g[i] = Row(g[i - 1], i)
    BY <1>3, <2>1
  <2>3. /\ g[i] \in Shrunk(m) /\ Loses(g[i - 1], g[i])
        /\ \A j \in i + 1 .. N : Settled(m, g[i], i, j)
    BY <2>1, <2>2, RowsSettle
  <2>4. ASSUME NEW p \in 1 .. i, NEW q \in p + 1 .. N PROVE Settled(m, g[i], p, q)
    <3>1. CASE p = i
      BY <2>3, <3>1
    <3>2. CASE p # i
      <4>1. p \in 1 .. i - 1 /\ p \in Classes /\ q \in Classes
        BY <1>1, <3>2 DEF Classes
      <4>2. Settled(m, g[i - 1], p, q)
        BY <2>1, <4>1
      <4>3. QED
        BY <2>3, <4>1, <4>2, SettledStays
    <3>3. QED
      BY <3>1, <3>2
  <2>5. Holds(i)
    BY <2>3, <2>4
  <2> HIDE DEF Holds
  <2>6. QED
    BY <2>1, <2>5
<1> HIDE DEF T
<1>6. 0 .. N \subseteq T
  BY <1>1, <1>4, <1>5, Induction
<1>7. N \in T
  BY <1>1, <1>6
<1>8. Holds(N)
  <2> HIDE DEF Holds
  <2>1. QED
    BY <1>7 DEF T
<1>9. QED
  BY <1>3, <1>8 DEF Classes

\* An entry that is replaced is replaced by one that is not.
LEMMA LastReplacer ==
    ASSUME parent \in Hierarchies, NEW m \in MetaDataLists,
           NEW c \in In(m), NEW b \in In(m), Replaces(m, b, c)
    PROVE  \E d \in In(m) : Replaces(m, d, c) /\ Unreplaced(m, d)
<1> DEFINE R == {d \in In(m) : Replaces(m, d, c)}
           T == {m[d].classname : d \in R}
<1>1. \A d \in In(m) : d \in Classes /\ m[d].classname \in Classes
  BY DEF MetaDataLists, In, Entries
<1>2. PICK x \in T : \A y \in T : x \notin Ancestors(y)
  <2>1. T \in SUBSET Classes /\ T # {}
    BY <1>1
  <2> HIDE DEF T
  <2>2. QED
    BY <2>1, LowestClass
<1>3. PICK d \in R : x = m[d].classname
  BY <1>2
<1>4. ASSUME NEW e \in In(m), Replaces(m, e, d) PROVE FALSE
  <2>1. m[d].classname \in Ancestors(m[e].classname) /\ m[c].classname \in Ancestors(m[d].classname)
    BY <1>3, <1>4 DEF Replaces
  <2>2. m[c].classname \in Ancestors(m[e].classname)
    BY <1>1, <2>1, AncestorsOfAncestors
  <2>3. Replaces(m, e, c)
    BY <1>3, <1>4, <2>2 DEF Replaces
  <2>4. m[e].classname \in T
    BY <2>3
  <2>5. QED
    BY <1>2, <1>3, <2>1, <2>4
<1>5. QED
  BY <1>3, <1>4 DEF Unreplaced

\* remove() leaves what it should.
LEMMA RemoveParentsLeaves ==
    ASSUME parent \in Hierarchies, NEW m \in MetaDataLists
    PROVE  RemoveParents(m) = Leaves(m)
<1> DEFINE l == RemoveParents(m)
<1>1. l \in Shrunk(m) /\ \A i \in Classes : \A j \in i + 1 .. N : Settled(m, l, i, j)
  BY LoopsSettle
<1> HIDE DEF l
<1>2. ASSUME NEW c \in Classes PROVE l[c] = Leaves(m)[c]
  <2>1. CASE c \in In(m) /\ \E d \in In(m) : Replaces(m, d, c)
    <3>1. PICK d \in In(m) : Replaces(m, d, c) /\ Unreplaced(m, d)
      BY <2>1, LastReplacer
    <3>2. d # c /\ d \in Classes
      BY <3>1 DEF Unreplaced, In
    <3>3. d \in c + 1 .. N \/ c \in d + 1 .. N
      BY <3>2, MetaDataAssumption DEF MetaDataAssumption, Classes
    <3>4. l[c] = Null
      BY <1>1, <3>1, <3>2, <3>3 DEF Settled
    <3>5. QED
      BY <2>1, <3>4 DEF Leaves
  <2>2. CASE ~(c \in In(m) /\ \E d \in In(m) : Replaces(m, d, c))
    <3>1. Leaves(m)[c] = m[c]
      BY <2>2 DEF Leaves
    <3>2. l[c] = m[c]
      BY <1>1, <2>2 DEF Shrunk, In
    <3>3. QED
      BY <3>1, <3>2
  <2>3. QED
    BY <2>1, <2>2
<1>3. l = [c \in Classes |-> l[c]] /\ Leaves(m) = [c \in Classes |-> Leaves(m)[c]]
  BY <1>1 DEF Shrunk, Leaves
<1>4. QED
  BY <1>2, <1>3 DEF l

-----------------------------------------------------------------------------
(* What replace() finds *)

LEMMA PositionIs ==
    ASSUME NEW l \in MetaDataLists, NEW s
    PROVE  /\ Position(l, s) # 0 => Position(l, s) \in In(l) /\ l[Position(l, s)].classname = s
           /\ Position(l, s) = 0 => \A d \in In(l) : l[d].classname # s
<1> DEFINE hits == {c \in In(l) : l[c].classname = s}
<1>1. Position(l, s) = IF hits = {} THEN 0 ELSE Min(hits)
  BY DEF Position
<1>2. hits \in SUBSET Nat /\ 0 \notin hits
  BY DEF In, Classes
<1>3. CASE hits = {}
  BY <1>1, <1>3
<1>4. CASE hits # {}
  <2>1. Min(hits) \in hits
    <3> HIDE DEF hits
    <3>1. QED
      BY <1>2, <1>4, MinIsLeast
  <2>2. QED
    BY <1>1, <1>2, <1>4, <2>1
<1>5. QED
  BY <1>3, <1>4

LEMMA FoundIs ==
    ASSUME parent \in Hierarchies, NEW l \in MetaDataLists, NEW c \in Classes
    PROVE  /\ Found(l, c) # 0 =>
                 Found(l, c) \in In(l) /\ l[Found(l, c)].classname \in Ancestors(c)
           /\ Found(l, c) = 0 => \A d \in In(l) : l[d].classname \notin Ancestors(c)
<1> DEFINE up == Superclasses(c)
           hits == {k \in Classes : Position(l, up[k]) # 0}
<1>1. Found(l, c) = IF hits = {} THEN 0 ELSE Position(l, up[Min(hits)])
  BY DEF Found
<1>2. \A d \in In(l) : l[d].classname \in Classes /\ l[d].classname # 0
  BY DEF MetaDataLists, In, Entries, Classes
<1>3. hits \in SUBSET Nat
  BY DEF Classes
<1>4. Ancestors(c) = {up[k] : k \in Classes} \ {0}
  BY DEF Ancestors
<1> HIDE DEF up
<1>5. CASE hits = {}
  <2>1. ASSUME NEW d \in In(l), l[d].classname \in Ancestors(c) PROVE FALSE
    <3>1. PICK k \in Classes : l[d].classname = up[k]
      BY <1>4, <2>1
    <3>2. Position(l, up[k]) = 0
      BY <1>5
    <3>3. QED
      BY <3>1, <3>2, PositionIs
  <2>2. QED
    BY <1>1, <1>5, <2>1
<1>6. CASE hits # {}
  <2>1. Min(hits) \in hits
    <3> HIDE DEF hits
    <3>1. QED
      BY <1>3, <1>6, MinIsLeast
  <2> DEFINE k == Min(hits)
  <2>2. k \in Classes /\ Position(l, up[k]) # 0 /\ Found(l, c) = Position(l, up[k])
    BY <1>1, <1>6, <2>1
  <2> HIDE DEF k
  <2>3. Found(l, c) \in In(l) /\ l[Found(l, c)].classname = up[k]
    BY <2>2, PositionIs
  <2>4. up[k] \in Ancestors(c)
    BY <1>2, <1>4, <2>2, <2>3
  <2>5. QED
    BY <2>2, <2>3, <2>4
<1>7. QED
  BY <1>5, <1>6

-----------------------------------------------------------------------------
(* The invariant *)

Typed ==
    /\ processor \in {"QuickApp", "Gemini", "plain"}
    /\ parent \in Hierarchies
    /\ kind \in [Classes -> Annotations[processor]]
    /\ name \in [Classes -> Names \union {Null}]
    /\ stage \in {"start", "skipped", "resolve", "failed", "injected", "rejected"}
    /\ sons \subseteq Scanned({"inherited"})
    /\ extensions \in MetaDataLists
    /\ In(extensions) \subseteq Scanned({"extension", "target"})
    /\ widgets \in MetaDataLists
    /\ In(widgets) \subseteq Scanned({"widget", "lenient widget"})

\* Nothing is lost before process() starts.
Started ==
    stage = "start" =>
        /\ sons = Scanned({"inherited"})
        /\ extensions = EntriesOf({"extension", "target"})
        /\ widgets = EntriesOf({"widget", "lenient widget"})

\* A class that is still to be resolved has no entry yet.
SonsWait == \A l \in {extensions, widgets} : \A c \in In(l) : l[c].classname \notin sons

\* An annotated class has its entry, or an @Inherited class took it, or the Gemini
\* processor dropped it before it resolved.
Traced ==
    stage = "resolve" =>
        \A a \in Classes \ Scanned({"inherited"}) :
            \/ \E l \in {extensions, widgets} : \E d \in In(l) : l[d].classname = a
            \/ \E c \in Scanned({"inherited"}) \ sons : a \in Ancestors(c)
            \/ /\ processor = "Gemini"
               /\ \E d \in Classes : kind[d] = "extension" /\ name[d] = name[a] /\ a \in Ancestors(d)

MetaDataInv ==
    Typed /\ Started /\ SonsWait /\ HeirsOfEntries /\ Traced /\ ResolvedUncontested

\* No step changes what was scanned.
LEMMA InputsStay ==
    ASSUME UNCHANGED inputVars
    PROVE  /\ processor' = processor /\ parent' = parent /\ kind' = kind /\ name' = name
           /\ \A c : Ancestors(c)' = Ancestors(c)
           /\ \A kinds : Scanned(kinds)' = Scanned(kinds)
<1>1. processor' = processor /\ parent' = parent /\ kind' = kind /\ name' = name
  BY DEF inputVars
<1>2. ASSUME NEW c PROVE Ancestors(c)' = Ancestors(c)
  BY <1>1 DEF Ancestors, Superclasses
<1>3. ASSUME NEW kinds PROVE Scanned(kinds)' = Scanned(kinds)
  BY <1>1 DEF Scanned
<1>4. QED
  BY <1>1, <1>2, <1>3

\* The entries that the annotations give.
LEMMA EntriesOfAre ==
    ASSUME NEW kinds
    PROVE  /\ EntriesOf(kinds) \in MetaDataLists
           /\ In(EntriesOf(kinds)) = Scanned(kinds)
           /\ \A c \in Scanned(kinds) : EntriesOf(kinds)[c].classname = c
<1> DEFINE l == EntriesOf(kinds)
<1>1. \A c \in Classes : Entry(c) \in Entries /\ Entry(c).supers = c /\ Entry(c).classname = c
  BY DEF Entry, Entries
<1>2. \A e \in Entries : e # Null
  BY MetaDataAssumption DEF MetaDataAssumption
<1>3. \A c \in Classes : l[c] = IF c \in Scanned(kinds) THEN Entry(c) ELSE Null
  BY DEF EntriesOf
<1>4. l \in [Classes -> Entries \union {Null}]
  <2>1. \A c \in Classes : (IF c \in Scanned(kinds) THEN Entry(c) ELSE Null) \in Entries \union {Null}
    BY <1>1
  <2> HIDE DEF Entry
  <2>2. QED
    BY <2>1 DEF EntriesOf
<1>5. Scanned(kinds) \subseteq Classes
  BY DEF Scanned
<1> HIDE DEF l
<1>6. In(l) = Scanned(kinds)
  BY <1>1, <1>2, <1>3, <1>5 DEF In
<1>7. \A c \in In(l) : l[c].supers = c /\ l[c].classname = c
  BY <1>1, <1>3, <1>5, <1>6
<1>8. QED
  BY <1>4, <1>6, <1>7 DEF MetaDataLists, l

LEMMA ShrunkLists ==
    ASSUME NEW m \in MetaDataLists, NEW l \in Shrunk(m)
    PROVE  l \in MetaDataLists /\ In(l) \subseteq In(m) /\ \A c \in In(l) : l[c] = m[c]
<1>1. In(l) \subseteq In(m) /\ \A c \in In(l) : l[c] = m[c]
  BY DEF In, Shrunk
<1>2. QED
  BY <1>1 DEF MetaDataLists, Shrunk

\* replace() gives the entry of an ancestor of c to c.
LEMMA TakesIs ==
    ASSUME parent \in Hierarchies, NEW l \in MetaDataLists, NEW c \in Classes, Found(l, c) # 0
    PROVE  /\ Takes(l, c) \in MetaDataLists
           /\ In(Takes(l, c)) = In(l)
           /\ Found(l, c) \in In(l) /\ l[Found(l, c)].classname \in Ancestors(c)
           /\ Takes(l, c)[Found(l, c)].classname = c
           /\ \A d \in In(l) : d # Found(l, c) => Takes(l, c)[d] = l[d]
<1> DEFINE p == Found(l, c)
           e == Renamed(l[p], c)
<1>1. p \in In(l) /\ l[p].classname \in Ancestors(c)
  BY FoundIs
<1> HIDE DEF p
<1>2. l \in [Classes -> Entries \union {Null}] /\ l[p] \in Entries /\ p \in Classes
  BY <1>1 DEF MetaDataLists, In
<1>3. e \in Entries /\ e.classname = c /\ e.supers = c
  BY <1>2 DEF Renamed, Entries
<1>4. e # Null
  BY <1>3, MetaDataAssumption DEF MetaDataAssumption
<1> HIDE DEF e
<1>5. Takes(l, c) = [l EXCEPT ![p] = e]
  BY DEF Takes, p, e
<1> DEFINE t == [l EXCEPT ![p] = e]
<1>6. t \in [Classes -> Entries \union {Null}] /\ t[p] = e /\ \A d \in Classes : d # p => t[d] = l[d]
  BY <1>2, <1>3
<1> HIDE DEF t
<1>7. In(t) = In(l)
  BY <1>1, <1>4, <1>6 DEF In
<1>8. \A d \in In(t) : t[d].supers = t[d].classname
  BY <1>3, <1>6, <1>7 DEF MetaDataLists, In
<1>9. t \in MetaDataLists
  BY <1>6, <1>8 DEF MetaDataLists
<1>10. QED
  BY <1>1, <1>3, <1>5, <1>6, <1>7, <1>9 DEF t, p, In

-----------------------------------------------------------------------------
(* The parts of the invariant, for a set of lists *)

HeirsIn(lists) ==
    \A l \in lists : \A c \in In(l) :
        l[c].classname # c => l[c].classname \in Scanned({"inherited"}) /\ c \in Ancestors(l[c].classname)

OneEachIn(lists) ==
    \A l, m \in lists : \A c \in In(l), d \in In(m) : l[c].classname = m[d].classname => c = d

WaitIn(lists, waiting) == \A l \in lists : \A c \in In(l) : l[c].classname \notin waiting

UsedIn(lists, waiting) ==
    \A s \in Scanned({"inherited"}) \ waiting :
        \E l \in lists : \E c \in In(l) : s \in {l[c].classname} \union Ancestors(l[c].classname)

TracedIn(lists, waiting) ==
    \A a \in Classes \ Scanned({"inherited"}) :
        \/ \E l \in lists : \E d \in In(l) : l[d].classname = a
        \/ \E c \in Scanned({"inherited"}) \ waiting : a \in Ancestors(c)
        \/ /\ processor = "Gemini"
           /\ \E d \in Classes : kind[d] = "extension" /\ name[d] = name[a] /\ a \in Ancestors(d)

LEMMA ClassesOfEntries ==
    ASSUME NEW l \in MetaDataLists
    PROVE  \A c \in In(l) : c \in Classes /\ l[c].classname \in Classes
  BY DEF MetaDataLists, In, Entries

LEMMA Parts ==
    ASSUME Typed
    PROVE  /\ SonsWait <=> WaitIn({extensions, widgets}, sons)
           /\ HeirsOfEntries <=> /\ HeirsIn({extensions, widgets})
                                 /\ OneEachIn({extensions, widgets})
                                 /\ stage = "resolve" => UsedIn({extensions, widgets}, sons)
           /\ Traced <=> (stage = "resolve" => TracedIn({extensions, widgets}, sons))
<1> DEFINE lists == {extensions, widgets}
<1>1. \A l \in lists : \A c \in In(l) : l[c].classname \in Classes
  <2>1. \A l \in lists : l \in MetaDataLists
    BY DEF Typed
  <2>2. QED
    BY <2>1, ClassesOfEntries
<1> HIDE DEF lists
<1>2. Scanned({"inherited"}) = {c \in Classes : kind[c] = "inherited"}
  BY DEF Scanned
<1>3. SonsWait <=> WaitIn(lists, sons)
  BY DEF SonsWait, WaitIn, lists
<1>4. (\A l \in lists : \A c \in In(l) :
          l[c].classname # c =>
              kind[l[c].classname] = "inherited" /\ c \in Ancestors(l[c].classname))
      <=> HeirsIn(lists)
  BY <1>1, <1>2 DEF HeirsIn
<1>5. (\A s \in Classes \ sons : kind[s] = "inherited" =>
          \E l \in lists : \E c \in In(l) : s \in {l[c].classname} \union Ancestors(l[c].classname))
      <=> UsedIn(lists, sons)
  BY <1>2 DEF UsedIn
<1>6. HeirsOfEntries <=> HeirsIn(lists) /\ OneEachIn(lists) /\ (stage = "resolve" => UsedIn(lists, sons))
  BY <1>4, <1>5, Zenon DEF HeirsOfEntries, OneEachIn, lists
<1>7. Traced <=> (stage = "resolve" => TracedIn(lists, sons))
  BY DEF Traced, TracedIn, lists
<1>8. QED
  BY <1>3, <1>6, <1>7 DEF lists

\* When c takes over an entry of list l, each part of the invariant stays.
LEMMA TakingKeeps ==
    ASSUME parent \in Hierarchies, NEW l \in MetaDataLists, NEW m \in MetaDataLists, NEW waiting,
           NEW c \in Scanned({"inherited"}), c \in waiting, Found(l, c) # 0,
           HeirsIn({l, m}), OneEachIn({l, m}), WaitIn({l, m}, waiting)
    PROVE  LET lists == {Takes(l, c), m} IN
           /\ HeirsIn(lists) /\ OneEachIn(lists) /\ WaitIn(lists, waiting \ {c})
           /\ UsedIn({l, m}, waiting) => UsedIn(lists, waiting \ {c})
           /\ TracedIn({l, m}, waiting) => TracedIn(lists, waiting \ {c})
<1> DEFINE t == Takes(l, c)
           p == Found(l, c)
           b == l[p].classname
<1>1. /\ t \in MetaDataLists /\ In(t) = In(l) /\ p \in In(l) /\ b \in Ancestors(c)
      /\ t[p].classname = c
      /\ \A d \in In(l) : d # p => t[d] = l[d]
  BY TakesIs DEF Scanned
<1>2. c \in Classes /\ b \in Classes /\ p \in Classes
  BY <1>1, AncestorsAreClasses DEF Scanned, In
<1> HIDE DEF t, p
<1>3. HeirsIn({t, m})
  <2>1. ASSUME NEW d \in In(t), t[d].classname # d
        PROVE  t[d].classname \in Scanned({"inherited"}) /\ d \in Ancestors(t[d].classname)
    <3>1. CASE d # p
      BY <1>1, <2>1, <3>1 DEF HeirsIn
    <3>2. CASE d = p /\ b = p
      BY <1>1, <3>2
    <3>3. CASE d = p /\ b # p
      <4>1. p \in Ancestors(b)
        BY <1>1, <3>3 DEF HeirsIn
      <4>2. p \in Ancestors(c)
        BY <1>1, <1>2, <4>1, AncestorsOfAncestors
      <4>3. QED
        BY <1>1, <3>3, <4>2
    <3>4. QED
      BY <3>1, <3>2, <3>3
  <2>2. QED
    BY <2>1 DEF HeirsIn
<1>4. \A d \in In(l) : l[d].classname # c
  BY DEF WaitIn
<1>5. \A d \in In(m) : m[d].classname # c
  BY DEF WaitIn
<1>6. OneEachIn({t, m})
  <2>1. ASSUME NEW d \in In(t), NEW e \in In(t), t[d].classname = t[e].classname PROVE d = e
    BY <1>1, <1>4, <2>1 DEF OneEachIn
  <2>2. ASSUME NEW d \in In(t), NEW e \in In(m), t[d].classname = m[e].classname PROVE d = e
    BY <1>1, <1>5, <2>2 DEF OneEachIn
  <2>3. ASSUME NEW d \in In(m), NEW e \in In(m), m[d].classname = m[e].classname PROVE d = e
    BY <2>3 DEF OneEachIn
  <2>4. QED
    BY <2>1, <2>2, <2>3 DEF OneEachIn
<1>7. WaitIn({t, m}, waiting \ {c})
  BY <1>1 DEF WaitIn
<1>8. ASSUME UsedIn({l, m}, waiting) PROVE UsedIn({t, m}, waiting \ {c})
  <2>1. SUFFICES ASSUME NEW s \in Scanned({"inherited"}), s \notin waiting \/ s = c
                 PROVE  \E k \in {t, m} : \E d \in In(k) :
                            s \in {k[d].classname} \union Ancestors(k[d].classname)
    BY DEF UsedIn
  <2>2. CASE s = c
    BY <1>1, <2>2
  <2>3. CASE s \notin waiting
    <3>0. PICK k \in {l, m} : \E d \in In(k) : s \in {k[d].classname} \union Ancestors(k[d].classname)
      BY <1>8, <2>3 DEF UsedIn
    <3>1. PICK d \in In(k) : s \in {k[d].classname} \union Ancestors(k[d].classname)
      BY <3>0
    <3>2. CASE k = m
      BY <3>1, <3>2
    <3>3. CASE k = l /\ d # p
      <4>1. d \in In(t) /\ t[d] = k[d]
        BY <1>1, <3>1, <3>3
      <4>2. QED
        BY <3>1, <4>1
    <3>4. CASE k = l /\ d = p
      <4>1. s \in Ancestors(c)
        BY <1>1, <1>2, <3>1, <3>4, AncestorsOfAncestors
      <4>2. QED
        BY <1>1, <4>1
    <3>5. QED
      BY <3>1, <3>2, <3>3, <3>4
  <2>4. QED
    BY <2>1, <2>2, <2>3
<1>9. ASSUME TracedIn({l, m}, waiting) PROVE TracedIn({t, m}, waiting \ {c})
  <2>1. ASSUME NEW a, NEW k \in {l, m}, NEW d \in In(k), k[d].classname = a
        PROVE  \/ \E i \in {t, m} : \E j \in In(i) : i[j].classname = a
               \/ \E j \in Scanned({"inherited"}) \ (waiting \ {c}) : a \in Ancestors(j)
    <3>1. CASE k = m
      BY <2>1, <3>1
    <3>2. CASE k = l /\ d # p
      BY <1>1, <2>1, <3>2
    <3>3. CASE k = l /\ d = p
      BY <1>1, <2>1, <3>3
    <3>4. QED
      BY <3>1, <3>2, <3>3
  <2>2. \A j \in Scanned({"inherited"}) \ waiting : j \in Scanned({"inherited"}) \ (waiting \ {c})
    OBVIOUS
  <2>3. QED
    BY <1>9, <2>1, <2>2, Zenon DEF TracedIn
<1>10. QED
  BY <1>3, <1>6, <1>7, <1>8, <1>9 DEF t

\* When entries are dropped from list l, all but the last two parts of the invariant stay.
LEMMA DroppingKeeps ==
    ASSUME NEW l \in MetaDataLists, NEW m \in MetaDataLists, NEW waiting,
           NEW k \in Shrunk(l), NEW n \in Shrunk(m),
           HeirsIn({l, m}), OneEachIn({l, m}), WaitIn({l, m}, waiting)
    PROVE  HeirsIn({k, n}) /\ OneEachIn({k, n}) /\ WaitIn({k, n}, waiting)
<1>1. /\ In(k) \subseteq In(l) /\ \A c \in In(k) : k[c] = l[c]
      /\ In(n) \subseteq In(m) /\ \A c \in In(n) : n[c] = m[c]
  BY ShrunkLists
<1>2. \A x \in {k, n} : \E y \in {l, m} : In(x) \subseteq In(y) /\ \A c \in In(x) : x[c] = y[c]
  BY <1>1
<1>3. HeirsIn({k, n})
  BY <1>1 DEF HeirsIn
<1>4. OneEachIn({k, n})
  <2>1. SUFFICES ASSUME NEW x \in {k, n}, NEW y \in {k, n}, NEW c \in In(x), NEW d \in In(y),
                        x[c].classname = y[d].classname
                 PROVE  c = d
    BY DEF OneEachIn
  <2>2. PICK i \in {l, m} : In(x) \subseteq In(i) /\ \A a \in In(x) : x[a] = i[a]
    BY <1>2
  <2>3. PICK j \in {l, m} : In(y) \subseteq In(j) /\ \A a \in In(y) : y[a] = j[a]
    BY <1>2
  <2>4. c \in In(i) /\ d \in In(j) /\ i[c].classname = j[d].classname
    BY <2>1, <2>2, <2>3
  <2>5. QED
    BY <2>4 DEF OneEachIn
<1>5. WaitIn({k, n}, waiting)
  BY <1>1 DEF WaitIn
<1>6. QED
  BY <1>3, <1>4, <1>5

\* What the annotations give, no class has taken or lost.
LEMMA StartParts ==
    ASSUME Typed, Started, stage = "start"
    PROVE  /\ HeirsIn({extensions, widgets}) /\ OneEachIn({extensions, widgets})
           /\ WaitIn({extensions, widgets}, sons) /\ UsedIn({extensions, widgets}, sons)
           /\ \A a \in Classes \ Scanned({"inherited"}) :
                 \E l \in {extensions, widgets} : \E d \in In(l) : l[d].classname = a
<1>1. /\ In(extensions) = Scanned({"extension", "target"})
      /\ In(widgets) = Scanned({"widget", "lenient widget"})
      /\ \A l \in {extensions, widgets} : \A c \in In(l) : l[c].classname = c
  <2>1. /\ In(extensions) = Scanned({"extension", "target"})
        /\ \A c \in In(extensions) : extensions[c].classname = c
    <3> DEFINE kinds == {"extension", "target"}
    <3>1. extensions = EntriesOf(kinds)
      BY DEF Started
    <3> HIDE DEF kinds
    <3>2. QED
      BY <3>1, EntriesOfAre DEF kinds
  <2>2. /\ In(widgets) = Scanned({"widget", "lenient widget"})
        /\ \A c \in In(widgets) : widgets[c].classname = c
    <3> DEFINE kinds == {"widget", "lenient widget"}
    <3>1. widgets = EntriesOf(kinds)
      BY DEF Started
    <3> HIDE DEF kinds
    <3>2. QED
      BY <3>1, EntriesOfAre DEF kinds
  <2>3. QED
    BY <2>1, <2>2
<1>2. sons = Scanned({"inherited"})
  BY DEF Started
<1>3. \A l \in {extensions, widgets} : \A c \in In(l) : c \notin sons
  BY <1>1, <1>2 DEF Scanned
<1>4. \A a \in Classes : kind[a] \in {"inherited", "extension", "target", "widget", "lenient widget"}
  BY DEF Typed, Annotations
<1>5. ASSUME NEW a \in Classes \ Scanned({"inherited"})
      PROVE  \E l \in {extensions, widgets} : \E d \in In(l) : l[d].classname = a
  <2>1. a \in In(extensions) \/ a \in In(widgets)
    BY <1>1, <1>4 DEF Scanned
  <2>2. QED
    BY <1>1, <2>1
<1>6. HeirsIn({extensions, widgets})
  BY <1>1 DEF HeirsIn
<1>7. OneEachIn({extensions, widgets})
  BY <1>1, Zenon DEF OneEachIn
<1>8. WaitIn({extensions, widgets}, sons)
  BY <1>1, <1>3 DEF WaitIn
<1>9. UsedIn({extensions, widgets}, sons)
  BY <1>2 DEF UsedIn
<1>10. QED
  BY <1>5, <1>6, <1>7, <1>8, <1>9

\* The parents that the Gemini processor drops first leave a subclass behind.
LEMMA GeminiTraces ==
    ASSUME Typed, Started, stage = "start", processor = "Gemini"
    PROVE  TracedIn({RemoveParents(extensions), widgets}, sons)
<1> DEFINE l == RemoveParents(extensions)
<1>1. l = Leaves(extensions)
  BY RemoveParentsLeaves DEF Typed
<1>2. /\ In(extensions) = Scanned({"extension", "target"})
      /\ \A c \in In(extensions) : extensions[c].classname = c
  <2> DEFINE kinds == {"extension", "target"}
  <2>1. extensions = EntriesOf(kinds)
    BY DEF Started
  <2> HIDE DEF kinds
  <2>2. QED
    BY <2>1, EntriesOfAre DEF kinds
<1>3. \A a \in Classes : kind[a] \in {"inherited", "extension"}
  BY DEF Typed, Annotations
<1> HIDE DEF l
<1>4. SUFFICES ASSUME NEW a \in Classes \ Scanned({"inherited"})
               PROVE  \/ \E d \in In(l) : l[d].classname = a
                      \/ \E d \in Classes : kind[d] = "extension" /\ name[d] = name[a] /\ a \in Ancestors(d)
  BY DEF TracedIn, l
<1>5. a \in In(extensions) /\ extensions[a] # Null
  BY <1>2, <1>3 DEF Scanned, In
<1>6. CASE \E d \in In(extensions) : Replaces(extensions, d, a)
  <2>1. PICK d \in In(extensions) : Replaces(extensions, d, a)
    BY <1>6
  <2>2. name[d] = name[a] /\ a \in Ancestors(d)
    BY <1>2, <1>5, <2>1 DEF Replaces
  <2>3. d \in Classes /\ kind[d] = "extension"
    BY <1>2, <1>3 DEF Scanned, In
  <2>4. QED
    BY <2>2, <2>3
<1>7. CASE ~\E d \in In(extensions) : Replaces(extensions, d, a)
  <2>1. l[a] = extensions[a]
    BY <1>1, <1>7 DEF Leaves
  <2>2. a \in In(l) /\ l[a].classname = a
    BY <1>2, <1>5, <2>1 DEF In
  <2>3. QED
    BY <2>2
<1>8. QED
  BY <1>6, <1>7

-----------------------------------------------------------------------------

\* The annotations alone give a state of the invariant.
LEMMA InvInit == Init => MetaDataInv
<1> SUFFICES ASSUME Init PROVE MetaDataInv
  OBVIOUS
<1>1. Typed
  BY EntriesOfAre DEF Init, Typed
<1>2. Started /\ stage = "start"
  BY DEF Init, Started
<1>3. SonsWait /\ HeirsOfEntries /\ Traced
  BY <1>1, <1>2, StartParts, Parts
<1>4. ResolvedUncontested
  BY <1>2 DEF ResolvedUncontested
<1>5. QED
  BY <1>1, <1>2, <1>3, <1>4 DEF MetaDataInv

LEMMA TypedNext ==
    ASSUME Typed, [Next]_vars
    PROVE  Typed'
<1>1. CASE Skip
  BY <1>1 DEF Typed, Skip, inputVars, Scanned
<1>2. CASE Begin
  <2>1. UNCHANGED <<inputVars, sons, widgets>> /\ stage' = "resolve"
    BY <1>2 DEF Begin
  <2>2. RemoveParents(extensions) \in MetaDataLists /\ In(RemoveParents(extensions)) \subseteq In(extensions)
    BY LoopsSettle, ShrunkLists DEF Typed
  <2>3. extensions' \in MetaDataLists /\ In(extensions') \subseteq In(extensions)
    BY <1>2, <2>2 DEF Begin, Typed
  <2>4. QED
    BY <2>1, <2>3 DEF Typed, inputVars, Scanned
<1>3. CASE Resolve
  <2> DEFINE c == Min(sons)
  <2>1. UNCHANGED <<inputVars, stage>> /\ sons' \subseteq sons /\ sons # {}
    BY <1>3 DEF Resolve
  <2>2. c \in Classes
    <3>1. sons \subseteq Classes
      BY DEF Typed, Scanned
    <3>2. sons \in SUBSET Nat
      BY <3>1 DEF Classes
    <3>3. c \in sons
      BY <2>1, <3>2, MinIsLeast
    <3>4. QED
      BY <3>1, <3>3
  <2>3. \/ Found(extensions, c) # 0 /\ extensions' = Takes(extensions, c) /\ widgets' = widgets
        \/ Found(widgets, c) # 0 /\ widgets' = Takes(widgets, c) /\ extensions' = extensions
    BY <1>3 DEF Resolve
  <2> HIDE DEF c
  <2>4. /\ extensions' \in MetaDataLists /\ In(extensions') = In(extensions)
        /\ widgets' \in MetaDataLists /\ In(widgets') = In(widgets)
    BY <2>2, <2>3, TakesIs DEF Typed
  <2>5. QED
    BY <2>1, <2>4 DEF Typed, inputVars, Scanned
<1>4. CASE Fail
  BY <1>4 DEF Typed, Fail, inputVars, Scanned
<1>5. CASE Inject
  <2>1. UNCHANGED <<inputVars, sons>> /\ stage' \in {"injected", "rejected"}
        /\ extensions' = RemoveParents(extensions) /\ widgets' = RemoveParents(widgets)
    BY <1>5 DEF Inject
  <2>2. /\ extensions' \in MetaDataLists /\ In(extensions') \subseteq In(extensions)
        /\ widgets' \in MetaDataLists /\ In(widgets') \subseteq In(widgets)
    BY <2>1, LoopsSettle, ShrunkLists DEF Typed
  <2>3. QED
    BY <2>1, <2>2 DEF Typed, inputVars, Scanned
<1>6. CASE UNCHANGED vars
  BY <1>6 DEF Typed, vars, inputVars, Scanned
<1>7. QED
  BY <1>1, <1>2, <1>3, <1>4, <1>5, <1>6 DEF Next

\* The parts of the invariant in the state after a step.
LEMMA PartsNext ==
    ASSUME Typed', UNCHANGED inputVars
    PROVE  /\ SonsWait' <=> WaitIn({extensions', widgets'}, sons')
           /\ HeirsOfEntries' <=> /\ HeirsIn({extensions', widgets'})
                                  /\ OneEachIn({extensions', widgets'})
                                  /\ stage' = "resolve" => UsedIn({extensions', widgets'}, sons')
           /\ Traced' <=> (stage' = "resolve" => TracedIn({extensions', widgets'}, sons'))
<1> DEFINE lists == {extensions', widgets'}
<1>0. /\ processor' = processor /\ parent' = parent /\ kind' = kind /\ name' = name
      /\ \A c : Ancestors(c)' = Ancestors(c)
      /\ \A kinds : Scanned(kinds)' = Scanned(kinds)
  BY InputsStay
<1>1. \A l \in lists : \A c \in In(l) : l[c].classname \in Classes
  <2>1. \A l \in lists : l \in MetaDataLists
    BY DEF Typed
  <2>2. QED
    BY <2>1, ClassesOfEntries
<1> HIDE DEF lists
<1>2. Scanned({"inherited"}) = {c \in Classes : kind[c] = "inherited"}
  BY DEF Scanned
<1>3. SonsWait' <=> WaitIn(lists, sons')
  BY DEF SonsWait, WaitIn, lists
<1>4. (\A l \in lists : \A c \in In(l) :
          l[c].classname # c =>
              kind'[l[c].classname] = "inherited" /\ c \in Ancestors(l[c].classname)')
      <=> HeirsIn(lists)
  BY <1>0, <1>1, <1>2 DEF HeirsIn
<1>5. (\A s \in Classes \ sons' : kind'[s] = "inherited" =>
          \E l \in lists : \E c \in In(l) : s \in {l[c].classname} \union Ancestors(l[c].classname)')
      <=> UsedIn(lists, sons')
  BY <1>0, <1>2 DEF UsedIn
<1>6. HeirsOfEntries' <=> HeirsIn(lists) /\ OneEachIn(lists) /\ (stage' = "resolve" => UsedIn(lists, sons'))
  BY <1>4, <1>5, Zenon DEF HeirsOfEntries, OneEachIn, lists
<1>7. Traced' <=> (stage' = "resolve" => TracedIn(lists, sons'))
  BY <1>0 DEF Traced, TracedIn, lists
<1>8. QED
  BY <1>3, <1>6, <1>7 DEF lists

LEMMA InvNext ==
    ASSUME MetaDataInv, [Next]_vars
    PROVE  MetaDataInv'
<1>1. Typed /\ Typed'
  BY TypedNext DEF MetaDataInv
<1>2. /\ WaitIn({extensions, widgets}, sons) /\ HeirsIn({extensions, widgets})
      /\ OneEachIn({extensions, widgets})
      /\ stage = "resolve" => /\ UsedIn({extensions, widgets}, sons)
                              /\ TracedIn({extensions, widgets}, sons)
  BY <1>1, Parts DEF MetaDataInv
<1>3. ASSUME UNCHANGED inputVars,
             WaitIn({extensions', widgets'}, sons'), HeirsIn({extensions', widgets'}),
             OneEachIn({extensions', widgets'}),
             stage' = "resolve" => /\ UsedIn({extensions', widgets'}, sons')
                                   /\ TracedIn({extensions', widgets'}, sons'),
             Started', ResolvedUncontested'
      PROVE  MetaDataInv'
  BY <1>1, <1>3, PartsNext DEF MetaDataInv
<1>4. CASE Skip
  <2>1. UNCHANGED <<inputVars, sons, extensions, widgets>> /\ stage' = "skipped"
    BY <1>4 DEF Skip
  <2>2. QED
    BY <1>2, <1>3, <2>1 DEF Started, ResolvedUncontested
<1>5. CASE Begin
  <2>1. UNCHANGED <<inputVars, sons, widgets>> /\ stage = "start" /\ stage' = "resolve"
    BY <1>5 DEF Begin
  <2>2. Started
    BY DEF MetaDataInv
  <2>3. UsedIn({extensions', widgets'}, sons)
    <3>1. sons = Scanned({"inherited"})
      BY <2>1, <2>2 DEF Started
    <3>2. QED
      BY <3>1 DEF UsedIn
  <2>4. CASE extensions' = extensions
    <3>1. TracedIn({extensions, widgets}, sons)
      BY <1>1, <2>1, <2>2, StartParts DEF TracedIn
    <3>2. QED
      BY <1>2, <1>3, <2>1, <2>3, <2>4, <3>1 DEF Started, ResolvedUncontested
  <2>5. CASE processor = "Gemini" /\ extensions' = RemoveParents(extensions)
    <3>1. TracedIn({extensions', widgets'}, sons)
      BY <1>1, <2>1, <2>2, <2>5, GeminiTraces
    <3>2. extensions \in MetaDataLists /\ widgets \in MetaDataLists
      BY <1>1 DEF Typed
    <3>3. extensions' \in Shrunk(extensions)
      BY <2>5, <3>2, LoopsSettle
    <3>4. widgets \in Shrunk(widgets)
      <4>1. widgets \in [Classes -> Entries \union {Null}]
        BY <3>2 DEF MetaDataLists
      <4>2. QED
        BY <4>1 DEF Shrunk
    <3>5. /\ HeirsIn({extensions', widgets'}) /\ OneEachIn({extensions', widgets'})
          /\ WaitIn({extensions', widgets'}, sons)
      BY <1>2, <2>1, <3>2, <3>3, <3>4, DroppingKeeps
    <3>6. QED
      BY <1>3, <2>1, <2>3, <3>1, <3>5 DEF Started, ResolvedUncontested
  <2>6. QED
    BY <1>5, <2>4, <2>5 DEF Begin
<1>6. CASE Resolve
  <2> DEFINE c == Min(sons)
  <2>1. /\ UNCHANGED <<inputVars, stage>> /\ stage = "resolve" /\ sons # {}
        /\ sons' = sons \ {c}
    BY <1>6 DEF Resolve
  <2>2. \/ Found(extensions, c) # 0 /\ extensions' = Takes(extensions, c) /\ widgets' = widgets
        \/ Found(widgets, c) # 0 /\ widgets' = Takes(widgets, c) /\ extensions' = extensions
    BY <1>6 DEF Resolve
  <2>3. c \in sons
    <3>1. sons \subseteq Classes
      BY <1>1 DEF Typed, Scanned
    <3>2. sons \in SUBSET Nat
      BY <3>1 DEF Classes
    <3>3. QED
      BY <2>1, <3>2, MinIsLeast
  <2>4. c \in Scanned({"inherited"})
    BY <1>1, <2>3 DEF Typed
  <2> HIDE DEF c
  <2>5. parent \in Hierarchies /\ extensions \in MetaDataLists /\ widgets \in MetaDataLists
    BY <1>1 DEF Typed
  <2>6. /\ HeirsIn({extensions', widgets'}) /\ OneEachIn({extensions', widgets'})
        /\ WaitIn({extensions', widgets'}, sons')
        /\ UsedIn({extensions', widgets'}, sons') /\ TracedIn({extensions', widgets'}, sons')
    <3>1. CASE Found(extensions, c) # 0 /\ extensions' = Takes(extensions, c) /\ widgets' = widgets
      BY <1>2, <2>1, <2>3, <2>4, <2>5, <3>1, TakingKeeps
    <3>2. CASE Found(widgets, c) # 0 /\ widgets' = Takes(widgets, c) /\ extensions' = extensions
      <4>1. {widgets, extensions} = {extensions, widgets} /\ {widgets', extensions'} = {extensions', widgets'}
        OBVIOUS
      <4>2. /\ WaitIn({widgets, extensions}, sons) /\ HeirsIn({widgets, extensions})
            /\ OneEachIn({widgets, extensions})
            /\ UsedIn({widgets, extensions}, sons) /\ TracedIn({widgets, extensions}, sons)
        BY <1>2, <2>1, <4>1
      <4>3. /\ HeirsIn({widgets', extensions'}) /\ OneEachIn({widgets', extensions'})
            /\ WaitIn({widgets', extensions'}, sons')
            /\ UsedIn({widgets', extensions'}, sons') /\ TracedIn({widgets', extensions'}, sons')
        BY <2>1, <2>3, <2>4, <2>5, <3>2, <4>2, TakingKeeps
      <4>4. QED
        BY <4>1, <4>3
    <3>3. QED
      BY <2>2, <3>1, <3>2
  <2>7. QED
    BY <1>3, <2>1, <2>6 DEF Started, ResolvedUncontested
<1>7. CASE Fail
  <2> DEFINE c == Min(sons)
  <2>1. /\ UNCHANGED <<inputVars, sons, extensions, widgets>>
        /\ stage = "resolve" /\ stage' = "failed" /\ sons # {}
        /\ Found(extensions, c) = 0 /\ Found(widgets, c) = 0
    BY <1>7 DEF Fail
  <2>2. c \in sons /\ c \in Classes
    <3>1. sons \subseteq Classes
      BY <1>1 DEF Typed, Scanned
    <3>2. sons \in SUBSET Nat
      BY <3>1 DEF Classes
    <3>3. QED
      BY <2>1, <3>1, <3>2, MinIsLeast
  <2>3. ResolvedUncontested'
    <3>1. \A l \in {extensions, widgets} : \A d \in In(l) : l[d].classname \notin Ancestors(c)
      <4> HIDE DEF c
      <4>1. QED
        BY <1>1, <2>1, <2>2, FoundIs DEF Typed
    <3>2. ASSUME NEW a \in Ancestors(c), kind[a] # "inherited"
          PROVE  \/ \E d \in Classes \ {c} : kind[d] = "inherited" /\ a \in Ancestors(d)
                 \/ /\ processor = "Gemini"
                    /\ \E d \in Classes : kind[d] = "extension" /\ name[d] = name[a] /\ a \in Ancestors(d)
      <4> HIDE DEF c
      <4>1. a \in Classes \ Scanned({"inherited"})
        BY <1>1, <2>2, <3>2, AncestorsAreClasses DEF Typed, Scanned
      <4>2. TracedIn({extensions, widgets}, sons)
        BY <1>2, <2>1
      <4>3. \A d \in Scanned({"inherited"}) \ sons : d \in Classes \ {c} /\ kind[d] = "inherited"
        BY <2>2 DEF Scanned
      <4>4. ~\E l \in {extensions, widgets} : \E d \in In(l) : l[d].classname = a
        BY <3>1, <3>2
      <4>5. \/ \E d \in Scanned({"inherited"}) \ sons : a \in Ancestors(d)
            \/ /\ processor = "Gemini"
               /\ \E d \in Classes : kind[d] = "extension" /\ name[d] = name[a] /\ a \in Ancestors(d)
        BY <4>1, <4>2, <4>4 DEF TracedIn
      <4>6. QED
        BY <4>3, <4>5
    <3>3. Min(sons)' = c /\ Min(sons') = c
      BY <2>1
    <3>4. processor' = processor /\ kind' = kind /\ name' = name /\ \A d : Ancestors(d)' = Ancestors(d)
      BY <2>1, InputsStay
    <3> HIDE DEF c
    <3>5. QED
      BY <3>2, <3>3, <3>4 DEF ResolvedUncontested
  <2>4. QED
    BY <1>2, <1>3, <2>1, <2>3 DEF Started
<1>8. CASE Inject
  <2>1. /\ UNCHANGED <<inputVars, sons>> /\ stage' \in {"injected", "rejected"}
        /\ extensions' = RemoveParents(extensions) /\ widgets' = RemoveParents(widgets)
    BY <1>8 DEF Inject
  <2>2. extensions \in MetaDataLists /\ widgets \in MetaDataLists
    BY <1>1 DEF Typed
  <2>3. extensions' \in Shrunk(extensions) /\ widgets' \in Shrunk(widgets)
    BY <2>1, <2>2, LoopsSettle
  <2>4. /\ HeirsIn({extensions', widgets'}) /\ OneEachIn({extensions', widgets'})
        /\ WaitIn({extensions', widgets'}, sons)
    BY <1>2, <2>2, <2>3, DroppingKeeps
  <2>5. QED
    BY <1>3, <2>1, <2>4 DEF Started, ResolvedUncontested
<1>9. CASE UNCHANGED vars
  <2>1. UNCHANGED <<inputVars, stage, sons, extensions, widgets>>
    BY <1>9 DEF vars
  <2>2. Started'
    <3>1. \A kinds : Scanned(kinds)' = Scanned(kinds) /\ EntriesOf(kinds)' = EntriesOf(kinds)
      BY <2>1 DEF inputVars, Scanned, EntriesOf, Entry
    <3>2. QED
      BY <2>1, <3>1 DEF MetaDataInv, Started
  <2>3. ResolvedUncontested'
    BY <2>1, InputsStay DEF MetaDataInv, ResolvedUncontested
  <2>4. QED
    BY <1>2, <1>3, <2>1, <2>2, <2>3
<1>10. QED
  BY <1>4, <1>5, <1>6, <1>7, <1>8, <1>9 DEF Next

\* The invariant holds in every state of process(), whatever was scanned.
THEOREM MetaDataInvariant == Spec => []MetaDataInv
<1>1. Init => MetaDataInv
  BY InvInit
<1>2. MetaDataInv /\ [Next]_vars => MetaDataInv'
  BY InvNext
<1>3. QED
  BY <1>1, <1>2, PTL DEF Spec

\* replace() gives an entry only to an @Inherited subclass of the class annotated, no
\* class to two entries, and no resolved class away but to its subclass
\* (QuickAppMetaDataProcessor.kt:282-296).
THEOREM EntriesGoToHeirs == Spec => []HeirsOfEntries
<1>1. MetaDataInv => HeirsOfEntries
  BY DEF MetaDataInv
<1>2. QED
  BY <1>1, MetaDataInvariant, PTL

\* process() fails on an @Inherited class only when every annotated superclass of it is
\* contested or, with the Gemini processor, was replaced before.
THEOREM UncontestedAreResolved == Spec => []ResolvedUncontested
<1>1. MetaDataInv => ResolvedUncontested
  BY DEF MetaDataInv
<1>2. QED
  BY <1>1, MetaDataInvariant, PTL

\* remove() drops from both lists the entries that a subclass of the same name replaces
\* and no others, in whatever order the classes were scanned (MetaDataExt.kt:125-148).
THEOREM ParentsAreRemoved == Spec => RemovesParents
<1> DEFINE Removes == stage = "resolve" /\ stage' \in {"injected", "rejected"}
                          => extensions' = Leaves(extensions) /\ widgets' = Leaves(widgets)
<1>1. MetaDataInv /\ [Next]_vars => [Removes]_vars
  <2>1. SUFFICES ASSUME MetaDataInv, Next PROVE Removes
    OBVIOUS
  <2>2. CASE Inject
    <3>1. extensions' = RemoveParents(extensions) /\ widgets' = RemoveParents(widgets)
      BY <2>2 DEF Inject
    <3>2. parent \in Hierarchies /\ extensions \in MetaDataLists /\ widgets \in MetaDataLists
      BY <2>1 DEF MetaDataInv, Typed
    <3>3. QED
      BY <3>1, <3>2, RemoveParentsLeaves
  <2>3. CASE Skip \/ Begin \/ Resolve \/ Fail
    BY <2>3 DEF Skip, Begin, Resolve, Fail
  <2>4. QED
    BY <2>1, <2>2, <2>3 DEF Next
<1>2. QED
  BY <1>1, MetaDataInvariant, PTL DEF Spec, RemovesParents
=============================================================================
