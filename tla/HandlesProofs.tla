---------------------------- MODULE HandlesProofs ----------------------------
(***************************************************************************)
(* Proofs about Handles for any finite set of handles, any objects, hash   *)
(* codes and collisions of them.  What holds for every set of threads      *)
(* comes first; the count of references needs the owner to be the only     *)
(* thread that uses the context, as in the run of these properties.        *)
(***************************************************************************)
EXTENDS Handles, FiniteSetTheorems, TLAPS

-----------------------------------------------------------------------------
(* Types *)

LEMMA IntUpdate ==
    ASSUME NEW S, NEW f \in [S -> Int], NEW x, NEW v, x \in S => v \in Int
    PROVE  [f EXCEPT ![x] = v] \in [S -> Int]
  OBVIOUS

LEMMA SeqParts ==
    ASSUME NEW S, NEW s \in Seq(S), s # <<>>
    PROVE  Head(s) \in S /\ Tail(s) \in Seq(S)
  OBVIOUS

LEMMA FiniteOwners ==
    ASSUME NEW S, S \subseteq HandleIds
    PROVE  IsFiniteSet(S) /\ Cardinality(S) \in Nat
  BY HandlesAssumption, FS_Subset, FS_CardinalityType DEF HandlesAssumption

LEMMA FiniteOccurrences ==
    ASSUME NEW p \in Seq(AllObjects), NEW o
    PROVE  /\ IsFiniteSet({i \in DOMAIN p : p[i] = o})
           /\ Cardinality({i \in DOMAIN p : p[i] = o}) \in Nat
<1>1. DOMAIN p = 1 .. Len(p) /\ Len(p) \in Nat
  OBVIOUS
<1>2. IsFiniteSet(DOMAIN p)
  BY <1>1, FS_Interval
<1>3. QED
  BY <1>2, FS_Subset, FS_CardinalityType

\* A handle that is not used yet owns nothing and a used one has a target; and refs
\* lists a handle under its own hash code, and only while it owns its reference.
HandleInv ==
    /\ \A h \in HandleIds : place[h] = "unused" => ~done[h]
    /\ \A h \in HandleIds : place[h] # "unused" => target[h] \in AllObjects
    /\ \A k \in HashCodes : refs[k] # None =>
          Hash[refs[k]] = k /\ place[refs[k]] # "unused" /\ ~done[refs[k]]

LEMMA TypeInit == Init => TypeOK /\ HandleInv
<1> SUFFICES ASSUME Init PROVE TypeOK /\ HandleInv
  OBVIOUS
<1>1. done \in [HandleIds -> BOOLEAN]
  BY Zenon DEF Init
<1>2. TypeOK
  <2>1. pool \in Seq(AllObjects)
    BY DEF Init
  <2>2. count \in [AllObjects -> Int] /\ jsRefs \in [AllObjects -> {0, 1}]
        /\ stray \in [AllObjects -> Int]
    BY DEF Init
  <2>3. QED
    BY <1>1, <2>1, <2>2 DEF Init, TypeOK
<1>3. HandleInv
  BY DEF Init, HandleInv
<1>4. QED
  BY <1>2, <1>3

LEMMA EnlistedTypes ==
    ASSUME NEW r \in [HashCodes -> HandleIds \union {None}], NEW h \in HandleIds
    PROVE  /\ Enlisted(r, h) \in [HashCodes -> HandleIds \union {None}]
           /\ Unlisted(r, h) \in [HashCodes -> HandleIds \union {None}]
           /\ \A k \in HashCodes : Enlisted(r, h)[k] = IF k = Hash[h] THEN h ELSE r[k]
           /\ \A k \in HashCodes : Unlisted(r, h)[k] = IF k = Hash[h] THEN None ELSE r[k]
  BY DEF Enlisted, Unlisted

LEMMA CreateTypes ==
    ASSUME TypeOK, HandleInv, NEW h \in HandleIds, NEW o \in AllObjects, Create(h, o)
    PROVE  /\ place' \in [HandleIds -> {"unused", "held", "lost", "dead"}]
           /\ target' \in [HandleIds -> AllObjects \union {None}]
           /\ done' \in [HandleIds -> BOOLEAN]
           /\ refs' \in [HashCodes -> HandleIds \union {None}]
           /\ HandleInv'
<1>1. /\ place' \in [HandleIds -> {"unused", "held", "lost", "dead"}]
      /\ target' \in [HandleIds -> AllObjects \union {None}]
      /\ done' \in [HandleIds -> BOOLEAN]
      /\ refs' \in [HashCodes -> HandleIds \union {None}]
  BY EnlistedTypes DEF Create, TypeOK
<1>2. refs \in [HashCodes -> HandleIds \union {None}] /\ refs' = Enlisted(refs, h)
  BY DEF Create, TypeOK
<1>2a. \A k \in HashCodes : refs'[k] = IF k = Hash[h] THEN h ELSE refs[k]
  BY <1>2, EnlistedTypes
<1>3. /\ \A g \in HandleIds : place'[g] = "unused" => ~done'[g]
      /\ \A g \in HandleIds : place'[g] # "unused" => target'[g] \in AllObjects
  BY DEF Create, TypeOK, HandleInv
<1>4. \A k \in HashCodes : refs'[k] # None =>
          Hash[refs'[k]] = k /\ place'[refs'[k]] # "unused" /\ ~done'[refs'[k]]
  <2> SUFFICES ASSUME NEW k \in HashCodes, refs'[k] # None
               PROVE  Hash[refs'[k]] = k /\ place'[refs'[k]] # "unused" /\ ~done'[refs'[k]]
    OBVIOUS
  <2>1. CASE k = Hash[h]
    BY <1>2a, <2>1 DEF Create, TypeOK, HandleInv
  <2>2. CASE k # Hash[h]
    BY <1>2, <1>2a, <2>2 DEF Create, TypeOK, HandleInv
  <2>3. QED
    BY <2>1, <2>2
<1>5. QED
  BY <1>1, <1>3, <1>4 DEF HandleInv

LEMMA TypeNext == TypeOK /\ HandleInv /\ [Next]_vars => TypeOK' /\ HandleInv'
<1> SUFFICES ASSUME TypeOK, HandleInv, [Next]_vars PROVE TypeOK' /\ HandleInv'
  OBVIOUS
<1> USE HandlesAssumption DEF HandlesAssumption, nativeVars, handleVars, userVars, flagVars
<1>0. Objects \subseteq AllObjects /\ Global \in AllObjects
  BY DEF AllObjects
<1>a. ASSUME UNCHANGED <<handleVars, refs>> PROVE HandleInv'
  BY <1>a DEF HandleInv
<1>b. \A w \in {"drain", "checked", "unchecked"} : Used(w) \in SUBSET {"drain", "checked", "unchecked"}
  BY DEF Used, TypeOK
<1>c. ASSUME pool # <<>> PROVE Head(pool) \in AllObjects /\ Tail(pool) \in Seq(AllObjects)
  <2>1. pool \in Seq(AllObjects)
    BY DEF TypeOK
  <2>2. QED
    BY <1>c, <2>1, SeqParts
<1>1. ASSUME NEW u \in Users, StartOp(u) PROVE TypeOK' /\ HandleInv'
  BY <1>1, <1>a DEF StartOp, TypeOK
<1>2. ASSUME NEW u \in Users, DrainRead(u) PROVE TypeOK' /\ HandleInv'
  BY <1>2, <1>a, <1>c DEF DrainRead, TypeOK
<1>3. ASSUME NEW u \in Users, DrainFree(u) PROVE TypeOK' /\ HandleInv'
  <2>1. count' \in [AllObjects -> Int]
    <3>1. count \in [AllObjects -> Int]
      BY DEF TypeOK
    <3>2. count' = count \/ count' = [count EXCEPT ![ptr[u]] = count[ptr[u]] - 1]
      BY <1>3 DEF DrainFree
    <3>3. ptr[u] \in AllObjects => count[ptr[u]] - 1 \in Int
      BY <3>1
    <3>4. QED
      BY <3>1, <3>2, <3>3, IntUpdate
  <2>2. QED
    BY <1>3, <2>1, <1>a, <1>b DEF DrainFree, TypeOK
<1>4. ASSUME NEW u \in Users, DrainRemove(u) PROVE TypeOK' /\ HandleInv'
  BY <1>4, <1>a, <1>c DEF DrainRemove, TypeOK, Removed
<1>5. ASSUME NEW u \in Users, DrainEnd(u) PROVE TypeOK' /\ HandleInv'
  BY <1>5, <1>a DEF DrainEnd, TypeOK
<1>6. ASSUME NEW u \in Users, NEW h \in HandleIds, NEW o \in Objects, OpGet(u, h, o)
      PROVE  TypeOK' /\ HandleInv'
  <2>1. count' \in [AllObjects -> Int] /\ pc' \in [Users -> {"idle", "drain", "read", "freed", "op"}]
    BY <1>0, <1>6 DEF OpGet, TypeOK
  <2>2. QED
    BY <1>0, <1>6, <2>1, CreateTypes DEF OpGet, TypeOK
<1>7. ASSUME NEW u \in Users, NEW o \in Objects, OpDropped(u, o) PROVE TypeOK' /\ HandleInv'
  BY <1>0, <1>7, <1>a DEF OpDropped, TypeOK
<1>8. ASSUME NEW u \in Users, NEW h \in HandleIds, NEW g \in HandleIds, NEW o \in Objects,
             OpNew(u, h, g, o)
      PROVE  TypeOK' /\ HandleInv'
  <2>1. /\ refs' \in [HashCodes -> HandleIds \union {None}]
        /\ \A k \in HashCodes : refs'[k] = IF k = Hash[g] THEN g
                                           ELSE IF k = Hash[h] THEN None ELSE refs[k]
    <3>1. refs \in [HashCodes -> HandleIds \union {None}]
      BY DEF TypeOK
    <3> DEFINE r1 == Enlisted(refs, h)
               r2 == Unlisted(r1, h)
               r3 == Enlisted(r2, g)
    <3>2. r1 \in [HashCodes -> HandleIds \union {None}]
          /\ \A k \in HashCodes : r1[k] = IF k = Hash[h] THEN h ELSE refs[k]
      BY <3>1, EnlistedTypes
    <3>3. r2 \in [HashCodes -> HandleIds \union {None}]
          /\ \A k \in HashCodes : r2[k] = IF k = Hash[h] THEN None ELSE r1[k]
      <4> HIDE DEF r1
      <4> QED
        BY <3>2, EnlistedTypes DEF r2
    <3>4. r3 \in [HashCodes -> HandleIds \union {None}]
          /\ \A k \in HashCodes : r3[k] = IF k = Hash[g] THEN g ELSE r2[k]
      <4> HIDE DEF r2
      <4> QED
        BY <3>3, EnlistedTypes DEF r3
    <3>5. refs' = r3
      BY <1>8 DEF OpNew
    <3> HIDE DEF r1, r2, r3
    <3>6. QED
      BY <3>2, <3>3, <3>4, <3>5
  <2>2. done' \in [HandleIds -> BOOLEAN] /\ done'[h] = TRUE
        /\ \A f \in HandleIds \ {h} : done'[f] = done[f]
    BY <1>8 DEF OpNew, MovedFrom, TypeOK
  <2>3. /\ place' \in [HandleIds -> {"unused", "held", "lost", "dead"}]
        /\ target' \in [HandleIds -> AllObjects \union {None}]
        /\ place'[h] = "lost" /\ place'[g] = "held" /\ target'[h] = o /\ target'[g] = o
        /\ \A f \in HandleIds \ {h, g} : place'[f] = place[f] /\ target'[f] = target[f]
        /\ h # g /\ place[h] = "unused" /\ place[g] = "unused"
    BY <1>0, <1>8, ZenonT(30) DEF OpNew, TypeOK
  <2>4. count' \in [AllObjects -> Int] /\ pc' \in [Users -> {"idle", "drain", "read", "freed", "op"}]
    <3>1. count \in [AllObjects -> Int] /\ count' = [count EXCEPT ![o] = 1]
      BY <1>8 DEF OpNew, TypeOK
    <3>2. count' \in [AllObjects -> Int]
      BY <3>1, IntUpdate
    <3>3. QED
      BY <1>8, <3>2 DEF OpNew, TypeOK
  <2>5. TypeOK'
    BY <1>8, <2>1, <2>2, <2>3, <2>4 DEF OpNew, TypeOK
  <2>6. /\ \A f \in HandleIds : place'[f] = "unused" => ~done'[f]
        /\ \A f \in HandleIds : place'[f] # "unused" => target'[f] \in AllObjects
    BY <1>0, <2>2, <2>3 DEF HandleInv
  <2>7. ASSUME NEW k \in HashCodes, refs'[k] # None
        PROVE  Hash[refs'[k]] = k /\ place'[refs'[k]] # "unused" /\ ~done'[refs'[k]]
    <3>1. CASE k = Hash[g]
      BY <2>1, <2>2, <2>3, <3>1 DEF HandleInv
    <3>2. CASE k # Hash[g]
      <4>1. refs'[k] = refs[k] /\ refs[k] # None /\ refs[k] \in HandleIds
        BY <2>1, <2>7, <3>2 DEF TypeOK
      <4>2. Hash[refs[k]] = k /\ place[refs[k]] # "unused" /\ ~done[refs[k]]
        BY <4>1 DEF HandleInv
      <4>3. refs[k] # h /\ refs[k] # g
        BY <2>3, <4>2
      <4>4. QED
        BY <2>2, <2>3, <4>1, <4>2, <4>3
    <3>3. QED
      BY <3>1, <3>2
  <2>8. QED
    BY <2>5, <2>6, <2>7 DEF HandleInv
<1>9. ASSUME NEW u \in Users, NEW h \in HandleIds, OpSet(u, h) PROVE TypeOK' /\ HandleInv'
  <2>1. target[h] \in AllObjects
    BY <1>9 DEF OpSet, HandleInv
  <2>2. QED
    BY <1>9, <2>1, <1>a DEF OpSet, DupCount, TypeOK
<1>10. ASSUME NEW u \in Users, OpOther(u) PROVE TypeOK' /\ HandleInv'
  BY <1>10, <1>a, <1>b DEF OpOther, TypeOK
<1>11. ASSUME NEW u \in Users, OpUnchecked(u) PROVE TypeOK' /\ HandleInv'
  BY <1>11, <1>a, <1>b DEF OpUnchecked, TypeOK
<1>12. ASSUME NEW o \in Objects, ScriptCreates(o) \/ ScriptDrops(o) PROVE TypeOK' /\ HandleInv'
  <2>1. count' \in [AllObjects -> Int] /\ jsRefs' \in [AllObjects -> {0, 1}]
    <3>1. count \in [AllObjects -> Int] /\ jsRefs \in [AllObjects -> {0, 1}]
      BY DEF TypeOK
    <3>2. QED
      BY <1>0, <1>12, <3>1 DEF ScriptCreates, ScriptDrops
  <2>2. QED
    BY <1>12, <2>1, <1>a, ZenonT(30) DEF ScriptCreates, ScriptDrops, TypeOK
<1>13. ASSUME NEW h \in HandleIds, NEW o \in AllObjects, Callback(h, o) PROVE TypeOK' /\ HandleInv'
  <2>1. count' \in [AllObjects -> Int] /\ stray' \in [AllObjects -> Int]
    BY <1>13 DEF Callback, DupCount, TypeOK
  <2>2. QED
    BY <1>13, <2>1, CreateTypes DEF Callback, TypeOK
<1>14. CASE CloseContext
  <2>1. count' \in [AllObjects -> Int]
    <3>1. ASSUME NEW o \in AllObjects
          PROVE  /\ count[o] \in Int /\ jsRefs[o] \in Int /\ Occurrences(o) \in Int
                 /\ Cardinality({h \in Closed : target[h] = o}) \in Int
      <4>1. {h \in Closed : target[h] = o} \subseteq HandleIds
        BY DEF Closed, Listed, TypeOK
      <4>2. Cardinality({h \in Closed : target[h] = o}) \in Nat
        BY <4>1, FiniteOwners
      <4>3. Occurrences(o) \in Nat
        <5>1. pool \in Seq(AllObjects)
          BY DEF TypeOK
        <5>2. QED
          BY <5>1, FiniteOccurrences DEF Occurrences
      <4>4. QED
        BY <4>2, <4>3 DEF TypeOK
    <3>2. QED
      BY <1>14, <3>1 DEF CloseContext
  <2>2. done' \in [HandleIds -> BOOLEAN]
    BY <1>14, Zenon DEF CloseContext
  <2>3. TypeOK'
    BY <1>14, <2>1, <2>2 DEF CloseContext, TypeOK
  <2>4. \A h \in HandleIds : place[h] = "unused" => ~done'[h]
    <3>1. \A h \in Closed : place[h] # "unused"
      BY DEF Closed, Listed, HandleInv, TypeOK
    <3>2. QED
      BY <1>14, <3>1 DEF CloseContext, HandleInv
  <2>5. QED
    BY <1>14, <2>3, <2>4 DEF CloseContext, HandleInv
<1>15. CASE CloseRuntime
  BY <1>15, <1>a DEF CloseRuntime, TypeOK
<1>16. ASSUME NEW h \in HandleIds, Lose(h) PROVE TypeOK' /\ HandleInv'
  BY <1>16 DEF Lose, TypeOK, HandleInv
<1>17. ASSUME NEW h \in HandleIds, Finalize(h) PROVE TypeOK' /\ HandleInv'
  <2>1. place[h] = "lost" /\ \A k \in HashCodes : refs[k] # h
    BY <1>17 DEF Finalize, Unreachable
  <2>2. target[h] \in AllObjects
    BY <2>1 DEF HandleInv
  <2>3. pool' \in Seq(AllObjects)
    BY <1>17, <2>2 DEF Finalize, Pooled, TypeOK
  <2>4. done' \in [HandleIds -> BOOLEAN] /\ \A f \in HandleIds \ {h} : done'[f] = done[f]
    BY <1>17 DEF Finalize, TypeOK
  <2>5. /\ refs' \in [HashCodes -> HandleIds \union {None}]
        /\ \A k \in HashCodes : refs'[k] = refs[k] \/ refs'[k] = None
    <3>1. refs \in [HashCodes -> HandleIds \union {None}]
      BY DEF TypeOK
    <3>2. refs' = refs \/ refs' = Unlisted(refs, h)
      BY <1>17 DEF Finalize
    <3>3. QED
      BY <3>1, <3>2, EnlistedTypes
  <2>6. /\ place' \in [HandleIds -> {"unused", "held", "lost", "dead"}] /\ target' = target
        /\ \A f \in HandleIds : place'[f] = "unused" <=> place[f] = "unused"
    BY <1>17, <2>1 DEF Finalize, TypeOK
  <2>7. TypeOK'
    BY <1>17, <2>3, <2>4, <2>5, <2>6 DEF Finalize, TypeOK
  <2>8. \A k \in HashCodes : refs'[k] # None =>
          Hash[refs'[k]] = k /\ place'[refs'[k]] # "unused" /\ ~done'[refs'[k]]
    BY <2>1, <2>4, <2>5, <2>6 DEF HandleInv, TypeOK
  <2>9. \A f \in HandleIds : place'[f] = "unused" => ~done'[f]
    BY <2>1, <2>4, <2>6 DEF HandleInv
  <2>10. QED
    BY <2>6, <2>7, <2>8, <2>9 DEF HandleInv
<1>18. ASSUME NEW k \in HashCodes, CollectKey(k) PROVE TypeOK' /\ HandleInv'
  BY <1>18 DEF CollectKey, TypeOK, HandleInv
<1>19. CASE UNCHANGED vars
  BY <1>19, <1>a DEF vars, TypeOK
<1>20. QED
  BY <1>1, <1>2, <1>3, <1>4, <1>5, <1>6, <1>7, <1>8, <1>9, <1>10, <1>11, <1>12, <1>13,
     <1>14, <1>15, <1>16, <1>17, <1>18, <1>19
  DEF Next, OwnerStep, HeapStep, UserStep

\* Whatever hash codes collide, whatever keys are collected and however many threads
\* use the context, refs lists no handle that has given up its reference.
THEOREM ListedHandlesOwn == Spec => []ListedOwn
<1>1. TypeOK /\ HandleInv => ListedOwn
  BY DEF HandleInv, ListedOwn, Listed
<1>2. QED
  BY TypeInit, TypeNext, <1>1, PTL DEF Spec

-----------------------------------------------------------------------------
(* Counting *)

\* How often o occurs in the sequence p.
Occ(p, o) == Cardinality({i \in DOMAIN p : p[i] = o})

LEMMA OccAppend ==
    ASSUME NEW p \in Seq(AllObjects), NEW x, NEW o
    PROVE  Occ(Append(p, x), o) = Occ(p, o) + (IF x = o THEN 1 ELSE 0)
<1> DEFINE S == {i \in DOMAIN p : p[i] = o}
           n == Len(p) + 1
<1>1. /\ DOMAIN p = 1 .. Len(p) /\ Len(p) \in Nat /\ DOMAIN Append(p, x) = 1 .. Len(p) + 1
      /\ \A i \in 1 .. Len(p) : Append(p, x)[i] = p[i]
      /\ Append(p, x)[Len(p) + 1] = x
  OBVIOUS
<1>2. n \notin S /\ IsFiniteSet(S) /\ Cardinality(S) \in Nat
  <2>1. n \notin S
    BY <1>1
  <2>2. QED
    BY <2>1, FiniteOccurrences
<1>3. \A i : i \in 1 .. Len(p) + 1 <=> i \in 1 .. Len(p) \/ i = n
  BY <1>1
<1>4. {i \in DOMAIN Append(p, x) : Append(p, x)[i] = o} = IF x = o THEN S \union {n} ELSE S
  <2>1. CASE x = o
    BY <1>1, <1>3, <2>1
  <2>2. CASE x # o
    BY <1>1, <1>3, <2>2
  <2>3. QED
    BY <2>1, <2>2
<1>5. Cardinality(S \union {n}) = Cardinality(S) + 1
  BY <1>2, FS_AddElement
<1> HIDE DEF S, n
<1>6. Occ(p, o) = Cardinality(S)
  BY DEF Occ, S
<1>7. Occ(Append(p, x), o) = Cardinality(IF x = o THEN S \union {n} ELSE S)
  BY <1>4 DEF Occ
<1>8. CASE x = o
  BY <1>2, <1>5, <1>6, <1>7, <1>8
<1>9. CASE x # o
  BY <1>2, <1>6, <1>7, <1>9
<1>10. QED
  BY <1>8, <1>9

LEMMA OccTail ==
    ASSUME NEW p \in Seq(AllObjects), p # <<>>, NEW o
    PROVE  Occ(Tail(p), o) = Occ(p, o) - (IF Head(p) = o THEN 1 ELSE 0)
<1> DEFINE S == {i \in DOMAIN p : p[i] = o}
           T == {i \in DOMAIN Tail(p) : Tail(p)[i] = o}
           f == [i \in T |-> i + 1]
<1>1. /\ DOMAIN p = 1 .. Len(p) /\ Len(p) \in Nat /\ Len(p) > 0 /\ p[1] = Head(p)
      /\ DOMAIN Tail(p) = 1 .. Len(p) - 1
      /\ \A i \in 1 .. Len(p) - 1 : Tail(p)[i] = p[i + 1]
      /\ Tail(p) \in Seq(AllObjects)
  OBVIOUS
<1>2. IsFiniteSet(S) /\ Cardinality(S) \in Nat /\ IsFiniteSet(T)
  BY <1>1, FiniteOccurrences
<1>3. \A i \in T : i \in Nat /\ i + 1 \in S \ {1}
  BY <1>1
<1>4. \A j \in S \ {1} : j - 1 \in T /\ j = (j - 1) + 1
  BY <1>1
<1>5. f \in Bijection(T, S \ {1})
  <2>1. f \in [T -> S \ {1}] /\ \A a, b \in T : f[a] = f[b] => a = b
    BY <1>3
  <2>2. \A j \in S \ {1} : \E i \in T : f[i] = j
    BY <1>3, <1>4
  <2> HIDE DEF f, T, S
  <2>3. QED
    BY <2>1, <2>2 DEF Bijection, Injection, Surjection, IsInjective
<1>6. Cardinality(T) = Cardinality(S \ {1})
  BY <1>2, <1>5, FS_Bijection, ZenonT(30) DEF ExistsBijection
<1>7. Cardinality(S \ {1}) = IF 1 \in S THEN Cardinality(S) - 1 ELSE Cardinality(S)
  BY <1>2, FS_RemoveElement
<1>8. 1 \in S <=> Head(p) = o
  BY <1>1
<1>9. Occ(Tail(p), o) = Cardinality(T) /\ Occ(p, o) = Cardinality(S)
  BY DEF Occ
<1> HIDE DEF S, T
<1>10. CASE Head(p) = o
  BY <1>2, <1>6, <1>7, <1>8, <1>9, <1>10
<1>11. CASE Head(p) # o
  BY <1>2, <1>6, <1>7, <1>8, <1>9, <1>11
<1>12. QED
  BY <1>10, <1>11

-----------------------------------------------------------------------------
(* Ownership *)

\* What holds while only the owner's thread uses the context: it drains the entry that
\* is first in the pool, the context does not go away under an operation that has passed
\* its check, and only the global object lacks references.
DrainInv ==
    /\ \A u \in Users : pc[u] \in {"read", "freed"} => pool # <<>> /\ ptr[u] = Head(pool)
    /\ \A u \in Users : pc[u] = "op" => ~ctxReleased
    /\ rtReleased => ctxReleased
    /\ \A o \in Objects : stray[o] >= 0
    /\ "checked" \notin lateUse

LEMMA DrainInit == Init => DrainInv
  BY HandlesAssumption DEF HandlesAssumption, Init, DrainInv, AllObjects

LEMMA DrainFrame ==
    ASSUME TypeOK, DrainInv, UNCHANGED <<ctxReleased, rtReleased>>,
           \A o \in Objects : stray'[o] >= 0, "checked" \notin lateUse',
           pool' = pool, ptr' = ptr,
           \A u \in Users : pc'[u] \in {pc[u], "idle", "drain"}
    PROVE  DrainInv'
  BY DEF DrainInv, TypeOK

LEMMA DrainNext ==
    ASSUME Users \subseteq {Owner}
    PROVE  TypeOK /\ HandleInv /\ DrainInv /\ [Next]_vars => DrainInv'
<1> SUFFICES ASSUME TypeOK, HandleInv, DrainInv, [Next]_vars PROVE DrainInv'
  OBVIOUS
<1> USE DEF nativeVars, handleVars, userVars, flagVars
<1>0. /\ \A o \in Objects : stray[o] >= 0
      /\ "checked" \notin lateUse /\ (rtReleased => ctxReleased)
      /\ \A u \in Users : u = Owner
      /\ Objects \subseteq AllObjects /\ Global \notin Objects
  BY HandlesAssumption DEF DrainInv, AllObjects, HandlesAssumption
<1>1. ASSUME NEW u \in Users, StartOp(u) PROVE DrainInv'
  BY <1>0, <1>1, DrainFrame DEF StartOp, TypeOK
<1>2. ASSUME NEW u \in Users, DrainRead(u) PROVE DrainInv'
  BY <1>0, <1>2 DEF DrainRead, DrainInv, TypeOK
<1>3. ASSUME NEW u \in Users, DrainFree(u) PROVE DrainInv'
  <2>1. "checked" \notin lateUse'
    BY <1>0, <1>3 DEF DrainFree, Used
  <2>2. QED
    BY <1>0, <1>3, <2>1 DEF DrainFree, DrainInv, TypeOK
<1>4. ASSUME NEW u \in Users, DrainRemove(u) PROVE DrainInv'
  BY <1>0, <1>4 DEF DrainRemove, DrainInv, TypeOK
<1>5. ASSUME NEW u \in Users, DrainEnd(u) PROVE DrainInv'
  BY <1>0, <1>5 DEF DrainEnd, DrainInv, TypeOK
<1>6. ASSUME NEW u \in Users, NEW h \in HandleIds, NEW o \in Objects, OpGet(u, h, o)
      PROVE  DrainInv'
  BY <1>0, <1>6, DrainFrame DEF OpGet, TypeOK
<1>7. ASSUME NEW u \in Users, NEW o \in Objects, OpDropped(u, o) PROVE DrainInv'
  <2>1. \A x \in Objects : stray'[x] >= 0
    BY <1>0, <1>7 DEF OpDropped, TypeOK
  <2>2. QED
    BY <1>0, <1>7, <2>1, DrainFrame DEF OpDropped, TypeOK
<1>8. ASSUME NEW u \in Users, NEW h \in HandleIds, NEW g \in HandleIds, NEW o \in Objects,
             OpNew(u, h, g, o)
      PROVE  DrainInv'
  BY <1>0, <1>8, DrainFrame DEF OpNew, TypeOK
<1>9. ASSUME NEW u \in Users, NEW h \in HandleIds, OpSet(u, h) PROVE DrainInv'
  BY <1>0, <1>9, DrainFrame DEF OpSet, TypeOK
<1>10. ASSUME NEW u \in Users, OpOther(u) PROVE DrainInv'
  <2>1. "checked" \notin lateUse'
    BY <1>0, <1>10 DEF OpOther, Used, DrainInv
  <2>2. QED
    BY <1>0, <1>10, <2>1, DrainFrame DEF OpOther, TypeOK
<1>11. ASSUME NEW u \in Users, OpUnchecked(u) PROVE DrainInv'
  <2>1. "checked" \notin lateUse'
    BY <1>0, <1>11 DEF OpUnchecked, Used
  <2>2. QED
    BY <1>0, <1>11, <2>1, DrainFrame DEF OpUnchecked, TypeOK
<1>12. ASSUME NEW o \in Objects, ScriptCreates(o) \/ ScriptDrops(o) PROVE DrainInv'
  BY <1>0, <1>12, DrainFrame DEF ScriptCreates, ScriptDrops, TypeOK
<1>13. ASSUME NEW h \in HandleIds, NEW o \in AllObjects, Callback(h, o) PROVE DrainInv'
  <2>1. \A x \in Objects : stray'[x] >= 0
    BY <1>0, <1>13, ZenonT(30) DEF Callback, TypeOK
  <2>2. QED
    BY <1>0, <1>13, <2>1, DrainFrame DEF Callback, TypeOK
<1>14. CASE CloseContext
  BY <1>0, <1>14 DEF CloseContext, OwnerFree, DrainInv, TypeOK
<1>15. CASE CloseRuntime
  BY <1>0, <1>15 DEF CloseRuntime, DrainInv, TypeOK
<1>16. ASSUME NEW h \in HandleIds, Lose(h) PROVE DrainInv'
  BY <1>0, <1>16, DrainFrame DEF Lose, TypeOK
<1>17. ASSUME NEW h \in HandleIds, Finalize(h) PROVE DrainInv'
  <2>1. pool \in Seq(AllObjects) /\ target[h] \in AllObjects
    BY <1>17 DEF TypeOK, HandleInv, Finalize, Unreachable
  <2>2. pool # <<>> => Append(pool, target[h]) # <<>> /\ Head(Append(pool, target[h])) = Head(pool)
    BY <2>1
  <2>3. pool # <<>> => pool' # <<>> /\ Head(pool') = Head(pool)
    BY <1>17, <2>2 DEF Finalize, Pooled
  <2>4. QED
    BY <1>17, <2>3 DEF Finalize, DrainInv
<1>18. ASSUME NEW k \in HashCodes, CollectKey(k) PROVE DrainInv'
  BY <1>0, <1>18, DrainFrame DEF CollectKey, TypeOK
<1>19. CASE UNCHANGED vars
  BY <1>0, <1>19, DrainFrame DEF vars, TypeOK
<1>20. QED
  BY <1>1, <1>2, <1>3, <1>4, <1>5, <1>6, <1>7, <1>8, <1>9, <1>10, <1>11, <1>12, <1>13,
     <1>14, <1>15, <1>16, <1>17, <1>18, <1>19
  DEF Next, OwnerStep, HeapStep, UserStep

BalancedAt(o) ==
    count[o] = jsRefs[o] + ContextHandle(o) + Cardinality(Owners(o))
                 + Occurrences(o) + stray[o] - Cardinality(GivenBack(o))

\* Every term of the balance is a number.
LEMMA Numbers ==
    ASSUME TypeOK, IsFiniteSet(Users), NEW o \in AllObjects
    PROVE  /\ count[o] \in Int /\ jsRefs[o] \in Nat /\ stray[o] \in Int
           /\ ContextHandle(o) \in Nat
           /\ IsFiniteSet(Owners(o)) /\ Cardinality(Owners(o)) \in Nat
           /\ Occurrences(o) \in Nat /\ Occurrences(o) = Occ(pool, o)
           /\ IsFiniteSet(GivenBack(o)) /\ Cardinality(GivenBack(o)) \in Nat
<1>1. count[o] \in Int /\ jsRefs[o] \in Nat /\ stray[o] \in Int /\ pool \in Seq(AllObjects)
  <2>1. jsRefs[o] \in {0, 1}
    BY DEF TypeOK
  <2>2. QED
    BY <2>1 DEF TypeOK
<1>2. ContextHandle(o) \in Nat
  BY DEF ContextHandle
<1>3. IsFiniteSet(Owners(o)) /\ Cardinality(Owners(o)) \in Nat
  <2>1. Owners(o) \subseteq HandleIds
    BY DEF Owners
  <2>2. QED
    BY <2>1, FiniteOwners
<1>4. Occurrences(o) \in Nat /\ Occurrences(o) = Occ(pool, o)
  BY <1>1, FiniteOccurrences DEF Occurrences, Occ
<1>5. IsFiniteSet(GivenBack(o)) /\ Cardinality(GivenBack(o)) \in Nat
  <2>1. GivenBack(o) \subseteq Users
    BY DEF GivenBack
  <2>2. QED
    BY <2>1, FS_Subset, FS_CardinalityType
<1>6. QED
  BY <1>1, <1>2, <1>3, <1>4, <1>5

\* A new handle is one more owner of its object.
LEMMA CreateOwners ==
    ASSUME TypeOK, HandleInv, NEW h \in HandleIds, NEW o \in AllObjects, Create(h, o),
           NEW x \in AllObjects
    PROVE  Cardinality(Owners(x)') = Cardinality(Owners(x)) + (IF x = o THEN 1 ELSE 0)
<1>1. h \notin Owners(x) /\ ~done[h]
  BY DEF Owners, Create, HandleInv
<1>2. Owners(x)' = IF x = o THEN Owners(x) \union {h} ELSE Owners(x)
  BY <1>1 DEF Owners, Create, TypeOK
<1>3. IsFiniteSet(Owners(x)) /\ Cardinality(Owners(x)) \in Nat
  <2>1. Owners(x) \subseteq HandleIds
    BY DEF Owners
  <2>2. QED
    BY <2>1, FiniteOwners
<1>4. Cardinality(Owners(x) \union {h}) = Cardinality(Owners(x)) + 1
  BY <1>1, <1>3, FS_AddElement
<1>5. CASE x = o
  BY <1>2, <1>4, <1>5
<1>6. CASE x # o
  BY <1>2, <1>3, <1>6
<1>7. QED
  BY <1>5, <1>6

\* A user who has nothing given back before or after a step is not counted.
LEMMA GivenBackFrame ==
    ASSUME TypeOK, NEW o,
           \A u \in Users : \/ pc'[u] = pc[u] /\ ptr'[u] = ptr[u]
                            \/ pc[u] # "freed" /\ pc'[u] # "freed"
    PROVE  GivenBack(o)' = GivenBack(o)
  BY DEF GivenBack

LEMMA BalancedInit == Init => Balanced
<1> SUFFICES ASSUME Init, NEW o \in AllObjects PROVE BalancedAt(o)
  BY DEF Balanced, BalancedAt
<1>1. Owners(o) = {} /\ GivenBack(o) = {}
  BY DEF Init, Owners, GivenBack
<1>2. {i \in DOMAIN pool : pool[i] = o} = {}
  BY DEF Init
<1>3. Occurrences(o) = 0 /\ Cardinality(Owners(o)) = 0 /\ Cardinality(GivenBack(o)) = 0
  BY <1>1, <1>2, FS_EmptySet DEF Occurrences
<1>4. QED
  BY <1>3 DEF Init, BalancedAt, ContextHandle

\* The moves of the balance: one step per action, and in it what each term does.
LEMMA BalancedNext ==
    ASSUME Users \subseteq {Owner}
    PROVE  TypeOK /\ HandleInv /\ DrainInv /\ Balanced /\ [Next]_vars => Balanced'
<1> SUFFICES ASSUME TypeOK, HandleInv, DrainInv, Balanced, [Next]_vars, ~rtReleased',
                    NEW o \in AllObjects
             PROVE  BalancedAt(o)'
  BY DEF Balanced, BalancedAt
<1> USE DEF nativeVars, handleVars, userVars, flagVars
<1>0. IsFiniteSet(Users)
  BY FS_Singleton, FS_Subset
<1>n. /\ count[o] \in Int /\ jsRefs[o] \in Nat /\ stray[o] \in Int
      /\ ContextHandle(o) \in Nat
      /\ IsFiniteSet(Owners(o)) /\ Cardinality(Owners(o)) \in Nat
      /\ Occurrences(o) \in Nat /\ Occurrences(o) = Occ(pool, o)
      /\ IsFiniteSet(GivenBack(o)) /\ Cardinality(GivenBack(o)) \in Nat
  BY <1>0, Numbers
<1>r. ~rtReleased
  <2>1. rtReleased => rtReleased'
    BY ZenonT(30) DEF Next, OwnerStep, HeapStep, UserStep, StartOp, DrainRead, DrainFree, DrainRemove,
           DrainEnd, OpGet, OpDropped, OpNew, OpSet, OpOther, OpUnchecked, ScriptCreates,
           ScriptDrops, Callback, CloseContext, CloseRuntime, Lose, Finalize, CollectKey, vars
  <2>2. QED
    BY <2>1
<1>b. BalancedAt(o)
  BY <1>r DEF Balanced, BalancedAt
<1>w. UNCHANGED handleVars => Owners(o)' = Owners(o)
  BY DEF Owners
<1>p. UNCHANGED pool => Occurrences(o)' = Occurrences(o)
  BY DEF Occurrences
<1>c. UNCHANGED ctxReleased => ContextHandle(o)' = ContextHandle(o)
  BY DEF ContextHandle
<1>u. UNCHANGED userVars => GivenBack(o)' = GivenBack(o)
  BY DEF GivenBack
<1>t. count \in [AllObjects -> Int] /\ jsRefs \in [AllObjects -> {0, 1}] /\ stray \in [AllObjects -> Int]
      /\ Objects \subseteq AllObjects /\ Global \notin Objects /\ Global \in AllObjects
  BY HandlesAssumption DEF TypeOK, AllObjects, HandlesAssumption
\* Steps that leave every term alone but where the user is.
<1>s. ASSUME UNCHANGED <<count, jsRefs, stray, handleVars, pool, ctxReleased>>,
             GivenBack(o)' = GivenBack(o)
      PROVE  BalancedAt(o)'
  BY <1>s, <1>b, <1>w, <1>p, <1>c DEF BalancedAt
<1>1. ASSUME NEW u \in Users,
             StartOp(u) \/ DrainRead(u) \/ DrainEnd(u) \/ OpOther(u) \/ OpUnchecked(u)
      PROVE  BalancedAt(o)'
  <2>1. \A v \in Users : \/ pc'[v] = pc[v] /\ ptr'[v] = ptr[v]
                         \/ pc[v] # "freed" /\ pc'[v] # "freed"
    BY <1>1 DEF StartOp, DrainRead, DrainEnd, OpOther, OpUnchecked, TypeOK
  <2>2. GivenBack(o)' = GivenBack(o)
    BY <2>1, GivenBackFrame
  <2>3. QED
    BY <1>1, <1>s, <2>2 DEF StartOp, DrainRead, DrainEnd, OpOther, OpUnchecked
<1>2. ASSUME NEW u \in Users, DrainFree(u) PROVE BalancedAt(o)'
  <2>1. ptr[u] = Head(pool) /\ ptr[u] \in AllObjects
    <3>1. pool # <<>> /\ pool \in Seq(AllObjects) /\ ptr[u] = Head(pool)
      BY <1>2 DEF DrainFree, DrainInv, TypeOK
    <3>2. QED
      BY <3>1, SeqParts
  <2>2. count'[o] = count[o] - (IF ptr[u] = o THEN 1 ELSE 0)
    BY <1>2, <1>r, <1>t, <2>1 DEF DrainFree
  <2>3. GivenBack(o)' = IF ptr[u] = o THEN GivenBack(o) \union {u} ELSE GivenBack(o)
    BY <1>2 DEF DrainFree, GivenBack, TypeOK
  <2>4. u \notin GivenBack(o)
    BY <1>2 DEF DrainFree, GivenBack
  <2>5. Cardinality(GivenBack(o) \union {u}) = Cardinality(GivenBack(o)) + 1
    BY <1>n, <2>4, FS_AddElement
  <2>6. UNCHANGED <<jsRefs, stray, handleVars, pool, ctxReleased>>
    BY <1>2 DEF DrainFree
  <2>7. CASE ptr[u] = o
    BY <1>b, <1>n, <1>w, <1>p, <1>c, <2>2, <2>3, <2>5, <2>6, <2>7 DEF BalancedAt
  <2>8. CASE ptr[u] # o
    BY <1>b, <1>n, <1>w, <1>p, <1>c, <2>2, <2>3, <2>6, <2>8 DEF BalancedAt
  <2>9. QED
    BY <2>7, <2>8
<1>3. ASSUME NEW u \in Users, DrainRemove(u) PROVE BalancedAt(o)'
  <2>1. pool # <<>> /\ ptr[u] = Head(pool) /\ pool \in Seq(AllObjects) /\ pool' = Tail(pool)
    BY <1>3 DEF DrainRemove, Removed, DrainInv, TypeOK
  <2>2. Occurrences(o)' = Occ(pool', o)
    BY DEF Occurrences, Occ
  <2>3. Occurrences(o)' = Occurrences(o) - (IF ptr[u] = o THEN 1 ELSE 0)
    BY <1>n, <2>1, <2>2, OccTail
  <2>4. GivenBack(o)' = GivenBack(o) \ {u} /\ (u \in GivenBack(o) <=> ptr[u] = o)
    BY <1>3 DEF DrainRemove, GivenBack, TypeOK
  <2>5. Cardinality(GivenBack(o) \ {u}) = IF u \in GivenBack(o) THEN Cardinality(GivenBack(o)) - 1
                                          ELSE Cardinality(GivenBack(o))
    BY <1>n, FS_RemoveElement
  <2>6. UNCHANGED <<count, jsRefs, stray, handleVars, ctxReleased>>
    BY <1>3 DEF DrainRemove
  <2>7. CASE ptr[u] = o
    <3>1. /\ Cardinality(GivenBack(o)') = Cardinality(GivenBack(o)) - 1
          /\ Occurrences(o)' = Occurrences(o) - 1
      BY <2>3, <2>4, <2>5, <2>7
    <3>2. QED
      BY <1>b, <1>n, <1>w, <1>c, <2>6, <3>1 DEF BalancedAt
  <2>8. CASE ptr[u] # o
    BY <1>b, <1>n, <1>w, <1>c, <2>3, <2>4, <2>5, <2>6, <2>8 DEF BalancedAt
  <2>9. QED
    BY <2>7, <2>8
\* The user is not in the middle of draining.
<1>g. ASSUME NEW u \in Users, NEW x \in {"idle", "drain"}, pc[u] \in {"op", "idle"},
             pc' = [pc EXCEPT ![u] = x], UNCHANGED ptr
      PROVE  GivenBack(o)' = GivenBack(o)
  <2>1. \A v \in Users : \/ pc'[v] = pc[v] /\ ptr'[v] = ptr[v]
                         \/ pc[v] # "freed" /\ pc'[v] # "freed"
    BY <1>g DEF TypeOK
  <2>2. QED
    BY <2>1, GivenBackFrame
<1>4. ASSUME NEW u \in Users, NEW h \in HandleIds, NEW q \in Objects, OpGet(u, h, q)
      PROVE  BalancedAt(o)'
  <2>1. Cardinality(Owners(o)') = Cardinality(Owners(o)) + (IF o = q THEN 1 ELSE 0)
    BY <1>4, <1>t, CreateOwners DEF OpGet
  <2>2. count'[o] = count[o] + (IF o = q THEN 1 ELSE 0)
    BY <1>4, <1>t DEF OpGet
  <2>3. GivenBack(o)' = GivenBack(o)
    BY <1>4, <1>g DEF OpGet
  <2>4. UNCHANGED <<jsRefs, stray, pool, ctxReleased>>
    BY <1>4 DEF OpGet
  <2>5. QED
    BY <1>b, <1>n, <1>p, <1>c, <2>1, <2>2, <2>3, <2>4 DEF BalancedAt
<1>5. ASSUME NEW u \in Users, NEW q \in Objects, OpDropped(u, q) PROVE BalancedAt(o)'
  <2>1. count'[o] = count[o] + (IF o = q THEN 1 ELSE 0) /\ stray'[o] = stray[o] + (IF o = q THEN 1 ELSE 0)
    BY <1>5, <1>t DEF OpDropped
  <2>2. GivenBack(o)' = GivenBack(o)
    BY <1>5, <1>g DEF OpDropped
  <2>3. UNCHANGED <<jsRefs, handleVars, pool, ctxReleased>>
    BY <1>5 DEF OpDropped
  <2>4. QED
    BY <1>b, <1>n, <1>w, <1>p, <1>c, <2>1, <2>2, <2>3 DEF BalancedAt
<1>6. ASSUME NEW u \in Users, NEW h \in HandleIds, NEW g \in HandleIds, NEW q \in Objects,
             OpNew(u, h, g, q)
      PROVE  BalancedAt(o)'
  <2>1. g \notin Owners(o) /\ h \notin Owners(o) /\ ~done[g] /\ h # g
    BY <1>6 DEF OpNew, Owners, HandleInv
  <2>2. Owners(o)' = IF o = q THEN Owners(o) \union {g} ELSE Owners(o)
    <3>1. done'[h] = TRUE /\ \A f \in HandleIds \ {h} : done'[f] = done[f]
      BY <1>6 DEF OpNew, MovedFrom, TypeOK
    <3>2. /\ place'[g] = "held" /\ target'[g] = q
          /\ \A f \in HandleIds \ {h, g} : place'[f] = place[f] /\ target'[f] = target[f]
      BY <1>6, <2>1 DEF OpNew, TypeOK
    <3>3. QED
      BY <2>1, <3>1, <3>2 DEF Owners
  <2>3. Cardinality(Owners(o) \union {g}) = Cardinality(Owners(o)) + 1
    BY <1>n, <2>1, FS_AddElement
  <2>4. count'[o] = count[o] + (IF o = q THEN 1 ELSE 0)
    BY <1>6, <1>t DEF OpNew, Fresh
  <2>5. GivenBack(o)' = GivenBack(o)
    BY <1>6, <1>g DEF OpNew
  <2>6. UNCHANGED <<jsRefs, stray, pool, ctxReleased>>
    BY <1>6 DEF OpNew
  <2>7. CASE o = q
    BY <1>b, <1>n, <1>p, <1>c, <2>2, <2>3, <2>4, <2>5, <2>6, <2>7 DEF BalancedAt
  <2>8. CASE o # q
    BY <1>b, <1>n, <1>p, <1>c, <2>2, <2>4, <2>5, <2>6, <2>8 DEF BalancedAt
  <2>9. QED
    BY <2>7, <2>8
<1>7. ASSUME NEW u \in Users, NEW h \in HandleIds, OpSet(u, h) PROVE BalancedAt(o)'
  <2>1. target[h] \in AllObjects /\ jsRefs[target[h]] = 0
    BY <1>7 DEF OpSet, HandleInv
  <2>2. /\ count'[o] = count[o] + (IF o = target[h] THEN 1 ELSE 0)
        /\ jsRefs'[o] = jsRefs[o] + (IF o = target[h] THEN 1 ELSE 0)
    BY <1>7, <1>t, <2>1 DEF OpSet, DupCount
  <2>3. GivenBack(o)' = GivenBack(o)
    BY <1>7, <1>g DEF OpSet
  <2>4. UNCHANGED <<stray, handleVars, pool, ctxReleased>>
    BY <1>7 DEF OpSet
  <2>5. QED
    BY <1>b, <1>n, <1>w, <1>p, <1>c, <2>2, <2>3, <2>4 DEF BalancedAt
<1>8. ASSUME NEW q \in Objects, ScriptCreates(q) \/ ScriptDrops(q) PROVE BalancedAt(o)'
  <2>1. count'[o] - count[o] = jsRefs'[o] - jsRefs[o] /\ count'[o] \in Int /\ jsRefs'[o] \in Int
    BY <1>8, <1>t DEF ScriptCreates, ScriptDrops, Fresh
  <2>2. UNCHANGED <<stray, handleVars, pool, userVars, ctxReleased>>
    BY <1>8 DEF ScriptCreates, ScriptDrops
  <2>3. QED
    <3>1. /\ Owners(o)' = Owners(o) /\ Occurrences(o)' = Occurrences(o)
          /\ ContextHandle(o)' = ContextHandle(o) /\ GivenBack(o)' = GivenBack(o)
          /\ stray' = stray
      BY <1>w, <1>p, <1>c, <1>u, <2>2
    <3>2. count'[o] = count[o] + (jsRefs'[o] - jsRefs[o])
      BY <1>n, <2>1
    <3>3. QED
      BY <1>b, <1>n, <2>1, <3>1, <3>2 DEF BalancedAt
<1>9. ASSUME NEW h \in HandleIds, NEW q \in AllObjects, Callback(h, q) PROVE BalancedAt(o)'
  <2>1. Cardinality(Owners(o)') = Cardinality(Owners(o)) + (IF o = q THEN 1 ELSE 0)
    BY <1>9, CreateOwners DEF Callback
  <2>2. /\ count'[o] - stray'[o] = count[o] - stray[o] + (IF o = q THEN 1 ELSE 0)
        /\ count'[o] \in Int /\ stray'[o] \in Int
    BY <1>9, <1>t DEF Callback, DupCount
  <2>3. UNCHANGED <<jsRefs, pool, userVars, ctxReleased>>
    BY <1>9 DEF Callback
  <2>4. QED
    <3>1. /\ Occurrences(o)' = Occurrences(o) /\ jsRefs' = jsRefs
          /\ ContextHandle(o)' = ContextHandle(o) /\ GivenBack(o)' = GivenBack(o)
      BY <1>p, <1>c, <1>u, <2>3
    <3>2. count'[o] = count[o] + (stray'[o] - stray[o]) + (IF o = q THEN 1 ELSE 0)
      BY <1>n, <2>2
    <3>3. QED
      BY <1>b, <1>n, <2>1, <2>2, <3>1, <3>2 DEF BalancedAt
<1>10. CASE CloseContext
  <2> DEFINE C == {h \in Closed : target[h] = o}
  <2>1. C \subseteq Owners(o)
    BY DEF Closed, Listed, Owners, HandleInv, TypeOK
  <2>2. Owners(o)' = Owners(o) \ C
    BY <1>10 DEF CloseContext, Owners
  <2>3. Cardinality(Owners(o) \ C) = Cardinality(Owners(o)) - Cardinality(C)
    <3>1. Owners(o) \cap C = C
      BY <2>1
    <3>2. QED
      BY <1>n, <3>1, FS_Difference, ZenonT(30)
  <2>4. Cardinality(C) \in Nat
    BY <1>n, <2>1, FS_Subset, FS_CardinalityType
  <2>5. Occurrences(o)' = 0
    <3>1. {i \in DOMAIN pool' : pool'[i] = o} = {}
      BY <1>10 DEF CloseContext
    <3>2. QED
      BY <3>1, FS_EmptySet DEF Occurrences
  <2>6. GivenBack(o) = {} /\ GivenBack(o)' = {}
    BY <1>10 DEF CloseContext, OwnerFree, GivenBack
  <2>7. Cardinality(GivenBack(o)) = 0 /\ Cardinality(GivenBack(o)') = 0
    BY <2>6, FS_EmptySet
  <2>8. count'[o] = count[o] - jsRefs[o] - Occurrences(o) - (IF o = Global THEN 1 ELSE 0) - Cardinality(C)
    BY <1>10 DEF CloseContext
  <2>9. jsRefs'[o] = 0 /\ stray' = stray /\ ContextHandle(o)' = 0
        /\ ContextHandle(o) = IF o = Global THEN 1 ELSE 0
    BY <1>10 DEF CloseContext, ContextHandle
  <2> HIDE DEF C
  <2>10. Cardinality(Owners(o)') = Cardinality(Owners(o)) - Cardinality(C)
    BY <2>2, <2>3
  <2>11. QED
    BY <1>b, <1>n, <2>4, <2>5, <2>7, <2>8, <2>9, <2>10 DEF BalancedAt
<1>11. CASE CloseRuntime
  BY <1>11 DEF CloseRuntime
<1>12. ASSUME NEW h \in HandleIds, Lose(h) PROVE BalancedAt(o)'
  <2>1. Owners(o)' = Owners(o)
    BY <1>12 DEF Lose, Owners, TypeOK
  <2>2. QED
    BY <1>12, <1>b, <1>p, <1>c, <1>u, <2>1 DEF Lose, BalancedAt
<1>13. ASSUME NEW h \in HandleIds, Finalize(h) PROVE BalancedAt(o)'
  <2>1. place[h] = "lost" /\ target[h] \in AllObjects
    BY <1>13 DEF Finalize, Unreachable, HandleInv
  <2>2. Owners(o)' = Owners(o) \ {h} /\ (h \in Owners(o) <=> ~done[h] /\ target[h] = o)
    <3>1. done'[h] = TRUE /\ \A f \in HandleIds \ {h} : done'[f] = done[f] /\ place'[f] = place[f]
      BY <1>13 DEF Finalize, TypeOK
    <3>2. target' = target
      BY <1>13 DEF Finalize
    <3>3. QED
      BY <2>1, <3>1, <3>2 DEF Owners
  <2>3. Cardinality(Owners(o) \ {h}) = IF h \in Owners(o) THEN Cardinality(Owners(o)) - 1
                                       ELSE Cardinality(Owners(o))
    BY <1>n, FS_RemoveElement
  <2>4. pool \in Seq(AllObjects) /\ Occurrences(o)' = Occ(pool', o)
    BY DEF TypeOK, Occurrences, Occ
  <2>5. Occurrences(o)' = Occurrences(o) + (IF ~done[h] /\ target[h] = o THEN 1 ELSE 0)
    <3>1. CASE done[h]
      BY <1>13, <1>n, <2>4, <3>1 DEF Finalize, Pooled
    <3>2. CASE ~done[h]
      <4>1. pool' = Append(pool, target[h])
        BY <1>13, <3>2 DEF Finalize, Pooled
      <4>2. QED
        BY <1>n, <2>4, <3>2, <4>1, OccAppend
    <3>3. QED
      BY <3>1, <3>2
  <2>6. UNCHANGED <<count, jsRefs, stray, ctxReleased, userVars>>
    BY <1>13 DEF Finalize
  <2>7. CASE ~done[h] /\ target[h] = o
    BY <1>b, <1>n, <1>c, <1>u, <2>2, <2>3, <2>5, <2>6, <2>7 DEF BalancedAt
  <2>8. CASE ~(~done[h] /\ target[h] = o)
    BY <1>b, <1>n, <1>c, <1>u, <2>2, <2>3, <2>5, <2>6, <2>8 DEF BalancedAt
  <2>9. QED
    BY <2>7, <2>8
<1>14. ASSUME NEW k \in HashCodes, CollectKey(k) PROVE BalancedAt(o)'
  BY <1>14, <1>s, <1>u DEF CollectKey
<1>15. CASE UNCHANGED vars
  BY <1>15, <1>s, <1>u DEF vars
<1>16. QED
  BY <1>1, <1>2, <1>3, <1>4, <1>5, <1>6, <1>7, <1>8, <1>9, <1>10, <1>11, <1>12, <1>13,
     <1>14, <1>15
  DEF Next, OwnerStep, HeapStep, UserStep

\* On the owner's thread every native reference has exactly one owner, whatever handles
\* are made, lost, collected or closed: none is given back twice and none is forgotten
\* but the strays.  (With two threads it fails: run pool_race.)
THEOREM ReferencesBalance ==
    ASSUME Users \subseteq {Owner}
    PROVE  Spec => []Balanced
<1>1. QED
  BY TypeInit, TypeNext, DrainInit, DrainNext, BalancedInit, BalancedNext, PTL DEF Spec

-----------------------------------------------------------------------------
(* What an operation uses *)

HeldLive ==
    \A h \in HandleIds :
        place[h] = "held" /\ ~done[h] /\ target[h] # Global => count[target[h]] > 0

\* Balanced says nothing of a released runtime, whose counts stay as they are.
LiveInv == rtReleased => HeldLive

LEMMA BalancedLive ==
    ASSUME Users \subseteq {Owner}, TypeOK, HandleInv, DrainInv, Balanced, LiveInv
    PROVE  HeldLive
<1> SUFFICES ASSUME ~rtReleased, NEW h \in HandleIds, place[h] = "held", ~done[h],
                    target[h] # Global
             PROVE  count[target[h]] > 0
  BY DEF HeldLive, LiveInv
<1> DEFINE o == target[h]
<1>1. o \in AllObjects /\ o \in Objects
  BY DEF HandleInv, AllObjects
<1>2. IsFiniteSet(Users)
  BY FS_Singleton, FS_Subset
<1> HIDE DEF o
<1>3. /\ count[o] \in Int /\ jsRefs[o] \in Nat /\ stray[o] \in Int
      /\ ContextHandle(o) \in Nat
      /\ IsFiniteSet(Owners(o)) /\ Cardinality(Owners(o)) \in Nat
      /\ Occurrences(o) \in Nat
      /\ IsFiniteSet(GivenBack(o)) /\ Cardinality(GivenBack(o)) \in Nat
  BY <1>1, <1>2, Numbers
<1>4. BalancedAt(o) /\ stray[o] >= 0
  BY <1>1 DEF Balanced, BalancedAt, DrainInv
<1>5. Cardinality(Owners(o)) > 0
  <2>1. h \in Owners(o)
    BY DEF Owners, o
  <2>2. QED
    BY <1>3, <2>1, FS_EmptySet
<1>6. Cardinality(GivenBack(o)) <= Occurrences(o)
  <2>1. CASE GivenBack(o) = {}
    BY <1>3, <2>1, FS_EmptySet
  <2>2. CASE GivenBack(o) # {}
    <3>1. PICK u \in Users : pc[u] = "freed" /\ ptr[u] = o
      BY <2>2 DEF GivenBack
    <3>2. GivenBack(o) = {u}
      BY <3>1 DEF GivenBack
    <3>3. pool # <<>> /\ Head(pool) = o /\ pool \in Seq(AllObjects)
      BY <3>1 DEF DrainInv, TypeOK
    <3>4. 1 \in DOMAIN pool /\ pool[1] = o
      BY <3>3
    <3>5. {i \in DOMAIN pool : pool[i] = o} # {}
      BY <3>4
    <3>6. Occurrences(o) > 0
      <4> DEFINE S == {i \in DOMAIN pool : pool[i] = o}
      <4>1. IsFiniteSet(S) /\ Cardinality(S) \in Nat
        BY <3>3, FiniteOccurrences
      <4>2. S # {}
        BY <3>5
      <4> HIDE DEF S
      <4>3. Cardinality(S) # 0
        BY <4>1, <4>2, FS_EmptySet
      <4>4. QED
        BY <4>1, <4>3 DEF Occurrences, S
    <3>7. Cardinality(GivenBack(o)) = 1
      BY <3>2, FS_Singleton
    <3>8. QED
      BY <1>3, <3>6, <3>7
  <2>3. QED
    BY <2>1, <2>2
<1>7. count[o] > 0
  BY <1>3, <1>4, <1>5, <1>6 DEF BalancedAt
<1>8. QED
  BY <1>7 DEF o

\* A released runtime gets no new handles, and no count of it moves.
LEMMA LiveNext == TypeOK /\ DrainInv /\ HeldLive /\ [Next]_vars => LiveInv'
<1> SUFFICES ASSUME TypeOK, DrainInv, HeldLive, [Next]_vars, rtReleased' PROVE HeldLive'
  BY DEF LiveInv
<1> USE DEF nativeVars, handleVars, userVars, flagVars
<1>0. rtReleased => ctxReleased
  BY DEF DrainInv
<1>a. ASSUME UNCHANGED <<count, handleVars>> PROVE HeldLive'
  BY <1>a DEF HeldLive
<1>1. ASSUME NEW u \in Users, UserStep(u) PROVE HeldLive'
  <2>1. UNCHANGED rtReleased
    BY <1>1 DEF UserStep, StartOp, DrainRead, DrainFree, DrainRemove, DrainEnd, OpGet,
                OpDropped, OpNew, OpSet, OpOther, OpUnchecked
  <2>2. UNCHANGED <<count, handleVars>>
    BY <1>0, <1>1, <2>1 DEF UserStep, StartOp, DrainRead, DrainFree, DrainRemove, DrainEnd,
                OpGet, OpDropped, OpNew, OpSet, OpOther, OpUnchecked
  <2>3. QED
    BY <2>2, <1>a
<1>2. CASE OwnerStep
  BY <1>0, <1>2, <1>a DEF OwnerStep, ScriptCreates, ScriptDrops, Callback, CloseContext,
                          CloseRuntime
<1>3. ASSUME NEW h \in HandleIds, Lose(h) PROVE HeldLive'
  BY <1>3 DEF Lose, HeldLive, TypeOK
<1>4. ASSUME NEW h \in HandleIds, Finalize(h) PROVE HeldLive'
  <2>1. /\ \A g \in HandleIds \ {h} : place'[g] = place[g] /\ done'[g] = done[g]
        /\ place'[h] = "dead" /\ UNCHANGED <<count, target>>
    BY <1>4 DEF Finalize, TypeOK
  <2>2. QED
    BY <2>1 DEF HeldLive
<1>5. ASSUME NEW k \in HashCodes, CollectKey(k) PROVE HeldLive'
  BY <1>5, <1>a DEF CollectKey
<1>6. CASE UNCHANGED vars
  BY <1>6, <1>a DEF vars
<1>7. QED
  BY <1>1, <1>2, <1>3, <1>4, <1>5, <1>6 DEF Next, HeapStep

\* A handle that the program holds never points to a freed object, and an operation that
\* has passed checkReleased on the owner's thread finds the context alive.
THEOREM OperationsUseLive ==
    ASSUME Users \subseteq {Owner}
    PROVE  Spec => []UsesLive
<1>1. Init => LiveInv
  BY DEF Init, LiveInv
<1>2. TypeOK /\ HandleInv /\ DrainInv /\ Balanced /\ LiveInv => HeldLive
  BY BalancedLive
<1>3. HeldLive /\ DrainInv => UsesLive
  BY DEF HeldLive, DrainInv, UsesLive
<1>4. QED
  BY TypeInit, TypeNext, DrainInit, DrainNext, BalancedInit, BalancedNext, LiveNext,
     <1>1, <1>2, <1>3, PTL DEF Spec
=============================================================================
