---------------------------- MODULE ModulesProofs ----------------------------
(***************************************************************************)
(* Proofs about Modules for any names, files and number of evaluations.    *)
(***************************************************************************)
EXTENDS Modules, SequenceTheorems, WellFoundedInduction, TLAPS

-----------------------------------------------------------------------------
(* Sequences *)

LEMMA SeqUpdate ==
    ASSUME NEW S, NEW s \in Seq(S), NEW i \in 1 .. Len(s), NEW e \in S
    PROVE  /\ [s EXCEPT ![i] = e] \in Seq(S) /\ Len([s EXCEPT ![i] = e]) = Len(s)
           /\ \A j \in 1 .. Len(s) : [s EXCEPT ![i] = e][j] = IF j = i THEN e ELSE s[j]
  OBVIOUS

LEMMA FrontLast ==
    ASSUME NEW S, NEW s \in Seq(S), s # <<>>
    PROVE  /\ Len(s) \in Nat \ {0} /\ Len(s) \in 1 .. Len(s)
           /\ Last(s) = s[Len(s)] /\ Last(s) \in S
           /\ Front(s) \in Seq(S) /\ Len(Front(s)) = Len(s) - 1
           /\ \A i \in 1 .. Len(s) - 1 : i \in 1 .. Len(s) /\ Front(s)[i] = s[i]
<1>1. Len(s) \in Nat \ {0} /\ Len(s) \in 1 .. Len(s)
  OBVIOUS
<1>2. Last(s) = s[Len(s)] /\ Last(s) \in S
  BY <1>1 DEF Last
<1>3. /\ SubSeq(s, 1, Len(s) - 1) \in Seq(S) /\ Len(SubSeq(s, 1, Len(s) - 1)) = Len(s) - 1
      /\ \A i \in 1 .. Len(s) - 1 : i \in 1 .. Len(s) /\ SubSeq(s, 1, Len(s) - 1)[i] = s[i]
  <2>1. \A i \in 1 .. Len(s) - 1 : i \in 1 .. Len(s)
    BY <1>1
  <2>2. SubSeq(s, 1, Len(s) - 1) \in Seq(S)
    BY <1>1
  <2>3. Len(SubSeq(s, 1, Len(s) - 1)) = Len(s) - 1
    BY <1>1, SMTT(30)
  <2>4. \A i \in 1 .. Len(s) - 1 : SubSeq(s, 1, Len(s) - 1)[i] = s[i]
    BY <1>1, <2>1
  <2>5. QED
    BY <2>1, <2>2, <2>3, <2>4
<1>4. QED
  BY <1>1, <1>2, <1>3 DEF Front


-----------------------------------------------------------------------------
(* Induction, stated for sets instead of predicates *)

LEMMA LeastElement ==
    ASSUME NEW T \in SUBSET Nat, T # {}
    PROVE  \E x \in T : \A y \in T : x <= y
<1> DEFINE R == {p \in Nat \X Nat : p[1] < p[2]}
<1>1. IsWellFoundedOn(R, Nat)
  <2>1. R = OpToRel(<, Nat)
    BY DEF OpToRel
  <2>2. QED
    BY <2>1, NatLessThanWellFounded
<1>2. \A y, x \in T : <<y, x>> \notin R => x <= y
  OBVIOUS
<1> HIDE DEF R
<1>3. \E x \in T : \A y \in T : <<y, x>> \notin R
  BY <1>1, WFMin, Zenon
<1>4. QED
  BY <1>2, <1>3, Zenon

LEMMA Induction ==
    ASSUME NEW m \in Nat, NEW n \in Nat, NEW T, m \in T,
           \A k \in m + 1 .. n : k - 1 \in T => k \in T
    PROVE  m .. n \subseteq T
<1> DEFINE U == (m .. n) \ T
<1>1. SUFFICES ASSUME U # {} PROVE FALSE
  OBVIOUS
<1>2. PICK x \in U : \A y \in U : x <= y
  <2>1. U \in SUBSET Nat
    OBVIOUS
  <2> HIDE DEF U
  <2>2. QED
    BY <1>1, <2>1, LeastElement
<1>3. x \in m + 1 .. n /\ x - 1 \in m .. n
  BY <1>2
<1>4. x - 1 \in T
  BY <1>2, <1>3
<1>5. QED
  BY <1>2, <1>3, <1>4

\* f starts with x at m and goes on with next, as far as n.
Follows(f, m, n, x, next) == f[m] = x /\ \A k \in m + 1 .. n : f[k] = next[k][f[k - 1]]

\* A function that is given by its first value and by its next value at each step exists.
LEMMA Recursion ==
    ASSUME NEW m \in Nat, NEW n \in Nat, m <= n, NEW S, NEW x \in S,
           NEW next \in [m + 1 .. n -> [S -> S]]
    PROVE  \E f \in [m .. n -> S] : Follows(f, m, n, x, next)
<1> DEFINE Upto(k, f) == f[m] = x /\ \A j \in m + 1 .. k : f[j] = next[j][f[j - 1]]
           T == {k \in m .. n : \E f \in [m .. k -> S] : Upto(k, f)}
<1>1. m \in T
  <2> DEFINE f == [k \in m .. m |-> x]
  <2>1. f \in [m .. m -> S] /\ Upto(m, f)
    OBVIOUS
  <2>2. m \in m .. n
    OBVIOUS
  <2> HIDE DEF Upto, f
  <2>3. \E g \in [m .. m -> S] : Upto(m, g)
    BY <2>1
  <2>4. QED
    BY <2>2, <2>3
<1>2. ASSUME NEW k \in m + 1 .. n, k - 1 \in T PROVE k \in T
  <2>1. PICK f \in [m .. k - 1 -> S] : Upto(k - 1, f)
    BY <1>2
  <2> DEFINE g == [j \in m .. k |-> IF j = k THEN next[k][f[k - 1]] ELSE f[j]]
  <2>2. k - 1 \in m .. k - 1 /\ f[k - 1] \in S /\ k \in m .. n
    OBVIOUS
  <2>3. next[k][f[k - 1]] \in S
    BY <2>2
  <2>4. g \in [m .. k -> S] /\ g[k] = next[k][f[k - 1]] /\ \A j \in m .. k - 1 : g[j] = f[j]
    BY <2>3
  <2> HIDE DEF g
  <2>5. g[m] = x
    BY <2>1, <2>4
  <2>6. ASSUME NEW j \in m + 1 .. k PROVE g[j] = next[j][g[j - 1]]
    <3>1. CASE j = k
      BY <2>4, <3>1
    <3>2. CASE j # k
      <4>1. j \in m + 1 .. k - 1 /\ j - 1 \in m .. k - 1 /\ j \in m .. k - 1
        BY <3>2
      <4>2. QED
        BY <2>1, <2>4, <4>1
    <3>3. QED
      BY <3>1, <3>2
  <2>7. Upto(k, g)
    BY <2>5, <2>6
  <2> HIDE DEF Upto
  <2>8. \E h \in [m .. k -> S] : Upto(k, h)
    BY <2>4, <2>7
  <2>9. QED
    BY <2>2, <2>8
<1> HIDE DEF T
<1>3. m .. n \subseteq T
  BY <1>1, <1>2, Induction
<1>4. n \in m .. n
  OBVIOUS
<1>5. QED
  BY <1>3, <1>4 DEF T, Follows

-----------------------------------------------------------------------------
(* Walking along a list of segments *)

Segs == Seq(Segment)

LEMMA ConcatAppend ==
    ASSUME NEW p \in Segs, NEW s \in Segs, NEW x \in Segment
    PROVE  p \o Append(s, x) = Append(p \o s, x)
<1>1. <<x>> \in Segs /\ p \o s \in Segs
  BY ConcatProperties DEF Segs
<1>2. Append(s, x) = s \o <<x>>
  BY AppendIsConcat DEF Segs
<1>3. Append(p \o s, x) = (p \o s) \o <<x>>
  <2> DEFINE q == p \o s
  <2> HIDE DEF q
  <2>1. q \in Segs
    BY <1>1 DEF q
  <2>2. Append(q, x) = q \o <<x>>
    BY <2>1, AppendIsConcat DEF Segs
  <2>3. QED
    BY <2>2 DEF q
<1>4. (p \o s) \o <<x>> = p \o (s \o <<x>>)
  BY <1>1, ConcatAssociative DEF Segs
<1>5. QED
  BY <1>2, <1>3, <1>4, Zenon

LEMMA ConcatTwice ==
    ASSUME NEW p \in Segs, NEW s \in Segs, NEW t \in Segs
    PROVE  (p \o s) \o t = p \o (s \o t)
  BY ConcatAssociative DEF Segs

LEMMA PrefixSteps ==
    ASSUME NEW p \in Segs, NEW t \in Segs
    PROVE  /\ p \o SubSeq(t, 1, 0) = p /\ p \o SubSeq(t, 1, Len(t)) = p \o t
           /\ \A i \in 0 .. Len(t) : p \o SubSeq(t, 1, i) \in Segs
           /\ \A i \in 1 .. Len(t) :
                 p \o SubSeq(t, 1, i) = Append(p \o SubSeq(t, 1, i - 1), t[i])
<1>1. p \o SubSeq(t, 1, 0) = p
  BY SubSeqEmpty, ConcatEmptySeq DEF Segs
<1>2. p \o SubSeq(t, 1, Len(t)) = p \o t
  BY SubSeqFull DEF Segs
<1>3. ASSUME NEW i \in 0 .. Len(t) PROVE SubSeq(t, 1, i) \in Segs
  <2>1. i \in Int /\ \A j \in 1 .. i : t[j] \in Segment
    BY DEF Segs
  <2>2. QED
    BY <2>1, SubSeqProperties DEF Segs
<1>4. \A i \in 0 .. Len(t) : p \o SubSeq(t, 1, i) \in Segs
  BY <1>3, ConcatProperties DEF Segs
<1>5. ASSUME NEW i \in 1 .. Len(t)
      PROVE  p \o SubSeq(t, 1, i) = Append(p \o SubSeq(t, 1, i - 1), t[i])
  <2>1. 1 \in 1 .. Len(t) /\ i \in 1 .. Len(t) /\ i - 1 \in 0 .. Len(t) /\ t[i] \in Segment
    BY DEF Segs
  <2> DEFINE v == SubSeq(t, 1, i - 1)
  <2>2. v \in Segs
    BY <1>3, <2>1
  <2>3. SubSeq(t, 1, i) = v \o <<t[i]>>
    BY <2>1, SubSeqRecursiveSecond DEF Segs
  <2> HIDE DEF v
  <2>4. v \o <<t[i]>> = Append(v, t[i])
    BY <2>1, <2>2, AppendIsConcat DEF Segs
  <2>5. p \o Append(v, t[i]) = Append(p \o v, t[i])
    BY <2>1, <2>2, ConcatAppend
  <2>6. QED
    BY <2>3, <2>4, <2>5, Zenon DEF v
<1>6. QED
  BY <1>1, <1>2, <1>4, <1>5

LEMMA Appended ==
    ASSUME NEW s \in Segs, NEW x \in Segment
    PROVE  /\ Append(s, x) \in Segs /\ Len(s) \in Nat /\ Len(Append(s, x)) = Len(s) + 1
           /\ Append(s, x)[Len(s) + 1] = x /\ \A i \in 1 .. Len(s) : Append(s, x)[i] = s[i]
<1>1. Append(s, x) \in Segs
  BY AppendProperties DEF Segs
<1>2. Len(s) \in Nat /\ Len(Append(s, x)) = Len(s) + 1
  BY DEF Segs
<1>3. Append(s, x)[Len(s) + 1] = x
  BY AppendProperties DEF Segs
<1>4. \A i \in 1 .. Len(s) : Append(s, x)[i] = s[i]
  BY DEF Segs
<1>5. QED
  BY <1>1, <1>2, <1>3, <1>4, Zenon

LEMMA StepTypes ==
    ASSUME NEW d \in Segs, NEW s \in Segment
    PROVE  Step(d, s) \in Segs
<1>1. d # <<>> => Front(d) \in Segs
  BY FrontLast DEF Segs
<1>2. Append(d, s) \in Segs
  BY Appended
<1>3. QED
  BY <1>1, <1>2, Zenon DEF Step

LEMMA WalkedIs ==
    ASSUME NEW s \in Segs
    PROVE  \E g \in [0 .. Len(s) -> Segs] :
              /\ Walked(s) = g[Len(s)] /\ g[0] = <<>>
              /\ \A i \in 1 .. Len(s) : g[i] = Step(g[i - 1], s[i])
<1> DEFINE n == Len(s)
           next == [i \in 0 + 1 .. n |-> [d \in Segs |-> Step(d, s[i])]]
           Is(f) == f = [i \in 0 .. n |-> IF i = 0 THEN <<>> ELSE Step(f[i - 1], s[i])]
           Goes(f) == f[0] = <<>> /\ \A i \in 1 .. n : f[i] = Step(f[i - 1], s[i])
<1>1. n \in Nat /\ 0 \in Nat /\ 0 <= n /\ <<>> \in Segs /\ 0 + 1 = 1
      /\ \A i \in 1 .. n : s[i] \in Segment /\ i \in 0 .. n /\ i - 1 \in 0 .. n /\ i # 0
  BY DEF Segs
<1>2. next \in [0 + 1 .. n -> [Segs -> Segs]]
  BY <1>1, StepTypes
<1>3. PICK f \in [0 .. n -> Segs] : Follows(f, 0, n, <<>>, next)
  <2> HIDE DEF next, n
  <2>1. QED
    BY <1>1, <1>2, Recursion
<1>4. Goes(f)
  BY <1>1, <1>3 DEF Follows
<1>5. Is(f)
  <2>1. f = [i \in 0 .. n |-> f[i]]
    OBVIOUS
  <2>2. \A i \in 0 .. n : i = 0 \/ i \in 1 .. n
    BY <1>1
  <2>3. \A i \in 0 .. n : f[i] = IF i = 0 THEN <<>> ELSE Step(f[i - 1], s[i])
    BY <1>4, <2>2, Zenon
  <2>4. QED
    BY <2>1, <2>3
<1> DEFINE g == CHOOSE h : Is(h)
<1>6. Walked(s) = g[n]
  BY DEF Walked
<1>7. Is(g)
  <2> HIDE DEF Is
  <2>1. QED
    BY <1>5, Zenon
<1> HIDE DEF g
<1>8. DOMAIN g = 0 .. n /\ Goes(g)
  <2>1. DOMAIN g = 0 .. n /\ \A i \in 0 .. n : g[i] = IF i = 0 THEN <<>> ELSE Step(g[i - 1], s[i])
    BY <1>7, Zenon
  <2>2. 0 \in 0 .. n
    BY <1>1
  <2>3. QED
    BY <1>1, <2>1, <2>2, Zenon
<1>9. g \in [0 .. n -> Segs]
  <2> DEFINE T == {i \in 0 .. n : g[i] \in Segs}
  <2>1. 0 \in T
    BY <1>1, <1>8
  <2>2. ASSUME NEW k \in 0 + 1 .. n, k - 1 \in T PROVE k \in T
    BY <1>1, <1>8, <2>2, StepTypes
  <2> HIDE DEF T
  <2>3. 0 .. n \subseteq T
    <3> HIDE DEF n
    <3>1. QED
      BY <1>1, <2>1, <2>2, Induction
  <2>4. \A i \in 0 .. n : g[i] \in Segs
    BY <2>3 DEF T
  <2>5. g = [i \in 0 .. n |-> g[i]]
    BY <1>7
  <2>6. QED
    BY <2>4, <2>5
<1>10. QED
  BY <1>6, <1>8, <1>9

\* Walked, one segment after the other
LEMMA WalkedAppend ==
    /\ Walked(<<>>) = <<>>
    /\ \A s \in Segs : Walked(s) \in Segs
    /\ \A s \in Segs, x \in Segment : Walked(Append(s, x)) = Step(Walked(s), x)
<1>1. Walked(<<>>) = <<>>
  <2>1. <<>> \in Segs /\ Len(<<>>) = 0
    BY DEF Segs
  <2>2. QED
    BY <2>1, WalkedIs
<1>2. ASSUME NEW s \in Segs PROVE Walked(s) \in Segs
  <2>1. Len(s) \in 0 .. Len(s)
    BY DEF Segs
  <2>2. QED
    BY <2>1, WalkedIs
<1>3. ASSUME NEW s \in Segs, NEW x \in Segment PROVE Walked(Append(s, x)) = Step(Walked(s), x)
  <2> DEFINE t == Append(s, x)
             n == Len(s)
  <2>1. /\ t \in Segs /\ n \in Nat /\ Len(t) = n + 1 /\ t[n + 1] = x
        /\ \A i \in 1 .. n : t[i] = s[i]
    BY Appended
  <2> HIDE DEF t
  <2>2. PICK g \in [0 .. n -> Segs] : /\ Walked(s) = g[n] /\ g[0] = <<>>
                                      /\ \A i \in 1 .. n : g[i] = Step(g[i - 1], s[i])
    BY WalkedIs
  <2>3. PICK h \in [0 .. n + 1 -> Segs] : /\ Walked(t) = h[n + 1] /\ h[0] = <<>>
                                          /\ \A i \in 1 .. n + 1 : h[i] = Step(h[i - 1], t[i])
    <3>1. PICK h \in [0 .. Len(t) -> Segs] :
             /\ Walked(t) = h[Len(t)] /\ h[0] = <<>>
             /\ \A i \in 1 .. Len(t) : h[i] = Step(h[i - 1], t[i])
      BY <2>1, WalkedIs
    <3> HIDE DEF n
    <3>2. QED
      BY <2>1, <3>1
  <2> DEFINE T == {i \in 0 .. n : h[i] = g[i]}
  <2>4. 0 \in T
    BY <2>1, <2>2, <2>3
  <2>5. ASSUME NEW k \in 0 + 1 .. n, k - 1 \in T PROVE k \in T
    <3>1. k \in 1 .. n /\ k \in 1 .. n + 1 /\ k \in 0 .. n
      BY <2>1
    <3>2. h[k - 1] = g[k - 1]
      BY <2>5
    <3>3. QED
      BY <2>1, <2>2, <2>3, <3>1, <3>2
  <2> HIDE DEF T
  <2>6. 0 .. n \subseteq T
    <3>1. n \in Nat /\ 0 \in Nat
      BY <2>1
    <3> HIDE DEF n
    <3>2. QED
      BY <3>1, <2>4, <2>5, Induction
  <2>7. h[n] = g[n]
    BY <2>1, <2>6 DEF T
  <2>8. n + 1 \in 1 .. n + 1 /\ (n + 1) - 1 = n
    BY <2>1
  <2>9. Walked(t) = Step(h[n], x)
    BY <2>1, <2>3, <2>8
  <2>10. QED
    BY <2>2, <2>7, <2>9 DEF t
<1>4. QED
  BY <1>1, <1>2, <1>3

LEMMA Concatenated ==
    ASSUME NEW s \in Segs, NEW t \in Segs
    PROVE  /\ s \o t \in Segs /\ Len(s \o t) = Len(s) + Len(t) /\ Len(s) \in Nat /\ Len(t) \in Nat
           /\ \A i \in 1 .. Len(s) : (s \o t)[i] = s[i]
           /\ \A i \in 1 .. Len(t) : (s \o t)[Len(s) + i] = t[i]
<1>1. s \o t \in Segs
  BY ConcatProperties DEF Segs
<1>2. Len(s \o t) = Len(s) + Len(t) /\ Len(s) \in Nat /\ Len(t) \in Nat
  BY DEF Segs
<1>3. \A i \in 1 .. Len(s) : (s \o t)[i] = s[i]
  BY DEF Segs
<1>4. \A i \in 1 .. Len(t) : (s \o t)[Len(s) + i] = t[i]
  BY DEF Segs
<1>5. QED
  BY <1>1, <1>2, <1>3, <1>4

\* Where a list leads to, its first segments p behind it
LEMMA WalkedOn ==
    ASSUME NEW p \in Segs, NEW t \in Segs
    PROVE  /\ Len(t) \in Nat /\ \A i \in 1 .. Len(t) : t[i] \in Segment
           /\ \A i \in 0 .. Len(t) : p \o SubSeq(t, 1, i) \in Segs
           /\ Walked(p \o SubSeq(t, 1, 0)) = Walked(p)
           /\ Walked(p \o SubSeq(t, 1, Len(t))) = Walked(p \o t)
           /\ \A i \in 1 .. Len(t) :
                 Walked(p \o SubSeq(t, 1, i)) = Step(Walked(p \o SubSeq(t, 1, i - 1)), t[i])
<1>1. Len(t) \in Nat /\ \A i \in 1 .. Len(t) : t[i] \in Segment
  BY DEF Segs
<1>2. /\ p \o SubSeq(t, 1, 0) = p /\ p \o SubSeq(t, 1, Len(t)) = p \o t
      /\ \A i \in 0 .. Len(t) : p \o SubSeq(t, 1, i) \in Segs
      /\ \A i \in 1 .. Len(t) :
            p \o SubSeq(t, 1, i) = Append(p \o SubSeq(t, 1, i - 1), t[i])
  BY PrefixSteps
<1>3. \A i \in 1 .. Len(t) : i - 1 \in 0 .. Len(t)
  BY <1>1
<1>4. QED
  BY <1>1, <1>2, <1>3, WalkedAppend

\* It matters where the first segments lead to, not which they are.
LEMMA WalkedSame ==
    ASSUME NEW p \in Segs, NEW q \in Segs, NEW t \in Segs, Walked(p) = Walked(q)
    PROVE  Walked(p \o t) = Walked(q \o t)
<1> DEFINE n == Len(t)
           T == {i \in 0 .. n : Walked(p \o SubSeq(t, 1, i)) = Walked(q \o SubSeq(t, 1, i))}
<1>1. n \in Nat /\ 0 \in Nat /\ 0 \in 0 .. n /\ n \in 0 .. n
  BY WalkedOn
<1>2. 0 \in T
  BY <1>1, WalkedOn
<1>3. ASSUME NEW k \in 0 + 1 .. n, k - 1 \in T PROVE k \in T
  <2>1. k \in 0 .. n /\ k \in 1 .. n
    BY <1>1
  <2>2. Walked(p \o SubSeq(t, 1, k - 1)) = Walked(q \o SubSeq(t, 1, k - 1))
    BY <1>3
  <2>3. QED
    BY <2>1, <2>2, WalkedOn
<1> HIDE DEF T
<1>4. 0 .. n \subseteq T
  <2> HIDE DEF n
  <2>1. QED
    BY <1>1, <1>2, <1>3, Induction
<1>5. Walked(p \o SubSeq(t, 1, n)) = Walked(q \o SubSeq(t, 1, n))
  BY <1>1, <1>4 DEF T
<1>6. QED
  BY <1>5, WalkedOn

LEMMA PlainIsSegs ==
    ASSUME NEW s \in Seq(Plain)
    PROVE  s \in Segs
<1>1. Plain \subseteq Segment
  BY DEF Plain, Segment
<1>2. QED
  BY <1>1, SeqMonotonic DEF Segs

\* Names of directories and files are added one by one.
LEMMA WalkedPlain ==
    ASSUME NEW p \in Segs, NEW t \in Seq(Plain)
    PROVE  t \in Segs /\ Walked(p \o t) = Walked(p) \o t
<1> DEFINE n == Len(t)
           T == {i \in 0 .. n : Walked(p \o SubSeq(t, 1, i)) = Walked(p) \o SubSeq(t, 1, i)}
<1>0. t \in Segs /\ Walked(p) \in Segs /\ \A i \in 1 .. n : t[i] \in Plain
  <2>1. t \in Segs
    BY PlainIsSegs
  <2>2. QED
    BY <2>1, WalkedAppend
<1>1. n \in Nat /\ 0 \in Nat /\ 0 \in 0 .. n /\ n \in 0 .. n
  BY <1>0, WalkedOn
<1>p. /\ Walked(p) \o SubSeq(t, 1, 0) = Walked(p) /\ Walked(p) \o SubSeq(t, 1, n) = Walked(p) \o t
      /\ \A i \in 1 .. n : Walked(p) \o SubSeq(t, 1, i) = Append(Walked(p) \o SubSeq(t, 1, i - 1), t[i])
  <2> DEFINE w == Walked(p)
  <2> HIDE DEF w
  <2>1. w \in Segs
    BY <1>0 DEF w
  <2>2. /\ w \o SubSeq(t, 1, 0) = w /\ w \o SubSeq(t, 1, n) = w \o t
        /\ \A i \in 1 .. n : w \o SubSeq(t, 1, i) = Append(w \o SubSeq(t, 1, i - 1), t[i])
    BY <1>0, <2>1, PrefixSteps
  <2>3. QED
    BY <2>2 DEF w
<1>2. 0 \in T
  BY <1>0, <1>1, <1>p, WalkedOn
<1>3. ASSUME NEW k \in 0 + 1 .. n, k - 1 \in T PROVE k \in T
  <2>1. k \in 0 .. n /\ k \in 1 .. n
    BY <1>1
  <2>2. Walked(p \o SubSeq(t, 1, k - 1)) = Walked(p) \o SubSeq(t, 1, k - 1)
    BY <1>3
  <2>3. \A d : Step(d, t[k]) = Append(d, t[k])
    BY <1>0, <2>1 DEF Step, Plain
  <2>4. Walked(p \o SubSeq(t, 1, k)) = Append(Walked(p \o SubSeq(t, 1, k - 1)), t[k])
    BY <1>0, <2>1, <2>3, WalkedOn
  <2>5. QED
    BY <1>p, <2>1, <2>2, <2>4
<1> HIDE DEF T
<1>4. 0 .. n \subseteq T
  <2> HIDE DEF n
  <2>1. QED
    BY <1>1, <1>2, <1>3, Induction
<1>5. Walked(p \o SubSeq(t, 1, n)) = Walked(p) \o SubSeq(t, 1, n)
  BY <1>1, <1>4 DEF T
<1>6. QED
  BY <1>0, <1>5, <1>p, WalkedOn

LEMMA FrontOfPrefix ==
    ASSUME NEW S, NEW s \in Seq(S), NEW i \in 1 .. Len(s)
    PROVE  /\ SubSeq(s, 1, i) \in Seq(S) /\ SubSeq(s, 1, i) # <<>>
           /\ Last(SubSeq(s, 1, i)) = s[i] /\ Front(SubSeq(s, 1, i)) = SubSeq(s, 1, i - 1)
<1> DEFINE u == SubSeq(s, 1, i)
           v == SubSeq(s, 1, i - 1)
<1>1. i \in Nat \ {0} /\ i \in 1 .. i /\ \A j \in 1 .. i : s[j] \in S
  OBVIOUS
<1>2. u \in Seq(S) /\ Len(u) = i /\ \A j \in 1 .. i : u[j] = s[j]
  BY <1>1, SubSeqProperties
<1>3. v \in Seq(S) /\ Len(v) = i - 1 /\ \A j \in 1 .. i - 1 : v[j] = s[j]
  <2>1. i - 1 \in Int /\ \A j \in 1 .. i - 1 : s[j] \in S
    BY <1>1
  <2>2. Len(v) = IF 1 <= i - 1 THEN (i - 1) - 1 + 1 ELSE 0
    BY <2>1, SubSeqProperties
  <2>3. v \in Seq(S) /\ \A j \in 1 .. i - 1 : v[j] = s[j]
    BY <2>1, SubSeqProperties
  <2>4. QED
    BY <1>1, <2>2, <2>3
<1> HIDE DEF u, v
<1>4. u # <<>>
  BY <1>1, <1>2
<1>5. /\ Last(u) = u[i] /\ Front(u) \in Seq(S) /\ Len(Front(u)) = i - 1
      /\ \A j \in 1 .. i - 1 : Front(u)[j] = u[j]
  BY <1>2, <1>4, FrontLast
<1>6. Front(u) = v
  <2>1. \A j \in 1 .. i - 1 : j \in 1 .. i
    BY <1>1
  <2>2. \A j \in 1 .. i - 1 : Front(u)[j] = v[j]
    BY <1>2, <1>3, <1>5, <2>1, Zenon
  <2>3. QED
    BY <1>3, <1>5, <2>2, SeqEqual
<1>7. QED
  BY <1>1, <1>2, <1>4, <1>5, <1>6 DEF u, v

\* "Up" leaves directories while there are any, and is kept when there are none.
LEMMA WalkedUps ==
    ASSUME NEW p \in Segs, NEW u \in Segs, NEW d \in Seq(Plain), Walked(p) = d,
           \A i \in 1 .. Len(u) : u[i] = ".."
    PROVE  /\ Len(u) <= Len(d) => Walked(p \o u) = SubSeq(d, 1, Len(d) - Len(u))
           /\ Len(u) > Len(d) => Walked(p \o u) # <<>> /\ Last(Walked(p \o u)) = ".."
<1> DEFINE n == Len(u)
           w(i) == Walked(p \o SubSeq(u, 1, i))
           T == {i \in 0 .. n : /\ i <= Len(d) => w(i) = SubSeq(d, 1, Len(d) - i)
                                /\ i > Len(d) => w(i) # <<>> /\ Last(w(i)) = ".."}
<1>1. n \in Nat /\ Len(d) \in Nat /\ 0 \in Nat /\ 0 \in 0 .. n /\ n \in 0 .. n
  BY WalkedOn
<1>2. /\ w(0) = d /\ w(n) = Walked(p \o u) /\ \A i \in 0 .. n : w(i) \in Segs
      /\ \A i \in 1 .. n : w(i) = Step(w(i - 1), "..")
  <2>1. /\ w(0) = Walked(p) /\ w(n) = Walked(p \o u)
        /\ \A i \in 1 .. n : w(i) = Step(w(i - 1), u[i])
    BY WalkedOn
  <2>2. \A i \in 0 .. n : w(i) \in Segs
    BY WalkedOn, WalkedAppend
  <2> HIDE DEF w
  <2>3. QED
    BY <2>1, <2>2
<1> HIDE DEF w
<1>3. 0 \in T
  <2>1. SubSeq(d, 1, Len(d) - 0) = d
    BY <1>1, SubSeqFull
  <2>2. QED
    BY <1>1, <1>2, <2>1
<1>4. ASSUME NEW k \in 0 + 1 .. n, k - 1 \in T PROVE k \in T
  <2>1. k \in 0 .. n /\ k \in 1 .. n /\ k - 1 \in 0 .. n /\ k \in Nat
    BY <1>1
  <2>2. CASE k <= Len(d)
    <3>1. Len(d) - (k - 1) \in 1 .. Len(d) /\ (Len(d) - (k - 1)) - 1 = Len(d) - k /\ k - 1 <= Len(d)
      BY <1>1, <2>1, <2>2
    <3>2. w(k - 1) = SubSeq(d, 1, Len(d) - (k - 1))
      BY <1>4, <3>1
    <3>3. /\ w(k - 1) # <<>> /\ Last(w(k - 1)) = d[Len(d) - (k - 1)]
          /\ Front(w(k - 1)) = SubSeq(d, 1, Len(d) - k)
      BY <3>1, <3>2, FrontOfPrefix
    <3>4. d[Len(d) - (k - 1)] # ".."
      <4>1. d[Len(d) - (k - 1)] \in Plain
        BY <3>1
      <4>2. QED
        BY <4>1 DEF Plain
    <3>5. w(k) = SubSeq(d, 1, Len(d) - k)
      BY <1>2, <2>1, <3>3, <3>4, Zenon DEF Step
    <3>6. QED
      BY <1>1, <2>1, <2>2, <3>5
  <2>3. CASE k > Len(d)
    <3>1. w(k - 1) = <<>> \/ Last(w(k - 1)) = ".."
      <4>1. CASE k - 1 = Len(d)
        <5>1. w(k - 1) = SubSeq(d, 1, 0)
          BY <1>1, <1>4, <4>1
        <5>2. QED
          BY <5>1, SubSeqEmpty
      <4>2. CASE k - 1 # Len(d)
        BY <1>1, <1>4, <2>1, <2>3, <4>2
      <4>3. QED
        BY <4>1, <4>2
    <3>2. w(k) = Append(w(k - 1), "..")
      BY <1>2, <2>1, <3>1 DEF Step
    <3>3. w(k - 1) \in Segs
      BY <1>2, <2>1
    <3>4. w(k) # <<>> /\ Last(w(k)) = ".."
      <4>1. /\ Len(w(k)) = Len(w(k - 1)) + 1 /\ Len(w(k - 1)) \in Nat
            /\ w(k)[Len(w(k - 1)) + 1] = ".."
        BY <3>2, <3>3, Appended
      <4>2. QED
        BY <4>1 DEF Last
    <3>5. QED
      BY <1>1, <2>1, <2>3, <3>4
  <2>4. QED
    BY <1>1, <2>1, <2>2, <2>3
<1> HIDE DEF T
<1>5. 0 .. n \subseteq T
  <2> HIDE DEF n
  <2>1. QED
    BY <1>1, <1>3, <1>4, Induction
<1>6. n \in T
  BY <1>1, <1>5
<1>7. QED
  BY <1>1, <1>2, <1>6 DEF T

\* The file that a path leads to, and that is reached past so many "..".
LEMMA WalkedPast ==
    ASSUME NEW p \in Segs, NEW u \in Segs, NEW d \in Seq(Plain), NEW y \in Paths, Walked(p) = d,
           \A i \in 1 .. Len(u) : u[i] = ".."
    PROVE  /\ Len(u) <= Len(d) => Walked((p \o u) \o y) = SubSeq(d, 1, Len(d) - Len(u)) \o y
           /\ Len(u) > Len(d) => ".." \in Range(Walked((p \o u) \o y))
<1>1. p \o u \in Segs /\ y \in Seq(Plain)
  BY Concatenated DEF Paths
<1>2. Walked((p \o u) \o y) = Walked(p \o u) \o y /\ y \in Segs /\ Walked(p \o u) \in Segs
  BY <1>1, WalkedPlain, WalkedAppend
<1>3. ASSUME Len(u) > Len(d) PROVE ".." \in Range(Walked(p \o u) \o y)
  <2> DEFINE w == Walked(p \o u)
  <2>1. w \in Segs /\ w # <<>> /\ Last(w) = ".."
    BY <1>2, <1>3, WalkedUps
  <2> HIDE DEF w
  <2>2. Len(w) \in Nat /\ Len(w) # 0
    BY <2>1 DEF Segs
  <2>3. /\ w \o y \in Segs /\ Len(w \o y) = Len(w) + Len(y) /\ Len(y) \in Nat
        /\ \A i \in 1 .. Len(w) : (w \o y)[i] = w[i]
    BY <1>2, <2>1, Concatenated
  <2>4. Len(w) \in 1 .. Len(w) /\ Len(w) \in 1 .. Len(w \o y)
    BY <2>2, <2>3
  <2>5. (w \o y)[Len(w)] = ".."
    BY <2>1, <2>3, <2>4 DEF Last
  <2>6. DOMAIN (w \o y) = 1 .. Len(w \o y)
    BY <2>3 DEF Segs
  <2>7. ".." \in Range(w \o y)
    BY <2>4, <2>5, <2>6 DEF Range
  <2>8. QED
    BY <2>7 DEF w
<1>4. QED
  BY <1>2, <1>3, WalkedUps

-----------------------------------------------------------------------------
(* Collapsing names *)

\* No segment
Blank == ""

\* What one segment of a name adds to its collapsed beginning
Collapse(n, i, s) == IF n[i] = Blank /\ i \notin {1, Len(n)} THEN s ELSE Append(s, n[i])

LEMMA CollapsedGoes ==
    ASSUME NEW n \in Segs
    PROVE  \E g \in [0 .. Len(n) -> Segs] :
              /\ Collapsed(n) = g[Len(n)] /\ g[0] = <<>>
              /\ \A i \in 1 .. Len(n) : g[i] = IF Dropped(n)[i] THEN g[i - 1] ELSE Append(g[i - 1], n[i])
<1> DEFINE m == Len(n)
           D == Dropped(n)
           Goes1(i, s) == IF D[i] THEN s ELSE Append(s, n[i])
           next == [i \in 0 + 1 .. m |-> [s \in Segs |-> Goes1(i, s)]]
           Is(f) == f = [i \in 0 .. m |->
                            IF i = 0 THEN <<>>
                            ELSE IF D[i] THEN f[i - 1]
                            ELSE Append(f[i - 1], n[i])]
           Goes(f) == f[0] = <<>> /\ \A i \in 1 .. m : f[i] = Goes1(i, f[i - 1])
<1>1. m \in Nat /\ 0 \in Nat /\ 0 <= m /\ <<>> \in Segs /\ 0 + 1 = 1
      /\ \A i \in 1 .. m : n[i] \in Segment /\ i \in 0 .. m /\ i - 1 \in 0 .. m /\ i # 0
  BY DEF Segs
<1>t. \A i \in 1 .. m, s \in Segs : Goes1(i, s) \in Segs
  BY <1>1, Appended
<1>2. next \in [0 + 1 .. m -> [Segs -> Segs]]
  BY <1>1, <1>t
<1>3. PICK f \in [0 .. m -> Segs] : Follows(f, 0, m, <<>>, next)
  <2> HIDE DEF next, m
  <2>1. QED
    BY <1>1, <1>2, Recursion
<1>4. Goes(f)
  <2>1. \A i \in 1 .. m : f[i - 1] \in Segs
    BY <1>1
  <2>2. QED
    BY <1>1, <1>3, <2>1 DEF Follows
<1>5. Is(f)
  <2>1. f = [i \in 0 .. m |-> f[i]]
    OBVIOUS
  <2>2. \A i \in 0 .. m : i = 0 \/ i \in 1 .. m
    BY <1>1
  <2>3. \A i \in 0 .. m : f[i] = IF i = 0 THEN <<>>
                                 ELSE IF D[i] THEN f[i - 1]
                                 ELSE Append(f[i - 1], n[i])
    BY <1>4, <2>2, Zenon
  <2>4. QED
    BY <2>1, <2>3, Zenon
<1> DEFINE g == CHOOSE h : Is(h)
<1>6. Collapsed(n) = g[m]
  BY DEF Collapsed
<1>7. Is(g)
  <2> HIDE DEF Is
  <2>1. QED
    BY <1>5, Zenon
<1> HIDE DEF g
<1>8. DOMAIN g = 0 .. m /\ Goes(g)
  <2>1. DOMAIN g = 0 .. m
        /\ \A i \in 0 .. m : g[i] = IF i = 0 THEN <<>>
                                    ELSE IF D[i] THEN g[i - 1]
                                    ELSE Append(g[i - 1], n[i])
    BY <1>7, Zenon
  <2>2. 0 \in 0 .. m
    BY <1>1
  <2>3. QED
    BY <1>1, <2>1, <2>2, Zenon
<1>9. g \in [0 .. m -> Segs]
  <2> DEFINE T == {i \in 0 .. m : g[i] \in Segs}
  <2>1. 0 \in T
    BY <1>1, <1>8
  <2>2. ASSUME NEW k \in 0 + 1 .. m, k - 1 \in T PROVE k \in T
    BY <1>1, <1>8, <1>t, <2>2
  <2> HIDE DEF T
  <2>3. 0 .. m \subseteq T
    <3> HIDE DEF m
    <3>1. QED
      BY <1>1, <2>1, <2>2, Induction
  <2>4. \A i \in 0 .. m : g[i] \in Segs
    BY <2>3 DEF T
  <2>5. g = [i \in 0 .. m |-> g[i]]
    BY <1>7, Zenon
  <2>6. QED
    BY <2>4, <2>5
<1>10. QED
  BY <1>6, <1>8, <1>9

\* Of slashes that are not three in a row every empty segment within goes.
LEMMA DroppedIs ==
    ASSUME NEW n \in Segs, SlashesApart(n), NEW i \in 1 .. Len(n)
    PROVE  Dropped(n)[i] <=> n[i] = Blank /\ i \notin {1, Len(n)}
<1> DEFINE m == Len(n)
           Is(f) == f = [j \in 0 .. m |-> j \notin {0, 1, m} /\ n[j] = Blank /\ ~f[j - 1]]
           w == [j \in 0 .. m |-> j \notin {0, 1, m} /\ n[j] = Blank]
           d == CHOOSE f : Is(f)
<1>1. m \in Nat /\ \A j \in 0 .. m : j \notin {0, 1, m} => j \in 2 .. m - 1 /\ j - 1 \in 1 .. m - 2
  BY DEF Segs
<1>2. ASSUME NEW j \in 0 .. m, j \notin {0, 1, m}, n[j] = Blank
      PROVE  j - 1 \in 0 .. m /\ (j - 1 = 1 \/ n[j - 1] # Blank)
  <2>1. j - 1 # 1 => j - 1 \in 2 .. m - 2 /\ (j - 1) + 1 = j
    BY <1>1, <1>2
  <2>2. j - 1 # 1 => n[j - 1] # "" \/ n[(j - 1) + 1] # ""
    BY <2>1, Zenon DEF SlashesApart
  <2>3. j - 1 # 1 => n[j - 1] # Blank
    BY <1>2, <2>1, <2>2, Zenon DEF Blank
  <2>4. j - 1 \in 0 .. m
    BY <1>1, <1>2
  <2>5. QED
    BY <2>3, <2>4, Zenon
<1>3. Is(w)
  <2>1. ASSUME NEW j \in 0 .. m, j \notin {0, 1, m}, n[j] = Blank PROVE ~w[j - 1]
    BY <1>2, <2>1
  <2> HIDE DEF w
  <2>2. \A j \in 0 .. m : (j \notin {0, 1, m} /\ n[j] = Blank)
                             = (j \notin {0, 1, m} /\ n[j] = Blank /\ ~w[j - 1])
    BY <2>1, Zenon
  <2>3. w = [j \in 0 .. m |-> j \notin {0, 1, m} /\ n[j] = Blank]
    BY DEF w
  <2>4. QED
    BY <2>2, <2>3, Zenon
<1>4. Is(d)
  <2> HIDE DEF Is, w
  <2>1. QED
    BY <1>3, Zenon
<1>5. Dropped(n) = d
  BY DEF Dropped, Blank
<1> HIDE DEF d
<1>6. \A j \in 0 .. m : d[j] = (j \notin {0, 1, m} /\ n[j] = Blank /\ ~d[j - 1])
  BY <1>4
<1>7. i \in 0 .. m /\ i # 0 /\ 1 \in 0 .. m
  BY <1>1
<1>8. d[i] <=> n[i] = Blank /\ i \notin {1, m}
  BY <1>2, <1>6, <1>7
<1>9. QED
  BY <1>5, <1>8

LEMMA CollapsedIs ==
    ASSUME NEW n \in Segs, SlashesApart(n)
    PROVE  \E g \in [0 .. Len(n) -> Segs] :
              /\ Collapsed(n) = g[Len(n)] /\ g[0] = <<>>
              /\ \A i \in 1 .. Len(n) : g[i] = Collapse(n, i, g[i - 1])
<1>1. PICK g \in [0 .. Len(n) -> Segs] :
         /\ Collapsed(n) = g[Len(n)] /\ g[0] = <<>>
         /\ \A i \in 1 .. Len(n) : g[i] = IF Dropped(n)[i] THEN g[i - 1] ELSE Append(g[i - 1], n[i])
  BY CollapsedGoes
<1>2. \A i \in 1 .. Len(n) : g[i] = Collapse(n, i, g[i - 1])
  BY <1>1, DroppedIs, Zenon DEF Collapse
<1>3. QED
  BY <1>1, <1>2

\* A doubled slash changes nothing about where a name leads to.
LEMMA CollapsedWalks ==
    ASSUME NEW p \in Segs, NEW n \in Segs, SlashesApart(n)
    PROVE  Collapsed(n) \in Segs /\ Walked(p \o Collapsed(n)) = Walked(p \o n)
<1> DEFINE m == Len(n)
<1>1. PICK g \in [0 .. m -> Segs] :
         /\ Collapsed(n) = g[m] /\ g[0] = <<>>
         /\ \A i \in 1 .. m : g[i] = Collapse(n, i, g[i - 1])
  BY CollapsedIs
<1> DEFINE T == {i \in 0 .. m : Walked(p \o g[i]) = Walked(p \o SubSeq(n, 1, i))}
<1>2. m \in Nat /\ 0 \in Nat /\ 0 \in 0 .. m /\ m \in 0 .. m
  BY WalkedOn
<1>3. 0 \in T
  <2>1. p \o <<>> = p
    BY ConcatEmptySeq DEF Segs
  <2>2. Walked(p \o SubSeq(n, 1, 0)) = Walked(p)
    BY WalkedOn
  <2>3. QED
    BY <1>1, <1>2, <2>1, <2>2, Zenon
<1>4. ASSUME NEW k \in 0 + 1 .. m, k - 1 \in T PROVE k \in T
  <2>1. k \in 0 .. m /\ k \in 1 .. m /\ k - 1 \in 0 .. m
    BY <1>2
  <2>2. Walked(p \o g[k - 1]) = Walked(p \o SubSeq(n, 1, k - 1))
    BY <1>4
  <2>3. Walked(p \o SubSeq(n, 1, k)) = Step(Walked(p \o SubSeq(n, 1, k - 1)), n[k])
        /\ n[k] \in Segment
    BY <2>1, WalkedOn
  <2>4. Walked(p \o g[k]) = Step(Walked(p \o g[k - 1]), n[k])
    <3>1. CASE n[k] = Blank /\ k \notin {1, Len(n)}
      <4>1. g[k] = g[k - 1]
        BY <1>1, <2>1, <3>1 DEF Collapse
      <4>2. QED
        BY <3>1, <4>1 DEF Step, Blank
    <3>2. CASE ~(n[k] = Blank /\ k \notin {1, Len(n)})
      <4> DEFINE s == g[k - 1]
      <4>1. g[k] = Append(s, n[k])
        BY <1>1, <2>1, <3>2, Zenon DEF Collapse
      <4>2. s \in Segs
        BY <1>1, <2>1
      <4> HIDE DEF s
      <4>3. p \o s \in Segs
        BY <4>2, Concatenated
      <4>4. p \o Append(s, n[k]) = Append(p \o s, n[k])
        BY <2>3, <4>2, ConcatAppend
      <4>5. Walked(Append(p \o s, n[k])) = Step(Walked(p \o s), n[k])
        BY <2>3, <4>3, WalkedAppend
      <4>6. Walked(p \o g[k]) = Walked(Append(p \o s, n[k]))
        BY <4>1, <4>4, Zenon
      <4>7. QED
        BY <4>5, <4>6, Zenon DEF s
    <3>3. QED
      BY <3>1, <3>2
  <2>5. QED
    BY <2>1, <2>2, <2>3, <2>4
<1> HIDE DEF T
<1>5. 0 .. m \subseteq T
  <2> HIDE DEF m
  <2>1. QED
    BY <1>2, <1>3, <1>4, Induction
<1>6. Walked(p \o g[m]) = Walked(p \o SubSeq(n, 1, m))
  BY <1>2, <1>5 DEF T
<1>7. QED
  BY <1>1, <1>2, <1>6, WalkedOn

\* The first segment stays, and an empty one is first or last.
LEMMA CollapsedShape ==
    ASSUME NEW n \in Segs, n # <<>>, SlashesApart(n)
    PROVE  /\ Collapsed(n) \in Segs /\ Len(Collapsed(n)) \in Nat \ {0}
           /\ Collapsed(n)[1] = n[1]
           /\ Len(n) > 1 <=> Len(Collapsed(n)) > 1
           /\ \A j \in 2 .. Len(Collapsed(n)) - 1 : Collapsed(n)[j] # Blank
<1> DEFINE m == Len(n)
<1>1. PICK g \in [0 .. m -> Segs] :
         /\ Collapsed(n) = g[m] /\ g[0] = <<>>
         /\ \A i \in 1 .. m : g[i] = Collapse(n, i, g[i - 1])
  BY CollapsedIs
<1>2. m \in Nat \ {0} /\ 1 \in Nat /\ 1 \in 1 .. m /\ m \in 1 .. m
      /\ \A i \in 1 .. m : n[i] \in Segment /\ i \in 0 .. m
  BY DEF Segs
<1> DEFINE Ok(s) == /\ s \in Segs /\ Len(s) \in Nat \ {0} /\ s[1] = n[1]
                    /\ \A j \in 2 .. Len(s) : s[j] # Blank
           T == {i \in 1 .. m : i < m => Ok(g[i])}
<1>3. /\ g[1] = Append(<<>>, n[1]) /\ <<>> \in Segs
      /\ g[1] \in Segs /\ Len(g[1]) = 1 /\ g[1][1] = n[1]
  <2>1. g[1] = Append(<<>>, n[1]) /\ <<>> \in Segs
    <3>1. g[1] = Collapse(n, 1, g[0])
      <4>1. 1 - 1 = 0
        OBVIOUS
      <4>2. g[1] = Collapse(n, 1, g[1 - 1])
        BY <1>1, <1>2, Zenon
      <4>3. QED
        BY <4>1, <4>2
    <3>2. <<>> \in Segs
      BY DEF Segs
    <3>3. QED
      BY <1>1, <3>1, <3>2 DEF Collapse
  <2>2. /\ Append(<<>>, n[1]) \in Segs /\ Len(Append(<<>>, n[1])) = 0 + 1
        /\ Append(<<>>, n[1])[0 + 1] = n[1]
    BY <1>2, <2>1, Appended
  <2>3. QED
    BY <2>1, <2>2
<1>4. 1 \in T
  BY <1>2, <1>3
<1>5. ASSUME NEW k \in 1 .. m, k # 1, Ok(g[k - 1])
      PROVE  /\ g[k] \in Segs /\ Len(g[k]) \in Nat \ {0} /\ g[k][1] = n[1]
             /\ k < m => Ok(g[k])
             /\ k = m => Len(g[k]) > 1 /\ \A j \in 2 .. Len(g[k]) - 1 : g[k][j] # Blank
  <2> DEFINE s == g[k - 1]
  <2>1. g[k] = Collapse(n, k, s) /\ n[k] \in Segment
    BY <1>1, <1>2
  <2>2. Ok(s)
    BY <1>5
  <2>3. CASE n[k] = Blank /\ k \notin {1, Len(n)}
    <3>1. g[k] = s /\ k # m
      BY <2>1, <2>3 DEF Collapse
    <3>2. QED
      BY <2>2, <3>1
  <2>4. CASE ~(n[k] = Blank /\ k \notin {1, Len(n)})
    <3>1. g[k] = Append(s, n[k]) /\ (k # m => n[k] # Blank)
      BY <1>5, <2>1, <2>4 DEF Collapse
    <3> HIDE DEF s
    <3>2. /\ g[k] \in Segs /\ Len(g[k]) = Len(s) + 1 /\ Len(s) \in Nat \ {0}
          /\ g[k][Len(s) + 1] = n[k] /\ \A i \in 1 .. Len(s) : g[k][i] = s[i]
      <4>1. /\ Append(s, n[k]) \in Segs /\ Len(Append(s, n[k])) = Len(s) + 1
            /\ Append(s, n[k])[Len(s) + 1] = n[k]
            /\ \A i \in 1 .. Len(s) : Append(s, n[k])[i] = s[i]
        BY <2>1, <2>2, Appended
      <4>2. Len(s) \in Nat \ {0}
        BY <2>2
      <4>3. QED
        BY <3>1, <4>1, <4>2, Zenon
    <3>3. /\ g[k][1] = n[1] /\ \A j \in 2 .. Len(s) : g[k][j] # Blank
      BY <2>2, <3>2
    <3>4. k # m => g[k][Len(g[k])] # Blank
      BY <3>1, <3>2
    <3>5. \A j \in 2 .. Len(g[k]) : j \in 2 .. Len(s) \/ j = Len(g[k])
      BY <3>2
    <3>6. k # m => \A j \in 2 .. Len(g[k]) : g[k][j] # Blank
      BY <3>3, <3>4, <3>5
    <3>7. \A j \in 2 .. Len(g[k]) - 1 : g[k][j] # Blank
      BY <3>2, <3>3
    <3>8. QED
      BY <1>2, <3>2, <3>3, <3>6, <3>7
  <2>5. QED
    BY <2>3, <2>4
<1>6. ASSUME NEW k \in 1 + 1 .. m, k - 1 \in T PROVE k \in T
  <2>1. k \in 1 .. m /\ k # 1 /\ k - 1 < m
    BY <1>2
  <2>2. Ok(g[k - 1])
    BY <1>6, <2>1
  <2>3. QED
    BY <1>5, <2>1, <2>2
<1> HIDE DEF T
<1>7. 1 .. m \subseteq T
  <2> HIDE DEF m
  <2>1. QED
    BY <1>2, <1>4, <1>6, Induction
<1> DEFINE Shaped(c) == /\ c \in Segs /\ Len(c) \in Nat \ {0} /\ c[1] = n[1]
                         /\ (m > 1 <=> Len(c) > 1)
                         /\ \A j \in 2 .. Len(c) - 1 : c[j] # Blank
<1>8. ASSUME m = 1 PROVE Shaped(g[m])
  <2>1. Shaped(g[1])
    BY <1>3, <1>8
  <2>2. QED
    BY <1>8, <2>1, Zenon
<1>9. ASSUME m # 1 PROVE Shaped(g[m])
  <2>1. m - 1 \in 1 .. m /\ m - 1 < m
    <3>1. m \in Nat \ {0}
      BY <1>2, Zenon
    <3> HIDE DEF m
    <3>2. QED
      BY <1>9, <3>1
  <2>2. Ok(g[m - 1])
    BY <1>7, <2>1 DEF T
  <2>3. /\ g[m] \in Segs /\ Len(g[m]) \in Nat \ {0} /\ g[m][1] = n[1]
        /\ Len(g[m]) > 1 /\ \A j \in 2 .. Len(g[m]) - 1 : g[m][j] # Blank
    BY <1>2, <1>5, <1>9, <2>2
  <2>4. m > 1
    BY <1>2, <1>9
  <2>5. QED
    BY <2>3, <2>4, Zenon
<1>10. QED
  BY <1>1, <1>8, <1>9, Zenon

\* The slashes that the names in the table of ES6 modules start with: none, one or two.
Slashes == {<<>>, <<Blank>>, <<Blank, Blank>>}

\* What Collapsed leaves of them
OneSlash(e) == IF e = <<>> THEN e ELSE <<Blank>>

LEMMA CollapsedSlashes ==
    ASSUME NEW e \in Slashes, NEW y \in Paths
    PROVE  Collapsed(e \o y) = OneSlash(e) \o y
<1> DEFINE n == e \o y
           l == Len(e)
           f == OneSlash(e)
<1>1. e \in Segs /\ f \in Segs /\ y \in Segs /\ l \in 0 .. 2 /\ \A i \in 1 .. l : e[i] = Blank
  <2>1. <<>> \in Segs /\ <<Blank>> \in Segs /\ <<Blank, Blank>> \in Segs
    <3>1. Blank \in Segment
      BY DEF Blank, Segment
    <3>2. <<>> \in Segs
      BY DEF Segs
    <3>3. <<Blank>> \in Segs
      BY <3>1 DEF Segs
    <3>4. <<Blank, Blank>> \in Segs
      BY <3>1 DEF Segs
    <3>5. QED
      BY <3>2, <3>3, <3>4
  <2>2. y \in Seq(Plain)
    BY DEF Paths
  <2>3. y \in Segs
    BY <2>1, <2>2, WalkedPlain
  <2>4. l \in 0 .. 2 /\ \A i \in 1 .. l : e[i] = Blank
    BY DEF Slashes
  <2>5. QED
    BY <2>1, <2>3, <2>4, Zenon DEF Slashes, OneSlash
<1>2. /\ n \in Segs /\ Len(n) = l + Len(y) /\ Len(y) \in Nat \ {0}
      /\ \A i \in 1 .. l : n[i] = Blank
      /\ \A i \in 1 .. Len(y) : n[l + i] = y[i]
  <2>1. y # <<>>
    BY DEF Paths
  <2>2. Len(y) # 0
    BY <1>1, <2>1 DEF Segs
  <2>3. /\ n \in Segs /\ Len(n) = l + Len(y) /\ Len(y) \in Nat
        /\ \A i \in 1 .. l : n[i] = e[i]
        /\ \A i \in 1 .. Len(y) : n[l + i] = y[i]
    BY <1>1, Concatenated
  <2>4. QED
    BY <1>1, <2>2, <2>3
<1> HIDE DEF n
<1>b. \A i \in 1 .. Len(y) : y[i] # Blank
  <2>1. \A i \in 1 .. Len(y) : y[i] \in Plain
    BY DEF Paths
  <2>2. QED
    BY <2>1 DEF Plain, Blank
<1>s. SlashesApart(n)
  <2> SUFFICES ASSUME NEW i \in 2 .. Len(n) - 2 PROVE n[i + 1] # Blank
    BY DEF SlashesApart, Blank
  <2>1. (i + 1) - l \in 1 .. Len(y) /\ l + ((i + 1) - l) = i + 1
    BY <1>1, <1>2
  <2>2. n[l + ((i + 1) - l)] = y[(i + 1) - l] /\ y[(i + 1) - l] # Blank
    BY <1>2, <1>b, <2>1
  <2>3. QED
    BY <2>1, <2>2
<1>3. PICK g \in [0 .. Len(n) -> Segs] :
         /\ Collapsed(n) = g[Len(n)] /\ g[0] = <<>>
         /\ \A i \in 1 .. Len(n) : g[i] = Collapse(n, i, g[i - 1])
  BY <1>2, <1>s, CollapsedIs
<1>4. g[l] = f
  <2>1. CASE e = <<>>
    BY <1>3, <2>1 DEF OneSlash
  <2>2. CASE e # <<>>
    <3>1. l \in {1, 2} /\ 1 \in 1 .. Len(n) /\ n[1] = Blank /\ 1 - 1 = 0
      BY <1>1, <1>2, <2>2 DEF Segs
    <3>2. g[1] = <<Blank>>
      <4>1. g[1] = Append(<<>>, Blank)
        BY <1>3, <3>1 DEF Collapse
      <4>2. QED
        BY <4>1
    <3>3. ASSUME l = 2 PROVE g[2] = g[1]
      <4>1. 2 \in 1 .. Len(n) /\ 2 \notin {1, Len(n)} /\ n[2] = Blank /\ 2 - 1 = 1
        BY <1>2, <3>3
      <4>2. QED
        BY <1>3, <4>1 DEF Collapse
    <3>4. QED
      BY <2>2, <3>1, <3>2, <3>3 DEF OneSlash
  <2>3. QED
    BY <2>1, <2>2
<1> DEFINE T == {k \in 0 .. Len(y) : g[l + k] = f \o SubSeq(y, 1, k)}
<1>5. /\ f \o SubSeq(y, 1, 0) = f /\ f \o SubSeq(y, 1, Len(y)) = f \o y
      /\ \A i \in 1 .. Len(y) : f \o SubSeq(y, 1, i) = Append(f \o SubSeq(y, 1, i - 1), y[i])
  BY <1>1, PrefixSteps
<1>6. 0 \in T
  BY <1>1, <1>2, <1>4, <1>5
<1>7. ASSUME NEW k \in 0 + 1 .. Len(y), k - 1 \in T PROVE k \in T
  <2>1. k \in 0 .. Len(y) /\ k \in 1 .. Len(y) /\ l + k \in 1 .. Len(n) /\ (l + k) - 1 = l + (k - 1)
    BY <1>1, <1>2
  <2>2. g[l + (k - 1)] = f \o SubSeq(y, 1, k - 1)
    BY <1>7
  <2>3. n[l + k] = y[k] /\ y[k] # Blank
    <3>1. n[l + k] = y[k]
      BY <1>2, <2>1
    <3>2. y[k] \in Plain
      BY <2>1 DEF Paths
    <3>3. y[k] # Blank
      BY <3>2 DEF Plain, Blank
    <3>4. QED
      BY <3>1, <3>3
  <2>4. g[l + k] = Append(g[l + (k - 1)], y[k])
    <3>1. g[l + k] = Collapse(n, l + k, g[l + (k - 1)])
      BY <1>3, <2>1
    <3>2. QED
      BY <2>3, <3>1 DEF Collapse
  <2>5. QED
    BY <1>5, <2>1, <2>2, <2>4
<1> HIDE DEF T
<1>8. 0 .. Len(y) \subseteq T
  BY <1>2, <1>6, <1>7, Induction
<1>9. g[l + Len(y)] = f \o SubSeq(y, 1, Len(y))
  <2>1. Len(y) \in T
    BY <1>2, <1>8
  <2>2. QED
    BY <2>1, Zenon DEF T
<1>10. QED
  BY <1>2, <1>3, <1>5, <1>9 DEF n

-----------------------------------------------------------------------------
(* Bases: the names in the table *)

LEMMA AppendedParts ==
    ASSUME NEW s \in Segs, NEW x \in Segment
    PROVE  Front(Append(s, x)) = s /\ Last(Append(s, x)) = x /\ Append(s, x) # <<>>
<1> DEFINE t == Append(s, x)
<1>1. /\ t \in Segs /\ Len(t) = Len(s) + 1 /\ Len(s) \in Nat /\ t[Len(s) + 1] = x
      /\ \A i \in 1 .. Len(s) : t[i] = s[i]
  BY Appended
<1> HIDE DEF t
<1>2. Last(t) = x
  BY <1>1 DEF Last
<1>3. t # <<>>
  BY <1>1 DEF Segs
<1>4. /\ Front(t) \in Segs /\ Len(Front(t)) = Len(t) - 1
      /\ \A i \in 1 .. Len(t) - 1 : Front(t)[i] = t[i]
  BY <1>1, <1>3, FrontLast DEF Segs
<1>5. Len(Front(t)) = Len(s) /\ \A i \in 1 .. Len(s) : Front(t)[i] = s[i]
  BY <1>1, <1>4
<1>6. Front(t) = s
  BY <1>4, <1>5, SeqEqual DEF Segs
<1>7. QED
  BY <1>2, <1>3, <1>6 DEF t

LEMMA FrontParts ==
    ASSUME NEW s \in Segs, s # <<>>
    PROVE  Front(s) \in Segs /\ Last(s) \in Segment /\ s = Append(Front(s), Last(s))
<1> DEFINE f == Front(s)
           x == Last(s)
<1>1. /\ Len(s) \in Nat \ {0} /\ x = s[Len(s)] /\ x \in Segment /\ f \in Segs
      /\ Len(f) = Len(s) - 1 /\ \A i \in 1 .. Len(s) - 1 : f[i] = s[i]
  BY FrontLast DEF Segs
<1> HIDE DEF f, x
<1>2. /\ Append(f, x) \in Segs /\ Len(Append(f, x)) = Len(f) + 1
      /\ Append(f, x)[Len(f) + 1] = x /\ \A i \in 1 .. Len(f) : Append(f, x)[i] = f[i]
  BY <1>1, Appended
<1>3. Len(Append(f, x)) = Len(s) /\ \A i \in 1 .. Len(s) : i = Len(f) + 1 \/ i \in 1 .. Len(f)
  BY <1>1, <1>2
<1>4. \A i \in 1 .. Len(s) : s[i] = Append(f, x)[i]
  BY <1>1, <1>2, <1>3
<1>5. s = Append(f, x)
  BY <1>2, <1>3, <1>4, SeqEqual DEF Segs
<1>6. QED
  BY <1>1, <1>5 DEF f, x

LEMMA ConcatParts ==
    ASSUME NEW p \in Segs, NEW s \in Segs, s # <<>>
    PROVE  Front(p \o s) = p \o Front(s) /\ Last(p \o s) = Last(s) /\ p \o s # <<>>
<1> DEFINE f == Front(s)
           x == Last(s)
<1>1. f \in Segs /\ x \in Segment /\ s = Append(f, x)
  BY FrontParts
<1> HIDE DEF f, x
<1>2. p \o f \in Segs /\ p \o s = Append(p \o f, x)
  BY <1>1, ConcatAppend, Concatenated
<1>3. Front(p \o s) = p \o f /\ Last(p \o s) = x /\ p \o s # <<>>
  BY <1>1, <1>2, AppendedParts
<1>4. QED
  BY <1>3, Zenon DEF f, x

\* A path is a list of segments, and so is what is before its last one.
LEMMA PathsAre ==
    ASSUME NEW y \in Paths
    PROVE  /\ y \in Segs /\ y \in Seq(Plain) /\ y # <<>> /\ Len(y) \in Nat \ {0}
           /\ \A i \in 1 .. Len(y) : y[i] \in Plain
           /\ y[1] \in Plain /\ Last(y) \in Plain /\ Last(y) = y[Len(y)]
           /\ Front(y) \in Seq(Plain) /\ Len(Front(y)) = Len(y) - 1
<1>1. y \in Seq(Plain) /\ y # <<>>
  BY DEF Paths
<1>2. y \in Segs
  BY <1>1, PlainIsSegs
<1>3. Len(y) \in Nat \ {0} /\ \A i \in 1 .. Len(y) : y[i] \in Plain
  BY <1>1
<1>4. y[1] \in Plain
  BY <1>3
<1>5. /\ Last(y) \in Plain /\ Last(y) = y[Len(y)]
      /\ Front(y) \in Seq(Plain) /\ Len(Front(y)) = Len(y) - 1
  BY <1>1, FrontLast
<1>6. QED
  BY <1>1, <1>2, <1>3, <1>4, <1>5

LEMMA SlashesAre ==
    ASSUME NEW e \in Slashes
    PROVE  /\ e \in Segs /\ Len(e) \in 0 .. 2 /\ Walked(e) = <<>>
           /\ \A i \in 1 .. Len(e) : e[i] = Blank
           /\ OneSlash(e) \in Slashes /\ Len(OneSlash(e)) \in 0 .. 1
           /\ (e = <<>> <=> OneSlash(e) = <<>>)
<1>1. Blank \in Segment /\ <<>> \in Segs
  BY DEF Blank, Segment, Segs
<1>2. <<Blank>> = Append(<<>>, Blank) /\ <<Blank, Blank>> = Append(<<Blank>>, Blank)
  OBVIOUS
<1>3. \A d : Step(d, Blank) = d
  BY DEF Step, Blank
<1>4. <<Blank>> \in Segs /\ <<Blank, Blank>> \in Segs
  BY <1>1 DEF Segs
<1>5. Walked(<<>>) = <<>> /\ Walked(<<Blank>>) = <<>> /\ Walked(<<Blank, Blank>>) = <<>>
  <2>1. Walked(<<>>) = <<>>
    BY WalkedAppend
  <2>2. Walked(Append(<<>>, Blank)) = Step(Walked(<<>>), Blank)
    BY <1>1, WalkedAppend
  <2>3. Walked(Append(<<Blank>>, Blank)) = Step(Walked(<<Blank>>), Blank)
    BY <1>1, <1>4, WalkedAppend
  <2>4. QED
    BY <1>2, <1>3, <2>1, <2>2, <2>3, Zenon
<1>6. Len(e) \in 0 .. 2 /\ \A i \in 1 .. Len(e) : e[i] = Blank
  BY DEF Slashes
<1>7. e \in Segs /\ Walked(e) = <<>>
  BY <1>1, <1>4, <1>5, Zenon DEF Slashes
<1>8. OneSlash(e) \in Slashes /\ Len(OneSlash(e)) \in 0 .. 1 /\ (e = <<>> <=> OneSlash(e) = <<>>)
  BY DEF OneSlash, Slashes
<1>9. QED
  BY <1>6, <1>7, <1>8

LEMMA TwoSlashes ==
    ASSUME NEW e \in Slashes
    PROVE  OneSlash(e) \o OneSlash(e) \in Slashes
<1>1. <<>> \o <<>> = <<>>
  BY ConcatEmptySeq
<1>2. <<Blank>> \o <<Blank>> = <<Blank, Blank>>
  <2>1. <<Blank>> \in Segs /\ Blank \in Segment
    <3>1. Blank \in Segment
      BY DEF Blank, Segment
    <3>2. QED
      BY <3>1 DEF Segs
  <2>2. Append(<<Blank>>, Blank) = <<Blank>> \o <<Blank>>
    BY <2>1, AppendIsConcat DEF Segs
  <2>3. <<Blank, Blank>> = Append(<<Blank>>, Blank)
    OBVIOUS
  <2>4. QED
    BY <2>2, <2>3, Zenon
<1>3. QED
  BY <1>1, <1>2, Zenon DEF OneSlash, Slashes, Blank

\* A name in the table stands for the path behind its slashes.
LEMMA BaseWalks ==
    ASSUME NEW e \in Slashes, NEW s \in Seq(Plain)
    PROVE  e \o s \in Segs /\ Walked(e \o s) = s
<1>1. e \in Segs /\ Walked(e) = <<>> /\ s \in Segs
  BY SlashesAre, PlainIsSegs
<1>2. Walked(e \o s) = <<>> \o s
  BY <1>1, WalkedPlain
<1>3. <<>> \o s = s
  BY ConcatEmptySeq
<1>4. QED
  BY <1>1, <1>2, <1>3, Concatenated

\* A list is its first segments and the others.
LEMMA SplitAt ==
    ASSUME NEW p \in Segs, NEW k \in 0 .. Len(p)
    PROVE  /\ SubSeq(p, 1, k) \in Segs /\ Len(SubSeq(p, 1, k)) = k
           /\ \A i \in 1 .. k : SubSeq(p, 1, k)[i] = p[i]
           /\ SubSeq(p, k + 1, Len(p)) \in Segs
           /\ p = SubSeq(p, 1, k) \o SubSeq(p, k + 1, Len(p))
<1>1. Len(p) \in Nat /\ k \in Int /\ k + 1 \in Int /\ Len(p) \in Int
  BY DEF Segs
<1>2. (\A i \in 1 .. k : p[i] \in Segment) /\ \A i \in k + 1 .. Len(p) : p[i] \in Segment
  BY DEF Segs
<1>3. /\ SubSeq(p, 1, k) \in Segs /\ Len(SubSeq(p, 1, k)) = k
      /\ \A i \in 1 .. k : SubSeq(p, 1, k)[i] = p[i]
  <2>1. Len(SubSeq(p, 1, k)) = IF 1 <= k THEN k - 1 + 1 ELSE 0
    BY <1>1, <1>2, SubSeqProperties
  <2>2. SubSeq(p, 1, k) \in Segs
    BY <1>1, <1>2, SubSeqProperties DEF Segs
  <2>3. \A i \in 1 .. k - 1 + 1 : SubSeq(p, 1, k)[i] = p[1 + i - 1]
    BY <1>1, <1>2, SubSeqProperties
  <2>4. QED
    BY <1>1, <2>1, <2>2, <2>3
<1>4. SubSeq(p, k + 1, Len(p)) \in Segs
  BY <1>1, <1>2, SubSeqProperties DEF Segs
<1>5. p = SubSeq(p, 1, k) \o SubSeq(p, k + 1, Len(p))
  <2>1. 1 \in 1 .. Len(p) + 1 /\ k \in 1 - 1 .. Len(p) /\ Len(p) \in k .. Len(p)
    BY <1>1
  <2>2. SubSeq(p, 1, k) \o SubSeq(p, k + 1, Len(p)) = SubSeq(p, 1, Len(p))
    BY <2>1, ConcatAdjacentSubSeq DEF Segs
  <2>3. QED
    BY <2>2, SubSeqFull DEF Segs
<1>6. QED
  BY <1>3, <1>4, <1>5

\* split("/") keeps a name that does not end with a slash.
LEMMA SegmentsAre ==
    ASSUME NEW n \in Segs
    PROVE  /\ Segments(n) \in Segs
           /\ n # <<>> /\ Last(n) # Blank => Segments(n) = n
<1> DEFINE m == Len(n)
           Is(k) == (k > 0 => n[k] # Blank) /\ \A i \in k + 1 .. m : n[i] = Blank
           K == {k \in 0 .. m : \A i \in k + 1 .. m : n[i] = Blank}
           used == CHOOSE k \in 0 .. m : Is(k)
<1>1. m \in Nat /\ (n # <<>> => m # 0)
  BY DEF Segs
<1>2. \E k \in 0 .. m : Is(k)
  <2>1. m \in K /\ K \in SUBSET Nat
    BY <1>1
  <2>2. PICK x \in K : \A k \in K : x <= k
    <3> HIDE DEF K
    <3>1. QED
      BY <2>1, LeastElement
  <2>3. x \in 0 .. m /\ \A i \in x + 1 .. m : n[i] = Blank
    OBVIOUS
  <2>4. ASSUME x > 0, n[x] = Blank PROVE FALSE
    <3>1. x - 1 \in 0 .. m /\ \A i \in (x - 1) + 1 .. m : i = x \/ i \in x + 1 .. m
      BY <1>1, <2>3, <2>4
    <3>2. x - 1 \in K
      BY <2>3, <2>4, <3>1
    <3>3. x <= x - 1
      BY <2>2, <3>2
    <3>4. QED
      BY <2>3, <3>3
  <2>5. Is(x)
    BY <2>3, <2>4
  <2>6. QED
    BY <2>3, <2>5
<1> HIDE DEF Is
<1>3. used \in 0 .. m /\ Is(used)
  BY <1>2, Zenon
<1>4. Segments(n) = IF n = Empty THEN n ELSE SubSeq(n, 1, used)
  BY DEF Segments, Is, Blank
<1> HIDE DEF used
<1>5. SubSeq(n, 1, used) \in Segs
  BY <1>3, SplitAt
<1>6. ASSUME n # <<>>, Last(n) # Blank PROVE Segments(n) = n
  <2>1. Last(n) = n[m]
    BY DEF Last
  <2>2. used = m
    <3>1. SUFFICES ASSUME used # m PROVE FALSE
      OBVIOUS
    <3>2. m \in used + 1 .. m
      BY <1>1, <1>3, <3>1
    <3>3. n[m] = Blank
      BY <1>3, <3>2 DEF Is
    <3>4. QED
      BY <1>6, <2>1, <3>3, Zenon
  <2>3. SubSeq(n, 1, m) = n
    BY SubSeqFull DEF Segs
  <2>4. QED
    BY <1>4, <2>2, <2>3, Zenon
<1>7. QED
  BY <1>4, <1>5, <1>6, Zenon

\* What a name in the table is converted to before it is taken apart
LEMMA BaseIs ==
    ASSUME NEW e \in Slashes, NEW y \in Paths
    PROVE  LET b    == e \o y
               base == OneSlash(e) \o y
           IN  /\ b \in Segs /\ b # <<>> /\ b # Empty /\ base \in Segs
               /\ Undotted(Collapsed(b)) = base /\ ~EndsWithSlash(base) /\ Segments(base) = base
               /\ (IsAbsolute(b) <=> e # <<>>) /\ (IsAbsolute(base) <=> e # <<>>)
               /\ Front(b) = e \o Front(y) /\ Len(base) = Len(OneSlash(e)) + Len(y)
<1> DEFINE f == OneSlash(e)
<1>1. /\ y \in Segs /\ y # <<>> /\ Len(y) \in Nat \ {0} /\ y[1] \in Plain /\ Last(y) \in Plain
  BY PathsAre
<1>2. /\ e \in Segs /\ Len(e) \in 0 .. 2 /\ \A i \in 1 .. Len(e) : e[i] = Blank
  BY SlashesAre
<1>3. f \in Slashes /\ (e = <<>> <=> f = <<>>)
  BY SlashesAre
<1>4. ASSUME NEW g \in Slashes
      PROVE  /\ g \o y \in Segs /\ g \o y # <<>> /\ g \o y # Empty
             /\ Len(g \o y) = Len(g) + Len(y)
             /\ Last(g \o y) = Last(y) /\ Front(g \o y) = g \o Front(y)
             /\ IsAbsolute(g \o y) <=> g # <<>>
             /\ Undotted(g \o y) = g \o y
  <2> DEFINE n == g \o y
  <2>1. g \in Segs /\ Len(g) \in 0 .. 2 /\ \A i \in 1 .. Len(g) : g[i] = Blank
    BY SlashesAre
  <2>2. /\ n \in Segs /\ Len(n) = Len(g) + Len(y)
        /\ \A i \in 1 .. Len(g) : n[i] = g[i]
        /\ \A i \in 1 .. Len(y) : n[Len(g) + i] = y[i]
    BY <1>1, <2>1, Concatenated
  <2>3. Last(n) = Last(y) /\ Front(n) = g \o Front(y) /\ n # <<>>
    BY <1>1, <2>1, ConcatParts
  <2> HIDE DEF n
  <2>4. Last(n) # Blank
    BY <1>1, <2>3 DEF Plain, Blank
  <2>5. n # Empty
    <3>1. Last(Empty) = Blank
      BY DEF Last, Empty, Blank
    <3>2. QED
      BY <2>4, <3>1
  <2>6. g = <<>> => Len(g) = 0
    OBVIOUS
  <2>7. g # <<>> => Len(g) # 0
    BY <2>1 DEF Segs
  <2>8. Head(n) = n[1]
    OBVIOUS
  <2>9. g = <<>> => n[1] = y[1]
    <3>1. g = <<>> => n[Len(g) + 1] = y[1] /\ Len(g) + 1 = 1
      BY <1>1, <2>2, <2>6
    <3>2. QED
      BY <3>1
  <2>10. g # <<>> => n[1] = Blank /\ Len(n) > 1
    BY <1>1, <2>1, <2>2, <2>7
  <2>11. IsAbsolute(n) <=> g # <<>>
    <3>1. y[1] # Blank
      BY <1>1 DEF Plain, Blank
    <3>2. IsAbsolute(n) <=> Len(n) > 1 /\ n[1] = Blank
      BY <2>8, Zenon DEF IsAbsolute, Blank
    <3>3. QED
      BY <2>9, <2>10, <3>1, <3>2, Zenon
  <2>12. Undotted(n) = n
    <3>1. y[1] # "." /\ Blank # "."
      BY <1>1 DEF Plain, Blank
    <3>2. Head(n) # "."
      BY <2>8, <2>9, <2>10, <3>1, Zenon
    <3>3. QED
      BY <3>2, Zenon DEF Undotted
  <2>13. QED
    BY <2>2, <2>3, <2>5, <2>11, <2>12, Zenon DEF n
<1>5. Collapsed(e \o y) = f \o y
  BY CollapsedSlashes
<1>6. ~EndsWithSlash(f \o y)
  <2>1. Last(f \o y) # Blank
    <3>1. Last(y) # Blank
      BY <1>1 DEF Plain, Blank
    <3>2. QED
      BY <1>3, <1>4, <3>1, Zenon
  <2>2. QED
    BY <2>1, Zenon DEF EndsWithSlash, Blank
<1>7. Segments(f \o y) = f \o y
  <2>1. Last(y) # Blank
    BY <1>1 DEF Plain, Blank
  <2>2. Last(f \o y) = Last(y) /\ f \o y \in Segs /\ f \o y # <<>>
    BY <1>3, <1>4
  <2>3. QED
    BY <2>1, <2>2, SegmentsAre, Zenon
<1>8. Undotted(Collapsed(e \o y)) = f \o y
  BY <1>3, <1>4, <1>5, Zenon
<1> HIDE DEF f
<1>9. QED
  BY <1>3, <1>4, <1>6, <1>7, <1>8, Zenon DEF f

-----------------------------------------------------------------------------
(* Names as scripts ask for them *)

\* Ups counts the ".." that a list starts with.
LEMMA UpsAre ==
    ASSUME NEW p \in Segs
    PROVE  /\ Ups(p) \in 0 .. Len(p) /\ \A i \in 1 .. Ups(p) : p[i] = ".."
           /\ Ups(p) < Len(p) => p[Ups(p) + 1] # ".."
<1> DEFINE Is(k) == (\A i \in 1 .. k : p[i] = "..") /\ (k < Len(p) => p[k + 1] # "..")
           U == {j \in 1 .. Len(p) : p[j] # ".."}
<1>1. Len(p) \in Nat
  BY DEF Segs
<1>2. \E k \in 0 .. Len(p) : Is(k)
  <2>1. CASE U = {}
    <3>1. Len(p) \in 0 .. Len(p) /\ \A i \in 1 .. Len(p) : p[i] = ".."
      BY <1>1, <2>1
    <3>2. Is(Len(p))
      BY <1>1, <3>1
    <3>3. QED
      BY <3>1, <3>2
  <2>2. CASE U # {}
    <3>1. PICK x \in U : \A y \in U : x <= y
      <4>1. U \in SUBSET Nat
        OBVIOUS
      <4> HIDE DEF U
      <4>2. QED
        BY <2>2, <4>1, LeastElement
    <3>2. x - 1 \in 0 .. Len(p) /\ (x - 1) + 1 = x /\ x \in 1 .. Len(p) /\ p[x] # ".."
      BY <1>1
    <3>3. \A i \in 1 .. x - 1 : p[i] = ".."
      BY <1>1, <3>1
    <3>4. Is(x - 1)
      BY <3>2, <3>3, Zenon
    <3>5. QED
      BY <3>2, <3>4, Zenon
  <2>3. QED
    BY <2>1, <2>2
<1>3. Ups(p) = CHOOSE k \in 0 .. Len(p) : Is(k)
  BY DEF Ups
<1> HIDE DEF Is
<1>4. Ups(p) \in 0 .. Len(p) /\ Is(Ups(p))
  BY <1>2, <1>3, Zenon
<1>5. QED
  BY <1>4 DEF Is

LEMMA HeadAndTail ==
    ASSUME NEW s \in Segs, s # <<>>
    PROVE  /\ Head(s) = s[1] /\ Tail(s) \in Segs /\ Len(Tail(s)) = Len(s) - 1 /\ Len(s) \in Nat \ {0}
           /\ s = <<Head(s)>> \o Tail(s) /\ Head(s) \in Segment
           /\ \A i \in 1 .. Len(s) - 1 : Tail(s)[i] = s[i + 1]
<1>1. Len(s) \in Nat \ {0} /\ Head(s) = s[1] /\ Head(s) \in Segment
  BY DEF Segs
<1>2. 1 \in 0 .. Len(s)
  BY <1>1
<1>3. /\ SubSeq(s, 1, 1) \in Segs /\ Len(SubSeq(s, 1, 1)) = 1
      /\ \A i \in 1 .. 1 : SubSeq(s, 1, 1)[i] = s[i]
      /\ s = SubSeq(s, 1, 1) \o SubSeq(s, 1 + 1, Len(s))
  BY <1>2, SplitAt
<1>4. <<Head(s)>> \in Segs
  BY <1>1 DEF Segs
<1>5. SubSeq(s, 1, 1) = <<Head(s)>>
  <2>1. Len(<<Head(s)>>) = 1 /\ <<Head(s)>>[1] = Head(s)
    OBVIOUS
  <2>2. \A i \in 1 .. 1 : SubSeq(s, 1, 1)[i] = <<Head(s)>>[i]
    BY <1>1, <1>3, <2>1
  <2>3. QED
    BY <1>3, <1>4, <2>1, <2>2, SeqEqual DEF Segs
<1>6. Tail(s) = SubSeq(s, 2, Len(s)) /\ 1 + 1 = 2
  BY TailIsSubSeq DEF Segs
<1>7. /\ Tail(s) \in Segs /\ Len(Tail(s)) = Len(s) - 1
      /\ \A i \in 1 .. Len(Tail(s)) : Tail(s)[i] = s[i + 1]
  BY HeadTailProperties DEF Segs
<1>8. QED
  BY <1>1, <1>3, <1>5, <1>6, <1>7

LEMMA NameTypes ==
    ASSUME NEW n \in ModuleName
    PROVE  n \in Segs /\ n # <<>>
  BY DEF ModuleName, Segs

\* A name, once collapsed and without "./", leads to where it led, from anywhere, and
\* is absolute if it was.
LEMMA NameIs ==
    ASSUME NEW n \in Segs, n # <<>>, SlashesApart(n)
    PROVE  LET p == Undotted(Collapsed(n))
           IN  /\ p \in Segs /\ p # <<>> /\ (IsAbsolute(p) <=> IsAbsolute(n))
               /\ \A q \in Segs : Walked(q \o p) = Walked(q \o n)
<1> DEFINE c == Collapsed(n)
           p == Undotted(c)
<1>1. /\ c \in Segs /\ Len(c) \in Nat \ {0} /\ c[1] = n[1] /\ (Len(n) > 1 <=> Len(c) > 1)
      /\ \A j \in 2 .. Len(c) - 1 : c[j] # Blank
  BY CollapsedShape
<1>2. \A q \in Segs : Walked(q \o c) = Walked(q \o n)
  BY CollapsedWalks
<1> HIDE DEF c
<1>3. c # <<>> /\ Head(n) = n[1]
  BY <1>1 DEF Segs
<1>4. /\ Head(c) = c[1] /\ Tail(c) \in Segs /\ Len(Tail(c)) = Len(c) - 1
      /\ c = <<Head(c)>> \o Tail(c) /\ Head(c) \in Segment
      /\ \A i \in 1 .. Len(c) - 1 : Tail(c)[i] = c[i + 1]
  BY <1>1, <1>3, HeadAndTail
<1>t. Len(c) > 1 => Tail(c) # <<>>
  <2> DEFINE t == Tail(c)
  <2>1. Len(t) = Len(c) - 1
    BY <1>4
  <2> HIDE DEF t
  <2>2. Len(c) > 1 => t # <<>>
    BY <1>1, <2>1
  <2>3. QED
    BY <2>2 DEF t
<1>5. IsAbsolute(c) <=> IsAbsolute(n)
  BY <1>1, <1>3, <1>4, Zenon DEF IsAbsolute
<1>6. CASE Len(c) > 1 /\ Head(c) = "."
  <2>1. p = Tail(c)
    BY <1>6 DEF Undotted
  <2>2. ~IsAbsolute(p)
    <3>1. CASE Len(c) > 2
      <4>0. Len(c) > 1
        BY <1>1, <3>1
      <4>1. Tail(c) # <<>> /\ Head(Tail(c)) = Tail(c)[1]
        BY <1>4, <1>t, <4>0, HeadAndTail, Zenon
      <4>2. Tail(c)[1] = c[2] /\ c[2] # Blank
        BY <1>1, <1>4, <3>1
      <4>3. QED
        BY <2>1, <4>1, <4>2, Zenon DEF IsAbsolute, Blank
    <3>2. CASE ~(Len(c) > 2)
      <4>1. ~(Len(p) > 1)
        BY <1>1, <1>4, <2>1, <3>2
      <4>2. QED
        BY <4>1 DEF IsAbsolute
    <3>3. QED
      BY <3>1, <3>2
  <2>3. ~IsAbsolute(c)
    <3>1. "." # Blank
      BY DEF Blank
    <3>2. QED
      BY <1>6, <3>1, Zenon DEF IsAbsolute, Blank
  <2>4. ASSUME NEW q \in Segs PROVE Walked(q \o p) = Walked(q \o c)
    <3> DEFINE t == Tail(c)
               d == <<Head(c)>>
    <3>1. d \in Segs /\ t \in Segs /\ q \o d \in Segs
      <4>1. d \in Segs
        BY <1>4 DEF Segs
      <4>2. QED
        BY <1>4, <4>1, Concatenated
    <3>2. Walked(q \o d) = Walked(q)
      <4>1. q \o d = Append(q, Head(c))
        BY <1>4, AppendIsConcat DEF Segs
      <4>2. Walked(Append(q, Head(c))) = Step(Walked(q), Head(c))
        BY <1>4, WalkedAppend
      <4>3. Step(Walked(q), Head(c)) = Walked(q)
        BY <1>6 DEF Step
      <4>4. QED
        BY <4>1, <4>2, <4>3, Zenon
    <3> HIDE DEF d, t
    <3>3. Walked((q \o d) \o t) = Walked(q \o t)
      BY <3>1, <3>2, WalkedSame
    <3>4. (q \o d) \o t = q \o (d \o t)
      BY <3>1, ConcatTwice
    <3>5. c = d \o t /\ p = t
      BY <1>4, <2>1, Zenon DEF d, t
    <3> HIDE DEF p
    <3>6. QED
      BY <3>3, <3>4, <3>5, Zenon
  <2>5. p \in Segs /\ p # <<>>
    BY <1>4, <1>6, <1>t, <2>1, Zenon
  <2>6. QED
    BY <1>2, <1>5, <2>2, <2>3, <2>4, <2>5, Zenon DEF c
<1>7. CASE ~(Len(c) > 1 /\ Head(c) = ".")
  <2>1. p = c
    BY <1>7, Zenon DEF Undotted
  <2>2. QED
    BY <1>1, <1>2, <1>3, <1>5, <2>1, Zenon DEF c
<1>8. QED
  BY <1>6, <1>7

\* p is as many ".." as it starts with, and then the path z.
UpsThen(p, u, z) ==
    /\ p = u \o z /\ Len(u) = Ups(p) /\ \A i \in 1 .. Len(u) : u[i] = ".."
    /\ z = SubSeq(p, Ups(p) + 1, Len(p))

\* The shapes of a name as scripts ask for it
LEMMA NameParts ==
    ASSUME NEW n \in ModuleName, WellFormed(n)
    PROVE  LET p == Undotted(Collapsed(n))
           IN  /\ IsAbsolute(n) => \E z \in Paths : p = <<Blank>> \o z
               /\ ~IsAbsolute(n) =>
                     \E u \in Segs, z \in Paths : UpsThen(p, u, z)
<1> DEFINE p == Undotted(Collapsed(n))
<1>1. n \in Segs /\ n # <<>> /\ SlashesApart(n)
  BY NameTypes DEF WellFormed
<1>2. /\ p \in Segs /\ p # <<>> /\ (IsAbsolute(p) <=> IsAbsolute(n))
  BY <1>1, NameIs
<1>3. \/ IsAbsolute(p) /\ Tail(p) \in Paths
      \/ SubSeq(p, Ups(p) + 1, Len(p)) \in Paths
  BY DEF WellFormed
<1> HIDE DEF p
<1>4. /\ Head(p) = p[1] /\ p = <<Head(p)>> \o Tail(p) /\ Len(p) \in Nat \ {0}
  BY <1>2, HeadAndTail
<1>5. Ups(p) \in 0 .. Len(p) /\ \A i \in 1 .. Ups(p) : p[i] = ".."
  BY <1>2, UpsAre
<1>6. CASE IsAbsolute(n)
  <2>1. Head(p) = Blank
    BY <1>2, <1>6, Zenon DEF IsAbsolute, Blank
  <2>2. Ups(p) = 0
    <3>1. ".." # Blank
      BY DEF Blank
    <3>2. SUFFICES ASSUME Ups(p) # 0 PROVE FALSE
      OBVIOUS
    <3>3. p[1] = ".."
      BY <1>5, <3>2
    <3>4. QED
      BY <1>4, <2>1, <3>1, <3>3, Zenon
  <2>3. SubSeq(p, Ups(p) + 1, Len(p)) = p
    BY <1>2, <2>2, SubSeqFull DEF Segs
  <2>4. p \notin Paths
    <3>1. SUFFICES ASSUME p \in Paths PROVE FALSE
      OBVIOUS
    <3>2. p[1] # Blank
      BY <3>1, PathsAre DEF Plain, Blank
    <3>3. QED
      BY <1>4, <2>1, <3>2, Zenon
  <2>5. Tail(p) \in Paths
    BY <1>3, <2>3, <2>4, Zenon
  <2>6. p = <<Blank>> \o Tail(p)
    BY <1>4, <2>1, Zenon
  <2>7. QED
    BY <1>6, <2>5, <2>6, Zenon DEF p
<1>7. CASE ~IsAbsolute(n)
  <2> DEFINE u == SubSeq(p, 1, Ups(p))
             z == SubSeq(p, Ups(p) + 1, Len(p))
  <2>1. z \in Paths
    BY <1>2, <1>3, <1>7, Zenon
  <2>2. /\ u \in Segs /\ Len(u) = Ups(p) /\ \A i \in 1 .. Ups(p) : u[i] = p[i]
        /\ p = u \o z
    BY <1>2, <1>5, SplitAt
  <2>3. \A i \in 1 .. Len(u) : u[i] = ".."
    BY <1>5, <2>2, Zenon
  <2>4. QED
    BY <1>7, <2>1, <2>2, <2>3, Zenon DEF p, UpsThen
<1>8. QED
  BY <1>6, <1>7

LEMMA PrefixOfConcat ==
    ASSUME NEW f \in Segs, NEW y \in Segs, NEW j \in 0 .. Len(y)
    PROVE  SubSeq(f \o y, 1, Len(f) + j) = f \o SubSeq(y, 1, j)
<1> DEFINE c == f \o y
           l == SubSeq(c, 1, Len(f) + j)
           s == SubSeq(y, 1, j)
           r == f \o s
<1>1. /\ c \in Segs /\ Len(c) = Len(f) + Len(y) /\ Len(f) \in Nat /\ Len(y) \in Nat
      /\ \A i \in 1 .. Len(f) : c[i] = f[i]
      /\ \A i \in 1 .. Len(y) : c[Len(f) + i] = y[i]
  BY Concatenated
<1> HIDE DEF c
<1>2. Len(f) + j \in 0 .. Len(c) /\ j \in Nat
  BY <1>1
<1>3. l \in Segs /\ Len(l) = Len(f) + j /\ \A i \in 1 .. Len(f) + j : l[i] = c[i]
  BY <1>1, <1>2, SplitAt
<1>4. s \in Segs /\ Len(s) = j /\ \A i \in 1 .. j : s[i] = y[i]
  BY SplitAt
<1> HIDE DEF l, s
<1>5. /\ r \in Segs /\ Len(r) = Len(f) + j
      /\ \A i \in 1 .. Len(f) : r[i] = f[i]
      /\ \A i \in 1 .. Len(s) : r[Len(f) + i] = s[i]
  BY <1>4, Concatenated
<1> HIDE DEF r
<1>6. ASSUME NEW i \in 1 .. Len(f) + j PROVE l[i] = r[i]
  <2>1. CASE i \in 1 .. Len(f)
    BY <1>1, <1>3, <1>5, <2>1
  <2>2. CASE i \notin 1 .. Len(f)
    <3>1. i - Len(f) \in 1 .. j /\ i - Len(f) \in 1 .. Len(y) /\ Len(f) + (i - Len(f)) = i
      BY <1>1, <1>2, <2>2
    <3>2. c[i] = y[i - Len(f)]
      BY <1>1, <3>1
    <3>3. r[i] = y[i - Len(f)]
      BY <1>4, <1>5, <3>1
    <3>4. QED
      BY <1>3, <3>2, <3>3
  <2>3. QED
    BY <2>1, <2>2
<1>7. l = r
  BY <1>3, <1>5, <1>6, SeqEqual DEF Segs
<1>8. QED
  BY <1>7 DEF l, r, c, s

LEMMA PrefixOfFront ==
    ASSUME NEW y \in Paths, NEW j \in 0 .. Len(y) - 1
    PROVE  SubSeq(Front(y), 1, j) = SubSeq(y, 1, j) /\ SubSeq(y, 1, j) \in Seq(Plain)
<1> DEFINE f == Front(y)
           l == SubSeq(f, 1, j)
           r == SubSeq(y, 1, j)
<1>1. /\ y \in Segs /\ y # <<>> /\ Len(y) \in Nat \ {0} /\ \A i \in 1 .. Len(y) : y[i] \in Plain
  BY PathsAre
<1>2. f \in Segs /\ Len(f) = Len(y) - 1 /\ \A i \in 1 .. Len(y) - 1 : f[i] = y[i]
  BY <1>1, FrontLast DEF Segs
<1> HIDE DEF f
<1>3. j \in 0 .. Len(f) /\ j \in 0 .. Len(y) /\ j \in Nat
  BY <1>1, <1>2
<1>4. l \in Segs /\ Len(l) = j /\ \A i \in 1 .. j : l[i] = f[i]
  BY <1>2, <1>3, SplitAt
<1>5. r \in Segs /\ Len(r) = j /\ \A i \in 1 .. j : r[i] = y[i]
  BY <1>1, <1>3, SplitAt
<1>6. r \in Seq(Plain)
  <2>1. 1 \in Int /\ j \in Int /\ \A i \in 1 .. j : y[i] \in Plain
    BY <1>1, <1>3
  <2>2. QED
    BY <2>1, SubSeqProperties
<1> HIDE DEF l, r
<1>7. \A i \in 1 .. j : l[i] = r[i]
  BY <1>1, <1>2, <1>3, <1>4, <1>5
<1>8. l = r
  BY <1>4, <1>5, <1>7, SeqEqual DEF Segs
<1>9. QED
  BY <1>6, <1>8 DEF l, r, f

-----------------------------------------------------------------------------
(* Resolving a name *)

\* What Parent leaves of a base when the name starts with k "..": the directory k above,
\* and nothing when there is none.
LEMMA ParentIs ==
    ASSUME NEW e \in Slashes, NEW y \in Paths, NEW k \in Nat, k <= Len(OneSlash(e)) + Len(y)
    PROVE  LET f == OneSlash(e)
           IN  Parent(f \o y, k) =
                   IF k < Len(y) THEN f \o SubSeq(y, 1, Len(y) - 1 - k) ELSE <<>>
<1> DEFINE f == OneSlash(e)
           b == f \o y
           q == SubSeq(b, 1, Len(b) - k)
<1>1. /\ y \in Segs /\ y \in Seq(Plain) /\ Len(y) \in Nat \ {0}
  BY PathsAre
<1>2. f \in Segs /\ Len(f) \in 0 .. 1
  BY SlashesAre
<1>3. b \in Segs /\ Len(b) = Len(f) + Len(y)
  BY <1>1, <1>2, Concatenated
<1>4. Parent(b, k) = IF q = <<>> THEN q ELSE Front(q)
  BY DEF Parent
<1>5. CASE k < Len(y)
  <2> DEFINE j == Len(y) - k
             s == SubSeq(y, 1, j)
  <2>1. j \in 1 .. Len(y) /\ j \in 0 .. Len(y) /\ Len(b) - k = Len(f) + j /\ j - 1 = Len(y) - 1 - k
    BY <1>1, <1>2, <1>3, <1>5
  <2>2. q = f \o s
    <3> HIDE DEF j
    <3>1. SubSeq(b, 1, Len(f) + j) = f \o SubSeq(y, 1, j)
      BY <1>1, <1>2, <2>1, PrefixOfConcat
    <3>2. QED
      BY <2>1, <3>1, Zenon
  <2> HIDE DEF j
  <2>3. s \in Segs /\ s # <<>> /\ Front(s) = SubSeq(y, 1, j - 1)
    <3>1. y \in Seq(Segment) /\ j \in 1 .. Len(y)
      BY <1>1, <2>1, Zenon DEF Segs
    <3>2. s \in Seq(Segment) /\ s # <<>> /\ Front(s) = SubSeq(y, 1, j - 1)
      BY <3>1, FrontOfPrefix, Zenon
    <3>3. QED
      BY <3>2, Zenon DEF Segs
  <2> HIDE DEF s, q
  <2>4. Front(q) = f \o Front(s) /\ q # <<>>
    BY <1>2, <2>2, <2>3, ConcatParts
  <2>5. Parent(b, k) = f \o SubSeq(y, 1, j - 1)
    BY <1>4, <2>3, <2>4, Zenon
  <2>6. QED
    BY <1>5, <2>1, <2>5, Zenon
<1>6. CASE ~(k < Len(y))
  <2>1. Len(b) - k \in 0 .. Len(b) /\ Len(b) - k \in {0, 1}
    <3>1. k <= Len(f) + Len(y) /\ k \in Nat /\ ~(k < Len(y))
      BY <1>6
    <3>2. Len(b) = Len(f) + Len(y)
      BY <1>3
    <3>3. Len(y) \in Nat /\ Len(f) \in 0 .. 1
      BY <1>1, <1>2
    <3> DEFINE lb == Len(b)
               lf == Len(f)
               ly == Len(y)
    <3> HIDE DEF lb, lf, ly, b, f
    <3>4. k <= lf + ly /\ k \in Nat /\ ~(k < ly)
      BY <3>1, Zenon DEF lf, ly
    <3>5. lb = lf + ly /\ ly \in Nat /\ lf \in 0 .. 1
      BY <3>2, <3>3, Zenon DEF lb, lf, ly
    <3>6. lb - k \in 0 .. lb /\ lb - k \in {0, 1}
      BY <3>4, <3>5
    <3>7. QED
      BY <3>6 DEF lb
  <2>2. q \in Segs /\ Len(q) = Len(b) - k
    BY <1>3, <2>1, SplitAt
  <2> HIDE DEF q
  <2>3. q # <<>> => Front(q) \in Segs /\ Len(Front(q)) = Len(q) - 1
    BY <2>2, FrontLast DEF Segs
  <2>4. q # <<>> => Len(q) # 0
    BY <2>2 DEF Segs
  <2>5. q # <<>> => Front(q) = <<>>
    <3> DEFINE r == Front(q)
    <3>1. q # <<>> => r \in Segs /\ Len(r) = 0
      BY <2>1, <2>2, <2>3, <2>4
    <3> HIDE DEF r
    <3>2. q # <<>> => r = <<>>
      BY <3>1 DEF Segs
    <3>3. QED
      BY <3>2 DEF r
  <2>6. Parent(b, k) = <<>>
    BY <1>4, <2>5, Zenon
  <2>7. QED
    BY <1>6, <2>6, Zenon
<1>7. QED
  BY <1>5, <1>6

LEMMA ConcatPairs ==
    ASSUME NEW f \in Segs, NEW d \in Segs, NEW z \in Segs
    PROVE  (f \o (f \o d)) \o z = (f \o f) \o (d \o z)
<1>1. (f \o f) \o d = f \o (f \o d)
  BY ConcatTwice
<1>2. f \o f \in Segs
  BY Concatenated
<1>3. ((f \o f) \o d) \o z = (f \o f) \o (d \o z)
  BY <1>2, ConcatTwice
<1>4. QED
  BY <1>1, <1>3, Zenon

\* The base, one slash written before it, and what Parent leaves of it, before the rest
\* of the name.
LEMMA BesideParent ==
    ASSUME NEW e \in Slashes, NEW y \in Paths, NEW z \in Segs, NEW k \in Nat,
           k <= Len(OneSlash(e)) + Len(y)
    PROVE  LET f == OneSlash(e)
           IN  (f \o Parent(f \o y, k)) \o z =
                   IF k < Len(y) THEN (f \o f) \o (SubSeq(y, 1, Len(y) - 1 - k) \o z) ELSE f \o z
<1> DEFINE f == OneSlash(e)
           d == SubSeq(y, 1, Len(y) - 1 - k)
           t == Parent(f \o y, k)
<1>1. t = IF k < Len(y) THEN f \o d ELSE <<>>
  BY ParentIs
<1>2. f \in Segs /\ y \in Segs /\ Len(y) \in Nat
  BY SlashesAre, PathsAre
<1>3. k < Len(y) => d \in Segs
  <2>1. k < Len(y) => Len(y) - 1 - k \in 0 .. Len(y)
    BY <1>2
  <2>2. QED
    BY <1>2, <2>1, SplitAt
<1> HIDE DEF t, d, f
<1>4. ASSUME k < Len(y) PROVE (f \o t) \o z = (f \o f) \o (d \o z)
  <2>1. (f \o (f \o d)) \o z = (f \o f) \o (d \o z)
    BY <1>2, <1>3, <1>4, ConcatPairs
  <2>2. QED
    BY <1>1, <1>4, <2>1, Zenon
<1>5. ASSUME ~(k < Len(y)) PROVE (f \o t) \o z = f \o z
  <2>1. f \o <<>> = f
    BY <1>2, ConcatEmptySeq DEF Segs
  <2>2. QED
    BY <1>1, <1>5, <2>1, Zenon
<1>6. QED
  BY <1>4, <1>5, Zenon DEF t, d, f

\* The last part of convertModuleName, for a base in the table and a name that starts with
\* so many ".."
LEMMA JoinedIs ==
    ASSUME NEW e \in Slashes, NEW y \in Paths, NEW p \in Segs, NEW u \in Segs, NEW z \in Paths,
           UpsThen(p, u, z)
    PROVE  LET f == OneSlash(e)
               j == Joined(f \o y, p)
           IN  /\ Len(u) < Len(y) => j = (f \o f) \o (SubSeq(y, 1, Len(y) - 1 - Len(u)) \o z)
               /\ ~(Len(u) < Len(y)) => j = Failed \/ j = f \o z
<1> DEFINE f == OneSlash(e)
           b == f \o y
           k == Len(u)
           t == (f \o Parent(b, k)) \o z
<1>1. /\ Segments(b) = b /\ (IsAbsolute(b) <=> e # <<>>) /\ Len(b) = Len(f) + Len(y)
  BY BaseIs
<1>2. f = IF IsAbsolute(b) THEN <<"">> ELSE <<>>
  BY <1>1, Zenon DEF OneSlash, Blank
<1>3. z \in Segs /\ z # <<>> /\ Last(z) # ""
  BY PathsAre DEF Plain
<1>4. k \in Nat /\ Len(f) \in Nat /\ Len(y) \in Nat
  <2>1. k \in Nat
    BY DEF Segs
  <2>2. QED
    BY <2>1, SlashesAre, PathsAre
<1>u. p = u \o z /\ k = Ups(p) /\ z = SubSeq(p, Ups(p) + 1, Len(p))
  BY DEF UpsThen
<1>5. Segments(p) = p
  <2>1. Last(p) = Last(z) /\ p # <<>>
    BY <1>3, <1>u, ConcatParts
  <2>2. QED
    BY <1>3, <2>1, SegmentsAre, Zenon DEF Blank
<1>6. Joined(b, p) = IF k > Len(b) THEN Failed ELSE t
  BY <1>1, <1>2, <1>5, <1>u, Zenon DEF Joined
<1>7. k <= Len(f) + Len(y) => t = IF k < Len(y) THEN (f \o f) \o (SubSeq(y, 1, Len(y) - 1 - k) \o z)
                                  ELSE f \o z
  BY <1>3, <1>4, BesideParent
<1>8. (k > Len(b) => ~(k < Len(y))) /\ (~(k > Len(b)) => k <= Len(f) + Len(y))
  <2> DEFINE lb == Len(b)
             lf == Len(f)
             ly == Len(y)
  <2>1. lb = lf + ly /\ lf \in Nat /\ ly \in Nat /\ k \in Nat
    BY <1>1, <1>4, Zenon
  <2> HIDE DEF lb, lf, ly, k
  <2>2. (k > lb => ~(k < ly)) /\ (~(k > lb) => k <= lf + ly)
    BY <2>1
  <2>3. QED
    BY <2>2, Zenon DEF lb, lf, ly
<1> HIDE DEF t, b, f, k
<1>9. QED
  BY <1>6, <1>7, <1>8, Zenon DEF t, b, f, k

\* A name in the table, as ConvertModuleName makes it from canonical and well-formed names:
\* a path, behind a slash or two or none.
Tabled(b) == \E e \in Slashes, y \in Paths : b = e \o y

\* What ConvertModuleName makes of a name in a base of the table is again such a name, and
\* names the file meant.
LEMMA ConvertIs ==
    ASSUME NEW b, Tabled(b), NEW n \in ModuleName \ {Empty}, WellFormed(n)
    PROVE  LET r == ConvertModuleName(b, n)
               m == Meant(b, n)
           IN  /\ r = Failed \/ Tabled(r)
               /\ ".." \notin Range(m) => r # Failed /\ FileOf(r) = m
<1> DEFINE p == Undotted(Collapsed(n))
           r == ConvertModuleName(b, n)
           m == Meant(b, n)
<1>1. PICK e \in Slashes, y \in Paths : b = e \o y
  BY DEF Tabled
<1> DEFINE f == OneSlash(e)
           base == f \o y
<1>2. /\ b \in Segs /\ b # Empty /\ Undotted(Collapsed(b)) = base /\ ~EndsWithSlash(base)
      /\ Front(b) = e \o Front(y)
  BY <1>1, BaseIs
<1>3. n \in Segs /\ n # <<>> /\ n # Empty /\ SlashesApart(n)
  BY NameTypes DEF WellFormed
<1>4. /\ p \in Segs /\ p # <<>> /\ (IsAbsolute(p) <=> IsAbsolute(n))
      /\ \A q \in Segs : Walked(q \o p) = Walked(q \o n)
  BY <1>3, NameIs
<1>5. /\ IsAbsolute(n) => \E z \in Paths : p = <<Blank>> \o z
      /\ ~IsAbsolute(n) =>
            \E u \in Segs, z \in Paths : UpsThen(p, u, z)
  BY NameParts
<1>6. p # Empty
  <2>1. \E g \in Segs, z \in Paths : p = g \o z
    <3>1. <<Blank>> \in Segs
      BY DEF Blank, Segs, Segment
    <3>2. QED
      BY <1>5, <3>1, Zenon DEF UpsThen
  <2>2. PICK g \in Segs, z \in Paths : p = g \o z
    BY <2>1, Zenon
  <2>3. Last(p) = Last(z) /\ Last(z) # Blank
    <3>1. z \in Segs /\ z # <<>> /\ Last(z) \in Plain
      BY PathsAre
    <3>2. Last(z) # Blank
      BY <3>1 DEF Plain, Blank
    <3>3. QED
      BY <2>2, <3>1, <3>2, ConcatParts
  <2>4. Last(Empty) = Blank
    BY DEF Last, Empty, Blank
  <2>5. QED
    BY <2>3, <2>4
<1>7. r = IF IsAbsolute(p) THEN p ELSE Joined(base, p)
  <2> HIDE DEF p, base
  <2>1. ConvertModuleName(b, n) =
          IF n = Empty THEN n
          ELSE IF p = Empty THEN Failed
          ELSE IF IsAbsolute(p) \/ b = Empty THEN p
          ELSE IF EndsWithSlash(base) THEN Front(base) \o p
          ELSE Joined(base, p)
    BY <1>2, Zenon DEF ConvertModuleName, p
  <2>2. QED
    BY <1>2, <1>3, <1>6, <2>1, Zenon
<1>8. m = IF IsAbsolute(n) THEN Walked(n) ELSE Walked(Front(b) \o n)
  BY <1>2, Zenon DEF Meant, FileOf
<1> HIDE DEF p, base, r, m
<1>9. CASE IsAbsolute(n)
  <2>1. PICK z \in Paths : p = <<Blank>> \o z
    BY <1>5, <1>9, Zenon
  <2>2. r = p /\ Tabled(p)
    <3>1. <<Blank>> \in Slashes
      BY DEF Slashes
    <3>2. r = p
      BY <1>4, <1>7, <1>9, Zenon
    <3>3. QED
      BY <2>1, <3>1, <3>2, Zenon DEF Tabled
  <2>3. Walked(p) = Walked(n)
    <3>1. <<>> \in Segs /\ <<>> \o p = p /\ <<>> \o n = n
      BY <1>3, <1>4, ConcatEmptySeq DEF Segs
    <3>2. Walked(<<>> \o p) = Walked(<<>> \o n)
      BY <1>4, <3>1, Zenon
    <3>3. QED
      BY <3>1, <3>2, Zenon
  <2>4. r # Failed /\ FileOf(r) = m
    BY <1>4, <1>8, <1>9, <2>2, <2>3, Zenon DEF Failed, FileOf
  <2>5. QED
    BY <2>2, <2>4, Zenon DEF r, m
<1>10. CASE ~IsAbsolute(n)
  <2>1. PICK u \in Segs, z \in Paths : UpsThen(p, u, z)
    BY <1>5, <1>10, Zenon
  <2> DEFINE k == Len(u)
             d == SubSeq(y, 1, Len(y) - 1 - k)
             w == Front(b)
  <2>2. r = Joined(base, p)
    BY <1>4, <1>7, <1>10, Zenon
  <2>3. /\ k < Len(y) => r = (f \o f) \o (d \o z)
        /\ ~(k < Len(y)) => r = Failed \/ r = f \o z
    <3>1. p \in Segs /\ u \in Segs /\ z \in Paths
      BY <1>4, <2>1, Zenon
    <3> DEFINE j == Joined(f \o y, p)
    <3>2. /\ k < Len(y) => j = (f \o f) \o (d \o z)
          /\ ~(k < Len(y)) => j = Failed \/ j = f \o z
      BY <2>1, <3>1, JoinedIs, ZenonT(40)
    <3>3. r = j
      BY <2>2, Zenon DEF base
    <3> HIDE DEF j, f, d, k
    <3>4. QED
      BY <3>2, <3>3, Zenon
  <2>4. /\ z \in Segs /\ z # <<>> /\ z \in Seq(Plain) /\ k \in Nat
        /\ Front(y) \in Seq(Plain) /\ Len(Front(y)) = Len(y) - 1 /\ Len(y) \in Nat \ {0}
    <3>1. k \in Nat
      BY DEF Segs
    <3>2. QED
      BY <3>1, PathsAre
  <2>5. w \in Segs /\ Walked(w) = Front(y)
    BY <1>2, <2>4, BaseWalks
  <2>6. m = Walked((w \o u) \o z)
    <3>1. m = Walked(w \o p)
      BY <1>4, <1>8, <1>10, <2>5, Zenon
    <3> HIDE DEF w
    <3>2. w \o (u \o z) = (w \o u) \o z
      BY <2>4, <2>5, ConcatTwice
    <3>3. QED
      BY <2>1, <3>1, <3>2, Zenon DEF UpsThen
  <2>7. /\ k <= Len(y) - 1 => m = SubSeq(Front(y), 1, (Len(y) - 1) - k) \o z
        /\ k > Len(y) - 1 => ".." \in Range(m)
    <3> HIDE DEF w
    <3>1. /\ k <= Len(Front(y)) => Walked((w \o u) \o z) = SubSeq(Front(y), 1, Len(Front(y)) - k) \o z
          /\ k > Len(Front(y)) => ".." \in Range(Walked((w \o u) \o z))
      BY <2>1, <2>4, <2>5, WalkedPast DEF UpsThen
    <3>2. QED
      BY <2>4, <2>6, <3>1, Zenon
  <2>8. CASE k < Len(y)
    <3>1. (Len(y) - 1) - k = Len(y) - 1 - k /\ Len(y) - 1 - k \in 0 .. Len(y) - 1 /\ k <= Len(y) - 1
      BY <2>4, <2>8
    <3>2. d \in Seq(Plain) /\ m = d \o z
      BY <2>7, <3>1, PrefixOfFront
    <3> HIDE DEF d
    <3>3. d \o z \in Paths
      <4>1. d \o z \in Seq(Plain)
        BY <2>4, <3>2, ConcatProperties
      <4>2. d \o z # <<>>
        BY <2>4, <3>2, PlainIsSegs, ConcatParts
      <4>3. QED
        BY <4>1, <4>2 DEF Paths
    <3>4. f \o f \in Slashes
      BY TwoSlashes
    <3>5. r = (f \o f) \o (d \o z)
      BY <2>3, <2>8 DEF d
    <3>6. Tabled(r)
      BY <3>3, <3>4, <3>5, Zenon DEF Tabled
    <3>7. Walked(r) = d \o z /\ r # <<>>
      <4>1. d \o z \in Seq(Plain)
        BY <3>3 DEF Paths
      <4>2. Walked((f \o f) \o (d \o z)) = d \o z
        BY <3>4, <4>1, BaseWalks
      <4>3. r # <<>>
        BY <3>3, <3>4, <3>5, BaseIs
      <4>4. QED
        BY <3>5, <4>2, <4>3, Zenon
    <3>8. QED
      BY <3>2, <3>6, <3>7, Zenon DEF r, m, FileOf, Failed
  <2>9. CASE ~(k < Len(y))
    <3>1. ".." \in Range(m)
      BY <2>4, <2>7, <2>9
    <3>2. f \in Slashes
      BY SlashesAre
    <3>3. r = Failed \/ Tabled(r)
      BY <2>3, <2>9, <3>2, Zenon DEF Tabled
    <3>4. QED
      BY <3>1, <3>3, Zenon DEF r, m
  <2>10. QED
    BY <2>8, <2>9
<1>11. QED
  BY <1>9, <1>10

-----------------------------------------------------------------------------
(* What ConvertModuleName returns is a name or a failure *)

LEMMA UndottedTypes ==
    ASSUME NEW n \in Segs
    PROVE  Undotted(Collapsed(n)) \in Segs
<1> DEFINE c == Collapsed(n)
<1>1. c \in Segs
  <2>1. Len(n) \in 0 .. Len(n)
    BY DEF Segs
  <2>2. QED
    BY <2>1, CollapsedGoes
<1> HIDE DEF c
<1>2. Len(c) > 1 => c # <<>>
  BY <1>1 DEF Segs
<1>3. Len(c) > 1 => Tail(c) \in Segs
  BY <1>1, <1>2, HeadAndTail
<1>4. QED
  BY <1>1, <1>3, Zenon DEF Undotted, c

\* The empty string is a name.
LEMMA EmptyIsName == Empty \in ModuleName
<1>1. Blank \in Segment
  BY DEF Blank, Segment
<1>2. <<Blank>> \in Seq(Segment) /\ <<Blank>> # <<>>
  BY <1>1
<1>3. QED
  BY <1>2, Zenon DEF Empty, ModuleName, Blank

LEMMA JoinedTypes ==
    ASSUME NEW b \in Segs, NEW p \in Segs
    PROVE  Joined(b, p) \in Segs
<1> DEFINE parent == Segments(b)
           path   == Segments(p)
           ups    == Ups(path)
           first  == IF IsAbsolute(b) THEN <<"">> ELSE <<>>
           rest   == SubSeq(path, ups + 1, Len(path))
<1>1. Joined(b, p) = IF ups > Len(parent) THEN Failed
                     ELSE first \o Parent(parent, ups) \o rest
  BY DEF Joined
<1>2. parent \in Segs /\ path \in Segs /\ Len(parent) \in Nat
  <2>1. parent \in Segs /\ path \in Segs
    BY SegmentsAre
  <2>2. QED
    BY <2>1 DEF Segs
<1> HIDE DEF parent, path
<1>3. ups \in 0 .. Len(path)
  BY <1>2, UpsAre
<1>4. rest \in Segs
  BY <1>2, <1>3, SplitAt
<1>5. first \in Segs /\ Failed \in Segs
  <2>1. Empty \in Segs /\ <<>> \in Segs
    BY EmptyIsName, NameTypes DEF Segs
  <2>2. QED
    BY <2>1, Zenon DEF Failed, Empty
<1> HIDE DEF ups, rest, first
<1>6. ASSUME ~(ups > Len(parent)) PROVE Parent(parent, ups) \in Segs
  <2> DEFINE k == Len(parent) - ups
             q == SubSeq(parent, 1, k)
  <2>1. k \in 0 .. Len(parent)
    BY <1>2, <1>3, <1>6
  <2> HIDE DEF k
  <2>2. q \in Segs
    BY <1>2, <2>1, SplitAt
  <2> HIDE DEF q
  <2>3. q # <<>> => Front(q) \in Segs
    BY <2>2, FrontLast DEF Segs
  <2>4. Parent(parent, ups) = IF q = <<>> THEN q ELSE Front(q)
    BY DEF Parent, q, k
  <2>5. QED
    BY <2>2, <2>3, <2>4, Zenon
<1>7. CASE ups > Len(parent)
  BY <1>1, <1>5, <1>7, Zenon
<1>8. CASE ~(ups > Len(parent))
  <2>1. first \o Parent(parent, ups) \in Segs
    BY <1>5, <1>6, <1>8, Concatenated
  <2>2. (first \o Parent(parent, ups)) \o rest \in Segs
    BY <1>4, <2>1, Concatenated
  <2>3. QED
    BY <1>1, <1>8, <2>2, Zenon
<1>9. QED
  BY <1>7, <1>8

LEMMA ConvertTypes ==
    ASSUME NEW b \in ModuleName, NEW n \in ModuleName
    PROVE  ConvertModuleName(b, n) \in ModuleName \union {Failed}
<1> DEFINE name == Undotted(Collapsed(n))
           base == Undotted(Collapsed(b))
           r    == ConvertModuleName(b, n)
<1>1. n \in Segs /\ b \in Segs /\ Failed \in Segs
  BY NameTypes DEF Failed, Segs
<1>2. name \in Segs /\ base \in Segs
  BY <1>1, UndottedTypes
<1>3. r = IF n = Empty THEN n
          ELSE IF name = Empty THEN Failed
          ELSE IF IsAbsolute(name) \/ b = Empty THEN name
          ELSE IF EndsWithSlash(base) THEN Front(base) \o name
          ELSE Joined(base, name)
  BY Zenon DEF ConvertModuleName
<1> HIDE DEF name, base, r
<1>4. EndsWithSlash(base) => Front(base) \o name \in Segs
  <2>1. EndsWithSlash(base) => base # <<>>
    <3>1. Len(base) > 1 => base # <<>>
      BY <1>2 DEF Segs
    <3>2. QED
      BY <3>1, Zenon DEF EndsWithSlash
  <2>2. base # <<>> => Front(base) \in Segs
    BY <1>2, FrontLast DEF Segs
  <2>3. QED
    BY <1>2, <2>1, <2>2, Concatenated
<1>5. Joined(base, name) \in Segs
  BY <1>2, JoinedTypes
<1>6. r \in Segs
  BY <1>1, <1>2, <1>3, <1>4, <1>5, Zenon
<1>7. QED
  BY <1>6 DEF r, ModuleName, Segs, Failed

-----------------------------------------------------------------------------
(* The stack of evaluations *)

\* The number of an evaluation outlives the exception in it.
LEMMA FailedFrame ==
    ASSUME NEW f \in Frames
    PROVE  /\ [f EXCEPT !.failed = TRUE] \in Frames
           /\ [f EXCEPT !.failed = TRUE].run = f.run
  BY DEF Frames

LEMMA FailedAt ==
    ASSUME NEW s \in Seq(Frames), NEW i \in 1 .. Len(s)
    PROVE  /\ [s EXCEPT ![i].failed = TRUE] \in Seq(Frames)
           /\ Len([s EXCEPT ![i].failed = TRUE]) = Len(s)
           /\ \A j \in 1 .. Len(s) : [s EXCEPT ![i].failed = TRUE][j].run = s[j].run
<1> DEFINE e == [s[i] EXCEPT !.failed = TRUE]
<1>1. s[i] \in Frames
  OBVIOUS
<1>2. e \in Frames /\ e.run = s[i].run
  BY <1>1, FailedFrame
<1>3. [s EXCEPT ![i].failed = TRUE] = [s EXCEPT ![i] = e]
  OBVIOUS
<1> HIDE DEF e
<1>4. /\ [s EXCEPT ![i] = e] \in Seq(Frames) /\ Len([s EXCEPT ![i] = e]) = Len(s)
      /\ \A j \in 1 .. Len(s) : [s EXCEPT ![i] = e][j] = IF j = i THEN e ELSE s[j]
  BY <1>2, SeqUpdate
<1>5. \A j \in 1 .. Len(s) : [s EXCEPT ![i] = e][j].run = s[j].run
  BY <1>2, <1>4
<1>6. QED
  BY <1>3, <1>4, <1>5

LEMMA TopFailedRuns ==
    ASSUME stack \in Seq(Frames)
    PROVE  /\ TopFailed \in Seq(Frames) /\ Len(TopFailed) = Len(stack)
           /\ \A i \in 1 .. Len(stack) : TopFailed[i].run = stack[i].run
<1>1. CASE stack = <<>>
  BY <1>1 DEF TopFailed
<1>2. CASE stack # <<>>
  <2>1. Len(stack) \in 1 .. Len(stack)
    BY <1>2
  <2>2. TopFailed = [stack EXCEPT ![Len(stack)].failed = TRUE]
    BY <1>2 DEF TopFailed
  <2>3. QED
    BY <2>1, <2>2, FailedAt
<1>3. QED
  BY <1>1, <1>2

-----------------------------------------------------------------------------
(* Types *)

LEMMA TypeInit == Init => TypeOK
<1> SUFFICES ASSUME Init PROVE TypeOK
  OBVIOUS
<1>1. DOMAIN modules = {}
  BY DEF Init
<1>2. QED
  BY <1>1, ModulesAssumption DEF ModulesAssumption, Init, TypeOK

LEMMA BasesTypes ==
    ASSUME TypeOK, NEW b \in Bases, NEW p \in Asked
    PROVE  ConvertModuleName(b, p) # Failed => ConvertModuleName(b, p) \in ModuleName
<1>1. b \in ModuleName
  BY EmptyIsName DEF Bases, TypeOK
<1>2. p \in ModuleName
  BY ModulesAssumption DEF ModulesAssumption
<1>3. QED
  BY <1>1, <1>2, ConvertTypes

LEMMA StartsTypes ==
    ASSUME TypeOK, NEW path \in Asked, NEW name, name # Failed => name \in ModuleName,
           NEW by \in {"require", "execute"}, Starts(path, name, by)
    PROVE  /\ runs' \in 1 .. MaxRuns /\ runs' = runs + 1
           /\ stack' \in Seq(Frames) /\ Len(stack') = Len(stack) + 1
           /\ \A i \in 1 .. Len(stack) : stack'[i] = stack[i]
           /\ stack'[Len(stack) + 1].run = runs + 1
           /\ Last(stack').asked = path /\ Last(stack').by = by
<1> DEFINE f == [run |-> runs + 1, asked |-> path, by |-> by,
                 name |-> Filename(name), failed |-> FALSE]
<1>1. runs' \in 1 .. MaxRuns /\ runs' = runs + 1
  BY ModulesAssumption DEF ModulesAssumption, TypeOK, Starts
<1>2. Filename(name) \in ModuleName
  <2>1. name \in ModuleName /\ Filename(name) # Failed
    BY DEF Starts
  <2>2. Filename(name) \in ModuleName \union {Failed}
    BY <2>1, EmptyIsName, ConvertTypes DEF Filename
  <2>3. QED
    BY <2>1, <2>2
<1>3. f \in Frames
  BY <1>1, <1>2 DEF Frames
<1>4. f.run = runs + 1 /\ f.asked = path /\ f.by = by
  OBVIOUS
<1>5. stack' = Append(stack, f) /\ stack \in Seq(Frames)
  BY DEF Starts, TypeOK
<1> HIDE DEF f
<1>6. /\ stack' \in Seq(Frames) /\ Len(stack') = Len(stack) + 1
      /\ \A i \in 1 .. Len(stack) : stack'[i] = stack[i]
      /\ stack'[Len(stack) + 1] = f
  BY <1>3, <1>5
<1>7. Last(stack') = f
  BY <1>6 DEF Last
<1>8. QED
  BY <1>1, <1>4, <1>6, <1>7

LEMMA FinishFailsRuns ==
    ASSUME TypeOK, FinishFails
    PROVE  /\ stack # <<>> /\ stack' \in Seq(Frames) /\ Len(stack') = Len(stack) - 1
           /\ \A i \in 1 .. Len(stack) - 1 : i \in 1 .. Len(stack) /\ stack'[i].run = stack[i].run
<1>1. stack # <<>> /\ stack \in Seq(Frames)
  BY DEF TypeOK, FinishFails
<1>2. /\ Len(stack) \in Nat \ {0} /\ Front(stack) \in Seq(Frames)
      /\ Len(Front(stack)) = Len(stack) - 1
      /\ \A i \in 1 .. Len(stack) - 1 : i \in 1 .. Len(stack) /\ Front(stack)[i] = stack[i]
  BY <1>1, FrontLast
<1>3. CASE Len(stack) = 1
  BY <1>1, <1>2, <1>3 DEF FinishFails, Unwound
<1>4. CASE Len(stack) # 1
  <2>1. Len(stack) - 1 \in 1 .. Len(Front(stack))
    BY <1>2, <1>4
  <2>2. stack' = [Front(stack) EXCEPT ![Len(stack) - 1].failed = TRUE]
    BY <1>4 DEF FinishFails, Unwound
  <2>3. /\ stack' \in Seq(Frames) /\ Len(stack') = Len(Front(stack))
        /\ \A i \in 1 .. Len(Front(stack)) : stack'[i].run = Front(stack)[i].run
    BY <1>2, <2>1, <2>2, FailedAt
  <2>4. QED
    BY <1>1, <1>2, <2>3
<1>5. QED
  BY <1>3, <1>4

\* A step of require, executeModule or close leaves the types right.
LEMMA TypeCommonJS ==
    ASSUME TypeOK, NEW b, NEW p,
           \/ /\ b \in Bases /\ p \in Asked
              /\ RequireCached(b, p) \/ RequireStarts(b, p) \/ RequireFails(b, p)
           \/ p \in Asked /\ ExecuteModule(p)
           \/ ScriptThrows \/ Finish \/ FinishFails \/ Close
    PROVE  TypeOK'
<1>0. stack \in Seq(Frames) /\ MaxRuns \in Nat
  BY ModulesAssumption DEF TypeOK, ModulesAssumption
<1>1. CASE b \in Bases /\ p \in Asked /\ RequireCached(b, p)
  <2>1. given' \in 0 .. MaxRuns
    BY <1>1 DEF RequireCached, Cached, TypeOK
  <2>2. QED
    BY <1>1, <2>1 DEF RequireCached, TypeOK, es6
<1>2. CASE b \in Bases /\ p \in Asked /\ RequireStarts(b, p)
  <2> DEFINE name == ConvertModuleName(b, p)
  <2>1. name # Failed => name \in ModuleName
    BY <1>2, BasesTypes
  <2>2. Starts(p, name, "require")
    BY <1>2 DEF RequireStarts
  <2> HIDE DEF name
  <2>3. runs' \in 1 .. MaxRuns /\ stack' \in Seq(Frames)
    BY <1>2, <2>1, <2>2, StartsTypes
  <2>4. QED
    BY <1>2, <2>3 DEF RequireStarts, TypeOK, es6
<1>3. CASE p \in Asked /\ ExecuteModule(p)
  <2>1. p \in ModuleName /\ Starts(p, p, "execute")
    BY <1>3, ModulesAssumption DEF ModulesAssumption, ExecuteModule
  <2>2. runs' \in 1 .. MaxRuns /\ stack' \in Seq(Frames)
    BY <1>3, <2>1, StartsTypes
  <2>3. QED
    BY <1>3, <2>2 DEF ExecuteModule, TypeOK, es6
<1>4. CASE b \in Bases /\ p \in Asked /\ RequireFails(b, p)
  <2>1. stack' \in Seq(Frames) /\ given' \in 0 .. MaxRuns
    BY <1>0, <1>4, TopFailedRuns DEF RequireFails
  <2>2. QED
    BY <1>4, <2>1 DEF RequireFails, TypeOK, es6
<1>5. CASE ScriptThrows
  BY <1>0, <1>5, TopFailedRuns DEF ScriptThrows, TypeOK, es6
<1>6. CASE Finish
  <2> DEFINE f == Last(stack)
  <2>1. f \in Frames /\ stack' \in Seq(Frames)
    BY <1>0, <1>6, FrontLast DEF Finish
  <2> HIDE DEF f
  <2>2. f.run \in 1 .. MaxRuns /\ f.name \in ModuleName
    BY <2>1 DEF Frames
  <2>3. /\ DOMAIN Stored(f) \subseteq ModuleName
        /\ Stored(f) \in [DOMAIN Stored(f) -> 1 .. MaxRuns]
    BY <2>2 DEF Stored, TypeOK
  <2>4. given' \in 0 .. MaxRuns
    BY <1>6, <2>2 DEF Finish, f
  <2>5. complete' \subseteq [run : 1 .. MaxRuns, name : ModuleName]
    BY <1>6, <2>2 DEF Finish, TypeOK, f
  <2>6. QED
    BY <1>6, <2>1, <2>3, <2>4, <2>5 DEF Finish, TypeOK, es6, f
<1>7. CASE FinishFails
  <2>1. stack' \in Seq(Frames) /\ given' \in 0 .. MaxRuns
    BY <1>0, <1>7, FinishFailsRuns DEF FinishFails
  <2>2. QED
    BY <1>7, <2>1 DEF FinishFails, TypeOK, es6
<1>8. CASE Close
  <2>1. DOMAIN modules' = {} /\ modules' \in [{} -> 1 .. MaxRuns]
    BY <1>8 DEF Close
  <2>2. QED
    BY <1>8, <2>1 DEF Close, TypeOK, es6
<1>9. QED
  BY <1>1, <1>2, <1>3, <1>4, <1>5, <1>6, <1>7, <1>8

LEMMA InnermostIs ==
    ASSUME TypeOK, Loading # {}
    PROVE  Innermost \in Loading /\ Innermost \in table /\ Innermost \in Records
<1> DEFINE T == {k \in 0 .. MaxLoads : \E r \in Loading : k = MaxLoads - r.id}
<1>1. /\ MaxLoads \in Nat /\ \A r \in Loading : r \in table /\ r \in Records /\ r.id \in 1 .. MaxLoads
  BY ModulesAssumption DEF ModulesAssumption, TypeOK, Loading, Records
<1>2. T # {} /\ T \in SUBSET Nat
  BY <1>1
<1>3. PICK x \in T : \A k \in T : x <= k
  <2> HIDE DEF T
  <2>1. QED
    BY <1>2, LeastElement
<1>4. PICK r \in Loading : x = MaxLoads - r.id
  OBVIOUS
<1>5. ASSUME NEW q \in Loading PROVE q.id <= r.id
  <2>1. MaxLoads - q.id \in T
    BY <1>1
  <2>2. MaxLoads - r.id <= MaxLoads - q.id
    BY <1>3, <1>4, <2>1
  <2>3. QED
    BY <1>1, <2>2
<1>6. Innermost \in Loading
  BY <1>5, Zenon DEF Innermost
<1>7. QED
  BY <1>1, <1>6

\* Whatever changes the state of records keeps the names and the places of them.
Kept(t, u) == \A r \in u : \E q \in t : q.id = r.id /\ q.name = r.name /\ q.by = r.by

\* A step of the loader adds one record, or keeps what there is and removes some.
LEMMA LoaderSteps ==
    ASSUME TypeOK, NEW n, NEW m,
           \/ m \in Roots /\ ImportRoot(m)
           \/ n \in Asked /\ Import(n)
           \/ LoadEnds \/ LoadFails \/ RootEvaluated \/ RootFails
    PROVE  /\ UNCHANGED commonJS
           /\ table' \subseteq Records /\ loads' \in 0 .. MaxLoads
           /\ \/ m \in Roots /\ Added(m, "execute")
              \/ LET name == ConvertModuleName(Innermost.name, n)
                 IN  /\ n \in Asked /\ Loading # {} /\ name # Failed
                     /\ Added(name, "import") /\ \A r \in table : r.name # name
              \/ loads' = loads /\ Kept(table, table')
<1>0. loads \in 0 .. MaxLoads /\ table \subseteq Records /\ MaxLoads \in Nat
  BY ModulesAssumption DEF TypeOK, ModulesAssumption
<1>1. ASSUME NEW name \in ModuleName, NEW by \in {"execute", "import"}, Added(name, by)
      PROVE  table' \subseteq Records /\ loads' \in 0 .. MaxLoads
  <2>1. loads + 1 \in 1 .. MaxLoads /\ loads' = loads + 1
    BY <1>0, <1>1 DEF Added
  <2>2. QED
    BY <1>0, <1>1, <2>1 DEF Added, Records
<1>2. ASSUME NEW S \in SUBSET table, NEW state \in {"loading", "loaded", "evaluated"}
      PROVE  /\ {[r EXCEPT !.state = state] : r \in S} \subseteq Records
             /\ Kept(table, {[r EXCEPT !.state = state] : r \in S})
  <2>1. ASSUME NEW r \in S
        PROVE  /\ r \in table /\ [r EXCEPT !.state = state] \in Records
               /\ [r EXCEPT !.state = state].id = r.id
               /\ [r EXCEPT !.state = state].name = r.name
               /\ [r EXCEPT !.state = state].by = r.by
    BY <1>0, <1>2 DEF Records
  <2>2. QED
    BY <2>1 DEF Kept
<1>3. Kept(table, table)
  BY DEF Kept
<1>4. \A t, u : Kept(table, t) /\ Kept(table, u) => Kept(table, t \union u)
  BY DEF Kept
<1>5. \A t \in SUBSET table : Kept(table, t)
  BY DEF Kept
<1>6. CASE m \in Roots /\ ImportRoot(m)
  <2>1. m \in ModuleName
    BY <1>6, ModulesAssumption DEF ModulesAssumption
  <2>2. QED
    BY <1>1, <1>6, <2>1 DEF ImportRoot
<1>7. CASE n \in Asked /\ Import(n)
  <2> DEFINE name == ConvertModuleName(Innermost.name, n)
  <2>1. name \in ModuleName \union {Failed}
    <3>1. Innermost.name \in ModuleName
      BY <1>7, InnermostIs DEF Import, Records
    <3>2. n \in ModuleName
      BY <1>7, ModulesAssumption DEF ModulesAssumption
    <3>3. QED
      BY <3>1, <3>2, ConvertTypes
  <2>2. /\ Loading # {} /\ name # Failed /\ UNCHANGED commonJS
        /\ \/ UNCHANGED es6
           \/ Added(name, "import") /\ \A r \in table : r.name # name
    BY <1>7, Zenon DEF Import
  <2> HIDE DEF name
  <2>3. CASE UNCHANGED es6
    BY <1>0, <1>3, <2>2, <2>3 DEF es6
  <2>4. CASE Added(name, "import") /\ \A r \in table : r.name # name
    <3>1. table' \subseteq Records /\ loads' \in 0 .. MaxLoads
      BY <1>1, <2>1, <2>2, <2>4
    <3>2. QED
      BY <1>7, <2>2, <2>4, <3>1, Zenon DEF name
  <2>5. QED
    BY <2>2, <2>3, <2>4
<1>8. CASE LoadEnds
  <2> DEFINE i == Innermost
             e == [i EXCEPT !.state = "loaded"]
  <2>1. i \in table /\ {i} \in SUBSET table
    BY <1>8, InnermostIs DEF LoadEnds
  <2>2. {[r EXCEPT !.state = "loaded"] : r \in {i}} \subseteq Records
        /\ Kept(table, {[r EXCEPT !.state = "loaded"] : r \in {i}})
    BY <1>2, <2>1
  <2>3. {[r EXCEPT !.state = "loaded"] : r \in {i}} = {e}
    OBVIOUS
  <2>4. table' = (table \ {i}) \union {e} /\ loads' = loads /\ UNCHANGED commonJS
    BY <1>8 DEF LoadEnds
  <2> HIDE DEF i, e
  <2>5. Kept(table, table') /\ table' \subseteq Records
    BY <1>0, <1>4, <1>5, <2>2, <2>3, <2>4
  <2>6. QED
    BY <1>0, <2>4, <2>5
<1>9. CASE LoadFails
  <2>1. table' \in SUBSET table /\ loads' = loads /\ UNCHANGED commonJS
    BY <1>9 DEF LoadFails
  <2>2. QED
    BY <1>0, <1>5, <2>1
<1>10. CASE RootEvaluated \/ RootFails
  <2>1. PICK S \in SUBSET table, t \in SUBSET table : table' = t \union Evaluated(S)
    <3>1. \E S \in SUBSET Pending, t \in SUBSET table : table' = t \union Evaluated(S)
      <4>1. /\ table \ Pending \in SUBSET table
            /\ \A S : table \ S \in SUBSET table
        OBVIOUS
      <4>2. QED
        BY <1>10, <4>1, Zenon DEF RootEvaluated, RootFails
    <3>2. Pending \subseteq table
      BY DEF Pending
    <3>3. QED
      BY <3>1, <3>2
  <2>2. Evaluated(S) \subseteq Records /\ Kept(table, Evaluated(S))
    BY <1>2 DEF Evaluated
  <2>3. Kept(table, table') /\ table' \subseteq Records
    BY <1>0, <1>4, <1>5, <2>1, <2>2
  <2>4. loads' = loads /\ UNCHANGED commonJS
    BY <1>10 DEF RootEvaluated, RootFails
  <2>5. QED
    BY <1>0, <2>3, <2>4
<1>11. QED
  BY <1>6, <1>7, <1>8, <1>9, <1>10

\* Next, as the lemmas on its parts have it
LEMMA NextIs ==
    ASSUME [Next]_vars
    PROVE  \/ \E b, p : \/ /\ b \in Bases /\ p \in Asked
                           /\ RequireCached(b, p) \/ RequireStarts(b, p) \/ RequireFails(b, p)
                        \/ p \in Asked /\ ExecuteModule(p)
                        \/ ScriptThrows \/ Finish \/ FinishFails \/ Close
           \/ \E n, m : \/ m \in Roots /\ ImportRoot(m)
                        \/ n \in Asked /\ Import(n)
                        \/ LoadEnds \/ LoadFails \/ RootEvaluated \/ RootFails
           \/ UNCHANGED vars
  BY Zenon DEF Next

LEMMA TypeNext == TypeOK /\ [Next]_vars => TypeOK'
<1> SUFFICES ASSUME TypeOK, [Next]_vars PROVE TypeOK'
  OBVIOUS
<1>1. ASSUME NEW b, NEW p,
             \/ /\ b \in Bases /\ p \in Asked
                /\ RequireCached(b, p) \/ RequireStarts(b, p) \/ RequireFails(b, p)
             \/ p \in Asked /\ ExecuteModule(p)
             \/ ScriptThrows \/ Finish \/ FinishFails \/ Close
      PROVE  TypeOK'
  BY <1>1, TypeCommonJS, Zenon
<1>2. ASSUME NEW n, NEW m,
             \/ m \in Roots /\ ImportRoot(m)
             \/ n \in Asked /\ Import(n)
             \/ LoadEnds \/ LoadFails \/ RootEvaluated \/ RootFails
      PROVE  TypeOK'
  <2>1. UNCHANGED commonJS /\ table' \subseteq Records /\ loads' \in 0 .. MaxLoads
    BY <1>2, LoaderSteps, Zenon
  <2>2. QED
    BY <2>1 DEF TypeOK, commonJS
<1>3. CASE UNCHANGED vars
  BY <1>3 DEF vars, TypeOK
<1>4. QED
  BY <1>1, <1>2, <1>3, NextIs, Zenon

-----------------------------------------------------------------------------
(* Complete modules only *)

\* CompleteOnly is not inductive: the number of an evaluation that ends, and is complete
\* then, must not be that of another one that is still under way, nor one still to come.
RunsInv ==
    /\ \A i \in 1 .. Len(stack) : stack[i].run <= runs
    /\ \A i, j \in 1 .. Len(stack) : stack[i].run = stack[j].run => i = j
    /\ \A c \in complete : c.run <= runs /\ \A i \in 1 .. Len(stack) : c.run # stack[i].run
    /\ given # 0 => \E c \in complete : c.run = given
    /\ \A k \in DOMAIN modules : [run |-> modules[k], name |-> k] \in complete

LEMMA RunsInit == Init => RunsInv
  BY DEF Init, RunsInv

\* A step that ends or starts no evaluation, but for those that fail.
LEMMA RunsFrame ==
    ASSUME TypeOK, RunsInv, runs' = runs, complete' = complete, Len(stack') \in 0 .. Len(stack),
           \A i \in 1 .. Len(stack') : stack'[i].run = stack[i].run,
           given' \in {given, 0} \/ \E k \in DOMAIN modules : given' = modules[k],
           \A k \in DOMAIN modules' : k \in DOMAIN modules /\ modules'[k] = modules[k]
    PROVE  RunsInv'
<1>0. Len(stack) \in Nat /\ \A i \in 1 .. Len(stack') : i \in 1 .. Len(stack)
  BY DEF TypeOK
<1>1. /\ \A i \in 1 .. Len(stack') : stack'[i].run <= runs'
      /\ \A i, j \in 1 .. Len(stack') : stack'[i].run = stack'[j].run => i = j
      /\ \A c \in complete' : c.run <= runs' /\ \A i \in 1 .. Len(stack') : c.run # stack'[i].run
  BY <1>0 DEF RunsInv
<1>2. ASSUME given' # 0 PROVE \E c \in complete' : c.run = given'
  <2>1. CASE given' = given
    BY <1>2, <2>1 DEF RunsInv
  <2>2. CASE \E k \in DOMAIN modules : given' = modules[k]
    <3>1. PICK k \in DOMAIN modules : given' = modules[k]
      BY <2>2
    <3>2. [run |-> modules[k], name |-> k] \in complete
      BY DEF RunsInv
    <3>3. QED
      BY <3>1, <3>2
  <2>3. QED
    BY <1>2, <2>1, <2>2
<1>3. \A k \in DOMAIN modules' : [run |-> modules'[k], name |-> k] \in complete'
  BY DEF RunsInv
<1>4. QED
  BY <1>1, <1>2, <1>3 DEF RunsInv

\* The start of an evaluation
LEMMA RunsStart ==
    ASSUME TypeOK, RunsInv, NEW p \in Asked, NEW name, name # Failed => name \in ModuleName,
           NEW by \in {"require", "execute"}, Starts(p, name, by),
           UNCHANGED <<modules, complete, given>>
    PROVE  RunsInv'
<1>0. stack \in Seq(Frames) /\ Len(stack) \in Nat /\ runs \in Nat
  BY ModulesAssumption DEF TypeOK, ModulesAssumption
<1>1. /\ runs' = runs + 1 /\ Len(stack') = Len(stack) + 1
      /\ \A i \in 1 .. Len(stack) : stack'[i] = stack[i]
      /\ stack'[Len(stack) + 1].run = runs + 1
  BY StartsTypes
<1>2. \A i \in 1 .. Len(stack) : stack[i].run <= runs /\ stack[i].run \in Nat
  <2>1. \A i \in 1 .. Len(stack) : stack[i] \in Frames
    BY <1>0
  <2>2. QED
    BY <2>1 DEF RunsInv, Frames
<1>3. \A c \in complete : c.run <= runs /\ c.run \in Nat
  BY DEF RunsInv, TypeOK
<1>4. \A i \in 1 .. Len(stack') : \/ i \in 1 .. Len(stack) /\ stack'[i].run = stack[i].run
                                  \/ i = Len(stack) + 1 /\ stack'[i].run = runs + 1
  BY <1>0, <1>1
<1>5. \A i \in 1 .. Len(stack') : stack'[i].run <= runs'
  BY <1>0, <1>1, <1>2, <1>4
<1>6. ASSUME NEW i \in 1 .. Len(stack'), NEW j \in 1 .. Len(stack'), stack'[i].run = stack'[j].run
      PROVE  i = j
  <2>1. \A k \in 1 .. Len(stack) : stack[k].run < runs + 1
    BY <1>0, <1>2
  <2>2. \A k, l \in 1 .. Len(stack) : stack[k].run = stack[l].run => k = l
    BY DEF RunsInv
  <2>3. QED
    BY <1>0, <1>2, <1>4, <1>6, <2>1, <2>2, SMTT(30)
<1>7. ASSUME NEW c \in complete PROVE c.run <= runs' /\ \A i \in 1 .. Len(stack') : c.run # stack'[i].run
  <2>1. \A i \in 1 .. Len(stack) : c.run # stack[i].run
    BY DEF RunsInv
  <2>2. QED
    BY <1>0, <1>1, <1>3, <1>4, <2>1
<1>8. /\ given' # 0 => \E c \in complete' : c.run = given'
      /\ \A k \in DOMAIN modules' : [run |-> modules'[k], name |-> k] \in complete'
  BY DEF RunsInv
<1>9. QED
  BY <1>5, <1>6, <1>7, <1>8 DEF RunsInv

\* The end of an evaluation without an exception
LEMMA RunsFinish == ASSUME TypeOK, RunsInv, Finish PROVE RunsInv'
<1> DEFINE f == Last(stack)
           c == [run |-> f.run, name |-> f.name]
<1>1. /\ Len(stack) \in Nat \ {0} /\ Len(stack) \in 1 .. Len(stack)
      /\ f = stack[Len(stack)] /\ f \in Frames
      /\ stack' = Front(stack) /\ Len(stack') = Len(stack) - 1
      /\ \A i \in 1 .. Len(stack) - 1 : i \in 1 .. Len(stack) /\ stack'[i] = stack[i]
  BY FrontLast DEF Finish, TypeOK
<1>2. /\ given' = f.run /\ runs' = runs /\ complete' = complete \union {c}
      /\ modules' = Stored(f)
  BY DEF Finish
<1> HIDE DEF f
<1>3. c.run = f.run /\ f.run <= runs
  BY <1>1 DEF RunsInv
<1>4. \A i \in 1 .. Len(stack) - 1 : f.run # stack[i].run
  BY <1>1 DEF RunsInv
<1>5. /\ \A i \in 1 .. Len(stack') : stack'[i].run <= runs'
      /\ \A i, j \in 1 .. Len(stack') : stack'[i].run = stack'[j].run => i = j
  <2>1. \A i \in 1 .. Len(stack') : i \in 1 .. Len(stack) /\ stack'[i] = stack[i]
    BY <1>1
  <2>2. /\ \A i \in 1 .. Len(stack) : stack[i].run <= runs
        /\ \A i, j \in 1 .. Len(stack) : stack[i].run = stack[j].run => i = j
    BY DEF RunsInv
  <2>3. QED
    BY <1>2, <2>1, <2>2
<1>6. \A d \in complete' : d.run <= runs' /\ \A i \in 1 .. Len(stack') : d.run # stack'[i].run
  BY <1>1, <1>2, <1>3, <1>4 DEF RunsInv
<1>7. \E d \in complete' : d.run = given'
  BY <1>2, <1>3
<1>8. ASSUME NEW k \in DOMAIN modules' PROVE [run |-> modules'[k], name |-> k] \in complete'
  <2>1. \/ k = f.name /\ modules'[k] = f.run
        \/ k \in DOMAIN modules /\ modules'[k] = modules[k]
    BY <1>2 DEF Stored
  <2>2. QED
    BY <1>2, <2>1 DEF RunsInv
<1>9. QED
  BY <1>5, <1>6, <1>7, <1>8 DEF RunsInv

LEMMA RunsNext == TypeOK /\ RunsInv /\ [Next]_vars => RunsInv'
<1> SUFFICES ASSUME TypeOK, RunsInv, [Next]_vars PROVE RunsInv'
  OBVIOUS
<1>0. Len(stack) \in Nat /\ Len(stack) \in 0 .. Len(stack) /\ stack \in Seq(Frames)
  BY DEF TypeOK
<1>1. ASSUME NEW b \in Bases, NEW p \in Asked, RequireCached(b, p) PROVE RunsInv'
  <2>1. p \in DOMAIN modules /\ given' = modules[p]
    BY <1>1 DEF RequireCached, Cached
  <2>2. QED
    BY <1>0, <1>1, <2>1, RunsFrame DEF RequireCached
<1>2. ASSUME NEW b \in Bases, NEW p \in Asked, RequireStarts(b, p) PROVE RunsInv'
  <2> DEFINE name == ConvertModuleName(b, p)
  <2>1. name # Failed => name \in ModuleName
    BY BasesTypes
  <2>2. Starts(p, name, "require") /\ UNCHANGED <<modules, complete, given>>
    BY <1>2 DEF RequireStarts
  <2> HIDE DEF name
  <2>3. QED
    BY <2>1, <2>2, RunsStart
<1>3. ASSUME NEW p \in Asked, ExecuteModule(p) PROVE RunsInv'
  <2>1. p \in ModuleName
    BY ModulesAssumption DEF ModulesAssumption
  <2>2. Starts(p, p, "execute") /\ UNCHANGED <<modules, complete, given>>
    BY <1>3 DEF ExecuteModule
  <2>3. QED
    BY <2>1, <2>2, RunsStart
<1>4. ASSUME NEW b \in Bases, NEW p \in Asked, RequireFails(b, p) PROVE RunsInv'
  <2>1. Len(stack') = Len(stack) /\ \A i \in 1 .. Len(stack) : stack'[i].run = stack[i].run
    BY <1>0, <1>4, TopFailedRuns DEF RequireFails
  <2>2. QED
    BY <1>0, <1>4, <2>1, RunsFrame DEF RequireFails
<1>5. CASE ScriptThrows
  <2>1. Len(stack') = Len(stack) /\ \A i \in 1 .. Len(stack) : stack'[i].run = stack[i].run
    BY <1>0, <1>5, TopFailedRuns DEF ScriptThrows
  <2>2. QED
    BY <1>0, <1>5, <2>1, RunsFrame DEF ScriptThrows
<1>6. CASE Finish
  BY <1>6, RunsFinish
<1>7. CASE FinishFails
  <2>1. /\ stack # <<>> /\ Len(stack') = Len(stack) - 1
        /\ \A i \in 1 .. Len(stack) - 1 : stack'[i].run = stack[i].run
    BY <1>7, FinishFailsRuns
  <2>2. Len(stack') \in 0 .. Len(stack)
    BY <1>0, <2>1
  <2>3. QED
    BY <1>7, <2>1, <2>2, RunsFrame DEF FinishFails
<1>8. CASE Close
  BY <1>0, <1>8, RunsFrame DEF Close
<1>9. CASE UNCHANGED commonJS
  BY <1>0, <1>9, RunsFrame DEF commonJS
<1>10. ASSUME NEW n, NEW m,
              \/ m \in Roots /\ ImportRoot(m)
              \/ n \in Asked /\ Import(n)
              \/ LoadEnds \/ LoadFails \/ RootEvaluated \/ RootFails
       PROVE  RunsInv'
  BY <1>9, <1>10, LoaderSteps, Zenon
<1>11. CASE UNCHANGED vars
  BY <1>9, <1>11 DEF vars, commonJS
<1>12. QED
  BY <1>1, <1>2, <1>3, <1>4, <1>5, <1>6, <1>7, <1>8, <1>10, <1>11, NextIs, Zenon

\* However modules require one another, in cycles or with exceptions, require() hands out
\* and the map holds only modules whose script came to its end without an exception
\* (CommonJSModule.java:44-54).
THEOREM OnlyCompleteModules == Spec => []CompleteOnly
<1>1. TypeOK /\ RunsInv => CompleteOnly
  <2> SUFFICES ASSUME TypeOK, RunsInv PROVE CompleteOnly
    OBVIOUS
  <2>1. DOMAIN stack = 1 .. Len(stack)
    BY DEF TypeOK
  <2>2. \A c \in complete : c.run \notin UnderWay
    BY <2>1 DEF RunsInv, UnderWay
  <2>3. ASSUME NEW k \in DOMAIN modules PROVE modules[k] \notin UnderWay
    <3>1. [run |-> modules[k], name |-> k] \in complete
      BY DEF RunsInv
    <3>2. QED
      BY <2>2, <3>1
  <2>4. QED
    BY <2>2, <2>3 DEF RunsInv, CompleteOnly
<1>2. QED
  BY TypeInit, TypeNext, RunsInit, RunsNext, <1>1, PTL DEF Spec

-----------------------------------------------------------------------------
(* The map is used *)

\* Until close() the map knows every filename that a module carries.
MapInv == context = "CommonJS" => \A c \in complete : c.name \in DOMAIN modules

LEMMA MapInit == Init => MapInv
  BY DEF Init, MapInv

LEMMA MapNext == MapInv /\ TypeOK /\ [Next]_vars => MapInv'
<1> SUFFICES ASSUME MapInv, TypeOK, [Next]_vars PROVE MapInv'
  OBVIOUS
<1>1. CASE UNCHANGED <<context, complete, modules>>
  BY <1>1 DEF MapInv
<1>2. ASSUME NEW b \in Bases, NEW p \in Asked,
             RequireCached(b, p) \/ RequireStarts(b, p) \/ RequireFails(b, p)
      PROVE  MapInv'
  BY <1>1, <1>2 DEF RequireCached, RequireStarts, RequireFails
<1>3. ASSUME NEW p \in Asked, ExecuteModule(p) PROVE MapInv'
  BY <1>1, <1>3 DEF ExecuteModule
<1>4. CASE ScriptThrows \/ FinishFails
  BY <1>1, <1>4 DEF ScriptThrows, FinishFails
<1>5. CASE Finish
  <2> DEFINE f == Last(stack)
             c == [run |-> f.run, name |-> f.name]
  <2>1. DOMAIN modules' = DOMAIN modules \union {f.name}
    BY <1>5 DEF Finish, Stored
  <2>2. complete' = complete \union {c} /\ context' = context /\ c.name = f.name
    BY <1>5 DEF Finish
  <2> HIDE DEF f, c
  <2>3. QED
    BY <2>1, <2>2 DEF MapInv
<1>6. CASE Close
  BY <1>6 DEF Close, MapInv
<1>7. ASSUME NEW n, NEW m,
             \/ m \in Roots /\ ImportRoot(m)
             \/ n \in Asked /\ Import(n)
             \/ LoadEnds \/ LoadFails \/ RootEvaluated \/ RootFails
      PROVE  MapInv'
  <2>1. UNCHANGED commonJS
    BY <1>7, LoaderSteps, Zenon
  <2>2. QED
    BY <1>1, <2>1 DEF commonJS
<1>8. CASE UNCHANGED vars
  BY <1>1, <1>8 DEF vars
<1>9. QED
  BY <1>2, <1>3, <1>4, <1>5, <1>6, <1>7, <1>8, NextIs, Zenon

\* Until close(), a script that requires a module by the filename the module carries does
\* not evaluate it again, whatever was required and evaluated in between: every module that
\* has a filename is in the map under it (CommonJSModule.java:27, 45-52).
THEOREM EvaluatedOnceOnly == Spec => EvaluatedOnce
<1> DEFINE A == \A c \in complete : context = "CommonJS" /\ runs' # runs
                    => Last(stack').asked # c.name \/ Last(stack').by = "execute"
<1>1. TypeOK /\ MapInv /\ [Next]_vars => [A]_vars
  <2> SUFFICES ASSUME TypeOK, MapInv, [Next]_vars, NEW c \in complete, context = "CommonJS", runs' # runs
               PROVE  Last(stack').asked # c.name \/ Last(stack').by = "execute"
    OBVIOUS
  <2>1. ASSUME NEW b \in Bases, NEW q \in Asked, RequireStarts(b, q)
        PROVE  Last(stack').asked # c.name
    <3> DEFINE name == ConvertModuleName(b, q)
    <3>1. name # Failed => name \in ModuleName
      BY BasesTypes
    <3>2. Starts(q, name, "require") /\ Cached(q) = 0
      BY <2>1 DEF RequireStarts
    <3> HIDE DEF name
    <3>3. Last(stack').asked = q
      BY <3>1, <3>2, StartsTypes
    <3>4. q \notin DOMAIN modules
      BY <3>2 DEF Cached, TypeOK
    <3>5. c.name \in DOMAIN modules
      BY DEF MapInv
    <3>6. QED
      BY <3>3, <3>4, <3>5
  <2>2. ASSUME NEW q \in Asked, ExecuteModule(q) PROVE Last(stack').by = "execute"
    <3>1. q \in ModuleName
      BY ModulesAssumption DEF ModulesAssumption
    <3>2. Starts(q, q, "execute")
      BY <2>2 DEF ExecuteModule
    <3>3. QED
      BY <3>1, <3>2, StartsTypes
  <2>3. ASSUME NEW b, NEW q, RequireCached(b, q) \/ RequireFails(b, q) PROVE FALSE
    BY <2>3 DEF RequireCached, RequireFails
  <2>4. CASE ScriptThrows \/ Finish \/ FinishFails \/ Close
    BY <2>4 DEF ScriptThrows, Finish, FinishFails, Close
  <2>5. ASSUME NEW n, NEW m,
               \/ m \in Roots /\ ImportRoot(m)
               \/ n \in Asked /\ Import(n)
               \/ LoadEnds \/ LoadFails \/ RootEvaluated \/ RootFails
        PROVE  FALSE
    <3>1. UNCHANGED commonJS
      BY <2>5, LoaderSteps, Zenon
    <3>2. QED
      BY <3>1 DEF commonJS
  <2>6. CASE UNCHANGED vars
    BY <2>6 DEF vars
  <2>7. QED
    BY <2>1, <2>2, <2>3, <2>4, <2>5, <2>6, NextIs, Zenon
<1>2. QED
  BY TypeInit, TypeNext, MapInit, MapNext, <1>1, PTL DEF Spec, EvaluatedOnce

-----------------------------------------------------------------------------
(* The table of ES6 modules *)

\* ResolvesRight says nothing of the names in the table themselves: every one of them is a
\* path behind a slash or two or none.
NamesInv == \A r \in table : Tabled(r.name)

\* Nor does OneModulePerFile of the names and of the records still to come.
OrderInv ==
    /\ \A r \in table : r.id <= loads
    /\ \A r, s \in table : r.id < s.id /\ r.name = s.name => s.by = "execute"

\* A name that the application starts a module with is such a name.
LEMMA CanonicalIs ==
    ASSUME NEW n \in ModuleName, Canonical(n)
    PROVE  Tabled(n)
<1>1. n \in Segs /\ n # <<>>
  BY NameTypes
<1>2. CASE n \in Paths
  <2>1. <<>> \o n = n
    BY <1>1, ConcatEmptySeq DEF Segs
  <2>2. <<>> \in Slashes
    BY DEF Slashes
  <2>3. QED
    BY <1>2, <2>1, <2>2, Zenon DEF Tabled
<1>3. CASE IsAbsolute(n) /\ Tail(n) \in Paths
  <2>1. n = <<Head(n)>> \o Tail(n)
    BY <1>1, HeadAndTail
  <2>2. Head(n) = Blank
    BY <1>3, Zenon DEF IsAbsolute, Blank
  <2>3. <<Blank>> \in Slashes
    BY DEF Slashes
  <2>4. QED
    BY <1>3, <2>1, <2>2, <2>3, Zenon DEF Tabled
<1>4. QED
  BY <1>2, <1>3, Zenon DEF Canonical

LEMMA NamesInit == Init => NamesInv /\ OrderInv
  BY DEF Init, NamesInv, OrderInv

\* A record that has been added
LEMMA OrderAdded ==
    ASSUME TypeOK, OrderInv, NEW name, NEW by \in {"execute", "import"}, Added(name, by),
           by = "import" => \A r \in table : r.name # name
    PROVE  OrderInv'
<1> DEFINE n == [id |-> loads + 1, name |-> name, by |-> by, state |-> "loading"]
<1>1. /\ loads \in Nat /\ loads' = loads + 1 /\ table' = table \union {n}
      /\ n.id = loads + 1 /\ n.name = name /\ n.by = by
  BY ModulesAssumption DEF TypeOK, ModulesAssumption, Added
<1>2. \A r \in table : r.id \in Nat /\ r.id <= loads
  BY ModulesAssumption DEF TypeOK, Records, OrderInv, ModulesAssumption
<1> HIDE DEF n
<1>3. \A r \in table' : r.id <= loads'
  BY <1>1, <1>2
<1>4. ASSUME NEW r \in table', NEW s \in table', r.id < s.id, r.name = s.name PROVE s.by = "execute"
  <2>1. r \in table
    BY <1>1, <1>2, <1>4
  <2>2. CASE s \in table
    BY <1>4, <2>1, <2>2 DEF OrderInv
  <2>3. CASE s = n
    BY <1>1, <1>4, <2>1, <2>3
  <2>4. QED
    BY <1>1, <2>2, <2>3
<1>5. QED
  BY <1>3, <1>4 DEF OrderInv

LEMMA NamesNext ==
    ASSUME ProperNames
    PROVE  TypeOK /\ NamesInv /\ OrderInv /\ [Next]_vars => NamesInv' /\ OrderInv'
<1> SUFFICES ASSUME TypeOK, NamesInv, OrderInv, [Next]_vars PROVE NamesInv' /\ OrderInv'
  OBVIOUS
<1>1. ASSUME loads' = loads, Kept(table, table') PROVE NamesInv' /\ OrderInv'
  <2>1. NamesInv'
    BY <1>1 DEF NamesInv, Kept
  <2>2. \A r \in table' : r.id <= loads'
    BY <1>1 DEF OrderInv, Kept
  <2>3. ASSUME NEW r \in table', NEW s \in table', r.id < s.id, r.name = s.name PROVE s.by = "execute"
    <3>1. PICK q \in table : q.id = r.id /\ q.name = r.name /\ q.by = r.by
      BY <1>1 DEF Kept
    <3>2. PICK t \in table : t.id = s.id /\ t.name = s.name /\ t.by = s.by
      BY <1>1 DEF Kept
    <3>3. QED
      BY <2>3, <3>1, <3>2 DEF OrderInv
  <2>4. QED
    BY <2>1, <2>2, <2>3 DEF OrderInv
<1>2. ASSUME NEW name, Tabled(name), NEW by \in {"execute", "import"}, Added(name, by)
      PROVE  NamesInv'
  <2> DEFINE n == [id |-> loads + 1, name |-> name, by |-> by, state |-> "loading"]
  <2>1. table' = table \union {n} /\ n.name = name
    BY <1>2 DEF Added
  <2> HIDE DEF n
  <2>2. QED
    BY <1>2, <2>1, Zenon DEF NamesInv
<1>3. ASSUME NEW m \in Roots, Added(m, "execute") PROVE NamesInv' /\ OrderInv'
  <2>1. Tabled(m)
    BY CanonicalIs, ModulesAssumption DEF ProperNames, ModulesAssumption
  <2>2. OrderInv'
    BY <1>3, OrderAdded
  <2>3. QED
    BY <1>2, <1>3, <2>1, <2>2
<1>4. ASSUME NEW n \in Asked, Loading # {},
             ConvertModuleName(Innermost.name, n) # Failed,
             Added(ConvertModuleName(Innermost.name, n), "import"),
             \A r \in table : r.name # ConvertModuleName(Innermost.name, n)
      PROVE  NamesInv' /\ OrderInv'
  <2> DEFINE b    == Innermost.name
             name == ConvertModuleName(b, n)
  <2>1. n \in ModuleName \ {Empty} /\ WellFormed(n)
    BY ModulesAssumption DEF ProperNames, ModulesAssumption
  <2>2. Tabled(b)
    BY <1>4, InnermostIs DEF NamesInv
  <2> HIDE DEF b
  <2>3. name = Failed \/ Tabled(name)
    BY <2>1, <2>2, ConvertIs, Zenon
  <2>4. name # Failed /\ Added(name, "import") /\ \A r \in table : r.name # name
    BY <1>4, Zenon DEF b
  <2> HIDE DEF name
  <2>5. OrderInv'
    BY <2>4, OrderAdded
  <2>6. QED
    BY <1>2, <2>3, <2>4, <2>5
<1>5. ASSUME NEW n, NEW m,
             \/ m \in Roots /\ ImportRoot(m)
             \/ n \in Asked /\ Import(n)
             \/ LoadEnds \/ LoadFails \/ RootEvaluated \/ RootFails
      PROVE  NamesInv' /\ OrderInv'
  BY <1>1, <1>3, <1>4, <1>5, LoaderSteps, Zenon
<1>6. CASE UNCHANGED es6
  <2>1. loads' = loads /\ table' = table
    BY <1>6 DEF es6
  <2>2. QED
    BY <1>1, <2>1 DEF Kept
<1>7. ASSUME NEW b, NEW p,
             \/ RequireCached(b, p) \/ RequireStarts(b, p) \/ RequireFails(b, p)
             \/ ExecuteModule(p) \/ ScriptThrows \/ Finish \/ FinishFails \/ Close
      PROVE  NamesInv' /\ OrderInv'
  BY <1>6, <1>7, Zenon DEF RequireCached, RequireStarts, RequireFails, ExecuteModule, ScriptThrows,
                           Finish, FinishFails, Close
<1>8. CASE UNCHANGED vars
  BY <1>6, <1>8 DEF vars, es6
<1>9. QED
  BY <1>5, <1>7, <1>8, NextIs, Zenon

\* However deep the scripts and their imports are, every name in the table of ES6 modules
\* is a path behind two slashes at most, and an import adds no name that is there.
THEOREM TableOfPaths ==
    ASSUME ProperNames
    PROVE  Spec => [](NamesInv /\ OrderInv)
<1>1. TypeOK /\ NamesInv /\ OrderInv /\ [Next]_vars => NamesInv' /\ OrderInv'
  BY NamesNext
<1>2. QED
  BY <1>1, TypeInit, TypeNext, NamesInit, PTL DEF Spec

\* A script that asks for a file below the root gets that file, whatever the names that led
\* to the script: convertModuleName takes off the base what ".." and the file name take
\* (Module.java:14-68).
THEOREM NamesResolveRight ==
    ASSUME ProperNames
    PROVE  Spec => []ResolvesRight
<1>1. NamesInv => ResolvesRight
  <2> SUFFICES ASSUME NamesInv, NEW r \in table, NEW n \in Asked, ".." \notin Range(Meant(r.name, n))
               PROVE  /\ ConvertModuleName(r.name, n) # Failed
                      /\ FileOf(ConvertModuleName(r.name, n)) = Meant(r.name, n)
    BY Zenon DEF ResolvesRight
  <2>1. n \in ModuleName \ {Empty} /\ WellFormed(n) /\ Tabled(r.name)
    BY ModulesAssumption DEF ProperNames, ModulesAssumption, NamesInv
  <2>2. QED
    BY <2>1, ConvertIs, Zenon
<1>2. QED
  BY <1>1, TableOfPaths, PTL

\* An import makes no second module of a file that has one, as long as both names are
\* relative: "./", doubled slashes and ".." are gone from the name that an import is looked
\* for under, which is the path of the file (Module.java:18-21 and 44-55).
THEOREM OneModuleForAFile ==
    ASSUME ProperNames
    PROVE  Spec => []OneModulePerFile
<1>1. ASSUME NEW b, Tabled(b), ~IsAbsolute(b) PROVE FileOf(b) = b
  <2>1. PICK e \in Slashes, y \in Paths : b = e \o y
    BY <1>1 DEF Tabled
  <2>2. e = <<>>
    BY <1>1, <2>1, BaseIs
  <2>3. y \in Segs /\ y \in Seq(Plain)
    BY PathsAre
  <2>4. Walked(e \o y) = y
    BY <2>3, BaseWalks
  <2>5. <<>> \o y = y
    BY <2>3, ConcatEmptySeq
  <2>6. QED
    BY <2>1, <2>2, <2>4, <2>5, Zenon DEF FileOf
<1>2. NamesInv /\ OrderInv => OneModulePerFile
  BY <1>1, Zenon DEF NamesInv, OrderInv, OneModulePerFile
<1>3. QED
  BY <1>2, TableOfPaths, PTL
=============================================================================
