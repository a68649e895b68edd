---------------------------- MODULE PolicyGateProofs -----------------------------
(***************************************************************************)
(* Proofs about the gate's diff, for any two documents: the changes it     *)
(* counts and checks are exactly the differences. Documents may hold       *)
(* anything and be of any height up to the bound, which is any number.     *)
(*                                                                         *)
(* The calls of diff, the nodes down a pointer and the pointers of a       *)
(* document are recursive functions. That each satisfies its equation, and *)
(* what each computes, is shown by the least number for which it would     *)
(* fail.                                                                   *)
(***************************************************************************)
EXTENDS PolicyGate, SequenceTheorems, WellFoundedInduction, TLAPS

-----------------------------------------------------------------------------
\* Every set of numbers with a member has a least one.
LEMMA LeastNumber ==
  ASSUME NEW T \in SUBSET Nat, T # {}
  PROVE  \E n \in T : \A m \in T : n <= m
  <1>1. PICK n \in T : \A m \in T : ~ (<<m, n>> \in OpToRel(<, Nat))
    BY WFMin, NatLessThanWellFounded
  <1>2. ASSUME NEW m \in T PROVE n <= m
    <2>1. ~ (<<m, n>> \in {ss \in Nat \X Nat : ss[1] < ss[2]})
      BY <1>1 DEF OpToRel
    <2>2. ~ (m < n)
      BY <2>1
    <2> QED
      BY <2>2
  <1> QED
    BY <1>2

\* Induction, for a set of numbers: with 0 and every successor it has them all.
LEMMA Numbers ==
  ASSUME NEW T, NEW n \in Nat, 0 \in T, \A k \in 1 .. n : k - 1 \in T => k \in T
  PROVE  \A k \in 0 .. n : k \in T
  <1> DEFINE F == {k \in 0 .. n : k \notin T}
  <1> SUFFICES ASSUME F # {} PROVE FALSE
    OBVIOUS
  <1>1. PICK k \in F : \A j \in F : k <= j
    <2> HIDE DEF F
    <2>1. F \in SUBSET Nat
      BY DEF F
    <2> QED
      BY <2>1, LeastNumber
  <1>2. k \in 1 .. n /\ k - 1 \in 0 .. n /\ ~ (k <= k - 1)
    BY <1>1
  <1>3. k - 1 \in T
    BY <1>1, <1>2
  <1> QED
    BY <1>1, <1>2, <1>3
-----------------------------------------------------------------------------
\* p is a sequence of length d.
IsPath(p, d) == d \in Nat /\ p = [i \in 1 .. d |-> p[i]]

\* A path is a sequence of its segments, and of more.
LEMMA PathSeq ==
  ASSUME NEW p, NEW d \in Nat, IsPath(p, d), NEW S, \A i \in 1 .. d : p[i] \in S
  PROVE  p \in Seq(S) /\ Len(p) = d /\ DOMAIN p = 1 .. d
  <1>1. d \in Nat /\ p \in [1 .. d -> S]
    BY DEF IsPath
  <1>2. p \in Seq(S)
    BY <1>1, SeqDef
  <1>3. DOMAIN p = 1 .. d /\ DOMAIN p = 1 .. Len(p) /\ Len(p) \in Nat
    BY <1>1, <1>2, LenProperties
  <1> QED
    BY <1>1, <1>2, <1>3

\* A segment more.
LEMMA PathAppend ==
  ASSUME NEW p, NEW d \in Nat, IsPath(p, d), NEW s
  PROVE  /\ IsPath(Append(p, s), d + 1) /\ Append(p, s)[d + 1] = s
         /\ \A i \in 1 .. d : Append(p, s)[i] = p[i]
  <1> DEFINE S == {p[i] : i \in 1 .. d} \cup {s}
  <1>1. p \in Seq(S) /\ Len(p) = d /\ s \in S /\ d \in Nat
    BY PathSeq DEF IsPath
  <1> HIDE DEF S
  <1>2. /\ Append(p, s) \in Seq(S) /\ Len(Append(p, s)) = d + 1
        /\ Append(p, s)[d + 1] = s /\ \A i \in 1 .. d : Append(p, s)[i] = p[i]
    BY <1>1
  <1>3. Append(p, s) = [i \in 1 .. d + 1 |-> Append(p, s)[i]]
    <2>1. Append(p, s) \in [1 .. d + 1 -> S]
      BY <1>2, LenProperties
    <2> QED
      BY <2>1
  <1> QED
    BY <1>1, <1>2, <1>3 DEF IsPath

\* A segment less.
LEMMA PathSplit ==
  ASSUME NEW d \in Nat, NEW q, IsPath(q, d + 1)
  PROVE  \E p, s : IsPath(p, d) /\ q = Append(p, s)
  <1> DEFINE front == [i \in 1 .. d |-> q[i]]
  <1>1. IsPath(front, d) /\ \A i \in 1 .. d : front[i] = q[i]
    BY DEF IsPath
  <1> HIDE DEF front
  <1>2. PICK p : IsPath(p, d) /\ \A i \in 1 .. d : p[i] = q[i]
    BY <1>1
  <1>3. PICK s : s = q[d + 1]
    OBVIOUS
  <1> DEFINE r == Append(p, s)
  <1>4. IsPath(r, d + 1) /\ r[d + 1] = s /\ \A i \in 1 .. d : r[i] = p[i]
    <2>1. IsPath(p, d)
      BY <1>2
    <2> QED
      BY <2>1, PathAppend DEF IsPath
  <1> HIDE DEF r
  <1>5. \A i \in 1 .. d + 1 : r[i] = q[i]
    BY <1>2, <1>3, <1>4
  <1>6. q = [i \in 1 .. d + 1 |-> q[i]] /\ r = [i \in 1 .. d + 1 |-> r[i]]
    BY <1>4 DEF IsPath
  <1>7. q = r
    BY <1>5, <1>6
  <1> QED
    BY <1>2, <1>7 DEF r

\* The path to the document itself.
LEMMA PathEmpty ==
  /\ IsPath(<< >>, 0)
  /\ \A p : IsPath(p, 0) => p = << >>
  BY DEF IsPath

\* f is the nodes from n down the first k segments of p.
IsDescent(n, p, k, f) ==
    f = [i \in 0 .. k |-> IF i = 0 THEN n ELSE Child(f[i - 1], p[i])]

\* The nodes down a pointer exist as a function.
LEMMA DescentExists ==
  ASSUME NEW n, NEW p, NEW k \in Nat
  PROVE  \E f : IsDescent(n, p, k, f)
  <1> DEFINE T == {m \in Nat : \E f : IsDescent(n, p, m, f)}
  <1>1. 0 \in T
    <2>1. IsDescent(n, p, 0, [i \in 0 .. 0 |-> n])
      BY DEF IsDescent
    <2> QED
      BY <2>1
  <1>2. ASSUME NEW m \in 1 .. k, m - 1 \in T
        PROVE  m \in T
    <2>1. m \in Nat /\ m # 0 /\ m - 1 \in Nat
      OBVIOUS
    <2>2. PICK f : IsDescent(n, p, m - 1, f)
      BY <1>2
    <2> DEFINE g == [i \in 0 .. m |-> IF i = m THEN Child(f[m - 1], p[m]) ELSE f[i]]
    <2>3. g[m] = Child(f[m - 1], p[m]) /\ \A i \in 0 .. m - 1 : g[i] = f[i]
      BY <2>1
    <2>4. \A i \in 0 .. m - 1 : f[i] = IF i = 0 THEN n ELSE Child(f[i - 1], p[i])
      BY <2>1, <2>2 DEF IsDescent
    <2>5. g = [i \in 0 .. m |-> g[i]]
      OBVIOUS
    <2> HIDE DEF g
    <2>6. ASSUME NEW i \in 0 .. m
          PROVE  g[i] = IF i = 0 THEN n ELSE Child(g[i - 1], p[i])
      <3>1. CASE i = m
        <4>1. g[m - 1] = f[m - 1]
          BY <2>1, <2>3
        <4> QED
          BY <2>1, <2>3, <3>1, <4>1
      <3>2. CASE i # m
        <4>1. i \in 0 .. m - 1 /\ (i # 0 => i - 1 \in 0 .. m - 1)
          BY <2>1, <3>2
        <4> QED
          BY <2>3, <2>4, <4>1
      <3> QED
        BY <3>1, <3>2
    <2>7. IsDescent(n, p, m, g)
      BY <2>5, <2>6 DEF IsDescent
    <2> QED
      BY <2>1, <2>7
  <1>3. \A j \in 0 .. k : j \in T
    <2> HIDE DEF T
    <2> QED
      BY <1>1, <1>2, Numbers
  <1>4. k \in T
    BY <1>3
  <1> QED
    BY <1>4

\* Down a pointer, each node is the child of the one before.
LEMMA DescentStep ==
  ASSUME NEW n, NEW p, NEW d \in Nat, IsPath(p, d)
  PROVE  /\ Descent(n, p)[0] = n
         /\ \A i \in 1 .. d : Descent(n, p)[i] = Child(Descent(n, p)[i - 1], p[i])
         /\ At(n, p) = Descent(n, p)[d]
  <1>1. Len(p) = d /\ d \in Nat
    <2>1. \A i \in 1 .. d : p[i] \in {p[j] : j \in 1 .. d}
      OBVIOUS
    <2> QED
      BY <2>1, PathSeq DEF IsPath
  <1> DEFINE at == CHOOSE f : f = [i \in 0 .. Len(p) |->
                                     IF i = 0 THEN n ELSE Child(f[i - 1], p[i])]
  <1>2. Descent(n, p) = at
    BY DEF Descent
  <1>3. \E f : IsDescent(n, p, Len(p), f)
    BY <1>1, DescentExists
  <1>4. at = [i \in 0 .. Len(p) |-> IF i = 0 THEN n ELSE Child(at[i - 1], p[i])]
    BY <1>3 DEF IsDescent
  <1> HIDE DEF at
  <1>5. \A i \in 0 .. d : at[i] = IF i = 0 THEN n ELSE Child(at[i - 1], p[i])
    BY <1>1, <1>4
  <1>6. 0 \in 0 .. d /\ \A i \in 1 .. d : i \in 0 .. d /\ i # 0
    BY <1>1
  <1>7. at[0] = n /\ \A i \in 1 .. d : at[i] = Child(at[i - 1], p[i])
    BY <1>5, <1>6
  <1>8. At(n, p) = Descent(n, p)[d]
    BY <1>1 DEF At
  <1> QED
    BY <1>2, <1>7, <1>8

\* A segment more is a node more.
LEMMA DescentAppend ==
  ASSUME NEW n, NEW p, NEW d \in Nat, IsPath(p, d), NEW s
  PROVE  /\ \A i \in 0 .. d : Descent(n, Append(p, s))[i] = Descent(n, p)[i]
         /\ At(n, Append(p, s)) = Child(At(n, p), s)
  <1> DEFINE q == Append(p, s)
  <1>1. d \in Nat /\ IsPath(q, d + 1) /\ q[d + 1] = s /\ \A i \in 1 .. d : q[i] = p[i]
    BY PathAppend DEF IsPath
  <1> HIDE DEF q
  <1>2. /\ Descent(n, p)[0] = n
        /\ \A i \in 1 .. d : Descent(n, p)[i] = Child(Descent(n, p)[i - 1], p[i])
        /\ At(n, p) = Descent(n, p)[d]
    BY DescentStep
  <1>3. /\ Descent(n, q)[0] = n
        /\ \A i \in 1 .. d + 1 : Descent(n, q)[i] = Child(Descent(n, q)[i - 1], q[i])
        /\ At(n, q) = Descent(n, q)[d + 1]
    BY <1>1, DescentStep
  <1> DEFINE T == {i \in Nat : Descent(n, q)[i] = Descent(n, p)[i]}
  <1>4. 0 \in T
    BY <1>2, <1>3
  <1>5. ASSUME NEW i \in 1 .. d, i - 1 \in T PROVE i \in T
    <2>1. i \in 1 .. d + 1 /\ i \in Nat
      BY <1>1
    <2> QED
      BY <1>1, <1>2, <1>3, <1>5, <2>1
  <1>6. \A i \in 0 .. d : i \in T
    <2> HIDE DEF T
    <2> QED
      BY <1>1, <1>4, <1>5, Numbers
  <1>7. Descent(n, q)[d + 1] = Child(Descent(n, q)[d], s)
    <2>1. d + 1 \in 1 .. d + 1 /\ (d + 1) - 1 = d
      BY <1>1
    <2> QED
      BY <1>1, <1>3, <2>1
  <1>8. d \in 0 .. d
    BY <1>1
  <1> QED
    BY <1>2, <1>3, <1>6, <1>7, <1>8 DEF q

\* f is the pointers of n, by their length up to k.
IsLevels(n, k, f) ==
    f = [i \in 0 .. k |-> IF i = 0 THEN {<< >>} ELSE Below(n, f[i - 1])]

\* The levels of pointers exist as a function.
LEMMA LevelsExist ==
  ASSUME NEW n, NEW k \in Nat
  PROVE  \E f : IsLevels(n, k, f)
  <1> DEFINE T == {m \in Nat : \E f : IsLevels(n, m, f)}
  <1>1. 0 \in T
    <2>1. IsLevels(n, 0, [i \in 0 .. 0 |-> {<< >>}])
      BY DEF IsLevels
    <2> QED
      BY <2>1
  <1>2. ASSUME NEW m \in 1 .. k, m - 1 \in T
        PROVE  m \in T
    <2>1. m \in Nat /\ m # 0 /\ m - 1 \in Nat
      OBVIOUS
    <2>2. PICK f : IsLevels(n, m - 1, f)
      BY <1>2
    <2> DEFINE g == [i \in 0 .. m |-> IF i = m THEN Below(n, f[m - 1]) ELSE f[i]]
    <2>3. g[m] = Below(n, f[m - 1]) /\ \A i \in 0 .. m - 1 : g[i] = f[i]
      BY <2>1
    <2>4. \A i \in 0 .. m - 1 : f[i] = IF i = 0 THEN {<< >>} ELSE Below(n, f[i - 1])
      BY <2>1, <2>2 DEF IsLevels
    <2>5. g = [i \in 0 .. m |-> g[i]]
      OBVIOUS
    <2> HIDE DEF g
    <2>6. ASSUME NEW i \in 0 .. m
          PROVE  g[i] = IF i = 0 THEN {<< >>} ELSE Below(n, g[i - 1])
      <3>1. CASE i = m
        <4>1. g[m - 1] = f[m - 1]
          BY <2>1, <2>3
        <4> QED
          BY <2>1, <2>3, <3>1, <4>1
      <3>2. CASE i # m
        <4>1. i \in 0 .. m - 1 /\ (i # 0 => i - 1 \in 0 .. m - 1)
          BY <2>1, <3>2
        <4> QED
          BY <2>3, <2>4, <4>1
      <3> QED
        BY <3>1, <3>2
    <2>7. IsLevels(n, m, g)
      BY <2>5, <2>6 DEF IsLevels
    <2> QED
      BY <2>1, <2>7
  <1>3. \A j \in 0 .. k : j \in T
    <2> HIDE DEF T
    <2> QED
      BY <1>1, <1>2, Numbers
  <1>4. k \in T
    BY <1>3
  <1> QED
    BY <1>4

\* p is a pointer of n of length h: each segment is one below the node reached.
PointerPath(n, p, h) ==
    IsPath(p, h) /\ \A i \in 1 .. h : p[i] \in Segments(Descent(n, p)[i - 1])

\* A pointer goes on with a segment of its node.
LEMMA PointerAppend ==
  ASSUME NEW n, NEW p, NEW d \in Nat, IsPath(p, d), NEW s
  PROVE  PointerPath(n, Append(p, s), d + 1)
           <=> PointerPath(n, p, d) /\ s \in Segments(At(n, p))
  <1> DEFINE q == Append(p, s)
  <1>1. IsPath(q, d + 1) /\ q[d + 1] = s /\ \A i \in 1 .. d : q[i] = p[i]
    BY PathAppend DEF IsPath
  <1>2. \A i \in 0 .. d : Descent(n, q)[i] = Descent(n, p)[i]
    <2>1. /\ \A i \in 0 .. d : Descent(n, Append(p, s))[i] = Descent(n, p)[i]
          /\ At(n, Append(p, s)) = Child(At(n, p), s)
      BY DescentAppend, ZenonT(30)
    <2> QED
      BY <2>1
  <1>3. At(n, p) = Descent(n, p)[d]
    BY DescentStep
  <1> HIDE DEF q
  <1>4. d \in 0 .. d /\ d + 1 \in 1 .. d + 1 /\ (d + 1) - 1 = d
    OBVIOUS
  <1>5. \A i \in 1 .. d : i \in 1 .. d + 1 /\ i - 1 \in 0 .. d
    OBVIOUS
  <1>6. \A i \in 1 .. d + 1 : i \in 1 .. d \/ i = d + 1
    OBVIOUS
  <1>7. ASSUME PointerPath(n, q, d + 1)
        PROVE  PointerPath(n, p, d) /\ s \in Segments(At(n, p))
    <2>1. \A i \in 1 .. d + 1 : q[i] \in Segments(Descent(n, q)[i - 1])
      BY <1>7 DEF PointerPath
    <2>2. s \in Segments(At(n, p))
      BY <1>1, <1>2, <1>3, <1>4, <2>1
    <2>3. \A i \in 1 .. d : p[i] \in Segments(Descent(n, p)[i - 1])
      BY <1>1, <1>2, <1>5, <2>1
    <2> QED
      BY <2>2, <2>3 DEF PointerPath
  <1>8. ASSUME PointerPath(n, p, d), s \in Segments(At(n, p))
        PROVE  PointerPath(n, q, d + 1)
    <2>1. \A i \in 1 .. d : p[i] \in Segments(Descent(n, p)[i - 1])
      BY <1>8 DEF PointerPath
    <2>2. \A i \in 1 .. d : q[i] \in Segments(Descent(n, q)[i - 1])
      BY <1>1, <1>2, <1>5, <2>1
    <2>3. q[d + 1] \in Segments(Descent(n, q)[(d + 1) - 1])
      BY <1>1, <1>2, <1>3, <1>4, <1>8
    <2>4. \A i \in 1 .. d + 1 : q[i] \in Segments(Descent(n, q)[i - 1])
      BY <1>6, <2>2, <2>3
    <2> QED
      BY <1>1, <2>4 DEF PointerPath
  <1> QED
    BY <1>7, <1>8 DEF q

\* Below the pointers of one length are the pointers of the next.
LEMMA BelowPointers ==
  ASSUME NEW n, NEW h \in Nat, NEW ps, \A p : p \in ps <=> PointerPath(n, p, h)
  PROVE  \A p : p \in Below(n, ps) <=> PointerPath(n, p, h + 1)
  <1>1. ASSUME NEW q, q \in Below(n, ps)
        PROVE  PointerPath(n, q, h + 1)
    <2>1. PICK p \in ps : q \in {Append(p, s) : s \in Segments(At(n, p))}
      BY <1>1 DEF Below
    <2>2. PICK s \in Segments(At(n, p)) : q = Append(p, s)
      BY <2>1
    <2>3. PointerPath(n, p, h)
      BY <2>1
    <2>4. IsPath(p, h)
      BY <2>3 DEF PointerPath
    <2> QED
      BY <2>2, <2>3, <2>4, PointerAppend
  <1>2. ASSUME NEW q, PointerPath(n, q, h + 1)
        PROVE  q \in Below(n, ps)
    <2>1. IsPath(q, h + 1)
      BY <1>2 DEF PointerPath
    <2>2. PICK p, s : IsPath(p, h) /\ q = Append(p, s)
      BY <2>1, PathSplit
    <2>3. PointerPath(n, p, h) /\ s \in Segments(At(n, p))
      BY <1>2, <2>2, PointerAppend
    <2>4. p \in ps
      BY <2>3
    <2> QED
      BY <2>2, <2>3, <2>4 DEF Below
  <1> QED
    BY <1>1, <1>2

\* Pointers has the pointers of every length up to the bound, and no other.
LEMMA PointersAre ==
  ASSUME NEW n
  PROVE  \A p : p \in Pointers(n) <=> \E h \in 0 .. MaxHeight : PointerPath(n, p, h)
  <1> DEFINE level == CHOOSE f : f = [i \in 0 .. MaxHeight |->
                                        IF i = 0 THEN {<< >>} ELSE Below(n, f[i - 1])]
  <1>1. Pointers(n) = UNION {level[h] : h \in 0 .. MaxHeight}
    BY DEF Pointers
  <1>2. MaxHeight \in Nat
    BY HeightAssumption
  <1>3. \E f : IsLevels(n, MaxHeight, f)
    BY <1>2, LevelsExist
  <1>4. level = [i \in 0 .. MaxHeight |-> IF i = 0 THEN {<< >>} ELSE Below(n, level[i - 1])]
    BY <1>3 DEF IsLevels
  <1> HIDE DEF level
  <1>5. level[0] = {<< >>} /\ \A i \in 1 .. MaxHeight : level[i] = Below(n, level[i - 1])
    <2>1. \A i \in 0 .. MaxHeight : level[i] = IF i = 0 THEN {<< >>} ELSE Below(n, level[i - 1])
      BY <1>4
    <2>2. 0 \in 0 .. MaxHeight /\ \A i \in 1 .. MaxHeight : i \in 0 .. MaxHeight /\ i # 0
      BY <1>2
    <2> QED
      BY <2>1, <2>2
  <1> DEFINE T == {h \in Nat : \A p : p \in level[h] <=> PointerPath(n, p, h)}
  <1>6. 0 \in T
    <2>1. \A p : p \in level[0] <=> p = << >>
      BY <1>5
    <2>2. \A p : PointerPath(n, p, 0) <=> IsPath(p, 0)
      BY DEF PointerPath
    <2> QED
      BY <2>1, <2>2, PathEmpty
  <1>7. ASSUME NEW h \in 1 .. MaxHeight, h - 1 \in T PROVE h \in T
    <2>1. h - 1 \in Nat /\ (h - 1) + 1 = h /\ h \in Nat
      OBVIOUS
    <2>2. \A p : p \in level[h - 1] <=> PointerPath(n, p, h - 1)
      BY <1>7
    <2>3. \A p : p \in Below(n, level[h - 1]) <=> PointerPath(n, p, (h - 1) + 1)
      BY <2>1, <2>2, BelowPointers
    <2> QED
      BY <1>5, <2>1, <2>3
  <1>8. \A h \in 0 .. MaxHeight : h \in T
    <2> HIDE DEF T
    <2> QED
      BY <1>2, <1>6, <1>7, Numbers
  <1>9. \A h \in 0 .. MaxHeight : \A p : p \in level[h] <=> PointerPath(n, p, h)
    BY <1>8
  <1> QED
    BY <1>1, <1>9

\* f is the calls of diff on a and b, by their depth down to k.
IsDepths(a, b, k, f) ==
    f = [i \in 0 .. k |-> IF i = 0 THEN {Call(<< >>, a, b)} ELSE CallsOf(f[i - 1])]

\* The levels of calls exist as a function.
LEMMA DepthsExist ==
  ASSUME NEW a, NEW b, NEW k \in Nat
  PROVE  \E f : IsDepths(a, b, k, f)
  <1> DEFINE T == {m \in Nat : \E f : IsDepths(a, b, m, f)}
  <1>1. 0 \in T
    <2>1. IsDepths(a, b, 0, [i \in 0 .. 0 |-> {Call(<< >>, a, b)}])
      BY DEF IsDepths
    <2> QED
      BY <2>1
  <1>2. ASSUME NEW m \in 1 .. k, m - 1 \in T
        PROVE  m \in T
    <2>1. m \in Nat /\ m # 0 /\ m - 1 \in Nat
      OBVIOUS
    <2>2. PICK f : IsDepths(a, b, m - 1, f)
      BY <1>2
    <2> DEFINE g == [i \in 0 .. m |-> IF i = m THEN CallsOf(f[m - 1]) ELSE f[i]]
    <2>3. g[m] = CallsOf(f[m - 1]) /\ \A i \in 0 .. m - 1 : g[i] = f[i]
      BY <2>1
    <2>4. \A i \in 0 .. m - 1 : f[i] = IF i = 0 THEN {Call(<< >>, a, b)} ELSE CallsOf(f[i - 1])
      BY <2>1, <2>2 DEF IsDepths
    <2>5. g = [i \in 0 .. m |-> g[i]]
      OBVIOUS
    <2> HIDE DEF g
    <2>6. ASSUME NEW i \in 0 .. m
          PROVE  g[i] = IF i = 0 THEN {Call(<< >>, a, b)} ELSE CallsOf(g[i - 1])
      <3>1. CASE i = m
        <4>1. g[m - 1] = f[m - 1]
          BY <2>1, <2>3
        <4> QED
          BY <2>1, <2>3, <3>1, <4>1
      <3>2. CASE i # m
        <4>1. i \in 0 .. m - 1 /\ (i # 0 => i - 1 \in 0 .. m - 1)
          BY <2>1, <3>2
        <4> QED
          BY <2>3, <2>4, <4>1
      <3> QED
        BY <3>1, <3>2
    <2>7. IsDepths(a, b, m, g)
      BY <2>5, <2>6 DEF IsDepths
    <2> QED
      BY <2>1, <2>7
  <1>3. \A j \in 0 .. k : j \in T
    <2> HIDE DEF T
    <2> QED
      BY <1>1, <1>2, Numbers
  <1>4. k \in T
    BY <1>3
  <1> QED
    BY <1>4

\* diff gets to the end of p, d levels down: above it both documents have maps
\* or both have lists, and each segment is below one of them.
CallPath(a, b, p, d) ==
    /\ IsPath(p, d)
    /\ \A i \in 1 .. d :
         /\ SameShape(Descent(a, p)[i - 1], Descent(b, p)[i - 1])
         /\ p[i] \in CommonSegments(Descent(a, p)[i - 1], Descent(b, p)[i - 1])

\* c is the call of diff for what a and b hold at the end of such a path.
CallAt(a, b, p) == Call(p, At(a, p), At(b, p))
IsCall(a, b, c, d) == \E p : CallPath(a, b, p, d) /\ c = CallAt(a, b, p)

\* The path of a call goes on where both nodes are maps or both are lists.
LEMMA CallAppend ==
  ASSUME NEW a, NEW b, NEW p, NEW d \in Nat, IsPath(p, d), NEW s
  PROVE  CallPath(a, b, Append(p, s), d + 1)
           <=> /\ CallPath(a, b, p, d)
               /\ SameShape(At(a, p), At(b, p))
               /\ s \in CommonSegments(At(a, p), At(b, p))
  <1> DEFINE q == Append(p, s)
  <1>1. IsPath(q, d + 1) /\ q[d + 1] = s /\ \A i \in 1 .. d : q[i] = p[i]
    BY PathAppend DEF IsPath
  <1>2. \A i \in 0 .. d : /\ Descent(a, q)[i] = Descent(a, p)[i]
                          /\ Descent(b, q)[i] = Descent(b, p)[i]
    BY DescentAppend
  <1>3. At(a, p) = Descent(a, p)[d] /\ At(b, p) = Descent(b, p)[d]
    BY DescentStep
  <1> HIDE DEF q
  <1> DEFINE Fit(r, i) ==
               /\ SameShape(Descent(a, r)[i - 1], Descent(b, r)[i - 1])
               /\ r[i] \in CommonSegments(Descent(a, r)[i - 1], Descent(b, r)[i - 1])
             Ends == /\ SameShape(At(a, p), At(b, p))
                     /\ s \in CommonSegments(At(a, p), At(b, p))
  <1>4. d \in 0 .. d /\ d + 1 \in 1 .. d + 1 /\ (d + 1) - 1 = d
    OBVIOUS
  <1>5. \A i \in 1 .. d : i \in 1 .. d + 1 /\ i - 1 \in 0 .. d
    OBVIOUS
  <1>6. \A i \in 1 .. d + 1 : i \in 1 .. d \/ i = d + 1
    OBVIOUS
  <1>7. \A i \in 1 .. d : Fit(q, i) <=> Fit(p, i)
    BY <1>1, <1>2, <1>5
  <1>8. Fit(q, d + 1) <=> Ends
    BY <1>1, <1>2, <1>3, <1>4
  <1>9. /\ CallPath(a, b, q, d + 1) <=> \A i \in 1 .. d + 1 : Fit(q, i)
        /\ CallPath(a, b, p, d) <=> \A i \in 1 .. d : Fit(p, i)
    BY <1>1 DEF CallPath
  <1> HIDE DEF Fit, Ends
  <1>10. CallPath(a, b, q, d + 1) <=> CallPath(a, b, p, d) /\ Ends
    BY <1>4, <1>5, <1>6, <1>7, <1>8, <1>9
  <1> QED
    BY <1>10 DEF q, Ends

\* The calls made by the calls of one depth are those of the next.
LEMMA CallsOfCalls ==
  ASSUME NEW a, NEW b, NEW d \in Nat, NEW cs, \A c : c \in cs <=> IsCall(a, b, c, d)
  PROVE  \A c : c \in CallsOf(cs) <=> IsCall(a, b, c, d + 1)
  <1>0. ASSUME NEW p, NEW s, IsPath(p, d)
        PROVE  CallAt(a, b, Append(p, s))
                 = Call(Append(p, s), Child(At(a, p), s), Child(At(b, p), s))
    BY <1>0, DescentAppend DEF CallAt
  <1>a. ASSUME NEW p
        PROVE  /\ CallAt(a, b, p).path = p
               /\ CallAt(a, b, p).old = At(a, p) /\ CallAt(a, b, p).new = At(b, p)
    BY DEF CallAt, Call
  <1>1. ASSUME NEW e, e \in CallsOf(cs)
        PROVE  IsCall(a, b, e, d + 1)
    <2>1. PICK c \in cs : e \in Calls(c)
      BY <1>1 DEF CallsOf
    <2>2. PICK p : CallPath(a, b, p, d) /\ c = CallAt(a, b, p)
      BY <2>1 DEF IsCall
    <2>3. c.path = p /\ c.old = At(a, p) /\ c.new = At(b, p)
      BY <2>2, <1>a
    <2>4. PICK s \in IF SameShape(At(a, p), At(b, p))
                       THEN CommonSegments(At(a, p), At(b, p)) ELSE {} :
                 e = Call(Append(p, s), Child(At(a, p), s), Child(At(b, p), s))
      BY <2>1, <2>3 DEF Calls
    <2>5. IsPath(p, d)
      BY <2>2 DEF CallPath
    <2>6. CallPath(a, b, Append(p, s), d + 1)
      BY <2>2, <2>4, <2>5, CallAppend
    <2> QED
      BY <1>0, <2>4, <2>5, <2>6 DEF IsCall
  <1>2. ASSUME NEW e, IsCall(a, b, e, d + 1)
        PROVE  e \in CallsOf(cs)
    <2>1. PICK q : CallPath(a, b, q, d + 1) /\ e = CallAt(a, b, q)
      BY <1>2 DEF IsCall
    <2>2. IsPath(q, d + 1)
      BY <2>1 DEF CallPath
    <2>3. PICK p, s : IsPath(p, d) /\ q = Append(p, s)
      BY <2>2, PathSplit
    <2>4. /\ CallPath(a, b, p, d)
          /\ SameShape(At(a, p), At(b, p)) /\ s \in CommonSegments(At(a, p), At(b, p))
      BY <2>1, <2>3, CallAppend
    <2> DEFINE c == CallAt(a, b, p)
    <2>5. c.path = p /\ c.old = At(a, p) /\ c.new = At(b, p)
      BY <1>a
    <2>6. c \in cs
      BY <2>4 DEF IsCall
    <2> HIDE DEF c
    <2>7. e = Call(Append(c.path, s), Child(c.old, s), Child(c.new, s))
      BY <1>0, <2>1, <2>3, <2>5
    <2>8. e \in Calls(c)
      BY <2>4, <2>5, <2>7 DEF Calls
    <2> QED
      BY <2>6, <2>8 DEF CallsOf
  <1> QED
    BY <1>1, <1>2

\* The changes are the calls that meet nodes to be compared that differ.
LEMMA DiffIs ==
  ASSUME NEW a, NEW b
  PROVE  \A c : c \in diff(a, b) <=> /\ \E d \in 0 .. MaxHeight : IsCall(a, b, c, d)
                                    /\ ~ SameShape(c.old, c.new) /\ c.old # c.new
  <1> DEFINE depth == CHOOSE f : f = [i \in 0 .. MaxHeight |->
                                        IF i = 0 THEN {Call(<< >>, a, b)} ELSE CallsOf(f[i - 1])]
  <1>1. diff(a, b) = {c \in UNION {depth[d] : d \in 0 .. MaxHeight} :
                        ~ SameShape(c.old, c.new) /\ c.old # c.new}
    BY DEF diff
  <1>2. MaxHeight \in Nat
    BY HeightAssumption
  <1>3. \E f : IsDepths(a, b, MaxHeight, f)
    BY <1>2, DepthsExist
  <1>4. depth = [i \in 0 .. MaxHeight |->
                   IF i = 0 THEN {Call(<< >>, a, b)} ELSE CallsOf(depth[i - 1])]
    BY <1>3 DEF IsDepths
  <1> HIDE DEF depth
  <1>5. depth[0] = {Call(<< >>, a, b)} /\ \A i \in 1 .. MaxHeight : depth[i] = CallsOf(depth[i - 1])
    <2>1. \A i \in 0 .. MaxHeight :
            depth[i] = IF i = 0 THEN {Call(<< >>, a, b)} ELSE CallsOf(depth[i - 1])
      BY <1>4
    <2>2. 0 \in 0 .. MaxHeight /\ \A i \in 1 .. MaxHeight : i \in 0 .. MaxHeight /\ i # 0
      BY <1>2
    <2> QED
      BY <2>1, <2>2
  <1> DEFINE T == {d \in Nat : \A c : c \in depth[d] <=> IsCall(a, b, c, d)}
  <1>6. 0 \in T
    <2>1. At(a, << >>) = a /\ At(b, << >>) = b
      BY PathEmpty, DescentStep
    <2>2. Call(<< >>, a, b) = CallAt(a, b, << >>)
      BY <2>1 DEF CallAt
    <2>3. \A p : CallPath(a, b, p, 0) <=> IsPath(p, 0)
      BY DEF CallPath
    <2>4. \A p : CallPath(a, b, p, 0) <=> p = << >>
      BY <2>3, PathEmpty
    <2>5. \A c : IsCall(a, b, c, 0) <=> c = CallAt(a, b, << >>)
      BY <2>4 DEF IsCall
    <2>6. \A c : c \in depth[0] <=> c = Call(<< >>, a, b)
      BY <1>5
    <2> QED
      BY <2>2, <2>5, <2>6
  <1>7. ASSUME NEW d \in 1 .. MaxHeight, d - 1 \in T PROVE d \in T
    <2>1. d - 1 \in Nat /\ (d - 1) + 1 = d /\ d \in Nat
      OBVIOUS
    <2>2. \A c : c \in depth[d - 1] <=> IsCall(a, b, c, d - 1)
      BY <1>7
    <2>3. \A c : c \in CallsOf(depth[d - 1]) <=> IsCall(a, b, c, (d - 1) + 1)
      BY <2>1, <2>2, CallsOfCalls
    <2> QED
      BY <1>5, <2>1, <2>3
  <1>8. \A d \in 0 .. MaxHeight : d \in T
    <2> HIDE DEF T
    <2> QED
      BY <1>2, <1>6, <1>7, Numbers
  <1>9. \A d \in 0 .. MaxHeight : \A c : c \in depth[d] <=> IsCall(a, b, c, d)
    BY <1>8
  <1> QED
    BY <1>1, <1>9

\* What has no segment s has nothing below it, and nothing is neither a map
\* nor a list.
LEMMA ChildAbsent ==
  ASSUME NEW n, NEW s, s \notin Segments(n)
  PROVE  ~ IsMap(Child(n, s)) /\ ~ IsList(Child(n, s))
  <1>1. Child(n, s) = Nil
    BY DEF Child, Segments
  <1>2. ~ IsMap(Nil) /\ ~ IsList(Nil)
    BY DEF IsMap, IsList, Nil
  <1> QED
    BY <1>1, <1>2

\* Where diff gets to is a pointer of one of the two documents: above its last
\* segment the path is in both.
LEMMA CallPointer ==
  ASSUME NEW a, NEW b, NEW p, NEW d \in Nat, CallPath(a, b, p, d)
  PROVE  PointerPath(a, p, d) \/ PointerPath(b, p, d)
  <1> DEFINE DA == Descent(a, p)
             DB == Descent(b, p)
  <1>1. IsPath(p, d)
    BY DEF CallPath
  <1>2. /\ \A i \in 1 .. d : DA[i] = Child(DA[i - 1], p[i])
        /\ \A i \in 1 .. d : DB[i] = Child(DB[i - 1], p[i])
    BY <1>1, DescentStep
  <1>3. \A i \in 1 .. d : /\ SameShape(DA[i - 1], DB[i - 1])
                         /\ p[i] \in Segments(DA[i - 1]) \cup Segments(DB[i - 1])
    BY DEF CallPath, CommonSegments
  <1> HIDE DEF DA, DB
  <1>4. ASSUME NEW i \in 1 .. d, i # d
        PROVE  p[i] \in Segments(DA[i - 1]) /\ p[i] \in Segments(DB[i - 1])
    <2>1. i + 1 \in 1 .. d /\ (i + 1) - 1 = i
      BY <1>4
    <2>2. SameShape(DA[i], DB[i])
      BY <1>3, <2>1
    <2>3. /\ IsMap(DA[i]) \/ IsList(DA[i])
          /\ IsMap(DB[i]) \/ IsList(DB[i])
      BY <2>2 DEF SameShape
    <2> QED
      BY <1>2, <2>3, ChildAbsent
  <1>5. \/ \A i \in 1 .. d : p[i] \in Segments(DA[i - 1])
        \/ \A i \in 1 .. d : p[i] \in Segments(DB[i - 1])
    <2>1. CASE d = 0
      BY <2>1
    <2>2. CASE d # 0
      <3>1. d \in 1 .. d
        BY <2>2
      <3>2. CASE p[d] \in Segments(DA[d - 1])
        BY <1>4, <3>2
      <3>3. CASE p[d] \in Segments(DB[d - 1])
        BY <1>4, <3>3
      <3> QED
        BY <1>3, <3>1, <3>2, <3>3
    <2> QED
      BY <2>1, <2>2
  <1> QED
    BY <1>1, <1>5 DEF PointerPath, DA, DB

\* Where both documents are maps or both are lists all the way down a pointer
\* of either, diff gets to its end.
LEMMA PointerCall ==
  ASSUME NEW a, NEW b, NEW p, NEW d \in Nat,
         PointerPath(a, p, d) \/ PointerPath(b, p, d),
         \A i \in 0 .. d - 1 : SameShape(Descent(a, p)[i], Descent(b, p)[i])
  PROVE  CallPath(a, b, p, d)
  <1>1. IsPath(p, d)
    BY DEF PointerPath
  <1>2. \A i \in 1 .. d : i - 1 \in 0 .. d - 1
    OBVIOUS
  <1>3. \A i \in 1 .. d : p[i] \in CommonSegments(Descent(a, p)[i - 1], Descent(b, p)[i - 1])
    BY DEF PointerPath, CommonSegments
  <1> QED
    BY <1>1, <1>2, <1>3 DEF CallPath

\* The changes diff finds between any two documents are their differences, each
\* with what the two hold there.
LEMMA DiffExact ==
  ASSUME NEW a, NEW b
  PROVE  /\ {c.path : c \in diff(a, b)} = Differences(a, b)
         /\ \A c \in diff(a, b) : c.old = At(a, c.path) /\ c.new = At(b, c.path)
  <1>0. MaxHeight \in Nat
    BY HeightAssumption
  <1>a. ASSUME NEW p
        PROVE  /\ CallAt(a, b, p).path = p
               /\ CallAt(a, b, p).old = At(a, p) /\ CallAt(a, b, p).new = At(b, p)
    BY DEF CallAt, Call
  <1>b. ASSUME NEW p, NEW d \in Nat, IsPath(p, d) PROVE Len(p) = d
    <2>1. \A i \in 1 .. d : p[i] \in {p[j] : j \in 1 .. d}
      OBVIOUS
    <2> QED
      BY <1>b, <2>1, PathSeq
  <1>1. ASSUME NEW c \in diff(a, b)
        PROVE  \E p : /\ c = CallAt(a, b, p) /\ p \in Differences(a, b)
    <2>1. /\ ~ SameShape(c.old, c.new) /\ c.old # c.new
          /\ \E d \in 0 .. MaxHeight : IsCall(a, b, c, d)
      BY DiffIs
    <2>2. PICK d \in 0 .. MaxHeight : IsCall(a, b, c, d)
      BY <2>1
    <2>3. PICK p : CallPath(a, b, p, d) /\ c = CallAt(a, b, p)
      BY <2>2 DEF IsCall
    <2>4. d \in Nat /\ IsPath(p, d)
      BY <1>0, <2>3 DEF CallPath
    <2>5. p \in Pointers(a) \cup Pointers(b)
      <3>1. PointerPath(a, p, d) \/ PointerPath(b, p, d)
        BY <2>3, <2>4, CallPointer
      <3> QED
        BY <2>2, <3>1, PointersAre
    <2>6. At(a, p) # At(b, p) /\ ~ SameShape(At(a, p), At(b, p))
      BY <1>a, <2>1, <2>3
    <2>7. ASSUME NEW i \in 0 .. Len(p) - 1
          PROVE  SameShape(Descent(a, p)[i], Descent(b, p)[i])
      <3>1. i + 1 \in 1 .. d /\ (i + 1) - 1 = i
        BY <1>b, <2>4
      <3>2. \A j \in 1 .. d : SameShape(Descent(a, p)[j - 1], Descent(b, p)[j - 1])
        BY <2>3 DEF CallPath
      <3> QED
        BY <3>1, <3>2
    <2>8. p \in Differences(a, b)
      BY <2>5, <2>6, <2>7 DEF Differences
    <2> QED
      BY <2>3, <2>8
  <1>2. ASSUME NEW p \in Differences(a, b)
        PROVE  CallAt(a, b, p) \in diff(a, b)
    <2>1. /\ p \in Pointers(a) \cup Pointers(b)
          /\ At(a, p) # At(b, p) /\ ~ SameShape(At(a, p), At(b, p))
          /\ \A i \in 0 .. Len(p) - 1 : SameShape(Descent(a, p)[i], Descent(b, p)[i])
      BY DEF Differences
    <2>2. PICK d \in 0 .. MaxHeight : PointerPath(a, p, d) \/ PointerPath(b, p, d)
      BY <2>1, PointersAre
    <2>3. d \in Nat /\ IsPath(p, d)
      BY <1>0, <2>2 DEF PointerPath
    <2>4. CallPath(a, b, p, d)
      <3>1. Len(p) = d
        BY <1>b, <2>3
      <3>2. \A i \in 0 .. d - 1 : SameShape(Descent(a, p)[i], Descent(b, p)[i])
        BY <2>1, <3>1
      <3> QED
        BY <2>2, <2>3, <3>2, PointerCall
    <2>5. IsCall(a, b, CallAt(a, b, p), d)
      BY <2>4 DEF IsCall
    <2>6. /\ ~ SameShape(CallAt(a, b, p).old, CallAt(a, b, p).new)
          /\ CallAt(a, b, p).old # CallAt(a, b, p).new
      BY <1>a, <2>1
    <2> QED
      BY <2>2, <2>5, <2>6, DiffIs
  <1>3. ASSUME NEW c \in diff(a, b)
        PROVE  c.path \in Differences(a, b) /\ c.old = At(a, c.path) /\ c.new = At(b, c.path)
    BY <1>1, <1>a
  <1>4. \A p \in Differences(a, b) : p \in {c.path : c \in diff(a, b)}
    BY <1>2, <1>a
  <1>5. \A p : p \in {c.path : c \in diff(a, b)} => p \in Differences(a, b)
    BY <1>3
  <1>6. {c.path : c \in diff(a, b)} = Differences(a, b)
    BY <1>4, <1>5
  <1> QED
    BY <1>3, <1>6

\* In every state, whatever the backend has answered and others have made of
\* the object, the changes the gate counts and checks (gate.go, diff) are the
\* differences between object and proposal, all of them.
THEOREM GateSeesAll == Spec => []DiffIsExact
  <1>1. DiffIsExact
    BY DiffExact DEF DiffIsExact, changesOf
  <1> QED
    BY <1>1, PTL
================================================================================
