---------------------------- MODULE EligibilityProofs ----------------------------
(***************************************************************************)
(* Proofs about Eligibility, for any objects, owner references (cycles     *)
(* too), selectors, findings and bound of the walk: type correctness, that *)
(* a finding about a Pod is resolved to the nearest owner that is enabled, *)
(* and that the Mutations made are for the objects so found.               *)
(*                                                                         *)
(* The chain of owners is a recursive function. That it satisfies its      *)
(* equation, and that it does not go on once it has ended, is shown by the *)
(* least number for which it would fail.                                   *)
(***************************************************************************)
EXTENDS Eligibility, WellFoundedInduction, TLAPS

\* The step's own state makes sense: at work it has the list, on a walk or
\* about to read it has an object, and what it will create is eligible.
StepOK(c) ==
    /\ c \in CalcRec
    /\ c.pc = "next" => c.depth = 0
    /\ c.pc \in {"walk", "read"} => c.item \in Finding /\ c.cur \in Object
    /\ c.pc = "walk" => resultTarget(c.resources, c.item) # {}
    /\ c.pc # "idle" => c.list \in [Finding -> ResultRec]
    /\ c.left \subseteq DOMAIN c.eligible
    /\ \A x \in c.owned : x[2] \in DOMAIN c.eligible

\* The object of a walk.
Start(c) == CHOOSE t \in resultTarget(c.resources, c.item) : TRUE

\* None of the first n owners of o is enabled.
NoneEnabled(objs, selectors, o, n) ==
    \A i \in 1 .. n : /\ Ancestor(objs, o, i) # None
                     /\ ~ Enabled(selectors, Gvk[Ancestor(objs, o, i)])

\* The walk from Pod o is depth owners up the chain and found none enabled.
WalkOK(objs, c) ==
    /\ Gvk[Start(c)] = Pod
    /\ c.cur = Ancestor(objs, Start(c), c.depth)
    /\ NoneEnabled(objs, c.resources, Start(c), c.depth)

\* Object o is the one that finding f is to be remediated on.
Right(objs, selectors, f, o) ==
    o \in Subject(objs, selectors, f) /\ Enabled(selectors, Gvk[o])

\* What the step has found, and is about to find, is right for objects objs.
FoundOK(objs, c) ==
    /\ c.pc = "walk" => WalkOK(objs, c)
    /\ c.pc = "read" => Right(objs, c.resources, c.item, c.cur)
    /\ \A i \in DOMAIN c.eligible :
         LET e == c.eligible[i] IN
         Right(objs, c.resources, e.finding, e.object) /\ e.uid = objs[e.object].uid

IInv == TypeOK /\ StepOK(calc) /\ (quiet => FoundOK(object, calc))

-----------------------------------------------------------------------------
\* Every set of numbers with a member has a least one.
LEMMA LeastNumber ==
  ASSUME NEW T \in SUBSET Nat, T # {}
  PROVE  \E n \in T : \A m \in T : n <= m
  <1>1. PICK n \in T : \A m \in T : ~ (<<m, n>> \in OpToRel(<, Nat))
    BY WFMin, NatLessThanWellFounded
  <1>2. ASSUME NEW m \in T PROVE n <= m
    <2>1. ~ (<<m, n>> \in {ss \in Nat \X Nat : ss[1] < ss[2]})
      BY <1>1 DEF OpToRel
    <2>2. ~ (m < n)
      BY <2>1
    <2> QED
      BY <2>2
  <1> QED
    BY <1>2

\* f is the first n + 1 of the chain of controllers from o.
IsChain(objs, o, n, f) ==
    f = [i \in 0 .. n |-> IF i = 0 THEN o ELSE ControllerOf(objs, f[i - 1])]

\* The first n + 1 of the chain of controllers exist as a function.
LEMMA ChainExists ==
  ASSUME NEW objs, NEW o, NEW n \in Nat
  PROVE  \E f : IsChain(objs, o, n, f)
  <1> DEFINE T == {m \in Nat : ~ \E f : IsChain(objs, o, m, f)}
  <1> SUFFICES ASSUME T # {} PROVE FALSE
    OBVIOUS
  <1>1. PICK m \in T : \A k \in T : m <= k
    <2> HIDE DEF T
    <2>1. T \in SUBSET Nat
      BY DEF T
    <2> QED
      BY <2>1, LeastNumber
  <1>2. m # 0
    <2>1. IsChain(objs, o, 0, [i \in 0 .. 0 |-> o])
      BY DEF IsChain
    <2> QED
      BY <2>1, <1>1
  <1>3. m - 1 \in Nat /\ m \in Nat
    BY <1>1, <1>2
  <1>4. PICK f : IsChain(objs, o, m - 1, f)
    <2>1. m - 1 \notin T
      BY <1>1, <1>3
    <2> QED
      BY <1>3, <2>1
  <1> DEFINE g == [i \in 0 .. m |-> IF i = m THEN ControllerOf(objs, f[m - 1]) ELSE f[i]]
  <1>5. g[m] = ControllerOf(objs, f[m - 1]) /\ \A i \in 0 .. m - 1 : g[i] = f[i]
    BY <1>3
  <1>6. \A i \in 0 .. m - 1 : f[i] = IF i = 0 THEN o ELSE ControllerOf(objs, f[i - 1])
    BY <1>3, <1>4 DEF IsChain
  <1>7. ASSUME NEW i \in 0 .. m
        PROVE  g[i] = IF i = 0 THEN o ELSE ControllerOf(objs, g[i - 1])
    <2>1. CASE i = m
      <3>1. m - 1 \in 0 .. m - 1
        BY <1>3
      <3>2. g[m - 1] = f[m - 1]
        BY <1>5, <3>1
      <3> QED
        BY <1>2, <1>5, <2>1, <3>2
    <2>2. CASE i # m
      <3>1. i \in 0 .. m - 1 /\ (i # 0 => i - 1 \in 0 .. m - 1)
        BY <1>3, <2>2
      <3> HIDE DEF g
      <3> QED
        BY <1>5, <1>6, <3>1
    <2> QED
      BY <2>1, <2>2
  <1>8. IsChain(objs, o, m, g)
    <2>1. g = [i \in 0 .. m |-> g[i]]
      OBVIOUS
    <2> HIDE DEF g
    <2> QED
      BY <1>7, <2>1 DEF IsChain
  <1> QED
    BY <1>1, <1>8

\* The chain starts at the object and goes on to the controller.
LEMMA AncestorStep ==
  ASSUME NEW objs, NEW o
  PROVE  /\ Ancestor(objs, o, 0) = o
         /\ \A n \in 1 .. MaxDepth :
              Ancestor(objs, o, n) = ControllerOf(objs, Ancestor(objs, o, n - 1))
  <1> DEFINE anc == CHOOSE f : f = [i \in 0 .. MaxDepth |->
                                      IF i = 0 THEN o ELSE ControllerOf(objs, f[i - 1])]
  <1>1. \A n : Ancestor(objs, o, n) = anc[n]
    BY DEF Ancestor
  <1>2. MaxDepth \in Nat
    BY BoundsAssumption
  <1>3. \E f : IsChain(objs, o, MaxDepth, f)
    BY <1>2, ChainExists
  <1>4. anc = [i \in 0 .. MaxDepth |-> IF i = 0 THEN o ELSE ControllerOf(objs, anc[i - 1])]
    BY <1>3 DEF IsChain
  <1> HIDE DEF anc
  <1>5. anc[0] = o /\ \A n \in 1 .. MaxDepth : anc[n] = ControllerOf(objs, anc[n - 1])
    <2>1. \A n \in 0 .. MaxDepth : anc[n] = IF n = 0 THEN o ELSE ControllerOf(objs, anc[n - 1])
      BY <1>4
    <2>2. 0 \in 0 .. MaxDepth /\ \A n \in 1 .. MaxDepth : n \in 0 .. MaxDepth /\ n # 0
      BY <1>2
    <2> QED
      BY <2>1, <2>2
  <1> QED
    BY <1>1, <1>5
\* Where the chain has ended, it does not go on.
LEMMA NoneStays ==
  ASSUME NEW objs, NEW o, NEW n \in 0 .. MaxDepth, Ancestor(objs, o, n) = None,
         NEW m \in n .. MaxDepth
  PROVE  Ancestor(objs, o, m) = None
  <1> DEFINE T == {k \in n .. MaxDepth : Ancestor(objs, o, k) # None}
  <1>a. MaxDepth \in Nat
    BY BoundsAssumption
  <1> SUFFICES ASSUME T # {} PROVE FALSE
    OBVIOUS
  <1>1. PICK k \in T : \A j \in T : k <= j
    <2> HIDE DEF T
    <2>1. T \in SUBSET Nat
      BY <1>a DEF T
    <2> QED
      BY <2>1, LeastNumber
  <1>2. k # n
    BY <1>1
  <1>3. k \in 1 .. MaxDepth /\ k - 1 \in n .. MaxDepth /\ ~ (k <= k - 1)
    BY <1>a, <1>1, <1>2
  <1>4. Ancestor(objs, o, k - 1) = None
    BY <1>1, <1>3
  <1>5. Ancestor(objs, o, k) = None
    BY <1>3, <1>4, AncestorStep DEF ControllerOf
  <1> QED
    BY <1>1, <1>5

\* The owner at which the walk stops is the nearest one.
LEMMA StopsAtNearest ==
  ASSUME NEW objs, NEW selectors, NEW o, NEW d \in 0 .. MaxDepth - 1,
         NoneEnabled(objs, selectors, o, d),
         Ancestor(objs, o, d + 1) # None,
         Enabled(selectors, Gvk[Ancestor(objs, o, d + 1)])
  PROVE  Ancestor(objs, o, d + 1) \in Nearest(objs, selectors, o)
  <1> DEFINE owners == {n \in 1 .. MaxDepth : Ancestor(objs, o, n) # None}
             enabled == {n \in owners : Enabled(selectors, Gvk[Ancestor(objs, o, n)])}
  <1>1. MaxDepth \in Nat /\ d + 1 \in 1 .. MaxDepth
    BY BoundsAssumption
  <1>2. d + 1 \in enabled
    BY <1>1
  <1>3. ASSUME NEW k \in enabled PROVE d + 1 <= k
    <2>1. k \notin 1 .. d
      BY <1>3 DEF NoneEnabled
    <2> QED
      BY <1>1, <1>3, <2>1
  <1>4. d + 1 \in {m \in enabled : \A k \in enabled : m <= k}
    BY <1>2, <1>3
  <1> QED
    BY <1>4 DEF Nearest

\* A chain that ends without an enabled owner gives the Pod itself.
LEMMA EndsAtItself ==
  ASSUME NEW objs, NEW selectors, NEW o, NEW d \in 0 .. MaxDepth - 1,
         NoneEnabled(objs, selectors, o, d),
         Ancestor(objs, o, d) # None, objs[Ancestor(objs, o, d)].uid # 0,
         Ancestor(objs, o, d + 1) = None
  PROVE  o \in Nearest(objs, selectors, o)
  <1> DEFINE owners == {n \in 1 .. MaxDepth : Ancestor(objs, o, n) # None}
             enabled == {n \in owners : Enabled(selectors, Gvk[Ancestor(objs, o, n)])}
  <1>1. MaxDepth \in Nat /\ d + 1 \in 0 .. MaxDepth
    BY BoundsAssumption
  <1>2. ASSUME NEW k \in enabled PROVE FALSE
    <2>1. k \notin 1 .. d
      BY <1>2 DEF NoneEnabled
    <2>2. k \in d + 1 .. MaxDepth
      BY <1>1, <1>2, <2>1
    <2>3. Ancestor(objs, o, k) = None
      BY <1>1, <2>2, NoneStays
    <2> QED
      BY <1>2, <2>3
  <1>3. enabled = {}
    BY <1>2
  <1> QED
    BY <1>3 DEF Nearest

\* The object a finding names is one of the cluster's.
LEMMA TargetType ==
  ASSUME NEW selectors, NEW f
  PROVE  resultTarget(selectors, f) \subseteq Object
  BY DEF resultTarget

\* What a finding names is its subject, or leads to it.
LEMMA SubjectOf ==
  ASSUME NEW objs, NEW selectors, NEW f, NEW t \in resultTarget(selectors, f)
  PROVE  /\ Gvk[t] # Pod => t \in Subject(objs, selectors, f)
         /\ Gvk[t] = Pod => Nearest(objs, selectors, t) \subseteq Subject(objs, selectors, f)
  BY DEF Subject
-----------------------------------------------------------------------------
\* What is left of a step when its item is done with.
LEMMA DoneEffect ==
  ASSUME NEW c, StepOK(c), c.pc # "idle"
  PROVE  /\ StepOK(Done(c)) /\ Done(c).pc = "next"
         /\ Done(c).resources = c.resources /\ Done(c).eligible = c.eligible
         /\ \A objs : FoundOK(objs, c) => FoundOK(objs, Done(c))
  <1> DEFINE d == Done(c)
  <1>a. c \in CalcRec
    BY DEF StepOK
  <1>b. 0 \in 0 .. MaxDepth - 1
    BY BoundsAssumption
  <1>1. /\ d.pc = "next" /\ d.depth = 0 /\ d.list = c.list /\ d.eligible = c.eligible
        /\ d.left = c.left /\ d.owned = c.owned /\ d.resources = c.resources
    BY <1>a DEF Done, CalcRec
  <1>2. d \in CalcRec
    BY <1>a, <1>b DEF Done, CalcRec
  <1> HIDE DEF d
  <1>3. StepOK(d)
    BY <1>1, <1>2 DEF StepOK
  <1>4. ASSUME NEW objs, FoundOK(objs, c) PROVE FoundOK(objs, d)
    BY <1>1, <1>4 DEF FoundOK
  <1> QED
    BY <1>1, <1>3, <1>4 DEF d

\* An enabled object is read next, with everything else as it was.
LEMMA ReadEffect ==
  ASSUME NEW c, StepOK(c), c.pc # "idle", c.item \in Finding, NEW t \in Object
  PROVE  /\ StepOK(ReadIfEnabled(c, t)) /\ ReadIfEnabled(c, t).pc # "idle"
         /\ \A objs : FoundOK(objs, c) /\ t \in Subject(objs, c.resources, c.item)
                        => FoundOK(objs, ReadIfEnabled(c, t))
  <1>1. CASE ~ Enabled(c.resources, Gvk[t])
    BY <1>1, DoneEffect DEF ReadIfEnabled
  <1>2. CASE Enabled(c.resources, Gvk[t])
    <2> DEFINE d == [c EXCEPT !.pc = "read", !.cur = t]
    <2>a. c \in CalcRec
      BY DEF StepOK
    <2>1. /\ d.pc = "read" /\ d.cur = t /\ d.item = c.item /\ d.list = c.list
          /\ d.eligible = c.eligible /\ d.left = c.left /\ d.owned = c.owned
          /\ d.resources = c.resources
      BY <2>a DEF CalcRec
    <2>2. d \in CalcRec
      BY <2>a DEF CalcRec
    <2>3. ReadIfEnabled(c, t) = d
      BY <1>2 DEF ReadIfEnabled
    <2> HIDE DEF d
    <2>4. StepOK(d)
      BY <2>1, <2>2 DEF StepOK
    <2>5. ASSUME NEW objs, FoundOK(objs, c), t \in Subject(objs, c.resources, c.item)
          PROVE  FoundOK(objs, d)
      BY <1>2, <2>1, <2>5 DEF FoundOK, Right
    <2> QED
      BY <2>1, <2>3, <2>4, <2>5
  <1> QED
    BY <1>1, <1>2
-----------------------------------------------------------------------------
\* From one item to the next.
LEMMA NextItemStep ==
  ASSUME StepOK(calc), NextItem
  PROVE  StepOK(calc') /\ \A objs : FoundOK(objs, calc) => FoundOK(objs, calc')
  <1>1. calc.pc = "next" /\ calc \in CalcRec /\ calc.depth = 0
    BY DEF NextItem, StepOK
  <1> DEFINE c(f) == [calc EXCEPT !.todo = @ \ {f}, !.item = f]
             next(f) == IF resultTarget(calc.resources, f) = {} THEN Done(c(f))
                        ELSE LET t == CHOOSE t \in resultTarget(calc.resources, f) : TRUE IN
                             IF Gvk[t] = Pod THEN [c(f) EXCEPT !.pc = "walk", !.cur = t]
                                             ELSE ReadIfEnabled(c(f), t)
  <1>2. PICK f \in calc.todo : calc' = next(f)
    BY DEF NextItem
  <1> DEFINE d == c(f)
             t == CHOOSE x \in resultTarget(calc.resources, f) : TRUE
  <1>3. f \in Finding
    BY <1>1 DEF CalcRec
  <1>4. d \in CalcRec
    BY <1>1, <1>3 DEF CalcRec
  <1>5. /\ d.pc = "next" /\ d.depth = 0 /\ d.item = f /\ d.list = calc.list
        /\ d.eligible = calc.eligible /\ d.left = calc.left /\ d.owned = calc.owned
        /\ d.resources = calc.resources
    BY <1>1 DEF CalcRec
  <1>6. calc' = IF resultTarget(calc.resources, f) = {} THEN Done(d)
                ELSE IF Gvk[t] = Pod THEN [d EXCEPT !.pc = "walk", !.cur = t]
                                     ELSE ReadIfEnabled(d, t)
    BY <1>2
  <1> HIDE DEF c, next, d
  <1>7. StepOK(d)
    BY <1>1, <1>4, <1>5 DEF StepOK
  <1>8. ASSUME NEW objs, FoundOK(objs, calc) PROVE FoundOK(objs, d)
    BY <1>5, <1>8 DEF FoundOK
  <1>9. CASE resultTarget(calc.resources, f) = {}
    BY <1>5, <1>6, <1>7, <1>8, <1>9, DoneEffect
  <1>10. CASE resultTarget(calc.resources, f) # {} /\ Gvk[t] # Pod
    <2>1. t \in resultTarget(calc.resources, f)
      BY <1>10
    <2>2. calc' = ReadIfEnabled(d, t)
      BY <1>6, <1>10
    <2> HIDE DEF t
    <2>3. t \in Object /\ \A objs : t \in Subject(objs, d.resources, d.item)
      BY <1>5, <1>10, <2>1, TargetType, SubjectOf
    <2> QED
      BY <1>3, <1>5, <1>7, <1>8, <2>2, <2>3, ReadEffect
  <1>11. CASE resultTarget(calc.resources, f) # {} /\ Gvk[t] = Pod
    <2> DEFINE e == [d EXCEPT !.pc = "walk", !.cur = t]
    <2>1. t \in resultTarget(calc.resources, f)
      BY <1>11
    <2>2. calc' = e
      BY <1>6, <1>11
    <2>3. /\ e.pc = "walk" /\ e.cur = t /\ e.depth = 0 /\ e.item = f /\ e.list = d.list
          /\ e.eligible = d.eligible /\ e.left = d.left /\ e.owned = d.owned
          /\ e.resources = calc.resources
      BY <1>4, <1>5 DEF CalcRec
    <2>4. Start(e) = t
      BY <2>3 DEF Start
    <2>5. t \in Object
      BY <2>1, TargetType
    <2>6. e \in CalcRec
      BY <1>4, <2>5 DEF CalcRec
    <2> HIDE DEF e
    <2>7. StepOK(e)
      BY <1>3, <1>5, <1>7, <1>11, <2>3, <2>5, <2>6 DEF StepOK
    <2>8. ASSUME NEW objs, FoundOK(objs, d) PROVE FoundOK(objs, e)
      <3>1. e.cur = Ancestor(objs, Start(e), e.depth)
        BY <2>3, <2>4, AncestorStep
      <3>2. NoneEnabled(objs, e.resources, Start(e), e.depth)
        BY <2>3 DEF NoneEnabled
      <3>3. WalkOK(objs, e)
        BY <1>11, <2>4, <3>1, <3>2 DEF WalkOK
      <3> QED
        BY <1>5, <2>3, <2>8, <3>3 DEF FoundOK
    <2> QED
      BY <1>8, <2>2, <2>7, <2>8
  <1> QED
    BY <1>9, <1>10, <1>11

\* One read of the walk, of objects that stay as they are or do not.
LEMMA WalkStep ==
  ASSUME TypeOK, StepOK(calc), WalkToOwner
  PROVE  StepOK(calc') /\ (FoundOK(object, calc) => FoundOK(object, calc'))
  <1> DEFINE owner == object[calc.cur].owners.controller
             start == Start(calc)
             d == calc.depth
  <1>1. /\ calc.pc = "walk" /\ calc \in CalcRec /\ calc.item \in Finding /\ calc.cur \in Object
        /\ resultTarget(calc.resources, calc.item) # {}
    BY DEF WalkToOwner, StepOK
  <1>2. /\ owner \in Object \cup {None} /\ None \notin Object
        /\ d \in 0 .. MaxDepth - 1 /\ MaxDepth \in Nat /\ d \in Nat
    BY <1>1, ObjectAssumption, BoundsAssumption DEF TypeOK, ObjectRec, OwnersRec, CalcRec
  <1>3. start \in resultTarget(calc.resources, calc.item) /\ start \in Object
    BY <1>1, TargetType DEF Start
  <1>4. calc' = IF ~ Exists(calc.cur) THEN Done(calc)
                ELSE IF owner = None THEN ReadIfEnabled(calc, start)
                ELSE IF Stops(owner) THEN ReadIfEnabled(calc, owner)
                ELSE IF Deeper(d) = MaxDepth THEN Done(calc)
                ELSE [calc EXCEPT !.cur = owner, !.depth = Deeper(@)]
    BY DEF WalkToOwner, Start
  <1>5. ASSUME FoundOK(object, calc), Exists(calc.cur)
        PROVE  /\ calc.cur = Ancestor(object, start, d) /\ Gvk[start] = Pod
               /\ Ancestor(object, start, d + 1) = owner
               /\ NoneEnabled(object, calc.resources, start, d)
    <2>1. /\ calc.cur = Ancestor(object, start, d) /\ Gvk[start] = Pod
          /\ NoneEnabled(object, calc.resources, start, d)
      BY <1>1, <1>5 DEF FoundOK, WalkOK
    <2>2. d + 1 \in 1 .. MaxDepth /\ d + 1 - 1 = d
      BY <1>2
    <2>3. Ancestor(object, start, d + 1) = ControllerOf(object, calc.cur)
      <3> HIDE DEF start, d
      <3>1. \A n \in 1 .. MaxDepth :
              Ancestor(object, start, n) = ControllerOf(object, Ancestor(object, start, n - 1))
        BY AncestorStep
      <3>2. \A n \in 1 .. MaxDepth, m \in Nat :
              m = n - 1 =>
                Ancestor(object, start, n) = ControllerOf(object, Ancestor(object, start, m))
        BY <3>1
      <3> QED
        BY <1>2, <2>1, <2>2, <3>2
    <2>4. calc.cur # None
      BY <1>1, <1>2
    <2> QED
      BY <1>5, <2>1, <2>3, <2>4 DEF ControllerOf, Exists
  <1> HIDE DEF owner, start, d
  <1>6. CASE ~ Exists(calc.cur) \/ (owner # None /\ ~ Stops(owner) /\ Deeper(d) = MaxDepth)
    <2>1. calc' = Done(calc)
      BY <1>4, <1>6
    <2> QED
      BY <1>1, <2>1, DoneEffect
  <1>7. CASE Exists(calc.cur) /\ owner = None
    <2>1. calc' = ReadIfEnabled(calc, start)
      BY <1>4, <1>7
    <2>2. ASSUME FoundOK(object, calc)
          PROVE  start \in Subject(object, calc.resources, calc.item)
      <3>1. start \in Nearest(object, calc.resources, start)
        BY <1>1, <1>2, <1>5, <1>7, <2>2, EndsAtItself DEF Exists
      <3> QED
        BY <1>3, <1>5, <1>7, <2>2, <3>1, SubjectOf
    <2> QED
      BY <1>1, <1>3, <2>1, <2>2, ReadEffect
  <1>8. CASE Exists(calc.cur) /\ owner # None /\ Stops(owner)
    <2>1. calc' = ReadIfEnabled(calc, owner) /\ owner \in Object
      BY <1>2, <1>4, <1>8
    <2>2. ASSUME FoundOK(object, calc)
          PROVE  owner \in Subject(object, calc.resources, calc.item)
      <3>1. owner \in Nearest(object, calc.resources, start)
        BY <1>2, <1>5, <1>8, <2>2, StopsAtNearest DEF Stops
      <3> QED
        BY <1>3, <1>5, <1>8, <2>2, <3>1, SubjectOf
    <2> QED
      BY <1>1, <2>1, <2>2, ReadEffect
  <1>9. CASE Exists(calc.cur) /\ owner # None /\ ~ Stops(owner) /\ Deeper(d) # MaxDepth
    <2> DEFINE e == [calc EXCEPT !.cur = owner, !.depth = Deeper(d)]
    <2>1. calc' = e /\ owner \in Object
      BY <1>2, <1>4, <1>9 DEF d
    <2>2. d + 1 \in 0 .. MaxDepth - 1
      BY <1>2, <1>9 DEF Deeper
    <2>3. /\ e.pc = "walk" /\ e.cur = owner /\ e.depth = d + 1 /\ e.item = calc.item
          /\ e.list = calc.list /\ e.eligible = calc.eligible /\ e.left = calc.left
          /\ e.owned = calc.owned /\ e.resources = calc.resources
      BY <1>1 DEF CalcRec, Deeper
    <2>4. e \in CalcRec
      BY <1>1, <2>1, <2>2 DEF CalcRec, Deeper
    <2>5. Start(e) = start
      BY <2>3 DEF Start, start
    <2> HIDE DEF e
    <2>6. StepOK(e)
      BY <1>1, <2>1, <2>3, <2>4 DEF StepOK
    <2>7. ASSUME FoundOK(object, calc) PROVE FoundOK(object, e)
      <3>1. \A i \in 1 .. d + 1 : i \in 1 .. d \/ i = d + 1
        BY <1>2
      <3>2. NoneEnabled(object, calc.resources, start, d + 1)
        BY <1>5, <1>9, <2>7, <3>1 DEF NoneEnabled, Stops
      <3>3. WalkOK(object, e)
        BY <1>5, <1>9, <2>3, <2>5, <2>7, <3>2 DEF WalkOK
      <3> QED
        BY <2>3, <2>7, <3>3 DEF FoundOK
    <2> QED
      BY <2>1, <2>6, <2>7
  <1> QED
    BY <1>6, <1>7, <1>8, <1>9

\* The target is read: it is eligible as it was found, or it is skipped.
LEMMA ReadTargetStep ==
  ASSUME TypeOK, StepOK(calc), ReadTarget
  PROVE  StepOK(calc') /\ (FoundOK(object, calc) => FoundOK(object, calc'))
  <1> DEFINE o == calc.cur
             e == [finding |-> calc.item, object |-> o, uid |-> object[o].uid,
                   owners |-> object[o].owners.all]
             c == Done(calc)
             d == [c EXCEPT !.eligible = Append(@, e)]
  <1>1. calc.pc = "read" /\ calc \in CalcRec /\ calc.item \in Finding /\ o \in Object
    BY DEF ReadTarget, StepOK
  <1>2. StepOK(c) /\ c.pc = "next" /\ (FoundOK(object, calc) => FoundOK(object, c))
        /\ c.resources = calc.resources /\ c.eligible = calc.eligible
    BY <1>1, DoneEffect
  <1>3. calc' = IF Readable(o) THEN d ELSE c
    BY DEF ReadTarget
  <1>4. CASE ~ Readable(o)
    BY <1>2, <1>3, <1>4
  <1>5. CASE Readable(o)
    <2>a. object[o] \in ObjectRec /\ object[o].uid # 0
      BY <1>1, <1>5 DEF TypeOK, Readable, Exists
    <2>b. object[o].uid \in Nat \ {0} /\ object[o].owners.all \in SUBSET Object
      BY <2>a DEF ObjectRec, OwnersRec
    <2>c. e \in EligibleRec /\ e.finding = calc.item /\ e.object = o /\ e.uid = object[o].uid
      BY <1>1, <2>b DEF EligibleRec
    <2>d. calc' = d
      BY <1>3, <1>5
    <2> HIDE DEF e, c
    <2>1. c \in CalcRec /\ c.eligible \in Seq(EligibleRec)
      BY <1>2 DEF StepOK, CalcRec
    <2>2. /\ Append(c.eligible, e) \in Seq(EligibleRec)
          /\ DOMAIN c.eligible = 1 .. Len(c.eligible) /\ Len(c.eligible) \in Nat
          /\ DOMAIN Append(c.eligible, e) = 1 .. Len(c.eligible) + 1
          /\ \A i \in 1 .. Len(c.eligible) : Append(c.eligible, e)[i] = c.eligible[i]
          /\ Append(c.eligible, e)[Len(c.eligible) + 1] = e
      BY <2>1, <2>c
    <2>3. /\ d.pc = "next" /\ d.depth = c.depth /\ d.list = c.list
          /\ d.eligible = Append(c.eligible, e)
          /\ d.left = c.left /\ d.owned = c.owned /\ d.resources = c.resources
      BY <1>2, <2>1 DEF CalcRec
    <2>4. d \in CalcRec
      BY <2>1, <2>2 DEF CalcRec
    <2> HIDE DEF d, o
    <2>5. DOMAIN c.eligible \subseteq DOMAIN d.eligible
      BY <2>2, <2>3
    <2>6. StepOK(d)
      BY <1>2, <2>3, <2>4, <2>5 DEF StepOK
    <2>7. ASSUME FoundOK(object, calc) PROVE FoundOK(object, d)
      <3>1. Right(object, calc.resources, e.finding, e.object) /\ e.uid = object[e.object].uid
        BY <1>1, <2>7, <2>c DEF FoundOK, o
      <3>2. ASSUME NEW i \in DOMAIN d.eligible
            PROVE  /\ Right(object, calc.resources, d.eligible[i].finding, d.eligible[i].object)
                   /\ d.eligible[i].uid = object[d.eligible[i].object].uid
        <4>1. CASE i \in DOMAIN c.eligible
          <5>1. d.eligible[i] = calc.eligible[i] /\ i \in DOMAIN calc.eligible
            BY <1>2, <2>2, <2>3, <4>1
          <5> QED
            BY <2>7, <5>1 DEF FoundOK
        <4>2. CASE i \notin DOMAIN c.eligible
          <5>1. i = Len(c.eligible) + 1
            BY <2>2, <2>3, <3>2, <4>2
          <5>2. d.eligible[i] = e
            BY <2>2, <2>3, <5>1
          <5> QED
            BY <3>1, <5>2
        <4> QED
          BY <4>1, <4>2
      <3> QED
        BY <1>2, <2>3, <3>2 DEF FoundOK
    <2> QED
      BY <2>6, <2>7, <2>d
  <1> QED
    BY <1>4, <1>5

\* Merging keeps places of the list, no more.
LEMMA DeduplicateStep ==
  ASSUME StepOK(calc), Deduplicate
  PROVE  StepOK(calc') /\ \A objs : FoundOK(objs, calc) => FoundOK(objs, calc')
  <1> DEFINE l == {i \in DOMAIN calc.eligible : ~ Merges(calc.eligible[i])}
             w == FirstOwned(calc.eligible)
             d == [calc EXCEPT !.pc = "create", !.left = l, !.owned = w]
  <1>1. calc.pc = "next" /\ calc \in CalcRec /\ calc' = d
    BY DEF Deduplicate, StepOK
  <1>2. calc.eligible \in Seq(EligibleRec)
    BY <1>1 DEF CalcRec
  <1>3. DOMAIN calc.eligible \subseteq Nat
    BY <1>2
  <1>4. w \subseteq {Name[o] : o \in Object} \X DOMAIN calc.eligible
    BY DEF FirstOwned
  <1>5. /\ l \in SUBSET Nat /\ l \subseteq DOMAIN calc.eligible
        /\ w \in SUBSET ({Name[o] : o \in Object} \X Nat)
        /\ \A x \in w : x[2] \in DOMAIN calc.eligible
    BY <1>3, <1>4
  <1> HIDE DEF l, w
  <1>6. /\ d.pc = "create" /\ d.list = calc.list /\ d.eligible = calc.eligible
        /\ d.left = l /\ d.owned = w /\ d.resources = calc.resources
    BY <1>1 DEF CalcRec
  <1>7. d \in CalcRec
    BY <1>1, <1>5 DEF CalcRec
  <1> HIDE DEF d
  <1>8. StepOK(d)
    BY <1>1, <1>5, <1>6, <1>7 DEF StepOK
  <1>9. ASSUME NEW objs, FoundOK(objs, calc) PROVE FoundOK(objs, d)
    BY <1>6, <1>9 DEF FoundOK
  <1> QED
    BY <1>1, <1>8, <1>9

\* Nothing under way is in order, whatever there is.
LEMMA IdleOK == StepOK(Idle) /\ \A objs : FoundOK(objs, Idle)
  <1>1. /\ Idle.pc = "idle" /\ Idle.eligible = << >> /\ Idle.left = {} /\ Idle.owned = {}
    BY DEF Idle
  <1>2. Idle \in CalcRec
    <2>1. << >> \in Seq(EligibleRec) /\ 0 \in 0 .. MaxDepth - 1
      BY BoundsAssumption
    <2> QED
      BY <2>1 DEF Idle, CalcRec
  <1>3. DOMAIN << >> = {}
    OBVIOUS
  <1> QED
    BY <1>1, <1>2, <1>3 DEF StepOK, FoundOK

\* One place of the list is treated: the Mutation made is that of an eligible
\* resource, and the rest of the step is as it was.
LEMMA CreateStep ==
  ASSUME StepOK(calc), CreateMutation \/ CreateOwned
  PROVE  /\ StepOK(calc') /\ \A objs : FoundOK(objs, calc) => FoundOK(objs, calc')
         /\ \E i \in DOMAIN calc.eligible :
              mut' = mut \/ mut' = mut \cup {MutationOf(calc.eligible[i])}
         /\ UNCHANGED <<world, mcache, quiet, events>>
  <1>1. calc.pc = "create" /\ calc \in CalcRec
    BY DEF CreateMutation, CreateOwned, StepOK
  <1>2. ASSUME NEW d \in CalcRec, d.pc = "create", d.list = calc.list,
               d.eligible = calc.eligible, d.left \subseteq calc.left,
               d.owned \subseteq calc.owned, d.resources = calc.resources,
               NEW i \in DOMAIN calc.eligible, Create(calc.eligible[i], d)
        PROVE  /\ StepOK(calc') /\ \A objs : FoundOK(objs, calc) => FoundOK(objs, calc')
               /\ mut' = mut \/ mut' = mut \cup {MutationOf(calc.eligible[i])}
               /\ UNCHANGED <<world, mcache, quiet, events>>
    <2>1. StepOK(d)
      BY <1>1, <1>2 DEF StepOK
    <2>2. ASSUME NEW objs, FoundOK(objs, calc) PROVE FoundOK(objs, d)
      BY <1>2, <2>2 DEF FoundOK
    <2>3. calc' \in {Idle, d} /\ UNCHANGED <<world, mcache, quiet, events>>
          /\ (mut' = mut \/ mut' = mut \cup {MutationOf(calc.eligible[i])})
      BY <1>2 DEF Create
    <2> QED
      BY <2>1, <2>2, <2>3, IdleOK
  <1>3. CASE CreateMutation
    <2>1. PICK i \in calc.left : Create(calc.eligible[i], [calc EXCEPT !.left = @ \ {i}])
      BY <1>3 DEF CreateMutation
    <2> DEFINE d == [calc EXCEPT !.left = @ \ {i}]
    <2>2. /\ d.pc = "create" /\ d.list = calc.list /\ d.eligible = calc.eligible
          /\ d.left \subseteq calc.left /\ d.owned = calc.owned /\ d.resources = calc.resources
      BY <1>1 DEF CalcRec
    <2>3. d \in CalcRec
      BY <1>1 DEF CalcRec
    <2>4. i \in DOMAIN calc.eligible
      BY DEF StepOK
    <2>5. Create(calc.eligible[i], d)
      BY <2>1
    <2> HIDE DEF d
    <2> QED
      BY <1>2, <2>2, <2>3, <2>4, <2>5
  <1>4. CASE CreateOwned
    <2>1. PICK x \in calc.owned : Create(calc.eligible[x[2]], [calc EXCEPT !.owned = @ \ {x}])
      BY <1>4 DEF CreateOwned
    <2> DEFINE d == [calc EXCEPT !.owned = @ \ {x}]
    <2>2. /\ d.pc = "create" /\ d.list = calc.list /\ d.eligible = calc.eligible
          /\ d.left = calc.left /\ d.owned \subseteq calc.owned /\ d.resources = calc.resources
      BY <1>1 DEF CalcRec
    <2>3. d \in CalcRec
      BY <1>1 DEF CalcRec
    <2>4. x[2] \in DOMAIN calc.eligible
      BY DEF StepOK
    <2>5. Create(calc.eligible[x[2]], d)
      BY <2>1
    <2> HIDE DEF d
    <2> QED
      BY <1>2, <2>2, <2>3, <2>4, <2>5
  <1> QED
    BY <1>3, <1>4

\* A step begins with the Results as they are listed.
LEMMA ListStep ==
  ASSUME TypeOK, ListResults
  PROVE  StepOK(calc') /\ \A objs : FoundOK(objs, calc')
  <1> DEFINE todo == {f \in Finding : result[f].reported}
             d == [Idle EXCEPT !.pc = "next", !.resources = resources, !.list = result,
                               !.todo = todo]
  <1>1. calc' = d
    BY DEF ListResults
  <1>2. resources \in Resources /\ result \in [Finding -> ResultRec] /\ todo \in SUBSET Finding
    BY DEF TypeOK
  <1> HIDE DEF todo
  <1>3. Idle \in CalcRec
    BY IdleOK DEF StepOK
  <1>4. Idle.eligible = << >> /\ Idle.left = {} /\ Idle.owned = {} /\ Idle.depth = 0
    BY DEF Idle
  <1>5. /\ d.pc = "next" /\ d.list = result /\ d.depth = 0 /\ d.eligible = << >>
        /\ d.left = {} /\ d.owned = {}
    BY <1>3, <1>4 DEF CalcRec
  <1>6. d \in CalcRec
    BY <1>2, <1>3 DEF CalcRec
  <1> HIDE DEF d
  <1>7. DOMAIN << >> = {}
    OBVIOUS
  <1> QED
    BY <1>1, <1>2, <1>5, <1>6, <1>7 DEF StepOK, FoundOK

\* The steps of the controller on the list it has: its state stays in order, and
\* what it found stays right for the objects there are.
LEMMA CalcStep ==
  ASSUME TypeOK, StepOK(calc), Work \/ ReadFails \/ StepFails
  PROVE  /\ StepOK(calc') /\ (FoundOK(object, calc) => FoundOK(object, calc'))
         /\ UNCHANGED <<object, quiet>>
  <1>1. CASE NextItem \/ WalkToOwner \/ ReadTarget \/ Deduplicate
    <2>1. UNCHANGED <<object, quiet>>
      BY <1>1 DEF NextItem, WalkToOwner, ReadTarget, Deduplicate, world
    <2> QED
      BY <1>1, <2>1, NextItemStep, WalkStep, ReadTargetStep, DeduplicateStep
  <1>2. CASE CreateMutation \/ CreateOwned
    <2>1. UNCHANGED <<world, quiet>>
      BY <1>2, CreateStep
    <2> QED
      BY <1>2, <2>1, CreateStep DEF world
  <1>3. CASE FinishCalculate \/ StepFails
    BY <1>3, IdleOK DEF FinishCalculate, StepFails, world
  <1>4. CASE ReadFails
    <2>1. calc' = Done(calc) /\ calc.pc # "idle" /\ UNCHANGED <<object, quiet>>
      BY <1>4 DEF ReadFails, world
    <2> QED
      BY <2>1, DoneEffect
  <1> QED
    BY <1>1, <1>2, <1>3, <1>4 DEF Work

\* Everyone else leaves the step alone, and whoever changes an object or a
\* selector is seen.
LEMMA OthersStep ==
  ASSUME Others \/ CacheSync \/ UNCHANGED vars
  PROVE  UNCHANGED calc /\ (quiet' = FALSE \/ UNCHANGED <<object, mut, quiet>>)
  BY DEF Others, ChangeOwners, DeleteObject, RecreateObject, AnalysisResult, EditResources,
         DeleteMutation, Edit, CacheSync, world, vars

\* The cluster and the K8sGPT.
LEMMA WorldStep ==
  ASSUME TypeOK, [Next]_vars
  PROVE  /\ object' \in [Object -> ObjectRec] /\ result' \in [Finding -> ResultRec]
         /\ resources' \in Resources
  <1>a. /\ object \in [Object -> ObjectRec] /\ result \in [Finding -> ResultRec]
        /\ resources \in Resources /\ NewVersion \in Nat
    BY DEF TypeOK, NewVersion
  <1>1. ASSUME NEW o \in Object, ChangeOwners(o) PROVE object' \in [Object -> ObjectRec]
    <2>1. PICK w \in Owners[o] : object' = [object EXCEPT ![o] =
                                   [uid |-> object[o].uid, rv |-> NewVersion, owners |-> w]]
      BY <1>1 DEF ChangeOwners
    <2>2. w \in OwnersRec /\ object[o].uid \in Nat
      BY <1>a, OwnersAssumption DEF ObjectRec
    <2>3. [uid |-> object[o].uid, rv |-> NewVersion, owners |-> w] \in ObjectRec
      BY <1>a, <2>2 DEF ObjectRec
    <2> QED
      BY <1>a, <2>1, <2>3
  <1>2. ASSUME NEW o \in Object, DeleteObject(o) PROVE object' \in [Object -> ObjectRec]
    <2>1. [object[o] EXCEPT !.uid = 0] \in ObjectRec
      BY <1>a DEF ObjectRec
    <2>2. object' = [object EXCEPT ![o] = [object[o] EXCEPT !.uid = 0]]
      BY <1>2 DEF DeleteObject
    <2> QED
      BY <1>a, <2>1, <2>2
  <1>3. ASSUME NEW o \in Object, RecreateObject(o) PROVE object' \in [Object -> ObjectRec]
    <2>1. [uid |-> NewVersion, rv |-> NewVersion, owners |-> object[o].owners] \in ObjectRec
      BY <1>a DEF ObjectRec
    <2>2. object' = [object EXCEPT ![o] =
                       [uid |-> NewVersion, rv |-> NewVersion, owners |-> object[o].owners]]
      BY <1>3 DEF RecreateObject
    <2> QED
      BY <1>a, <2>1, <2>2
  <1>4. ASSUME NEW f \in Finding, AnalysisResult(f) PROVE result' \in [Finding -> ResultRec]
    <2>1. PICK r \in [reported: BOOLEAN, uid: {0, object[About[f]].uid},
                      rv: {0, object[About[f]].rv}] : result' = [result EXCEPT ![f] = r]
      BY <1>4 DEF AnalysisResult
    <2>2. object[About[f]].uid \in Nat /\ object[About[f]].rv \in Nat
      BY <1>a, FindingAssumption DEF ObjectRec
    <2>3. r \in ResultRec
      BY <2>2 DEF ResultRec
    <2> QED
      BY <1>a, <2>1, <2>3
  <1>5. CASE \E o \in Object : ChangeOwners(o) \/ DeleteObject(o) \/ RecreateObject(o)
    <2>1. UNCHANGED <<result, resources>>
      BY <1>5 DEF ChangeOwners, DeleteObject, RecreateObject
    <2> QED
      BY <1>a, <1>1, <1>2, <1>3, <1>5, <2>1
  <1>6. CASE \E f \in Finding : AnalysisResult(f)
    <2>1. UNCHANGED <<object, resources>>
      BY <1>6 DEF AnalysisResult
    <2> QED
      BY <1>a, <1>4, <1>6, <2>1
  <1>7. CASE EditResources
    BY <1>a, <1>7 DEF EditResources
  <1>8. CASE UNCHANGED world
    BY <1>a, <1>8 DEF world
  <1>9. CASE CreateMutation \/ CreateOwned
    BY <1>8, <1>9 DEF CreateMutation, CreateOwned, Create
  <1> QED
    BY <1>5, <1>6, <1>7, <1>8, <1>9
       DEF Next, Others, DeleteMutation, CacheSync, ListResults, Work, NextItem, WalkToOwner,
           ReadTarget, Deduplicate, FinishCalculate, ReadFails, StepFails, vars

\* The Mutations, and what the informer has of them.
LEMMA MutationStep ==
  ASSUME TypeOK, StepOK(calc), [Next]_vars
  PROVE  mut' \in SUBSET MutationRec /\ mcache' \in SUBSET MutationRec
  <1>a. mut \in SUBSET MutationRec /\ mcache \in SUBSET MutationRec
    BY DEF TypeOK
  <1>1. CASE CreateMutation \/ CreateOwned
    <2>1. PICK i \in DOMAIN calc.eligible :
            mut' = mut \/ mut' = mut \cup {MutationOf(calc.eligible[i])}
      BY <1>1, CreateStep
    <2>2. calc.eligible \in Seq(EligibleRec)
      BY DEF StepOK, CalcRec
    <2>3. calc.eligible[i] \in EligibleRec
      BY <2>2
    <2>4. MutationOf(calc.eligible[i]) \in MutationRec
      BY <2>3 DEF MutationOf, MutationRec, EligibleRec
    <2>5. UNCHANGED mcache
      BY <1>1, CreateStep
    <2> QED
      BY <1>a, <2>1, <2>4, <2>5
  <1>2. CASE CacheSync
    BY <1>a, <1>2 DEF CacheSync
  <1>3. CASE \E m \in mut : DeleteMutation(m)
    BY <1>a, <1>3 DEF DeleteMutation, Edit
  <1>4. CASE UNCHANGED <<mut, mcache>>
    BY <1>a, <1>4
  <1> QED
    BY <1>1, <1>2, <1>3, <1>4
       DEF Next, Others, ChangeOwners, DeleteObject, RecreateObject, AnalysisResult,
           EditResources, Edit, ListResults, Work, NextItem, WalkToOwner, ReadTarget,
           Deduplicate, FinishCalculate, ReadFails, StepFails, vars

\* The counter and the ghost variable.
LEMMA CountStep ==
  ASSUME TypeOK, [Next]_vars
  PROVE  quiet' \in BOOLEAN /\ events' \in Nat
  <1>a. quiet \in BOOLEAN /\ events \in Nat
    BY DEF TypeOK
  <1>1. quiet' \in BOOLEAN
    BY <1>a DEF Next, Others, ChangeOwners, DeleteObject, RecreateObject, AnalysisResult,
                EditResources, DeleteMutation, Edit, CacheSync, ListResults, Work, NextItem,
                WalkToOwner, ReadTarget, Deduplicate, CreateMutation, CreateOwned, Create,
                FinishCalculate, ReadFails, StepFails, vars
  <1>2. events' = events \/ events' = events + 1
    BY DEF Next, Others, ChangeOwners, DeleteObject, RecreateObject, AnalysisResult,
           EditResources, DeleteMutation, Edit, CacheSync, ListResults, Work, NextItem,
           WalkToOwner, ReadTarget, Deduplicate, CreateMutation, CreateOwned, Create,
           FinishCalculate, ReadFails, StepFails, vars
  <1> QED
    BY <1>a, <1>1, <1>2

\* Every step keeps the invariant.
LEMMA InvariantStep ==
  ASSUME IInv, [Next]_vars
  PROVE  IInv'
  <1>a. TypeOK /\ StepOK(calc) /\ (quiet => FoundOK(object, calc))
    BY DEF IInv
  <1>1. StepOK(calc') /\ (quiet' => FoundOK(object', calc'))
    <2>1. CASE Others \/ CacheSync \/ UNCHANGED vars
      <3>1. calc' = calc /\ (quiet' = FALSE \/ (object' = object /\ quiet' = quiet))
        BY <2>1, OthersStep
      <3> QED
        BY <1>a, <3>1
    <2>2. CASE ListResults
      BY <1>a, <2>2, ListStep
    <2>3. CASE Work \/ ReadFails \/ StepFails
      <3>1. object' = object /\ quiet' = quiet
        BY <1>a, <2>3, CalcStep
      <3> QED
        BY <1>a, <2>3, <3>1, CalcStep
    <2> QED
      BY <2>1, <2>2, <2>3 DEF Next
  <1>2. TypeOK'
    <2>1. /\ object' \in [Object -> ObjectRec] /\ result' \in [Finding -> ResultRec]
          /\ resources' \in Resources
          /\ mut' \in SUBSET MutationRec /\ mcache' \in SUBSET MutationRec
          /\ quiet' \in BOOLEAN /\ events' \in Nat
      BY <1>a, WorldStep, MutationStep, CountStep
    <2> QED
      BY <1>1, <2>1 DEF TypeOK, StepOK
  <1> QED
    BY <1>1, <1>2 DEF IInv

\* At the start nothing is under way and there is no Mutation.
LEMMA InvariantInit == Init => IInv
  <1> SUFFICES ASSUME Init PROVE IInv
    OBVIOUS
  <1>1. calc = Idle /\ quiet = TRUE /\ events = 0 /\ mut = {} /\ mcache = {}
        /\ resources \in Resources
    BY DEF Init
  <1>2. result \in [Finding -> ResultRec]
    BY DEF Init, ResultRec
  <1>3. object \in [Object -> ObjectRec]
    <2>1. PICK w \in [Object -> UNION {Owners[o] : o \in Object}] :
            /\ \A o \in Object : w[o] \in Owners[o]
            /\ object = [o \in Object |-> [uid |-> 1, rv |-> 1, owners |-> w[o]]]
      BY DEF Init
    <2>2. \A o \in Object : w[o] \in OwnersRec
      BY <2>1, OwnersAssumption
    <2>3. \A o \in Object : [uid |-> 1, rv |-> 1, owners |-> w[o]] \in ObjectRec
      BY <2>2 DEF ObjectRec
    <2> QED
      BY <2>1, <2>3
  <1>4. StepOK(calc) /\ FoundOK(object, calc)
    BY <1>1, IdleOK
  <1>5. TypeOK
    BY <1>1, <1>2, <1>3, <1>4 DEF TypeOK, StepOK
  <1> QED
    BY <1>4, <1>5 DEF IInv
-----------------------------------------------------------------------------
\* The invariant of calculateRemediationStep: what it has resolved so far, and
\* where its walk is, agrees with the objects unless one was edited meanwhile.
THEOREM Invariance == Spec => []IInv
  <1>1. IInv /\ [Next]_vars => IInv'
    BY InvariantStep
  <1> QED
    BY InvariantInit, <1>1, PTL DEF Spec

\* Every variable keeps its type: an object that is gone is not made eligible,
\* the walk never stands at "no object", and its depth stays below the bound.
THEOREM TypeCorrect == Spec => []TypeOK
  <1>1. IInv => TypeOK
    BY DEF IInv
  <1> QED
    BY <1>1, Invariance, PTL

\* resolveOwningWorkload finds the nearest enabled owner of a Pod, at any depth
\* up to the bound, whatever cycles the owner references make and whichever
\* selectors there are, unless something was edited under the walk.
THEOREM NearestIsFound == Spec => []ResolvesNearest
  <1>1. IInv => ResolvesNearest
    BY DEF IInv, FoundOK, Right, ResolvesNearest
  <1> QED
    BY <1>1, Invariance, PTL

\* The loop over eligibleResources makes Mutations for the objects the findings
\* resolve to, with their UIDs, after Deduplicate too.
THEOREM MutationsAreRight == Spec => MutationForSubject
  <1> DEFINE Good == \A m \in mut' \ mut :
                       quiet => /\ m.object \in Subject(object, calc.resources, m.finding)
                                /\ Enabled(calc.resources, Gvk[m.object])
                                /\ m.uid = object[m.object].uid
  <1>1. IInv /\ [Next]_vars => [Good]_vars
    <2> SUFFICES ASSUME IInv, [Next]_vars, NEW m \in mut' \ mut, quiet
                 PROVE  /\ m.object \in Subject(object, calc.resources, m.finding)
                        /\ Enabled(calc.resources, Gvk[m.object])
                        /\ m.uid = object[m.object].uid
      OBVIOUS
    <2>1. CreateMutation \/ CreateOwned
      BY DEF Next, Others, ChangeOwners, DeleteObject, RecreateObject, AnalysisResult,
             EditResources, DeleteMutation, Edit, CacheSync, ListResults, Work, NextItem,
             WalkToOwner, ReadTarget, Deduplicate, FinishCalculate, ReadFails, StepFails, vars
    <2>2. PICK i \in DOMAIN calc.eligible : m = MutationOf(calc.eligible[i])
      BY <2>1, CreateStep DEF IInv
    <2>3. /\ m.object = calc.eligible[i].object /\ m.finding = calc.eligible[i].finding
          /\ m.uid = calc.eligible[i].uid
      BY <2>2 DEF MutationOf
    <2>4. FoundOK(object, calc)
      BY DEF IInv
    <2> QED
      BY <2>3, <2>4 DEF FoundOK, Right
  <1> HIDE DEF Good
  <1>2. Spec => [][Good]_vars
    BY <1>1, Invariance, PTL DEF Spec
  <1> QED
    BY <1>2 DEF Good, MutationForSubject
==================================================================================
