--------------------------- MODULE AtomicPatchProofs ---------------------------
(***************************************************************************)
(* Remediation implements AtomicPatch, for any values of the constants:    *)
(* the initial states map to initial states, and every step maps to a step *)
(* of AtomicPatch or leaves its variables as they are.                     *)
(***************************************************************************)
EXTENDS RemediationProofs

\* The variables of AtomicPatch, as the refinement mapping gives them.
Objects == [t \in Target |-> ObjectOf(target[t])]
Patches == {[key |-> a.key, version |-> a.snap] : a \in applied}
ReportOf(k, m) ==
    IF m.phase \in Done THEN {[key |-> k, version |-> m.rv]} ELSE {}

USE DEF Key

\* Before anything has happened there is nothing to see.
LEMMA InitRefines == Init => Promise!Init
  BY DEF Init, Promise!Init, Promise!None, ObjectOf, NoTarget, Absent, Reports

\* A write to one target is a write to its image under the mapping.
LEMMA ObjectsPut ==
  ASSUME NEW t \in Target, NEW obj, target' = [target EXCEPT ![t] = obj],
         target \in [Target -> TargetRec]
  PROVE  Objects' = [Objects EXCEPT ![t] = ObjectOf(obj)]
  BY DEF Objects

\* The writes of others are writes of AtomicPatch.
LEMMA OthersRefine ==
  ASSUME IInv, NEW t \in Target,
         CreateTarget(t) \/ DeleteTarget(t) \/ EditTarget(t) \/ RolloutStatus(t)
  PROVE  Promise!Next
  <1> USE DEF IInv, TypeOK
  <1>1. Patches' = Patches /\ Reports' = Reports
    BY DEF CreateTarget, DeleteTarget, EditTarget, RolloutStatus, OperatorUnchanged,
           Patches, Reports
  <1>2. Objects[t].uid = target[t].uid
    BY DEF Objects, ObjectOf
  <1>3. CASE CreateTarget(t)
    <2>1. PICK u \in Uid \ used, i \in Image :
            /\ used' = used \cup {u}
            /\ target' = [target EXCEPT ![t] =
                            [uid |-> u, rv |-> rev + 1, image |-> i,
                             observed |-> FALSE, available |-> FALSE]]
      BY <1>3 DEF CreateTarget
    <2>2. Objects' = [Objects EXCEPT ![t] = [uid |-> u, rv |-> rev + 1, image |-> i]]
      BY <2>1, ObjectsPut DEF ObjectOf
    <2>3. Objects[t].uid = NoUid /\ rev' = rev + 1
      BY <1>2, <1>3 DEF CreateTarget, Exists
    <2>4. Promise!Create(t)
      BY <1>1, <2>1, <2>2, <2>3 DEF Promise!Create, Promise!Put, Objects, Patches
    <2> QED BY <2>4 DEF Promise!Next
  <1>4. CASE DeleteTarget(t)
    <2>1. Objects' = [Objects EXCEPT ![t] = [uid |-> NoUid, rv |-> 0, image |-> NoImage]]
      BY <1>4, ObjectsPut DEF DeleteTarget, NoTarget, ObjectOf
    <2>2. Objects[t].uid # NoUid /\ rev' = rev /\ used' = used
      BY <1>2, <1>4 DEF DeleteTarget, Exists
    <2>3. Promise!Delete(t)
      BY <1>1, <2>1, <2>2 DEF Promise!Delete, Promise!None, Objects, Patches
    <2> QED BY <2>3 DEF Promise!Next
  <1>5. CASE EditTarget(t) \/ RolloutStatus(t)
    <2>1. PICK i \in Image :
            Objects' = [Objects EXCEPT ![t] =
                          [uid |-> Objects[t].uid, rv |-> rev + 1, image |-> i]]
      <3>1. CASE EditTarget(t)
        <4>1. PICK i \in Image :
                target' = [target EXCEPT ![t] = NewGeneration(target[t], i)]
          BY <3>1 DEF EditTarget
        <4>2. Objects' = [Objects EXCEPT ![t] = ObjectOf(NewGeneration(target[t], i))]
          BY <4>1, ObjectsPut
        <4>3. ObjectOf(NewGeneration(target[t], i))
                = [uid |-> Objects[t].uid, rv |-> rev + 1, image |-> i]
          BY <1>2 DEF NewGeneration, ObjectOf
        <4> QED BY <4>2, <4>3
      <3>2. CASE RolloutStatus(t)
        <4>1. PICK b \in BOOLEAN : target' = [target EXCEPT ![t] = Reported(target[t], b)]
          BY <3>2 DEF RolloutStatus
        <4>2. target[t].image \in Image
          BY <3>2 DEF RolloutStatus, TargetsInv
        <4>3. Objects' = [Objects EXCEPT ![t] = ObjectOf(Reported(target[t], b))]
          BY <4>1, ObjectsPut
        <4>4. ObjectOf(Reported(target[t], b))
                = [uid |-> Objects[t].uid, rv |-> rev + 1, image |-> target[t].image]
          BY <1>2 DEF Reported, ObjectOf
        <4> QED BY <4>2, <4>3, <4>4
      <3> QED BY <1>5, <3>1, <3>2
    <2>2. Objects[t].uid # NoUid /\ rev' = rev + 1 /\ used' = used
      BY <1>2, <1>5 DEF EditTarget, RolloutStatus, Exists
    <2>3. Promise!Write(t)
      BY <1>1, <2>1, <2>2 DEF Promise!Write, Promise!Put, Objects, Patches
    <2> QED BY <2>3 DEF Promise!Next
  <1> QED BY <1>3, <1>4, <1>5

\* The patch is the compare-and-swap: what the worker read, what the gate
\* compared with the snapshot and what the test operation found are one
\* version of one object.
LEMMA PatchRefines ==
  ASSUME IInv, ApplyPatch, TestVersion(target[TargetOfKey(key)])
  PROVE  Promise!Next
  <1> DEFINE t == TargetOfKey(key)
             p == [key |-> key, snap |-> copy.rv, over |-> target[t].rv,
                   uid |-> target[t].uid]
  <1> USE DEF IInv, TypeOK
  <1>1. /\ key \in Key /\ t \in Target /\ target[t].uid = key[2] /\ target[t].rv = copy.rv
        /\ copy.proposal \in Image \ {target[t].image}
    BY PatchPoint
  <1>2. /\ rev' = rev + 1 /\ used' = used /\ mut' = mut
        /\ target' = [target EXCEPT ![t] = NewGeneration(target[t], copy.proposal)]
        /\ applied' = applied \cup {p}
    BY DEF ApplyPatch
  <1>3. Objects[t] = ObjectOf(target[t])
    BY <1>1 DEF Objects
  <1>4. Objects[t].uid = key[2] /\ Objects[t].rv = copy.rv /\ Objects[t].image = target[t].image
    BY <1>1, <1>3 DEF ObjectOf
  <1>5. Objects' = [Objects EXCEPT ![t] = ObjectOf(NewGeneration(target[t], copy.proposal))]
    BY <1>1, <1>2, ObjectsPut
  <1>6. ObjectOf(NewGeneration(target[t], copy.proposal))
          = [uid |-> key[2], rv |-> rev + 1, image |-> copy.proposal]
    BY <1>1 DEF NewGeneration, ObjectOf
  <1>7. Patches' = Patches \cup {[key |-> key, version |-> Objects[t].rv]}
    <2>1. p.key = key /\ p.snap = copy.rv
      OBVIOUS
    <2> HIDE DEF p, t
    <2>2. Patches' = Patches \cup {[key |-> p.key, version |-> p.snap]}
      BY <1>2 DEF Patches
    <2> QED BY <1>4, <2>1, <2>2
  <1>8. Reports' = Reports
    BY <1>2 DEF Reports
  <1>9. PICK k \in Key : k = key
    BY <1>1
  <1>10. Promise!Patch(k)
    BY <1>1, <1>2, <1>4, <1>5, <1>6, <1>7, <1>8, <1>9
    DEF Promise!Patch, Promise!Put, Objects, Patches, UidOfKey
  <1> QED BY <1>10 DEF Promise!Next

\* Mutation k, written as m, changes its own report and no other.
LEMMA ReportsPut ==
  ASSUME NEW k \in Key, NEW m, mut \in [Key -> MutationRec],
         mut' = [mut EXCEPT ![k] = m]
  PROVE  Reports' = (Reports \ ReportOf(k, mut[k])) \cup ReportOf(k, m)
  <1>1. \A j \in Key : mut'[j] = IF j = k THEN m ELSE mut[j]
    OBVIOUS
  <1>2. ASSUME NEW r PROVE r \in Reports' <=> \E j \in Key : r \in ReportOf(j, mut'[j])
    BY DEF Reports, ReportOf, Done
  <1>3. ASSUME NEW r PROVE r \in Reports <=> \E j \in Key : r \in ReportOf(j, mut[j])
    BY DEF Reports, ReportOf, Done
  <1>4. ASSUME NEW r, NEW j, NEW n, r \in ReportOf(j, n) PROVE r.key = j
    BY <1>4 DEF ReportOf
  <1>5. \A r : r \in Reports' <=> r \in (Reports \ ReportOf(k, mut[k])) \cup ReportOf(k, m)
    BY <1>1, <1>2, <1>3, <1>4
  <1> QED BY <1>5

\* A step that writes Mutations and no target reports one patch that was made,
\* forgets one, or shows nothing.
LEMMA MutationsRefine ==
  ASSUME IInv, [Next]_vars, UNCHANGED <<rev, used, target, applied>>
  PROVE  Promise!Next \/ UNCHANGED Promise!avars
  <1> USE DEF IInv, TypeOK
  <1>1. Objects' = Objects /\ Patches' = Patches
    BY DEF Objects, Patches, ObjectOf
  <1>2. ASSUME Reports' = Reports PROVE UNCHANGED Promise!avars
    BY <1>1, <1>2 DEF Promise!avars, Objects, Patches
  <1>3. ASSUME NEW p \in Patches, Reports' = Reports \cup {p} PROVE Promise!Next
    <2>1. Promise!Report(p)
      BY <1>1, <1>3 DEF Promise!Report, Objects, Patches
    <2> QED BY <1>3, <2>1 DEF Promise!Next, Patches
  <1>4. ASSUME NEW p \in Reports, Reports' = Reports \ {p} PROVE Promise!Next
    <2>1. Promise!Forget(p)
      BY <1>1, <1>4 DEF Promise!Forget, Objects, Patches
    <2> QED BY <1>4, <2>1 DEF Promise!Next
  <1>5. \A k \in Key : ReportOf(k, mut[k]) \subseteq Reports
    BY DEF Reports, ReportOf, Done
  <1>6. ASSUME NEW k \in Key, DeleteMutation(k) PROVE Reports' = Reports
    <2>1. \A j \in Key : mut'[j].phase = mut[j].phase /\ mut'[j].rv = mut[j].rv
      BY <1>6 DEF DeleteMutation, MutationRec
    <2> QED BY <2>1 DEF Reports
  <1>7. ASSUME NEW e \in calc.eligible, CreateMutation(e) PROVE Reports' = Reports
    <2> DEFINE k == <<e.finding, e.uid>>
               m == [phase |-> "NotStarted", rv |-> e.rv, proposal |-> NoImage,
                     deleting |-> FALSE, ver |-> mut[k].ver + 1]
    <2>1. k \in Key
      BY DEF CalcRec, EligibleRec
    <2>2. (mut' = [mut EXCEPT ![k] = m] /\ mut[k].phase = "Absent") \/ mut' = mut
      BY <1>7 DEF CreateMutation
    <2>3. ReportOf(k, m) = {}
      BY DEF ReportOf, Done
    <2>4. mut[k].phase = "Absent" => ReportOf(k, mut[k]) = {}
      BY DEF ReportOf, Done
    <2> HIDE DEF m, k
    <2>5. CASE mut' = [mut EXCEPT ![k] = m] /\ mut[k].phase = "Absent"
      <3>1. Reports' = (Reports \ ReportOf(k, mut[k])) \cup ReportOf(k, m)
        BY <2>1, <2>5, ReportsPut
      <3> QED BY <2>3, <2>4, <2>5, <3>1
    <2> QED BY <2>2, <2>5 DEF Reports
  <1>8. CASE RemoveFinalizer
    <2>1. CASE Current(key)
      <3>1. key \in Key /\ mut' = [mut EXCEPT ![key] = Absent(mut[key].ver + 1)]
        BY <1>8, <2>1 DEF RemoveFinalizer
      <3>2. ReportOf(key, Absent(mut[key].ver + 1)) = {}
        BY DEF ReportOf, Absent, Done
      <3>3. Reports' = Reports \ ReportOf(key, mut[key])
        BY <3>1, <3>2, ReportsPut
      <3> QED BY <1>2, <1>4, <1>5, <3>1, <3>3 DEF ReportOf
    <2>2. CASE ~ Current(key)
      BY <1>2, <1>8, <2>2 DEF RemoveFinalizer, Reports
    <2> QED BY <2>1, <2>2
  <1>9. CASE StoreMutation
    <2>1. CASE Current(key) /\ copy # mut[key]
      <3> DEFINE m == [copy EXCEPT !.ver = mut[key].ver + 1]
      <3>1. /\ key \in Key /\ copy.rv = mut[key].rv
            /\ copy.phase \in Successors(mut[key].phase) \cup {mut[key].phase}
        BY <1>9, <2>1 DEF StoreMutation, Current, CopiesInv, CopyOK
      <3>2. mut' = [mut EXCEPT ![key] = m]
        BY <1>9, <2>1 DEF StoreMutation
      <3>3. m.phase = copy.phase /\ m.rv = copy.rv
        BY DEF MutationRec
      <3> HIDE DEF m
      <3>4. Reports' = (Reports \ ReportOf(key, mut[key])) \cup ReportOf(key, m)
        BY <3>1, <3>2, ReportsPut
      <3>5. CASE mut[key].phase \in Done
        <4>1. copy.phase \in Done
          BY <3>1, <3>5 DEF Successors, Done
        <4>2. ReportOf(key, m) = ReportOf(key, mut[key])
          BY <3>1, <3>3, <3>5, <4>1 DEF ReportOf
        <4> QED BY <1>2, <1>5, <3>1, <3>4, <4>2
      <3>6. CASE mut[key].phase \notin Done /\ copy.phase \notin Done
        <4>1. ReportOf(key, m) = {} /\ ReportOf(key, mut[key]) = {}
          BY <3>3, <3>6 DEF ReportOf
        <4> QED BY <1>2, <3>4, <4>1
      <3>7. CASE mut[key].phase \notin Done /\ copy.phase \in Done
        <4> DEFINE p == [key |-> key, version |-> copy.rv]
        <4>1. ReportOf(key, m) = {p} /\ ReportOf(key, mut[key]) = {}
          BY <3>3, <3>7 DEF ReportOf
        <4>2. p \in Patches
          BY <1>9, <3>7 DEF StoreMutation, DoneInv, SaysTrue, Patches
        <4> HIDE DEF p
        <4> QED BY <1>3, <3>4, <4>1, <4>2
      <3> QED BY <3>5, <3>6, <3>7
    <2>2. CASE ~ (Current(key) /\ copy # mut[key])
      <3>1. mut' = mut
        BY <1>9, <2>2 DEF StoreMutation
      <3> QED BY <1>2, <3>1 DEF Reports
    <2> QED BY <2>1, <2>2
  <1>10. CASE mut' = mut
    BY <1>2, <1>10 DEF Reports
  <1> QED BY <1>2, <1>6, <1>7, <1>8, <1>9, <1>10, WhoWritesMutations

\* Every step of the two controllers and of everyone else is one step of
\* AtomicPatch, or is not visible in it.
LEMMA StepRefines == IInv /\ [Next]_vars => [Promise!Next]_Promise!avars
  <1> SUFFICES ASSUME IInv, [Next]_vars PROVE Promise!Next \/ UNCHANGED Promise!avars
    OBVIOUS
  <1>1. CASE ApplyPatch /\ TestVersion(target[TargetOfKey(key)])
    BY <1>1, PatchRefines
  <1>2. CASE ~ (ApplyPatch /\ TestVersion(target[TargetOfKey(key)]))
    BY <1>2, OthersRefine, MutationsRefine, WhoWritesTargets, WhoWritesApplied
  <1> QED BY <1>1, <1>2

\* Auto-remediation, with all its calls, retries, stale reads and restarts,
\* implements one atomic compare-and-swap per remediation.
THEOREM Refinement == Spec => RemediationIsAtomic
  BY InitRefines, Invariance, StepRefines, PTL DEF Spec, RemediationIsAtomic, Promise!Spec

================================================================================
