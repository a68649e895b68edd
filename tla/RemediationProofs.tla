--------------------------- MODULE RemediationProofs ---------------------------
(***************************************************************************)
(* Proofs about Remediation, for any sets of targets, findings, UIDs and   *)
(* images and any bounds: type correctness, the safety invariants and the  *)
(* order of the phases.                                                    *)
(*                                                                         *)
(* None of the invariants is inductive as it stands: what a patch may do   *)
(* depends on what the worker has in hand, and that on what it read before *)
(* the other actors moved on. IInv adds, in named parts, what is true of   *)
(* the versions, of the worker's and the informer's copies, and of the     *)
(* patches made so far.                                                    *)
(***************************************************************************)
EXTENDS Remediation, TLAPS

Ready(t) == target[t].observed /\ target[t].available

\* Versions and UIDs are given once, in increasing order.
TargetsInv ==
    /\ \A t \in Target : /\ target[t].rv <= rev
                         /\ Exists(t) => /\ target[t].rv > 0
                                         /\ target[t].uid \in used
                                         /\ target[t].image \in Image
    /\ \A t, s \in Target :
         Exists(t) /\ (target[t].rv = target[s].rv \/ target[t].uid = target[s].uid)
           => t = s

\* Between the gate and the patch the worker holds an object the gate passed;
\* a target with its version is that very object.
LiveInv ==
    pc \in {"dryrun", "patch"} =>
      /\ copy.phase = "InProgress"
      /\ Evaluate(key, copy, live)
      /\ live.rv <= rev
      /\ \A t \in Target : target[t].rv = live.rv /\ Exists(t) =>
           /\ t = TargetOfKey(key)
           /\ target[t].uid = live.uid /\ target[t].image = live.image

\* A version that was patched is never current again, and a patched object
\* that is ready has been seen to roll out.
AppliedInv ==
    /\ NoStaleOverwrite
    /\ OnePatchPerVersion
    /\ \A a \in applied : /\ a.over > 0 /\ a.over <= rev
                          /\ a.uid \in used
                          /\ \A t \in Target : target[t].rv # a.over
                          /\ \A t \in Target :
                               target[t].uid = a.uid /\ Ready(t) => a \in healed

Done == {"Completed", "Pending", "Successful"}

\* Mutation m, if it says that its patch was made, is right given patches A.
SaysTrue(k, m, A) == m.phase \in Done => \E a \in A : a.key = k /\ a.snap = m.rv

\* Every copy of a Mutation says the truth about its patch.
DoneInv ==
    /\ \A k \in Key : SaysTrue(k, mut[k], applied) /\ SaysTrue(k, cache[k], applied)
    /\ pc # "idle" => SaysTrue(key, copy, applied)

\* The rollout of Mutation m's patch was seen, given patches A and those
\* rolled out, H.
Saw(k, m, A, H) == \E a \in A : a.key = k /\ a.snap = m.rv /\ a \in H

\* Whoever is about to say, or says, Successful has seen the rollout.
HealedInv ==
    /\ \A k \in Key : mut[k].phase = "Successful" /\ TargetOfKey(k) \in Deployments
                        => Saw(k, mut[k], applied, healed)
    /\ TargetOfKey(key) \in Deployments
       /\ (pc = "result" \/ (pc = "store" /\ copy.phase = "Successful"))
         => Saw(key, copy, applied, healed)

\* The worker, at p, holds copy c of the stored Mutation m: an older version,
\* or the same up to the change the worker is about to store.
CopyOK(p, c, m) ==
    /\ c.phase # "Absent"
    /\ p = "finalizer" => c.deleting
    /\ p = "result" => c.phase \in {"Completed", "Pending"}
    /\ c.ver <= m.ver
    /\ c.ver = m.ver /\ m.phase # "Absent" =>
         /\ p # "store" => c = m
         /\ c.deleting = m.deleting /\ c.rv = m.rv
         /\ c.phase \in Successors(m.phase) \cup {m.phase}

\* Two copies of a Mutation with one version agree.
CopiesInv ==
    /\ \A k \in Key : /\ cache[k].ver <= mut[k].ver
                      /\ cache[k].ver = mut[k].ver => cache[k] = mut[k]
    /\ pc # "idle" => CopyOK(pc, copy, mut[key])

IInv == TypeOK /\ TargetsInv /\ LiveInv /\ AppliedInv /\ DoneInv /\ HealedInv /\ CopiesInv
-----------------------------------------------------------------------------
USE DEF Key

\* The operator starts with every variable in its type.
LEMMA TypeInit == Init => TypeOK
  BY UidAssumption, ImageAssumption
  DEF Init, TypeOK, NoTarget, Absent, TargetRec, MutationRec, Phase, Active,
      CalcIdle, CalcRec

\* A Mutation with another resourceVersion is a Mutation.
LEMMA VersionType ==
  ASSUME NEW m \in MutationRec, NEW v \in Nat
  PROVE  [m EXCEPT !.ver = v] \in MutationRec
  BY DEF MutationRec

\* A handler that returns drops its copies, which leaves them typed.
LEMMA ReturnType == Return => copy' \in MutationRec /\ live' \in TargetRec
  BY DEF Return, Absent, NoTarget, MutationRec, TargetRec, Phase, Active

\* An edit or a patch of a target leaves it a target.
LEMMA NewGenerationType ==
  ASSUME NEW obj \in TargetRec, NEW i \in Image, rev \in Nat
  PROVE  NewGeneration(obj, i) \in TargetRec
  BY DEF NewGeneration, TargetRec

\* No action of a controller or of anyone else breaks the types; in
\* particular eligibleResource skips a target that is gone.
LEMMA TypeStep == TypeOK /\ [Next]_vars => TypeOK'
  <1> SUFFICES ASSUME TypeOK, [Next]_vars PROVE TypeOK'
    OBVIOUS
  <1> USE DEF TypeOK, cluster, worker, OperatorUnchanged
  <1>1. ASSUME NEW t \in Target, CreateTarget(t) PROVE TypeOK'
    BY <1>1 DEF CreateTarget, TargetRec
  <1>2. ASSUME NEW t \in Target, DeleteTarget(t) PROVE TypeOK'
    BY <1>2 DEF DeleteTarget, TargetRec, NoTarget
  <1>3. ASSUME NEW t \in Target, EditTarget(t) PROVE TypeOK'
    BY <1>3, NewGenerationType DEF EditTarget
  <1>4. ASSUME NEW t \in Target, RolloutStatus(t) PROVE TypeOK'
    BY <1>4 DEF RolloutStatus, Reported, TargetRec
  <1>5. ASSUME NEW f \in Finding, AnalysisResult(f) PROVE TypeOK'
    BY <1>5 DEF AnalysisResult
  <1>6. ASSUME NEW k \in Key, DeleteMutation(k) PROVE TypeOK'
    BY <1>6 DEF DeleteMutation, MutationRec
  <1>7. ASSUME NEW k \in Key, CacheSync(k) PROVE TypeOK'
    BY <1>7 DEF CacheSync
  <1>8. CASE ListResults
    BY <1>8 DEF ListResults, CalcRec
  <1>8a. CASE GetResults
    BY <1>8a DEF GetResults, CalcRec, CalcIdle
  <1>9. ASSUME NEW f \in Finding, SnapshotTarget(f) PROVE TypeOK'
    <2>1. Snapshot(f) \subseteq EligibleRec
      BY TargetOfAssumption DEF Snapshot, EligibleRec, TargetRec
    <2> QED BY <1>9, <2>1 DEF SnapshotTarget, CalcRec
  <1>10. ASSUME NEW e \in calc.eligible, CreateMutation(e) PROVE TypeOK'
    <2>1. e \in EligibleRec /\ <<e.finding, e.uid>> \in Key
      BY DEF CalcRec, EligibleRec
    <2>2. calc' \in CalcRec
      <3>1. calc' = [calc EXCEPT !.eligible = @ \ {e}] \/ calc' = CalcIdle
        BY <1>10 DEF CreateMutation
      <3>2. [calc EXCEPT !.eligible = @ \ {e}] \in CalcRec
        BY DEF CalcRec
      <3> QED BY <3>1, <3>2 DEF CalcRec, CalcIdle
    <2>3. mut' \in [Key -> MutationRec]
      <3> DEFINE k == <<e.finding, e.uid>>
                 m == [phase |-> "NotStarted", rv |-> e.rv, proposal |-> NoImage,
                       deleting |-> FALSE, ver |-> mut[k].ver + 1]
      <3>1. mut' = [mut EXCEPT ![k] = m] \/ mut' = mut
        BY <1>10 DEF CreateMutation
      <3>2. mut[k] \in MutationRec
        BY <2>1
      <3>3. m \in MutationRec
        BY <2>1, <3>2 DEF MutationRec, EligibleRec, Phase, Active
      <3> QED BY <3>1, <3>3
    <2> QED BY <1>10, <2>2, <2>3 DEF CreateMutation
  <1>11. CASE FinishCalculate
    BY <1>11 DEF FinishCalculate, CalcRec, CalcIdle
  <1>12. ASSUME NEW k \in Key, StartReconcile(k) PROVE TypeOK'
    BY <1>12 DEF StartReconcile
  <1>13. CASE RemoveFinalizer
    <2>1. Absent(mut[key].ver + 1) \in MutationRec
      BY <1>13 DEF RemoveFinalizer, Absent, MutationRec, Phase
    <2> QED BY <1>13, <2>1, ReturnType DEF RemoveFinalizer, Return
  <1>14. CASE QueryAnswered
    BY <1>14 DEF QueryAnswered, Proposal, Finish, MutationRec, Phase, Active
  <1>15. CASE QueryUnanswered
    BY <1>15, ReturnType DEF QueryUnanswered, Return
  <1>16. CASE ReadLive
    <2>1. key \in Key /\ target[TargetOfKey(key)] \in TargetRec
      BY <1>16, TargetOfAssumption DEF ReadLive, TargetOfKey
    <2>2. Rejected(copy) \in MutationRec
      BY DEF Rejected, MutationRec, Phase
    <2> QED BY <1>16, <2>1, <2>2 DEF ReadLive, Finish, Evaluate
  <1>16a. CASE ReadForeign
    <2>1. Rejected(copy) \in MutationRec
      BY DEF Rejected, MutationRec, Phase
    <2> QED BY <1>16a, <2>1, ReturnType DEF ReadForeign, Finish, Return
  <1>17. CASE DryRunPatch
    BY <1>17, ReturnType DEF DryRunPatch, Return
  <1>18. CASE ApplyPatch
    <2>1. CASE TestVersion(target[TargetOfKey(key)])
      <3>1. key \in Key /\ TargetOfKey(key) \in Target
        BY <1>18, TargetOfAssumption DEF ApplyPatch, TargetOfKey
      <3>2. target' \in [Target -> TargetRec]
        BY <1>18, <2>1, <3>1, NewGenerationType DEF ApplyPatch
      <3>3. applied' \in SUBSET PatchRec
        BY <1>18, <2>1, <3>1 DEF ApplyPatch, PatchRec, MutationRec, TargetRec
      <3>4. copy' \in MutationRec
        BY <1>18, <2>1 DEF ApplyPatch, Finish, MutationRec, Phase, Active
      <3> QED BY <1>18, <2>1, <3>1, <3>2, <3>3, <3>4 DEF ApplyPatch, Finish
    <2>2. CASE ~ TestVersion(target[TargetOfKey(key)])
      BY <1>18, <2>2, ReturnType DEF ApplyPatch, Return
    <2> QED BY <2>1, <2>2
  <1>19. CASE CheckTarget
    BY <1>19 DEF CheckTarget, Finish, MutationRec, Phase, Active
  <1>20. CASE CheckResult
    BY <1>20 DEF CheckResult, Finish, MutationRec, Phase, Active
  <1>21. CASE TargetGone
    BY <1>21, ReturnType DEF TargetGone, Return
  <1>22. CASE StoreMutation
    <2>1. key \in Key /\ mut[key] \in MutationRec
      BY <1>22 DEF StoreMutation
    <2>2. [copy EXCEPT !.ver = mut[key].ver + 1] \in MutationRec
      <3>1. mut[key].ver + 1 \in Nat
        BY <2>1 DEF MutationRec
      <3>2. copy \in MutationRec
        OBVIOUS
      <3> QED BY <3>1, <3>2, VersionType
    <2>3. mut' \in [Key -> MutationRec]
      BY <1>22, <2>1, <2>2 DEF StoreMutation
    <2> QED BY <1>22, <2>3, ReturnType DEF StoreMutation, Return
  <1>23. CASE ReconcileFails
    BY <1>23, ReturnType DEF ReconcileFails, Return
  <1>24. CASE CalculateFails
    BY <1>24 DEF CalculateFails, CalcIdle, CalcRec
  <1>25. CASE Restart
    BY <1>25, ReturnType DEF Restart, Return, CalcIdle, CalcRec
  <1>26. CASE UNCHANGED vars
    BY <1>26 DEF vars
  <1> QED
    BY <1>1, <1>2, <1>3, <1>4, <1>5, <1>6, <1>7, <1>8, <1>8a, <1>9, <1>10, <1>11, <1>12,
       <1>13, <1>14, <1>15, <1>16, <1>16a, <1>17, <1>18, <1>19, <1>20, <1>21, <1>22,
       <1>23, <1>24, <1>25, <1>26
    DEF Next, Others, Calculate, Work

-----------------------------------------------------------------------------
(***************************************************************************)
(* Which steps write which variables.                                      *)
(***************************************************************************)
\* Targets change by the writes of others and by ApplyPatch alone: the
\* operator has no other write to a target than ResourceToExecution's patch.
LEMMA WhoWritesTargets ==
  ASSUME [Next]_vars
  PROVE  \/ UNCHANGED <<rev, used, target>>
         \/ \E t \in Target : \/ CreateTarget(t) \/ DeleteTarget(t)
                              \/ EditTarget(t) \/ RolloutStatus(t)
         \/ ApplyPatch /\ TestVersion(target[TargetOfKey(key)])
  BY DEF Next, vars, cluster, Others, Calculate, Work, AnalysisResult, DeleteMutation,
         CacheSync, ListResults, GetResults, SnapshotTarget, CreateMutation, FinishCalculate,
         StartReconcile, RemoveFinalizer, QueryAnswered, QueryUnanswered, ReadLive,
         ReadForeign, DryRunPatch, ApplyPatch, CheckTarget, CheckResult, TargetGone, StoreMutation,
         ReconcileFails, CalculateFails, Restart

\* Only a patch that passes its resourceVersion test is persisted.
LEMMA WhoWritesApplied ==
  ASSUME [Next]_vars, ~ (ApplyPatch /\ TestVersion(target[TargetOfKey(key)]))
  PROVE  applied' = applied
  <1>1. CASE Others \/ Calculate
    BY <1>1
    DEF Others, Calculate, OperatorUnchanged, CreateTarget, DeleteTarget, EditTarget,
        RolloutStatus, AnalysisResult, DeleteMutation, ListResults, GetResults, SnapshotTarget,
        CreateMutation, FinishCalculate
  <1>2. CASE ApplyPatch
    BY <1>2 DEF ApplyPatch
  <1>3. CASE RemoveFinalizer \/ QueryAnswered \/ QueryUnanswered \/ ReadLive \/ ReadForeign
             \/ DryRunPatch \/ CheckTarget \/ CheckResult \/ TargetGone \/ StoreMutation
    BY <1>3
    DEF RemoveFinalizer, QueryAnswered, QueryUnanswered, ReadLive, ReadForeign,
        DryRunPatch, CheckTarget, CheckResult, TargetGone, StoreMutation
  <1>4. CASE \/ \E k \in Key : CacheSync(k) \/ StartReconcile(k)
             \/ ReconcileFails \/ CalculateFails \/ Restart \/ UNCHANGED vars
    BY <1>4 DEF vars, CacheSync, StartReconcile, ReconcileFails, CalculateFails, Restart
  <1> QED BY <1>1, <1>2, <1>3, <1>4 DEF Next, Work

\* Only the Deployment controller's report makes a patch rolled out.
LEMMA WhoWritesHealed ==
  ASSUME [Next]_vars
  PROVE  healed' = healed \/ \E t \in Target : RolloutStatus(t)
  BY DEF Next, vars, cluster, OperatorUnchanged, Others, Calculate, Work, CreateTarget,
         DeleteTarget, EditTarget, AnalysisResult, DeleteMutation,
         CacheSync, ListResults, GetResults, SnapshotTarget, CreateMutation, FinishCalculate,
         StartReconcile, RemoveFinalizer, QueryAnswered, QueryUnanswered, ReadLive,
         ReadForeign, DryRunPatch, ApplyPatch, CheckTarget, CheckResult, TargetGone, StoreMutation,
         ReconcileFails, CalculateFails, Restart

\* The mutation controller moves by its own steps or gives up.
LEMMA WhoMovesWorker ==
  ASSUME [Next]_vars
  PROVE  UNCHANGED worker \/ (\E k \in Key : StartReconcile(k)) \/ Work \/ Return
  BY DEF Next, vars, worker, cluster, OperatorUnchanged, Others, Calculate, CreateTarget,
         DeleteTarget, EditTarget, RolloutStatus, AnalysisResult, DeleteMutation,
         CacheSync, ListResults, GetResults, SnapshotTarget, CreateMutation, FinishCalculate,
         ReconcileFails, CalculateFails, Restart

\* Mutations are written by users, by calculateRemediationStep and by the
\* two Updates of the mutation controller; only CacheSync moves the informer.
LEMMA WhoWritesMutations ==
  ASSUME [Next]_vars
  PROVE  /\ \/ mut' = mut
            \/ \E k \in Key : DeleteMutation(k)
            \/ \E e \in calc.eligible : CreateMutation(e)
            \/ RemoveFinalizer
            \/ StoreMutation
         /\ cache' = cache \/ \E k \in Key : CacheSync(k)
  BY DEF Next, vars, cluster, OperatorUnchanged, Others, Calculate, Work, CreateTarget,
         DeleteTarget, EditTarget, RolloutStatus, AnalysisResult, DeleteMutation,
         CacheSync, ListResults, GetResults, SnapshotTarget, CreateMutation, FinishCalculate,
         StartReconcile, RemoveFinalizer, QueryAnswered, QueryUnanswered, ReadLive,
         ReadForeign, DryRunPatch, ApplyPatch, CheckTarget, CheckResult, TargetGone, StoreMutation,
         ReconcileFails, CalculateFails, Restart

-----------------------------------------------------------------------------
\* The inductive invariant holds when the operator starts.
LEMMA InitIInv == Init => IInv
  <1> SUFFICES ASSUME Init PROVE IInv
    OBVIOUS
  <1>1. TypeOK
    BY TypeInit
  <1> QED BY <1>1
      DEF Init, IInv, TargetsInv, LiveInv, AppliedInv, DoneInv, HealedInv, CopiesInv,
          NoStaleOverwrite, OnePatchPerVersion, Exists, NoTarget,
          Absent, Done, SaysTrue

\* Where the worker patches: a target it may patch, at the version it read.
LEMMA PatchPoint ==
  ASSUME IInv, ApplyPatch, TestVersion(target[TargetOfKey(key)])
  PROVE  /\ key \in Key
         /\ TargetOfKey(key) \in Target
         /\ Exists(TargetOfKey(key))
         /\ target[TargetOfKey(key)].uid = key[2]
         /\ target[TargetOfKey(key)].rv = copy.rv
         /\ copy.proposal \in Image \ {target[TargetOfKey(key)].image}
  <1>1. key \in Key /\ TargetOfKey(key) \in Target
    BY TargetOfAssumption DEF IInv, TypeOK, ApplyPatch, TargetOfKey
  <1>2. /\ live.uid = key[2] /\ live.rv = copy.rv
        /\ copy.proposal \in Image /\ copy.proposal # live.image
    BY DEF IInv, LiveInv, ApplyPatch, Evaluate
  <1>3. Exists(TargetOfKey(key)) /\ target[TargetOfKey(key)].rv = live.rv
    BY DEF TestVersion, Exists
  <1> QED BY <1>1, <1>2, <1>3 DEF IInv, LiveInv, ApplyPatch

\* Every write to a target takes the next version; a UID is never reused.
LEMMA TargetsStep == IInv /\ [Next]_vars => TargetsInv'
  <1> SUFFICES ASSUME IInv, [Next]_vars PROVE TargetsInv'
    OBVIOUS
  <1> USE DEF IInv, TypeOK, TargetRec
  <1>1. ASSUME NEW t \in Target, CreateTarget(t) PROVE TargetsInv'
    BY <1>1, UidAssumption DEF CreateTarget, TargetsInv, Exists
  <1>2. ASSUME NEW t \in Target, DeleteTarget(t) PROVE TargetsInv'
    BY <1>2 DEF DeleteTarget, TargetsInv, Exists, NoTarget
  <1>3. ASSUME NEW t \in Target, EditTarget(t) PROVE TargetsInv'
    BY <1>3 DEF EditTarget, TargetsInv, Exists, NewGeneration
  <1>4. ASSUME NEW t \in Target, RolloutStatus(t) PROVE TargetsInv'
    BY <1>4 DEF RolloutStatus, TargetsInv, Exists, Reported
  <1>5. CASE ApplyPatch /\ TestVersion(target[TargetOfKey(key)])
    <2> DEFINE t == TargetOfKey(key)
    <2>1. t \in Target /\ Exists(t) /\ copy.proposal \in Image
      BY <1>5, PatchPoint
    <2>2. /\ rev' = rev + 1 /\ used' = used
          /\ target' = [target EXCEPT ![t] = NewGeneration(target[t], copy.proposal)]
      BY <1>5 DEF ApplyPatch
    <2> HIDE DEF t
    <2> QED BY <2>1, <2>2 DEF TargetsInv, Exists, NewGeneration
  <1>6. CASE UNCHANGED <<rev, used, target>>
    BY <1>6 DEF TargetsInv, Exists
  <1> QED BY <1>1, <1>2, <1>3, <1>4, <1>5, <1>6, WhoWritesTargets

\* Nothing that happens between the gate and the patch can give another
\* object, or another version, the resourceVersion the worker will test.
LEMMA LiveStep == IInv /\ [Next]_vars => LiveInv'
  <1> SUFFICES ASSUME IInv, [Next]_vars, pc' \in {"dryrun", "patch"} PROVE LiveInv'
    BY DEF LiveInv
  <1> USE DEF IInv, TypeOK, TargetRec
  <1>1. CASE ReadLive
    <2>1. /\ pc' = "dryrun" /\ live' = target[TargetOfKey(key)]
          /\ Evaluate(key, copy, live') /\ Exists(TargetOfKey(key))
          /\ copy.phase = "InProgress"
          /\ key' = key /\ copy' = copy /\ rev' = rev /\ target' = target
      BY <1>1 DEF ReadLive, Finish, Exists, cluster
    <2>2. TargetOfKey(key) \in Target
      BY <1>1, TargetOfAssumption DEF ReadLive, TargetOfKey
    <2> QED BY <2>1, <2>2 DEF LiveInv, TargetsInv, Exists, Evaluate, TargetOfKey
  <1>2. CASE DryRunPatch
    BY <1>2 DEF DryRunPatch, Return, LiveInv, Exists, Evaluate, TargetOfKey, cluster
  <1>3. CASE UNCHANGED worker
    <2>1. LiveInv /\ pc \in {"dryrun", "patch"} /\ UNCHANGED <<pc, key, copy, live>>
      BY <1>3 DEF worker
    <2>2. ~ ApplyPatch
      BY <2>1 DEF ApplyPatch, Finish, Return
    <2>3. CASE UNCHANGED <<rev, used, target>>
      BY <2>1, <2>3 DEF LiveInv, Exists, Evaluate, TargetOfKey
    <2>4. ASSUME NEW t \in Target, CreateTarget(t) PROVE LiveInv'
      BY <2>1, <2>4 DEF CreateTarget, LiveInv, Exists, Evaluate, TargetOfKey
    <2>5. ASSUME NEW t \in Target, DeleteTarget(t) PROVE LiveInv'
      BY <2>1, <2>5 DEF DeleteTarget, NoTarget, LiveInv, Exists, Evaluate, TargetOfKey
    <2>6. ASSUME NEW t \in Target, EditTarget(t) PROVE LiveInv'
      BY <2>1, <2>6 DEF EditTarget, NewGeneration, LiveInv, Exists, Evaluate, TargetOfKey
    <2>7. ASSUME NEW t \in Target, RolloutStatus(t) PROVE LiveInv'
      BY <2>1, <2>7 DEF RolloutStatus, Reported, LiveInv, Exists, Evaluate, TargetOfKey
    <2> QED BY <2>2, <2>3, <2>4, <2>5, <2>6, <2>7, WhoWritesTargets
  <1>4. CASE (\E k \in Key : StartReconcile(k)) \/ Return
    BY <1>4 DEF StartReconcile, Return
  <1>5. CASE RemoveFinalizer \/ QueryAnswered \/ QueryUnanswered \/ ReadForeign
             \/ ApplyPatch \/ CheckTarget \/ CheckResult \/ TargetGone \/ StoreMutation
    BY <1>5 DEF RemoveFinalizer, QueryAnswered, QueryUnanswered, ReadForeign, ApplyPatch,
                CheckTarget, CheckResult, TargetGone, StoreMutation, Finish, Return
  <1> QED BY <1>1, <1>2, <1>3, <1>4, <1>5, WhoMovesWorker DEF Work

\* A patch consumes the version it is made over.
LEMMA AppliedStep == IInv /\ [Next]_vars => AppliedInv'
  <1> SUFFICES ASSUME IInv, [Next]_vars PROVE AppliedInv'
    OBVIOUS
  <1> USE DEF IInv, TypeOK, TargetRec, NoStaleOverwrite, OnePatchPerVersion, AppliedInv, Ready
  <1>1. ASSUME NEW t \in Target, CreateTarget(t) PROVE AppliedInv'
    BY <1>1 DEF CreateTarget, OperatorUnchanged, PatchRec
  <1>2. ASSUME NEW t \in Target, DeleteTarget(t) PROVE AppliedInv'
    BY <1>2 DEF DeleteTarget, NoTarget, OperatorUnchanged, PatchRec
  <1>3. ASSUME NEW t \in Target, EditTarget(t) PROVE AppliedInv'
    BY <1>3 DEF EditTarget, NewGeneration, OperatorUnchanged, PatchRec
  <1>4. ASSUME NEW t \in Target, RolloutStatus(t) PROVE AppliedInv'
    BY <1>4 DEF RolloutStatus, Reported, OperatorUnchanged, PatchRec
  <1>5. CASE ApplyPatch /\ TestVersion(target[TargetOfKey(key)])
    <2> DEFINE t == TargetOfKey(key)
               p == [key |-> key, snap |-> copy.rv, over |-> target[t].rv,
                     uid |-> target[t].uid]
    <2>1. /\ key \in Key /\ t \in Target /\ Exists(t)
          /\ target[t].uid = key[2] /\ target[t].rv = copy.rv
      BY <1>5, PatchPoint
    <2>2. /\ rev' = rev + 1 /\ used' = used /\ healed' = healed
          /\ target' = [target EXCEPT ![t] = NewGeneration(target[t], copy.proposal)]
          /\ applied' = applied \cup {p}
      BY <1>5 DEF ApplyPatch
    <2>3. p.over = p.snap /\ p.uid = p.key[2] /\ p.over = target[t].rv /\ p.uid = target[t].uid
      BY <2>1
    <2>4. p.over \in Nat /\ p.over > 0 /\ p.over <= rev /\ p.uid \in used
      BY <2>1, <2>3 DEF TargetsInv
    <2>5. \A s \in Target : s # t => target[s].rv # p.over /\ target[s].uid # p.uid
      BY <2>1, <2>3 DEF TargetsInv
    <2>6. \A s \in Target :
            target'[s] = IF s = t THEN NewGeneration(target[t], copy.proposal) ELSE target[s]
      BY <2>2
    <2>7. NewGeneration(target[t], copy.proposal).rv = rev + 1
          /\ NewGeneration(target[t], copy.proposal).observed = FALSE
      BY DEF NewGeneration
    <2> HIDE DEF t, p
    <2>8. \A a \in applied' : a.over = a.snap /\ a.uid = a.key[2]
      BY <2>2, <2>3
    <2>9. \A a, b \in applied' : a.over = b.over => a = b
      BY <2>1, <2>2, <2>3
    <2>10. \A a \in applied' : a.over > 0 /\ a.over <= rev' /\ a.uid \in used'
      <3>1. \A a \in applied : a.over \in Nat /\ a.over > 0 /\ a.over <= rev /\ a.uid \in used
        BY DEF PatchRec
      <3> QED BY <2>2, <2>4, <3>1
    <2>11. \A a \in applied' : \A s \in Target : target'[s].rv # a.over
      BY <2>2, <2>4, <2>5, <2>6, <2>7 DEF PatchRec
    <2>12. \A a \in applied' : \A s \in Target :
             target'[s].uid = a.uid /\ target'[s].observed /\ target'[s].available
               => a \in healed'
      <3> SUFFICES ASSUME NEW a \in applied', NEW s \in Target,
                          target'[s].uid = a.uid, target'[s].observed, target'[s].available
                   PROVE  a \in healed'
        OBVIOUS
      <3>1. s # t
        BY <2>6, <2>7
      <3>2. target'[s] = target[s]
        BY <2>6, <3>1
      <3>3. a \in applied
        BY <2>2, <2>5, <3>1, <3>2
      <3> QED BY <2>2, <3>2, <3>3
    <2> QED BY <2>8, <2>9, <2>10, <2>11, <2>12
  <1>6. CASE UNCHANGED <<rev, used, target>> /\ applied' = applied /\ healed' = healed
    BY <1>6
  <1> QED BY <1>1, <1>2, <1>3, <1>4, <1>5, <1>6, WhoWritesTargets, WhoWritesApplied,
             WhoWritesHealed

\* What was patched, and seen to roll out, stays so.
LEMMA PatchesStay == [Next]_vars => applied \subseteq applied' /\ healed \subseteq healed'
  BY WhoWritesApplied, WhoWritesHealed DEF ApplyPatch, RolloutStatus

\* Completed is only written after the patch, and no copy of a Mutation,
\* however stale, says Completed before.
LEMMA DoneStep == IInv /\ [Next]_vars => DoneInv'
  <1> SUFFICES ASSUME IInv, [Next]_vars PROVE DoneInv'
    OBVIOUS
  <1>1. ASSUME NEW k, NEW m, SaysTrue(k, m, applied) PROVE SaysTrue(k, m, applied')
    BY <1>1, PatchesStay DEF SaysTrue
  <1>2. \A k \in Key : SaysTrue(k, mut[k], applied') /\ SaysTrue(k, cache[k], applied')
    BY <1>1 DEF IInv, DoneInv
  <1>3. pc # "idle" => key \in Key /\ SaysTrue(key, copy, applied')
    BY <1>1 DEF IInv, DoneInv, TypeOK
  <1>4. \A k \in Key : SaysTrue(k, mut'[k], applied')
    <2> USE DEF IInv, TypeOK
    <2>1. ASSUME NEW k \in Key, DeleteMutation(k)
          PROVE  \A j \in Key : SaysTrue(j, mut'[j], applied')
      <3>1. \A j \in Key : mut'[j].phase = mut[j].phase /\ mut'[j].rv = mut[j].rv
        BY <2>1 DEF DeleteMutation, MutationRec
      <3> QED BY <1>2, <3>1 DEF SaysTrue
    <2>2. ASSUME NEW e \in calc.eligible, CreateMutation(e)
          PROVE  \A j \in Key : SaysTrue(j, mut'[j], applied')
      <3> DEFINE k == <<e.finding, e.uid>>
                 m == [phase |-> "NotStarted", rv |-> e.rv, proposal |-> NoImage,
                       deleting |-> FALSE, ver |-> mut[k].ver + 1]
      <3>a. mut' = [mut EXCEPT ![k] = m] \/ mut' = mut
        BY <2>2 DEF CreateMutation
      <3>b. m.phase = "NotStarted"
        OBVIOUS
      <3>1. \A j \in Key : mut'[j] = mut[j] \/ mut'[j].phase = "NotStarted"
        <4> HIDE DEF m
        <4> QED BY <3>a, <3>b
      <3> QED BY <1>2, <3>1 DEF SaysTrue, Done
    <2>3. CASE RemoveFinalizer
      <3>1. \A j \in Key : mut'[j] = mut[j] \/ mut'[j].phase = "Absent"
        BY <2>3 DEF RemoveFinalizer, Absent
      <3> QED BY <1>2, <3>1 DEF SaysTrue, Done
    <2>4. CASE StoreMutation
      <3>1. \A j \in Key : \/ mut'[j] = mut[j]
                           \/ j = key /\ mut'[j].phase = copy.phase /\ mut'[j].rv = copy.rv
        BY <2>4 DEF StoreMutation, MutationRec
      <3>2. pc # "idle"
        BY <2>4 DEF StoreMutation
      <3> QED BY <1>2, <1>3, <3>1, <3>2 DEF SaysTrue
    <2> QED BY <1>2, <2>1, <2>2, <2>3, <2>4, WhoWritesMutations
  <1>5. \A k \in Key : SaysTrue(k, cache'[k], applied')
    <2>1. ASSUME NEW k \in Key, CacheSync(k)
          PROVE  \A j \in Key : cache'[j] = cache[j] \/ cache'[j] = mut[j]
      BY <2>1 DEF CacheSync, IInv, TypeOK
    <2> QED BY <1>2, <2>1, WhoWritesMutations
  <1>6. pc' # "idle" => SaysTrue(key', copy', applied')
    <2> SUFFICES ASSUME pc' # "idle" PROVE SaysTrue(key', copy', applied')
      OBVIOUS
    <2>1. ASSUME NEW k \in Key, StartReconcile(k) PROVE SaysTrue(key', copy', applied')
      BY <1>2, <2>1 DEF StartReconcile
    <2>2. CASE QueryAnswered
      <3>1. copy'.phase \in {"InProgress", "Aborted"}
        BY <2>2 DEF QueryAnswered, Finish, IInv, TypeOK, MutationRec
      <3> QED BY <3>1 DEF SaysTrue, Done
    <2>3. CASE ReadLive
      <3>1. \/ copy' = copy /\ key' = key
            \/ copy'.phase = "Aborted"
        BY <2>3 DEF ReadLive, Finish, Rejected, IInv, TypeOK, MutationRec
      <3> QED BY <1>3, <2>3, <3>1 DEF SaysTrue, Done, ReadLive
    <2>3a. CASE ReadForeign
      <3>1. copy'.phase = "Aborted"
        BY <2>3a DEF ReadForeign, Return, Finish, Rejected, IInv, TypeOK, MutationRec
      <3> QED BY <3>1 DEF SaysTrue, Done
    <2>4. CASE ApplyPatch
      <3>1. /\ key' = key /\ copy'.rv = copy.rv
            /\ [key |-> key, snap |-> copy.rv, over |-> target[TargetOfKey(key)].rv,
                uid |-> target[TargetOfKey(key)].uid] \in applied'
        BY <2>4 DEF ApplyPatch, Finish, Return, IInv, TypeOK, MutationRec
      <3> QED BY <3>1 DEF SaysTrue
    <2>5. CASE CheckTarget \/ CheckResult
      <3>1. /\ key' = key /\ copy'.rv = copy.rv /\ pc # "idle"
            /\ copy.phase \in Done
        BY <2>5
        DEF CheckTarget, CheckResult, Finish, IInv, TypeOK, MutationRec, CopiesInv, CopyOK, Done
      <3> QED BY <1>3, <3>1 DEF SaysTrue
    <2>6. CASE UNCHANGED worker \/ RemoveFinalizer \/ DryRunPatch
      <3>1. key' = key /\ copy' = copy /\ pc # "idle"
        BY <2>6 DEF worker, RemoveFinalizer, DryRunPatch, Return
      <3> QED BY <1>3, <3>1
    <2>7. CASE QueryUnanswered \/ TargetGone \/ StoreMutation \/ Return
      BY <2>7 DEF QueryUnanswered, TargetGone, StoreMutation, Return
    <2> QED BY <2>1, <2>2, <2>3, <2>3a, <2>4, <2>5, <2>6, <2>7, WhoMovesWorker DEF Work
  <1> QED BY <1>4, <1>5, <1>6 DEF DoneInv

\* targetReady sees the patched generation, not the one before it.
LEMMA HealedStep == IInv /\ [Next]_vars => HealedInv'
  <1> SUFFICES ASSUME IInv, [Next]_vars PROVE HealedInv'
    OBVIOUS
  <1>1. ASSUME NEW k, NEW m, Saw(k, m, applied, healed)
        PROVE  Saw(k, m, applied', healed')
    BY <1>1, PatchesStay DEF Saw
  <1>2. \A k \in Key : mut'[k].phase = "Successful" /\ TargetOfKey(k) \in Deployments
                         => Saw(k, mut'[k], applied', healed')
    <2> USE DEF IInv, TypeOK
    <2>1. ASSUME NEW k \in Key,
                 \/ mut'[k].phase = mut[k].phase /\ mut'[k].rv = mut[k].rv
                 \/ mut'[k].phase # "Successful",
                 mut'[k].phase = "Successful", TargetOfKey(k) \in Deployments
          PROVE  Saw(k, mut'[k], applied', healed')
      <3>1. Saw(k, mut[k], applied', healed')
        BY <1>1, <2>1 DEF HealedInv
      <3> QED BY <2>1, <3>1 DEF Saw
    <2>2. ASSUME NEW k \in Key, DeleteMutation(k)
          PROVE  \A j \in Key : mut'[j].phase = mut[j].phase /\ mut'[j].rv = mut[j].rv
      BY <2>2 DEF DeleteMutation, MutationRec
    <2>3. ASSUME NEW e \in calc.eligible, CreateMutation(e)
          PROVE  \A j \in Key : mut'[j] = mut[j] \/ mut'[j].phase # "Successful"
      <3> DEFINE k == <<e.finding, e.uid>>
                 m == [phase |-> "NotStarted", rv |-> e.rv, proposal |-> NoImage,
                       deleting |-> FALSE, ver |-> mut[k].ver + 1]
      <3>1. mut' = [mut EXCEPT ![k] = m] \/ mut' = mut
        BY <2>3 DEF CreateMutation
      <3>2. m.phase # "Successful"
        OBVIOUS
      <3> HIDE DEF m
      <3> QED BY <3>1, <3>2
    <2>4. ASSUME RemoveFinalizer
          PROVE  \A j \in Key : mut'[j] = mut[j] \/ mut'[j].phase # "Successful"
      BY <2>4 DEF RemoveFinalizer, Absent
    <2>5. CASE StoreMutation
      <3>1. \A j \in Key : \/ mut'[j] = mut[j]
                           \/ j = key /\ mut'[j].phase = copy.phase /\ mut'[j].rv = copy.rv
        BY <2>5 DEF StoreMutation, MutationRec
      <3>2. copy.phase = "Successful" /\ TargetOfKey(key) \in Deployments
              => Saw(key, copy, applied', healed')
        BY <1>1, <2>5 DEF StoreMutation, HealedInv
      <3> QED BY <2>1, <3>1, <3>2 DEF Saw
    <2> QED BY <2>1, <2>2, <2>3, <2>4, <2>5, WhoWritesMutations
  <1>3. ASSUME TargetOfKey(key') \in Deployments,
               pc' = "result" \/ (pc' = "store" /\ copy'.phase = "Successful")
        PROVE  Saw(key', copy', applied', healed')
    <2>1. CASE CheckTarget
      <3> DEFINE t == TargetOfKey(key)
      <3>1. /\ pc = "run" /\ pc' = "result" /\ key' = key /\ copy' = copy
            /\ copy.phase \in Done /\ t \in Deployments
            /\ target[t].uid = key[2] /\ Ready(t)
            /\ applied' = applied /\ healed' = healed
        BY <1>3, <2>1
        DEF CheckTarget, TargetReady, Finish, Ready, Done, IInv, TypeOK, MutationRec
      <3>2. PICK a \in applied : a.key = key /\ a.snap = copy.rv
        BY <3>1 DEF IInv, DoneInv, SaysTrue
      <3>3. a.uid = key[2] /\ t \in Target
        BY <3>1, <3>2, DeploymentsAssumption DEF IInv, AppliedInv, NoStaleOverwrite
      <3>4. a \in healed
        BY <3>1, <3>3 DEF IInv, AppliedInv
      <3> QED BY <3>1, <3>2, <3>4 DEF Saw
    <2>2. CASE CheckResult
      <3>1. pc = "result" /\ key' = key /\ copy'.rv = copy.rv
        BY <2>2 DEF CheckResult, Finish, IInv, TypeOK, MutationRec
      <3>2. Saw(key, copy, applied', healed')
        BY <1>1, <1>3, <3>1 DEF IInv, HealedInv
      <3> QED BY <3>1, <3>2 DEF Saw
    <2>3. CASE UNCHANGED worker
      <3>1. pc' = pc /\ key' = key /\ copy' = copy
        BY <2>3 DEF worker
      <3>2. Saw(key, copy, applied', healed')
        BY <1>1, <1>3, <3>1 DEF IInv, HealedInv
      <3> QED BY <3>1, <3>2
    <2>4. CASE QueryAnswered \/ ReadLive \/ ReadForeign \/ ApplyPatch
      BY <1>3, <2>4
      DEF QueryAnswered, ReadLive, ReadForeign, ApplyPatch, Finish, Return, Rejected, IInv,
          TypeOK, MutationRec
    <2>5. CASE \/ \E k \in Key : StartReconcile(k)
               \/ RemoveFinalizer \/ QueryUnanswered \/ DryRunPatch \/ TargetGone
               \/ StoreMutation \/ Return
      BY <1>3, <2>5
      DEF StartReconcile, RemoveFinalizer, QueryUnanswered, DryRunPatch, TargetGone,
          StoreMutation, Return
    <2> QED BY <2>1, <2>2, <2>3, <2>4, <2>5, WhoMovesWorker DEF Work
  <1> QED BY <1>2, <1>3 DEF HealedInv, TargetOfKey

\* The copies of one version of a Mutation agree, the informer's and the
\* worker's, so an Update that is not refused changes what the worker read.
LEMMA CopiesStep == IInv /\ [Next]_vars => CopiesInv'
  <1> SUFFICES ASSUME IInv, [Next]_vars PROVE CopiesInv'
    OBVIOUS
  <1> USE DEF IInv, TypeOK
  \* A write of a Mutation gives it a new version.
  <1>1. \A k \in Key : mut'[k] = mut[k] \/ mut'[k].ver = mut[k].ver + 1
    <2>1. ASSUME NEW k \in Key, DeleteMutation(k)
          PROVE  \A j \in Key : mut'[j] = mut[j] \/ mut'[j].ver = mut[j].ver + 1
      BY <2>1 DEF DeleteMutation, MutationRec
    <2>2. ASSUME NEW e \in calc.eligible, CreateMutation(e)
          PROVE  \A j \in Key : mut'[j] = mut[j] \/ mut'[j].ver = mut[j].ver + 1
      <3> DEFINE k == <<e.finding, e.uid>>
                 m == [phase |-> "NotStarted", rv |-> e.rv, proposal |-> NoImage,
                       deleting |-> FALSE, ver |-> mut[k].ver + 1]
      <3>1. mut' = [mut EXCEPT ![k] = m] \/ mut' = mut
        BY <2>2 DEF CreateMutation
      <3>2. m.ver = mut[k].ver + 1
        OBVIOUS
      <3> HIDE DEF m
      <3> QED BY <3>1, <3>2
    <2>3. CASE RemoveFinalizer
      BY <2>3 DEF RemoveFinalizer, Absent
    <2>4. CASE StoreMutation
      BY <2>4 DEF StoreMutation, MutationRec
    <2> QED BY <2>1, <2>2, <2>3, <2>4, WhoWritesMutations
  <1>2. \A k \in Key : mut[k].ver \in Nat /\ cache[k].ver \in Nat
    BY DEF MutationRec
  <1>3. \A k \in Key : /\ cache'[k].ver <= mut'[k].ver
                       /\ cache'[k].ver = mut'[k].ver => cache'[k] = mut'[k]
    <2>1. CASE cache' = cache
      BY <1>1, <1>2, <2>1 DEF CopiesInv
    <2>2. ASSUME NEW k \in Key, CacheSync(k)
          PROVE  /\ mut' = mut
                 /\ \A j \in Key : cache'[j] = cache[j] \/ cache'[j] = mut[j]
      BY <2>2 DEF CacheSync
    <2> QED BY <1>2, <2>1, <2>2, WhoWritesMutations DEF CopiesInv
  <1>4. ASSUME pc' # "idle" PROVE CopyOK(pc', copy', mut'[key'])
    <2> USE DEF CopyOK, MutationRec
    <2>1. ASSUME NEW k \in Key, StartReconcile(k) PROVE CopyOK(pc', copy', mut'[key'])
      BY <2>1, <1>2 DEF StartReconcile, CopiesInv
    <2>2. CASE RemoveFinalizer
      BY <1>2, <1>4, <2>2 DEF RemoveFinalizer, Return, Absent, CopiesInv
    <2>3. CASE QueryAnswered
      BY <2>3 DEF QueryAnswered, Finish, CopiesInv, Successors
    <2>4. CASE ReadLive
      BY <2>4 DEF ReadLive, Finish, Rejected, CopiesInv, Successors
    <2>4a. CASE ReadForeign
      BY <1>4, <2>4a DEF ReadForeign, Return, Finish, Rejected, CopiesInv, Successors
    <2>5. CASE DryRunPatch
      BY <1>4, <2>5 DEF DryRunPatch, Return, CopiesInv
    <2>6. CASE ApplyPatch
      <3>1. copy.phase = "InProgress"
        BY <2>6 DEF ApplyPatch, LiveInv
      <3>2. /\ pc' = "store" /\ copy' = [copy EXCEPT !.phase = "Completed"]
            /\ key' = key /\ mut' = mut /\ pc = "patch"
        BY <1>4, <2>6 DEF ApplyPatch, Finish, Return
      <3> QED BY <3>1, <3>2 DEF CopiesInv, Successors
    <2>7. CASE CheckTarget
      BY <2>7 DEF CheckTarget, Finish, CopiesInv, Successors
    <2>8. CASE CheckResult
      BY <2>8 DEF CheckResult, Finish, CopiesInv, Successors
    <2>9. CASE UNCHANGED worker
      <3>1. pc' = pc /\ key' = key /\ copy' = copy /\ key \in Key
        BY <1>4, <2>9 DEF worker
      <3>2. copy.ver \in Nat /\ CopyOK(pc, copy, mut[key])
        BY <1>4, <3>1 DEF CopiesInv
      <3> QED BY <1>1, <1>2, <3>1, <3>2
    <2>10. CASE QueryUnanswered \/ TargetGone \/ StoreMutation \/ Return
      BY <1>4, <2>10 DEF QueryUnanswered, TargetGone, StoreMutation, Return
    <2> QED BY <2>1, <2>2, <2>3, <2>4, <2>4a, <2>5, <2>6, <2>7, <2>8, <2>9, <2>10,
               WhoMovesWorker DEF Work
  <1> QED BY <1>3, <1>4 DEF CopiesInv

\* Every step keeps the inductive invariant.
LEMMA IInvStep == IInv /\ [Next]_vars => IInv'
  BY TypeStep, TargetsStep, LiveStep, AppliedStep, DoneStep, HealedStep, CopiesStep DEF IInv

\* The inductive invariant holds in every reachable state, however the two
\* controllers, users, failures and restarts interleave.
THEOREM Invariance == Spec => []IInv
  BY InitIInv, IInvStep, PTL DEF Spec

-----------------------------------------------------------------------------
\* Type correctness of the whole system.
THEOREM TypeCorrect == Spec => []TypeOK
  <1>1. IInv => TypeOK
    BY DEF IInv
  <1> QED BY <1>1, Invariance, PTL

\* The gate and the resourceVersion test together: whatever happens between
\* the snapshot, the gate, the dry run and the patch, a patch is only made over
\* the version of the object that was snapshotted.
THEOREM PatchesSnapshotOnly == Spec => []NoStaleOverwrite
  <1>1. IInv => NoStaleOverwrite
    BY DEF IInv, AppliedInv
  <1> QED BY <1>1, Invariance, PTL

\* No version of an object is patched twice, by one Mutation or by several.
THEOREM PatchedOnce == Spec => []OnePatchPerVersion
  <1>1. IInv => OnePatchPerVersion
    BY DEF IInv, AppliedInv
  <1> QED BY <1>1, Invariance, PTL

\* A Mutation that says its patch was applied is right, across stale reads,
\* lost answers and restarts.
THEOREM CompletedIsTrue == Spec => []CompletedWasApplied
  <1>1. IInv => CompletedWasApplied
    BY DEF IInv, DoneInv, SaysTrue, Done, CompletedWasApplied, PatchOf
  <1> QED BY <1>1, Invariance, PTL

\* A Deployment's Mutation is Successful only after its rollout.
THEOREM SuccessfulIsTrue == Spec => []SuccessfulWasRolledOut
  <1>1. IInv => SuccessfulWasRolledOut
    BY DEF IInv, HealedInv, Saw, SuccessfulWasRolledOut, PatchOf
  <1> QED BY <1>1, Invariance, PTL

\* An Update made from a current copy moves its Mutation forward or leaves
\* its phase alone.
LEMMA ForwardStep == IInv /\ [Next]_vars => \A k \in Key : Forward(k)
  <1> SUFFICES ASSUME IInv, [Next]_vars PROVE \A k \in Key : Forward(k)
    OBVIOUS
  <1> USE DEF IInv, TypeOK
  <1>1. ASSUME NEW k \in Key, DeleteMutation(k) PROVE \A j \in Key : Forward(j)
    BY <1>1 DEF DeleteMutation, Forward, MutationRec
  <1>2. ASSUME NEW e \in calc.eligible, CreateMutation(e) PROVE \A j \in Key : Forward(j)
    <2> DEFINE k == <<e.finding, e.uid>>
               m == [phase |-> "NotStarted", rv |-> e.rv, proposal |-> NoImage,
                     deleting |-> FALSE, ver |-> mut[k].ver + 1]
    <2>1. (mut' = [mut EXCEPT ![k] = m] /\ mut[k].phase = "Absent") \/ mut' = mut
      BY <1>2 DEF CreateMutation
    <2>2. m.phase = "NotStarted"
      OBVIOUS
    <2> HIDE DEF m
    <2> QED BY <2>1, <2>2 DEF Forward
  <1>3. CASE RemoveFinalizer
    <2>1. CASE Current(key)
      <3>1. mut[key].deleting
        BY <1>3, <2>1 DEF RemoveFinalizer, Current, CopiesInv, CopyOK
      <3>2. mut' = [mut EXCEPT ![key] = Absent(mut[key].ver + 1)]
        BY <1>3, <2>1 DEF RemoveFinalizer
      <3> QED BY <3>1, <3>2 DEF Forward, Absent
    <2>2. CASE ~ Current(key)
      BY <1>3, <2>2 DEF RemoveFinalizer, Forward
    <2> QED BY <2>1, <2>2
  <1>4. CASE StoreMutation
    <2>1. CASE Current(key)
      <3>1. key \in Key /\ copy.phase \in Successors(mut[key].phase) \cup {mut[key].phase}
        BY <1>4, <2>1 DEF StoreMutation, Current, CopiesInv, CopyOK
      <3>2. \A j \in Key : mut'[j] = mut[j] \/ (j = key /\ mut'[j].phase = copy.phase)
        BY <1>4, <2>1 DEF StoreMutation, MutationRec
      <3> QED BY <3>1, <3>2 DEF Forward
    <2>2. CASE ~ Current(key)
      BY <1>4, <2>2 DEF StoreMutation, Forward
    <2> QED BY <2>1, <2>2
  <1>5. CASE mut' = mut
    BY <1>5 DEF Forward
  <1> QED BY <1>1, <1>2, <1>3, <1>4, <1>5, WhoWritesMutations

\* However stale the copy a reconcile starts from, the phases only advance.
THEOREM PhasesAdvance == Spec => PhaseOnlyForward
  BY Invariance, ForwardStep, PTL DEF Spec, PhaseOnlyForward

================================================================================
