------------------------------ MODULE Remediation ------------------------------
(***************************************************************************)
(* Auto-remediation: how a finding (a Result) becomes a Mutation, and how  *)
(* the mutation controller turns a Mutation into at most one patch of the  *)
(* object the finding is about.                                            *)
(*                                                                         *)
(* Three kinds of actor share the Kubernetes API server:                   *)
(*                                                                         *)
(*  - the K8sGPT controller's calculateRemediationStep, which lists the    *)
(*    Results, snapshots their targets and creates the missing Mutations   *)
(*    (k8sgpt/calculate_remediation_step.go,                               *)
(*    conversions/to_eligible_resource.go);                                *)
(*  - the mutation controller, one worker, which walks a Mutation through  *)
(*    its phases (mutation/mutation_controller.go,                         *)
(*    conversions/object_to_execution.go);                                 *)
(*  - everyone else: people and controllers that create, edit, roll out    *)
(*    and delete the targets, users that delete Mutations, and the         *)
(*    analysis step that creates and deletes Results.                      *)
(*                                                                         *)
(* Every call to the API server is a step of its own, so that any other    *)
(* actor may act between two calls of one handler, and the handler may be  *)
(* cut short after any of them.                                            *)
(*                                                                         *)
(* Typed reads (Mutation, Result) come from the informer cache and may be  *)
(* stale; reads of the target are unstructured and go to the API server.   *)
(* Updates carry a resourceVersion and are refused when it is not current. *)
(***************************************************************************)
EXTENDS Naturals

CONSTANTS
    Target,       \* the remediation targets, by group, kind, namespace and name
    Deployments,  \* those that are apps/v1 Deployments
    Finding,      \* the Results, by name
    TargetOf,     \* the target of each finding
    Uid,          \* the UIDs the API server may assign to a target
    NoUid,        \* "no object of that name"
    Image,        \* the container images
    NoImage,      \* "no proposal yet" (an empty spec.targetConfiguration)
    Wide,         \* a proposal that changes anything but one image
    Foreign,      \* a manifest proposed under another apiVersion or kind
    Refused,      \* the images with which admission refuses an object
    NoKey,        \* "no reconcile request in hand"
    MaxRev,       \* bound on the writes by others than the operator
    MaxVer,       \* bound on the version of a Mutation a user still deletes
    MaxFaults     \* bound on failed calls and crashes

ASSUME DeploymentsAssumption == Deployments \subseteq Target
ASSUME TargetOfAssumption == TargetOf \in [Finding -> Target]
ASSUME UidAssumption == NoUid \notin Uid
ASSUME ImageAssumption ==
    /\ NoImage \notin Image /\ Wide \notin Image /\ Foreign \notin Image
    /\ Wide # NoImage /\ Foreign # NoImage /\ Foreign # Wide
ASSUME RefusedAssumption == Refused \subseteq Image
ASSUME BoundsAssumption == MaxRev \in Nat /\ MaxVer \in Nat /\ MaxFaults \in Nat

(***************************************************************************)
(* mutationName: the name of a Mutation is its Result's name followed by a *)
(* digest of the target's identity and UID.                                *)
(***************************************************************************)
Key == Finding \X Uid
ASSUME NoKeyAssumption == NoKey \notin Key

TargetOfKey(k) == TargetOf[k[1]]

\* AutoRemediationStatus.Phase, and "Absent" for a Mutation that does not exist.
Active == {"NotStarted", "InProgress", "Completed", "Pending"}
Phase == Active \cup {"Successful", "Aborted", "Absent"}

\* What of a target the code compares or changes. rv is its resourceVersion;
\* observed: status.observedGeneration >= metadata.generation; available:
\* status.availableReplicas >= spec.replicas.
TargetRec == [uid: Uid \cup {NoUid}, rv: Nat, image: Image \cup {NoImage},
              observed: BOOLEAN, available: BOOLEAN]
NoTarget == [uid |-> NoUid, rv |-> 0, image |-> NoImage,
             observed |-> FALSE, available |-> FALSE]

\* A Mutation. rv is the resourceVersion in spec.originConfiguration, the
\* snapshot; ver is the Mutation's own resourceVersion.
MutationRec == [phase: Phase, rv: Nat, proposal: Image \cup {NoImage, Wide, Foreign},
                deleting: BOOLEAN, ver: Nat]
Absent(v) == [phase |-> "Absent", rv |-> 0, proposal |-> NoImage,
              deleting |-> FALSE, ver |-> v]

\* types.EligibleResource: a finding with the snapshot of its target.
EligibleRec == [finding: Finding, uid: Uid, rv: Nat]

\* One persistent patch of a target: by which Mutation, made from which
\* snapshot, over which version of which object.
PatchRec == [key: Key, snap: Nat, over: Nat, uid: Uid \cup {NoUid}]

VARIABLES
    \* the API server
    rev,        \* the last resourceVersion given to a target
    used,       \* the UIDs given so far
    target,     \* the targets
    result,     \* whether each Result exists, as the informer shows it
    mut,        \* the Mutations
    \* the operator
    cache,      \* the informer's copy of the Mutations
    calc,       \* the calculateRemediationStep of the K8sGPT controller
    pc, key,    \* where the mutation controller is, and its request
    copy,       \* the Mutation it holds in memory
    live,       \* the target as it read it
    \* what happened
    applied,    \* the persistent patches
    healed,     \* the patches whose rollout was observed and became available
    faults      \* failed calls and crashes so far

worker == <<pc, key, copy, live>>
cluster == <<rev, used, target, result>>
vars == <<rev, used, target, result, mut, cache, calc, pc, key, copy, live,
          applied, healed, faults>>

Exists(t) == target[t].uid # NoUid

CalcIdle == [pc |-> "idle", todo |-> {}, eligible |-> {}]

Init ==
    /\ rev = 0
    /\ used = {}
    /\ target = [t \in Target |-> NoTarget]
    /\ result = [f \in Finding |-> FALSE]
    /\ mut = [k \in Key |-> Absent(0)]
    /\ cache = [k \in Key |-> Absent(0)]
    /\ calc = CalcIdle
    /\ pc = "idle" /\ key = NoKey /\ copy = Absent(0) /\ live = NoTarget
    /\ applied = {}
    /\ healed = {}
    /\ faults = 0

-----------------------------------------------------------------------------
(***************************************************************************)
(* Everyone else.                                                          *)
(***************************************************************************)
OperatorUnchanged == UNCHANGED <<mut, cache, calc, worker, applied, faults>>

CreateTarget(t) ==
    /\ rev < MaxRev
    /\ ~ Exists(t)
    /\ \E u \in Uid \ used, i \in Image :
         /\ used' = used \cup {u}
         /\ target' = [target EXCEPT ![t] =
                         [uid |-> u, rv |-> rev + 1, image |-> i,
                          observed |-> FALSE, available |-> FALSE]]
    /\ rev' = rev + 1
    /\ OperatorUnchanged /\ UNCHANGED <<result, healed>>

DeleteTarget(t) ==
    /\ Exists(t)
    /\ target' = [target EXCEPT ![t] = NoTarget]
    /\ OperatorUnchanged /\ UNCHANGED <<rev, used, result, healed>>

\* A new generation of an object, with image i.
NewGeneration(obj, i) ==
    [uid |-> obj.uid, rv |-> rev + 1, image |-> i,
     observed |-> FALSE, available |-> obj.available]

\* A report on the current generation of an object.
Reported(obj, b) ==
    [uid |-> obj.uid, rv |-> rev + 1, image |-> obj.image,
     observed |-> TRUE, available |-> b]

\* Somebody else edits the object.
EditTarget(t) ==
    /\ rev < MaxRev
    /\ Exists(t)
    /\ \E i \in Image :
         target' = [target EXCEPT ![t] = NewGeneration(target[t], i)]
    /\ rev' = rev + 1
    /\ OperatorUnchanged /\ UNCHANGED <<used, result, healed>>

\* The Deployment controller reports on the current generation.
RolloutStatus(t) ==
    /\ rev < MaxRev
    /\ Exists(t)
    /\ \E b \in BOOLEAN :
         /\ target' = [target EXCEPT ![t] = Reported(target[t], b)]
         /\ healed' = IF b THEN healed \cup {a \in applied : a.uid = target[t].uid}
                           ELSE healed
    /\ rev' = rev + 1
    /\ OperatorUnchanged /\ UNCHANGED <<used, result>>

\* The analysis step creates the Result of a finding, or deletes a stale one.
AnalysisResult(f) ==
    /\ result' = [result EXCEPT ![f] = ~ @]
    /\ OperatorUnchanged /\ UNCHANGED <<rev, used, target, healed>>

\* A user, or the garbage collector after its K8sGPT is gone, deletes a
\* Mutation: it has a finalizer, so it only gets a deletionTimestamp.
DeleteMutation(k) ==
    /\ mut[k].phase # "Absent"
    /\ ~ mut[k].deleting
    /\ mut[k].ver < MaxVer
    /\ mut' = [mut EXCEPT ![k].deleting = TRUE, ![k].ver = @ + 1]
    /\ UNCHANGED <<cluster, cache, calc, worker, applied, healed, faults>>

\* The informer catches up with the API server.
CacheSync(k) ==
    /\ cache[k] # mut[k]
    /\ cache' = [cache EXCEPT ![k] = mut[k]]
    /\ UNCHANGED <<cluster, mut, calc, worker, applied, healed, faults>>

-----------------------------------------------------------------------------
(***************************************************************************)
(* calculateRemediationStep, in the K8sGPT controller. Its Result list is  *)
(* read once, the targets one after another, and only then are the         *)
(* Mutations created.                                                      *)
(***************************************************************************)
ListResults ==
    /\ calc.pc = "idle"
    /\ \E f \in Finding : result[f]
    /\ calc' = [pc |-> "get", todo |-> {f \in Finding : result[f]}, eligible |-> {}]
    /\ UNCHANGED <<cluster, mut, cache, worker, applied, healed, faults>>

\* Every Result of the list is read again; one that is gone by now ends the
\* step.
GetResults ==
    /\ calc.pc = "get"
    /\ calc' = IF \A f \in calc.todo : result[f] THEN [calc EXCEPT !.pc = "snapshot"]
                                              ELSE CalcIdle
    /\ UNCHANGED <<cluster, mut, cache, worker, applied, healed, faults>>

\* Mutant of Snapshot: the target's absence is not noticed.
BugSnapshotMissing(f) ==
    {[finding |-> f, uid |-> target[TargetOf[f]].uid, rv |-> target[TargetOf[f]].rv]}

\* eligibleResource: read the target; a target that is gone is skipped.
Snapshot(f) ==
    LET seen == target[TargetOf[f]] IN
    {e \in {[finding |-> f, uid |-> seen.uid, rv |-> seen.rv]} : e.uid # NoUid}

SnapshotTarget(f) ==
    /\ calc.pc = "snapshot"
    /\ f \in calc.todo
    /\ calc' = [pc |-> IF calc.todo = {f} THEN "create" ELSE "snapshot",
                todo |-> calc.todo \ {f},
                eligible |-> calc.eligible \cup Snapshot(f)]
    /\ UNCHANGED <<cluster, mut, cache, worker, applied, healed, faults>>

\* Create the Mutation of an eligible resource unless the informer knows it;
\* a Mutation the informer does not know yet makes Create fail, which ends
\* the step.
CreateMutation(e) ==
    LET k == <<e.finding, e.uid>> IN
    /\ calc.pc = "create"
    /\ e \in calc.eligible
    /\ \/ /\ cache[k].phase = "Absent"
          /\ mut[k].phase = "Absent"
          /\ mut' = [mut EXCEPT ![k] =
                       [phase |-> "NotStarted", rv |-> e.rv, proposal |-> NoImage,
                        deleting |-> FALSE, ver |-> @.ver + 1]]
          /\ calc' = [calc EXCEPT !.eligible = @ \ {e}]
       \/ /\ cache[k].phase = "Absent"
          /\ mut[k].phase # "Absent"
          /\ calc' = CalcIdle
          /\ UNCHANGED mut
       \/ /\ cache[k].phase # "Absent"
          /\ calc' = [calc EXCEPT !.eligible = @ \ {e}]
          /\ UNCHANGED mut
    /\ UNCHANGED <<cluster, cache, worker, applied, healed, faults>>

FinishCalculate ==
    /\ calc.pc = "create"
    /\ calc.eligible = {}
    /\ calc' = CalcIdle
    /\ UNCHANGED <<cluster, mut, cache, worker, applied, healed, faults>>

-----------------------------------------------------------------------------
(***************************************************************************)
(* The mutation controller. A reconcile starts from the informer's copy of *)
(* the Mutation, works on it in memory and ends with one Update; any error *)
(* returned is a retry from the start.                                     *)
(***************************************************************************)
Return ==
    /\ pc' = "idle" /\ key' = NoKey /\ copy' = Absent(0) /\ live' = NoTarget

\* Hand the in-memory Mutation, changed to m, to the final Update.
Finish(m) ==
    /\ pc' = "store" /\ copy' = m
    /\ UNCHANGED <<key, live>>

\* MutationReconciler.Reconcile reads its Mutation. Successful and Aborted
\* Mutations need nothing but the release of their finalizer.
StartReconcile(k) ==
    /\ pc = "idle"
    /\ cache[k].phase # "Absent"
    /\ cache[k].deleting \/ cache[k].phase \in Active
    /\ pc' = IF cache[k].deleting THEN "finalizer" ELSE "run"
    /\ key' = k
    /\ copy' = cache[k]
    /\ UNCHANGED <<live, cluster, mut, cache, calc, applied, healed, faults>>

\* Mutant of Current: updates are blind.
BugBlindUpdate(k) == mut[k].phase # "Absent"

\* The API server accepts an update of Mutation k made from the copy in hand.
Current(k) == mut[k].phase # "Absent" /\ mut[k].ver = copy.ver

\* The finalizer is dropped and the object goes away; the handler does not
\* return here, the switch on the phase follows.
RemoveFinalizer ==
    /\ pc = "finalizer"
    /\ \/ /\ Current(key)
          /\ mut' = [mut EXCEPT ![key] = Absent(@.ver + 1)]
          /\ IF copy.phase \in Active THEN pc' = "run" /\ UNCHANGED <<key, copy, live>>
                                      ELSE Return
       \/ /\ ~ Current(key)
          /\ Return
          /\ UNCHANGED mut
    /\ UNCHANGED <<cluster, cache, calc, applied, healed, faults>>

\* imageSelectionProposal: the snapshot with the image of one container
\* replaced, or a manifest that changes something else or is of another
\* apiVersion or kind, taken as it is.
Proposal == Image \cup {Wide, Foreign}

\* Case NotStarted, with a client at hand: the Result's details are sent to
\* the AI backend. Its answer makes a proposal, or is no image selection.
QueryAnswered ==
    /\ pc = "run" /\ copy.phase = "NotStarted"
    /\ result[key[1]]
    /\ \/ \E p \in Proposal :
            Finish([copy EXCEPT !.proposal = p, !.phase = "InProgress"])
       \/ Finish([copy EXCEPT !.phase = "Aborted"])
    /\ UNCHANGED <<cluster, mut, cache, calc, applied, healed, faults>>

\* No client yet, the Result is gone, the query fails, or the answer is
\* "{null}" (whose Status().Update always fails: the Mutation resource has no
\* status subresource). Nothing changes and the request is queued again.
QueryUnanswered ==
    /\ pc = "run" /\ copy.phase = "NotStarted"
    /\ Return
    /\ UNCHANGED <<cluster, mut, cache, calc, applied, healed, faults>>

\* Mutant of Evaluate: the snapshot's resourceVersion is not compared.
BugGateIgnoresVersion(k, m, obj) ==
    obj.uid = k[2] /\ m.proposal \in Image /\ m.proposal # obj.image

\* Mutant of Evaluate: a proposal that changes nothing passes.
BugGateAllowsNothing(k, m, obj) ==
    obj.uid = k[2] /\ obj.rv = m.rv /\ m.proposal \in Image

\* policy.Evaluate on the snapshot, the object just read and the proposal:
\* same UID, same resourceVersion, and exactly one path changed, an image.
Evaluate(k, m, obj) ==
    /\ obj.uid = k[2]
    /\ obj.rv = m.rv
    /\ m.proposal \in Image
    /\ m.proposal # obj.image

\* Mutants of Rejected: a rejection is reported and retried, or taken for an
\* execution.
BugRejectedRetries(m) == m
BugRejectedCompletes(m) == [m EXCEPT !.phase = "Completed"]

\* rejectMutation
Rejected(m) == [m EXCEPT !.phase = "Aborted"]

\* FromConfig lets the manifest's apiVersion and kind override those of the
\* reference, and the live object is read under them: whether it is the target.
ReadsTarget(m) == m.proposal # Foreign

\* Case InProgress: ResourceToExecution reads the target and asks the gate.
ReadLive ==
    LET obj == target[TargetOfKey(key)] IN
    /\ pc = "run" /\ copy.phase = "InProgress"
    /\ ReadsTarget(copy)
    /\ obj.uid # NoUid
    /\ IF Evaluate(key, copy, obj)
         THEN /\ pc' = "dryrun" /\ live' = obj
              /\ UNCHANGED <<key, copy>>
         ELSE Finish(Rejected(copy))
    /\ UNCHANGED <<cluster, mut, cache, calc, applied, healed, faults>>

\* The proposal is of another apiVersion or kind: mostly there is no such object
\* and the error is retried; one that has the target's name fails the gate.
ReadForeign ==
    /\ pc = "run" /\ copy.phase = "InProgress"
    /\ ~ ReadsTarget(copy)
    /\ Return \/ Finish(Rejected(copy))
    /\ UNCHANGED <<cluster, mut, cache, calc, applied, healed, faults>>

\* Mutant of TestVersion: the patch has no test operation.
BugNoTest(obj) == obj.uid # NoUid

\* The test operation on /metadata/resourceVersion in front of the patch.
TestVersion(obj) == obj.uid # NoUid /\ obj.rv = live.rv

\* The API server tries the patch without persisting it. A conflict, and a
\* patch that admission refuses, end the reconcile with an error.
DryRunPatch ==
    /\ pc = "dryrun"
    /\ IF TestVersion(target[TargetOfKey(key)]) /\ copy.proposal \notin Refused
         THEN pc' = "patch" /\ UNCHANGED <<key, copy, live>>
         ELSE Return
    /\ UNCHANGED <<cluster, mut, cache, calc, applied, healed, faults>>

\* The persistent patch: a new generation of the target. It fails when the
\* target has changed since it was read.
ApplyPatch ==
    LET t == TargetOfKey(key) IN
    /\ pc = "patch"
    /\ \/ /\ TestVersion(target[t])
          /\ rev' = rev + 1
          /\ target' = [target EXCEPT ![t] = NewGeneration(target[t], copy.proposal)]
          /\ applied' = applied \cup {[key |-> key, snap |-> copy.rv,
                                       over |-> target[t].rv, uid |-> target[t].uid]}
          /\ Finish([copy EXCEPT !.phase = "Completed"])
       \/ /\ ~ TestVersion(target[t])
          /\ Return
          /\ UNCHANGED <<rev, target, applied>>
    /\ UNCHANGED <<used, result, mut, cache, calc, healed, faults>>

\* Mutant of TargetReady: availability of the old generation is enough.
BugOldGenerationReady(t) == target[t].available

\* targetReady: only Deployments have a rollout to wait for.
TargetReady(t) ==
    t \in Deployments => target[t].observed /\ target[t].available

\* Cases Completed and Pending, doesResultExist: first the rollout ...
CheckTarget ==
    LET t == TargetOfKey(key) IN
    /\ pc = "run" /\ copy.phase \in {"Completed", "Pending"}
    /\ t \in Deployments => target[t].uid = key[2]
    /\ IF TargetReady(t)
         THEN pc' = "result" /\ UNCHANGED <<key, copy, live>>
         ELSE Finish([copy EXCEPT !.phase = "Pending"])
    /\ UNCHANGED <<cluster, mut, cache, calc, applied, healed, faults>>

\* ... then the Result.
CheckResult ==
    /\ pc = "result"
    /\ Finish([copy EXCEPT !.phase = IF result[key[1]] THEN "Pending" ELSE "Successful"])
    /\ UNCHANGED <<cluster, mut, cache, calc, applied, healed, faults>>

\* The target is gone, or was recreated while a rollout is waited for: the
\* error is returned and the request retried.
TargetGone ==
    LET t == TargetOfKey(key) IN
    /\ pc = "run"
    /\ \/ copy.phase = "InProgress" /\ ReadsTarget(copy) /\ target[t].uid = NoUid
       \/ copy.phase \in {"Completed", "Pending"} /\ t \in Deployments /\ target[t].uid # key[2]
    /\ Return
    /\ UNCHANGED <<cluster, mut, cache, calc, applied, healed, faults>>

\* The Update that ends a reconcile. It is refused when the copy is stale. An
\* update that changes nothing keeps the resourceVersion.
StoreMutation ==
    /\ pc = "store"
    /\ \/ /\ Current(key)
          /\ mut' = [mut EXCEPT ![key] =
                       IF copy = mut[key] THEN @
                       ELSE [copy EXCEPT !.ver = mut[key].ver + 1]]
       \/ /\ ~ Current(key)
          /\ UNCHANGED mut
    /\ Return
    /\ UNCHANGED <<cluster, cache, calc, applied, healed, faults>>

-----------------------------------------------------------------------------
(***************************************************************************)
(* Faults. A call fails or its answer is lost, which ends the handler, or  *)
(* the operator restarts, which ends both.                                 *)
(***************************************************************************)
ReconcileFails ==
    /\ pc # "idle"
    /\ faults < MaxFaults
    /\ faults' = faults + 1
    /\ Return
    /\ UNCHANGED <<cluster, mut, cache, calc, applied, healed>>

CalculateFails ==
    /\ calc.pc # "idle"
    /\ faults < MaxFaults
    /\ faults' = faults + 1
    /\ calc' = CalcIdle
    /\ UNCHANGED <<cluster, mut, cache, worker, applied, healed>>

Restart ==
    /\ pc # "idle" /\ calc.pc # "idle"
    /\ faults < MaxFaults
    /\ faults' = faults + 1
    /\ Return
    /\ calc' = CalcIdle
    /\ UNCHANGED <<cluster, mut, cache, applied, healed>>

-----------------------------------------------------------------------------
Others ==
    \/ \E t \in Target : \/ CreateTarget(t) \/ DeleteTarget(t)
                         \/ EditTarget(t) \/ RolloutStatus(t)
    \/ \E f \in Finding : AnalysisResult(f)
    \/ \E k \in Key : DeleteMutation(k)

Calculate ==
    \/ ListResults \/ GetResults
    \/ \E f \in Finding : SnapshotTarget(f)
    \/ \E e \in calc.eligible : CreateMutation(e)
    \/ FinishCalculate

\* What the worker does once it has a request.
Work ==
    \/ RemoveFinalizer
    \/ QueryAnswered \/ QueryUnanswered
    \/ ReadLive \/ ReadForeign \/ DryRunPatch \/ ApplyPatch
    \/ CheckTarget \/ CheckResult \/ TargetGone
    \/ StoreMutation

Next ==
    \/ Others
    \/ Calculate
    \/ \E k \in Key : CacheSync(k) \/ StartReconcile(k)
    \/ Work
    \/ ReconcileFails \/ CalculateFails \/ Restart

Spec == Init /\ [][Next]_vars

\* The informer catches up, a handler that has started runs on, and the work
\* queue serves every Mutation: each is queued again after every reconcile
\* that leaves it in an active phase, and the queue is first in, first out.
Fairness ==
    /\ WF_vars(Work)
    /\ \A k \in Key : WF_vars(CacheSync(k)) /\ SF_vars(StartReconcile(k))

FairSpec == Spec /\ Fairness

-----------------------------------------------------------------------------
CalcRec == [pc: {"idle", "get", "snapshot", "create"}, todo: SUBSET Finding,
            eligible: SUBSET EligibleRec]

\* Every variable has its type; in particular only a target that exists is
\* ever snapshotted.
TypeOK ==
    /\ rev \in Nat
    /\ used \in SUBSET Uid
    /\ target \in [Target -> TargetRec]
    /\ result \in [Finding -> BOOLEAN]
    /\ mut \in [Key -> MutationRec]
    /\ cache \in [Key -> MutationRec]
    /\ calc \in CalcRec
    /\ pc \in {"idle", "finalizer", "run", "dryrun", "patch", "result", "store"}
    /\ key \in Key \cup {NoKey}
    /\ pc # "idle" => key \in Key
    /\ copy \in MutationRec
    /\ pc \in {"dryrun", "patch"} => copy.proposal \in Image
    /\ live \in TargetRec
    /\ applied \in SUBSET PatchRec
    /\ healed \in SUBSET PatchRec
    /\ faults \in Nat

\* AUTO_REMEDIATION.md, step 2: a patch is only ever made over exactly the
\* version of exactly the object that the Mutation's snapshot describes, so no
\* edit, status update, recreation or other Mutation's patch that came after
\* the snapshot is overwritten by a decision that did not see it.
NoStaleOverwrite ==
    \A a \in applied : a.over = a.snap /\ a.uid = a.key[2]

\* Two Mutations made from the same version of one object, which is what two
\* findings about one Deployment produce, are never both applied; nor is one
\* Mutation applied twice after a lost answer or a stale informer read.
OnePatchPerVersion ==
    \A a, b \in applied : a.snap = b.snap => a = b

\* The patch of Mutation k in its present incarnation.
PatchOf(k, m) == {a \in applied : a.key = k /\ a.snap = m.rv}

\* A Mutation whose status says its patch was applied (Completed, and the
\* phases that follow) stands for a patch that really was made.
CompletedWasApplied ==
    \A k \in Key :
      mut[k].phase \in {"Completed", "Pending", "Successful"} => PatchOf(k, mut[k]) # {}

\* AUTO_REMEDIATION.md, step 4: a Deployment's Mutation is Successful only
\* after a generation no older than its patch was observed and available.
SuccessfulWasRolledOut ==
    \A k \in Key :
      mut[k].phase = "Successful" /\ TargetOfKey(k) \in Deployments
        => PatchOf(k, mut[k]) \cap healed # {}

Successors(p) ==
    CASE p = "NotStarted" -> {"InProgress", "Aborted"}
      [] p = "InProgress" -> {"Completed", "Aborted"}
      [] p = "Completed"  -> {"Pending", "Successful"}
      [] p = "Pending"    -> {"Successful"}
      [] OTHER            -> {}

\* Mutation k stays in its phase, is created, goes away after its deletion was
\* requested, or advances.
Forward(k) ==
    \/ mut'[k].phase = mut[k].phase
    \/ mut[k].phase = "Absent" /\ mut'[k].phase = "NotStarted"
    \/ mut[k].deleting /\ mut'[k].phase = "Absent"
    \/ mut'[k].phase \in Successors(mut[k].phase)

\* However stale the informer's copy a reconcile started from, a Mutation
\* that stays in the cluster only moves forward through its phases; in
\* particular an applied Mutation never becomes applicable again.
PhaseOnlyForward == [][\A k \in Key : Forward(k)]_vars

\* What Mutation k proposes is refused by admission, for the object as it was
\* snapshotted: ResourceToExecution fails in its dry run again and again.
HeldByAdmission(k) ==
    mut[k].proposal \in Refused /\ target[TargetOfKey(k)].rv = mut[k].rv

\* A proposal under its target's apiVersion and kind is eventually applied or
\* aborted while the target exists, whoever else writes to the target and
\* whichever call fails. A proposal that admission refuses is retried, but no
\* longer than its target is left alone: after any write to the target it is
\* decided as well. (A proposal under another kind is retried as long as no
\* object of that kind has the target's name.)
ProposalDecided ==
    \A k \in Key :
      mut[k].phase = "InProgress" /\ ReadsTarget(mut[k]) /\ ~ HeldByAdmission(k) ~>
        mut[k].phase # "InProgress" \/ ~ Exists(TargetOfKey(k))

-----------------------------------------------------------------------------
(***************************************************************************)
(* The promise to the owners of the targets, and the refinement mapping.   *)
(* Whether a Mutation says so (Completed and the phases after it) is the   *)
(* report; the copies, the phases before it and the rollout are invisible. *)
(***************************************************************************)
ObjectOf(obj) == [uid |-> obj.uid, rv |-> obj.rv, image |-> obj.image]
UidOfKey(k) == k[2]
Reports ==
    {[key |-> k, version |-> mut[k].rv] :
       k \in {j \in Key : mut[j].phase \in {"Completed", "Pending", "Successful"}}}

Promise == INSTANCE AtomicPatch WITH
    TargetFor <- TargetOfKey,
    UidFor    <- UidOfKey,
    object    <- [t \in Target |-> ObjectOf(target[t])],
    last      <- rev,
    given     <- used,
    patches   <- {[key |-> a.key, version |-> a.snap] : a \in applied},
    reports   <- Reports

\* Snapshot, proposal, gate, dry run and patch, spread over many calls between
\* which anyone may write and any call may fail, amount to one atomic
\* compare-and-swap of the image on the version that was snapshotted, reported
\* only after it was made.
RemediationIsAtomic == Promise!Spec

-----------------------------------------------------------------------------
(***************************************************************************)
(* What the documentation says and the code does not do.                   *)
(***************************************************************************)
\* AUTO_REMEDIATION.md: "Mutation.status records the policy decision, changed
\* paths, and apply time": a patch is only made while there is a Mutation to
\* record it in.
PatchHasMutation ==
    [][\A a \in applied' \ applied : mut[a.key].phase # "Absent"]_vars
================================================================================
