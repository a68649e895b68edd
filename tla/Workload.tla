-------------------------------- MODULE Workload -------------------------------
(***************************************************************************)
(* The life of the K8sGPT server of each K8sGPT resource: the controller   *)
(* puts a finalizer on the resource, keeps the server's ServiceAccount,    *)
(* Service, Deployment, ClusterRole and ClusterRoleBinding in step with    *)
(* it, changes the image when spec.version changes, and destroys           *)
(* everything before it lets the resource go.                              *)
(*                                                                         *)
(* The resources live in one namespace. Service and Deployment are named   *)
(* after their K8sGPT, the other three after the namespace, so all K8sGPT  *)
(* resources share them. Every write to the API server is a step. Typed    *)
(* reads come from the informers and may be stale; Update is refused from  *)
(* a stale copy, Patch, Create and Delete look only at what they change.   *)
(* All a resourceVersion is used for is to tell a current copy from a      *)
(* stale one, so copies carry that one bit.                                *)
(*                                                                         *)
(* Sources: k8sgpt/init_step.go, finalizer_step.go, configure_step.go,     *)
(* preAnalysis_step.go, pkg/resources/k8sgpt.go.                           *)
(***************************************************************************)
EXTENDS Naturals, Sequences

CONSTANTS
    K8sGPT,      \* the K8sGPT resources, by name
    Version,     \* the values users give spec.version; "" when it is left out
    SecretData,  \* the contents of the Secret they refer to
    DynamicRBAC, \* dynamicRBACEnabled(): the operator makes the RBAC objects
    None,        \* "nothing"
    Events,      \* what happens around the operator, out of AllEvents
    MaxEdits,    \* bound on what users do
    MaxFaults    \* bound on failed calls and restarts

ASSUME NoneAssumption == None \notin K8sGPT /\ None \notin SecretData
ASSUME DynamicRBACAssumption == DynamicRBAC \in BOOLEAN
AllEvents == {"edit", "no backOff", "delete", "secret", "object", "rollout"}
ASSUME EventsAssumption == Events \subseteq AllEvents
ASSUME BoundsAssumption == MaxEdits \in Nat /\ MaxFaults \in Nat

\* The objects of Sync, in the order of its list.
Kind ==
    IF DynamicRBAC
      THEN <<"serviceaccount", "service", "deployment", "clusterrole", "binding">>
      ELSE <<"service", "deployment">>
Shared == IF DynamicRBAC THEN {"serviceaccount", "clusterrole", "binding"} ELSE {}
Own == {"service", "deployment"}
Object == (Shared \X {None}) \cup (Own \X K8sGPT)

\* The i-th object in the list made for K8sGPT k.
ObjectAt(i, k) == <<Kind[i], IF Kind[i] \in Shared THEN None ELSE k>>

\* The tag of the server's image.
Tag == Version \cup {"latest", ""}

\* An object: image, Secret checksum and availability are a Deployment's.
ObjectRec == [exists: BOOLEAN, image: Tag, checksum: SecretData \cup {None},
              available: BOOLEAN]
NoObject == [exists |-> FALSE, image |-> "", checksum |-> None, available |-> FALSE]

\* A K8sGPT resource. backOff: whether spec.ai.backOff is set.
K8sGPTRec == [state: {"absent", "live", "deleting"}, finalizer: BOOLEAN,
              backOff: BOOLEAN, version: Version \cup {""}]
Absent == [state |-> "absent", finalizer |-> FALSE, backOff |-> FALSE, version |-> ""]

VARIABLES
    \* the API server, the informers, and whether their copies are current
    k8sgpt, kcache, ksynced,
    object, ocache, osynced,
    secret,            \* contents of the Secret, None when it is missing
    edits,
    \* the worker
    pc, res,           \* where it is, and its request
    config, current,   \* instance.K8sgptConfig
    deploy, dcurrent,  \* instance.k8sgptDeployment
    wanted,            \* checksum of the Secret it read
    i,                 \* position in the list of Sync
    faults

resources == <<k8sgpt, kcache, ksynced>>
objects == <<object, ocache, osynced>>
worker == <<pc, res, config, current, deploy, dcurrent, wanted, i>>
vars == <<resources, objects, secret, edits, worker, faults>>

Init ==
    /\ k8sgpt = [k \in K8sGPT |-> Absent] /\ kcache = k8sgpt
    /\ ksynced = [k \in K8sGPT |-> TRUE]
    /\ object = [o \in Object |-> NoObject] /\ ocache = object
    /\ osynced = [o \in Object |-> TRUE]
    /\ secret \in SecretData
    /\ edits = 0
    /\ pc = "idle" /\ res = None /\ config = Absent /\ current = FALSE
    /\ deploy = NoObject /\ dcurrent = FALSE /\ wanted = None /\ i = 0
    /\ faults = 0

-----------------------------------------------------------------------------
(***************************************************************************)
(* Writes, by whomever. A write that changes nothing is no write.          *)
(***************************************************************************)
WriteK8sGPT(k, new) ==
    /\ k8sgpt' = [k8sgpt EXCEPT ![k] = new]
    /\ ksynced' = [ksynced EXCEPT ![k] = @ /\ new = k8sgpt[k]]
    /\ UNCHANGED kcache

WriteObject(o, new) ==
    /\ object' = [object EXCEPT ![o] = new]
    /\ osynced' = [osynced EXCEPT ![o] = @ /\ new = object[o]]
    /\ UNCHANGED ocache

\* The worker's copies become stale when others write.
CopiesAfter(k, o) ==
    /\ current' = (current /\ res # k)
    /\ dcurrent' = (dcurrent /\ o # <<"deployment", res>>)

-----------------------------------------------------------------------------
(***************************************************************************)
(* Users and the cluster.                                                  *)
(***************************************************************************)
Edit ==
    /\ edits < MaxEdits
    /\ edits' = edits + 1
    /\ UNCHANGED <<pc, res, config, deploy, wanted, i, faults>>

CreateK8sGPT(k) ==
    /\ Edit
    /\ k8sgpt[k].state = "absent"
    /\ \E v \in Version, b \in {TRUE} \cup {"no backOff" \notin Events} :
         WriteK8sGPT(k, [state |-> "live", finalizer |-> FALSE, backOff |-> b, version |-> v])
    /\ CopiesAfter(k, None)
    /\ UNCHANGED <<objects, secret>>

EditK8sGPT(k) ==
    /\ "edit" \in Events
    /\ Edit
    /\ k8sgpt[k].state = "live"
    /\ \E v \in Version \ {k8sgpt[k].version} :
         WriteK8sGPT(k, [k8sgpt[k] EXCEPT !.version = v])
    /\ CopiesAfter(k, None)
    /\ UNCHANGED <<objects, secret>>

\* Without a finalizer the resource is gone at once.
DeleteK8sGPT(k) ==
    /\ "delete" \in Events
    /\ Edit
    /\ k8sgpt[k].state = "live"
    /\ WriteK8sGPT(k, IF k8sgpt[k].finalizer THEN [k8sgpt[k] EXCEPT !.state = "deleting"]
                                             ELSE Absent)
    /\ CopiesAfter(k, None)
    /\ UNCHANGED <<objects, secret>>

EditSecret ==
    /\ "secret" \in Events
    /\ Edit
    /\ secret' \in (SecretData \cup {None}) \ {secret}
    /\ UNCHANGED <<resources, objects, current, dcurrent>>

DeleteObject(o) ==
    /\ "object" \in Events
    /\ Edit
    /\ object[o].exists
    /\ WriteObject(o, NoObject)
    /\ CopiesAfter(None, o)
    /\ UNCHANGED <<resources, secret>>

\* The Deployment controller reports; the server's pods come and go.
RolloutStatus(k) ==
    LET o == <<"deployment", k>> IN
    /\ "rollout" \in Events
    /\ object[o].exists
    /\ WriteObject(o, [object[o] EXCEPT !.available = ~ @])
    /\ CopiesAfter(None, o)
    /\ UNCHANGED <<resources, secret, edits, pc, res, config, deploy, wanted, i, faults>>

SyncK8sGPTCache(k) ==
    /\ ~ ksynced[k]
    /\ kcache' = [kcache EXCEPT ![k] = k8sgpt[k]]
    /\ ksynced' = [ksynced EXCEPT ![k] = TRUE]
    /\ UNCHANGED <<k8sgpt, objects, secret, edits, worker, faults>>

SyncObjectCache(o) ==
    /\ ~ osynced[o]
    /\ ocache' = [ocache EXCEPT ![o] = object[o]]
    /\ osynced' = [osynced EXCEPT ![o] = TRUE]
    /\ UNCHANGED <<resources, object, secret, edits, worker, faults>>

-----------------------------------------------------------------------------
(***************************************************************************)
(* InitStep and FinalizerStep                                              *)
(***************************************************************************)
Return ==
    /\ pc' = "idle" /\ res' = None /\ config' = Absent /\ current' = FALSE
    /\ deploy' = NoObject /\ dcurrent' = FALSE /\ wanted' = None /\ i' = 0

\* ConfigureStep on a resource that has the finalizer.
Configure(c) == IF c.backOff THEN "get" ELSE "backOff"

\* Mutant of FirstStep: the finalizer is dropped and nothing is destroyed.
BugNoDestroy(c) ==
    IF c.state = "deleting" THEN "release"
    ELSE IF c.finalizer THEN Configure(c) ELSE "finalizer"

\* Mutant of FirstStep: the deletionTimestamp is not looked at.
BugIgnoresDeletion(c) == IF c.finalizer THEN Configure(c) ELSE "finalizer"

FirstStep(c) ==
    IF c.state = "deleting" THEN "destroy"
    ELSE IF c.finalizer THEN Configure(c) ELSE "finalizer"

\* A resource that is not found, or is deleted and released, needs nothing.
StartReconcile(k) ==
    /\ pc = "idle"
    /\ \/ kcache[k].state = "live"
       \/ kcache[k].state = "deleting" /\ kcache[k].finalizer
    /\ pc' = FirstStep(kcache[k])
    /\ res' = k /\ config' = kcache[k] /\ current' = ksynced[k]
    /\ i' = IF kcache[k].state = "deleting" THEN 1 ELSE 0
    /\ UNCHANGED <<deploy, dcurrent, wanted, resources, objects, secret, edits, faults>>

\* Update K8sGPT res to c, made from the copy in hand, and go to label; a
\* stale copy ends the reconcile.
UpdateConfig(c, label) ==
    \/ /\ current
       /\ WriteK8sGPT(res, c)
       /\ pc' = label /\ config' = c
       /\ UNCHANGED <<res, current, deploy, dcurrent, wanted, i>>
    \/ /\ ~ current
       /\ Return
       /\ UNCHANGED resources

AddFinalizer ==
    /\ pc = "finalizer"
    /\ UpdateConfig([config EXCEPT !.finalizer = TRUE], Configure(config))
    /\ UNCHANGED <<objects, secret, edits, faults>>

\* Sync with DestroyOp deletes by name; what is not found is fine.
DestroyObject ==
    /\ pc = "destroy"
    /\ WriteObject(ObjectAt(i, res), NoObject)
    /\ IF i = Len(Kind) THEN pc' = "release" /\ i' = 0 ELSE i' = i + 1 /\ UNCHANGED pc
    /\ UNCHANGED <<res, config, current, deploy, dcurrent, wanted, resources, secret,
                   edits, faults>>

\* The finalizer is dropped: the resource is gone.
RemoveFinalizer ==
    /\ pc = "release"
    /\ IF current THEN WriteK8sGPT(res, Absent) ELSE UNCHANGED resources
    /\ Return
    /\ UNCHANGED <<objects, secret, edits, faults>>

-----------------------------------------------------------------------------
(***************************************************************************)
(* ConfigureStep                                                           *)
(***************************************************************************)
ConfigureBackoff ==
    /\ pc = "backOff"
    /\ UpdateConfig([config EXCEPT !.backOff = TRUE], "get")
    /\ UNCHANGED <<objects, secret, edits, faults>>

\* Mutant of SecretFound: a Secret that is not found is taken to be empty.
BugSecretOptional(data) == TRUE

\* The checksum needs the Secret.
SecretFound(data) == data # None

\* getDeployment reads the Deployment, then Sync reads the Secret: without it
\* nothing is touched.
ReadDeployment ==
    /\ pc = "get"
    /\ IF SecretFound(secret)
         THEN /\ deploy' = ocache[<<"deployment", res>>]
              /\ dcurrent' = osynced[<<"deployment", res>>]
              /\ wanted' = secret
              /\ pc' = "sync" /\ i' = 1
              /\ UNCHANGED <<res, config, current>>
         ELSE Return
    /\ UNCHANGED <<resources, objects, secret, edits, faults>>

\* GetDeployment: no version means the latest.
ImageTag(v) == IF v = "" THEN "latest" ELSE v

\* Mutant of Patched: a patch never touches the pod template's annotations.
BugPatchesImageOnly(real, seen) ==
    [real EXCEPT !.image = IF seen.image = ImageTag(config.version) THEN @ ELSE ImageTag(config.version)]

\* A merge patch holds what differs from the informer's copy.
Patched(real, seen) ==
    [exists    |-> real.exists,
     image     |-> IF seen.image = ImageTag(config.version) THEN real.image
                   ELSE ImageTag(config.version),
     checksum  |-> IF seen.checksum = wanted THEN real.checksum ELSE wanted,
     available |-> real.available]

\* A new object; only a Deployment has more to it than its existence.
NewObject(o) ==
    IF o[1] = "deployment"
      THEN [exists |-> TRUE, image |-> ImageTag(config.version), checksum |-> wanted,
            available |-> FALSE]
      ELSE [NoObject EXCEPT !.exists = TRUE]

\* Go on with the worker's copies; same: its Deployment was not written.
GoOn(label, j, same) ==
    /\ pc' = label /\ i' = j
    /\ dcurrent' = (dcurrent /\ same)
    /\ UNCHANGED <<res, config, current, deploy, wanted>>

\* After object o of Sync's list became new, the next one; after the last one
\* PreAnalysisStep, if the Deployment read at first has a ready replica.
NextObject(o, new) ==
    LET same == o[1] = "deployment" => new = object[o] IN
    IF i < Len(Kind) THEN GoOn("sync", i + 1, same)
    ELSE IF deploy.exists /\ deploy.available THEN GoOn("image", 0, same)
    ELSE Return

\* Mutant of Missing: what all resources share is left to whoever made it.
BugOwnOnly(o) == o[1] \in Own /\ ~ ocache[o].exists

Missing(o) == ~ ocache[o].exists

\* doSync creates what the informer does not show; what exists already is fine.
CreateObject ==
    LET o == ObjectAt(i, res)
        new == IF object[o].exists THEN object[o] ELSE NewObject(o)
    IN
    /\ pc = "sync"
    /\ Missing(o)
    /\ WriteObject(o, new)
    /\ NextObject(o, new)
    /\ UNCHANGED <<resources, secret, edits, faults>>

\* It patches the Service and the Deployment; one that is gone is an error.
\* What the resources share is left as it is.
PatchObject ==
    LET o == ObjectAt(i, res)
        new == IF o[1] = "deployment" THEN Patched(object[o], ocache[o]) ELSE object[o]
    IN
    /\ pc = "sync"
    /\ ~ Missing(o)
    /\ IF o[1] \in Own /\ ~ object[o].exists
         THEN Return /\ UNCHANGED objects
         ELSE WriteObject(o, new) /\ NextObject(o, new)
    /\ UNCHANGED <<resources, secret, edits, faults>>

-----------------------------------------------------------------------------
(***************************************************************************)
(* PreAnalysisStep, up to the connection to the server: the version in the *)
(* image read at first is compared with spec.version, and the Deployment   *)
(* as read at first is updated.                                            *)
(***************************************************************************)
\* The tag parsed from an image is not the version asked for.
Outdated(image, c) == image # c.version

\* updateDeploymentImage: the Deployment as read gets the version as it is
\* written; the Update is refused when the Deployment has changed.
UpdateDeploymentImage ==
    LET o == <<"deployment", res>> IN
    IF dcurrent /\ object[o].exists
      THEN WriteObject(o, [deploy EXCEPT !.image = config.version])
      ELSE UNCHANGED objects

CheckImage ==
    /\ pc = "image"
    /\ IF Outdated(deploy.image, config) THEN UpdateDeploymentImage ELSE UNCHANGED objects
    /\ Return
    /\ UNCHANGED <<resources, secret, edits, faults>>

-----------------------------------------------------------------------------
\* A call fails, or the operator restarts.
CallFails ==
    /\ pc # "idle"
    /\ faults < MaxFaults
    /\ faults' = faults + 1
    /\ Return
    /\ UNCHANGED <<resources, objects, secret, edits>>

Users ==
    \/ \E k \in K8sGPT : CreateK8sGPT(k) \/ EditK8sGPT(k) \/ DeleteK8sGPT(k)
    \/ EditSecret
    \/ \E o \in Object : DeleteObject(o)

\* What the worker does once it has a request.
Work ==
    \/ AddFinalizer \/ DestroyObject \/ RemoveFinalizer
    \/ ConfigureBackoff \/ ReadDeployment \/ CreateObject \/ PatchObject
    \/ CheckImage

Next ==
    \/ Users
    \/ \E k \in K8sGPT : RolloutStatus(k) \/ SyncK8sGPTCache(k) \/ StartReconcile(k)
    \/ \E o \in Object : SyncObjectCache(o)
    \/ Work
    \/ CallFails

Spec == Init /\ [][Next]_vars

\* A reconcile that has started runs on, the informers catch up, and every
\* resource is reconciled again and again: each reconcile ends in a requeue.
Fairness ==
    /\ WF_vars(Work)
    /\ \A k \in K8sGPT : WF_vars(SyncK8sGPTCache(k)) /\ SF_vars(StartReconcile(k))
    /\ \A o \in Object : WF_vars(SyncObjectCache(o))

FairSpec == Spec /\ Fairness

-----------------------------------------------------------------------------
\* Every variable has its type.
TypeOK ==
    /\ k8sgpt \in [K8sGPT -> K8sGPTRec] /\ kcache \in [K8sGPT -> K8sGPTRec]
    /\ ksynced \in [K8sGPT -> BOOLEAN]
    /\ object \in [Object -> ObjectRec] /\ ocache \in [Object -> ObjectRec]
    /\ osynced \in [Object -> BOOLEAN]
    /\ secret \in SecretData \cup {None}
    /\ edits \in Nat /\ faults \in Nat
    /\ pc \in {"idle", "finalizer", "backOff", "get", "sync", "image", "destroy", "release"}
    /\ res \in K8sGPT \cup {None}
    /\ pc # "idle" => res \in K8sGPT
    /\ config \in K8sGPTRec /\ current \in BOOLEAN
    /\ deploy \in ObjectRec /\ dcurrent \in BOOLEAN
    /\ wanted \in SecretData \cup {None}
    /\ pc = "sync" => wanted \in SecretData
    /\ i \in 0 .. Len(Kind)
    /\ pc \in {"sync", "destroy"} => i \in 1 .. Len(Kind)

\* A server never outlives its resource: whatever of it exists, the resource
\* exists too and carries the finalizer that makes the controller destroy it,
\* however stale the copies the controller worked from.
ServerIsHeld ==
    \A k \in K8sGPT, o \in Own : object[<<o, k>>].exists => k8sgpt[k].finalizer

\* A deleted resource goes away.
DeletionEnds ==
    \A k \in K8sGPT : k8sgpt[k].state = "deleting" ~> k8sgpt[k].state # "deleting"

\* The server's Deployment is what its resource asks for.
InStep(k) ==
    LET d == object[<<"deployment", k>>] IN
    d.exists /\ d.image = ImageTag(k8sgpt[k].version) /\ d.checksum = secret

\* README.md: once users leave it alone, the Deployment of a live resource has
\* the image of its version and the checksum of the Secret's data, so new
\* credentials are rolled out without a manual restart.
SpecReached ==
    \A k \in K8sGPT :
      <>[](k8sgpt[k].state = "live" /\ secret # None => InStep(k))

\* What the resources share is there for those that are left, though the
\* deletion of another one destroys it.
SharedRestored ==
    \A k \in K8sGPT, o \in Shared :
      <>[](k8sgpt[k].state = "live" /\ secret # None => object[<<o, None>>].exists)
================================================================================
