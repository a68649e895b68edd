----------------------------- MODULE WorkloadProofs ----------------------------
(***************************************************************************)
(* Proofs about Workload, for any K8sGPT resources of a namespace, any     *)
(* versions and Secret data, with and without dynamic RBAC, and any number *)
(* of edits and faults: type correctness, and that no server outlives its  *)
(* resource.                                                               *)
(***************************************************************************)
EXTENDS Workload, TLAPS

\* Copies that are said to be current are. A copy in deletion is still the one
\* the informer shows, since nobody writes to it before its release.
CopiesInv ==
    /\ \A k \in K8sGPT : ksynced[k] => kcache[k] = k8sgpt[k]
    /\ pc # "idle" /\ current => config = k8sgpt[res]
    /\ pc \in {"destroy", "release"} => config.state = "deleting"
    /\ pc \in {"destroy", "release"} /\ current => kcache[res] = config
    /\ pc \in {"finalizer", "backOff", "get", "sync", "image"} => config.state = "live"

\* Who is seen live with a finalizer still has it, however stale the copy: it
\* is only dropped by an Update of a copy in deletion that is current, when the
\* informer shows the deletion too.
HeldInv ==
    /\ \A k \in K8sGPT :
         /\ k8sgpt[k].state = "absent" => ~ k8sgpt[k].finalizer
         /\ kcache[k].state = "live" /\ kcache[k].finalizer => k8sgpt[k].finalizer
    /\ pc \in {"backOff", "get", "sync", "image"} => k8sgpt[res].finalizer

\* What Sync has destroyed so far does not come back.
DestroyedInv ==
    /\ pc = "destroy" => \A j \in 1 .. i - 1 : ~ object[ObjectAt(j, res)].exists
    /\ pc = "release" => \A o \in Own : ~ object[<<o, res>>].exists

IInv == TypeOK /\ CopiesInv /\ HeldInv /\ DestroyedInv /\ ServerIsHeld

-----------------------------------------------------------------------------
\* The list of Sync has the Service and the Deployment of the resource, and
\* each of its entries is an object.
LEMMA KindFacts ==
  /\ Len(Kind) \in Nat \ {0}
  /\ \A j \in 1 .. Len(Kind), k \in K8sGPT :
       /\ ObjectAt(j, k) \in Object
       /\ \A o \in Own, l \in K8sGPT : ObjectAt(j, k) = <<o, l>> => l = k
  /\ \A o \in Own, k \in K8sGPT : \E j \in 1 .. Len(Kind) : ObjectAt(j, k) = <<o, k>>
  <1>1. CASE DynamicRBAC
    <2>1. Kind = <<"serviceaccount", "service", "deployment", "clusterrole", "binding">>
          /\ Shared = {"serviceaccount", "clusterrole", "binding"}
      BY <1>1 DEF Kind, Shared
    <2>2. Len(Kind) = 5
      BY <2>1
    <2>3. \A j \in 1 .. 5 : j \in {1, 2, 3, 4, 5}
      OBVIOUS
    <2>4. \A k : /\ ObjectAt(1, k) = <<"serviceaccount", None>> /\ ObjectAt(2, k) = <<"service", k>>
                 /\ ObjectAt(3, k) = <<"deployment", k>> /\ ObjectAt(4, k) = <<"clusterrole", None>>
                 /\ ObjectAt(5, k) = <<"binding", None>>
      BY <2>1 DEF ObjectAt
    <2>5. \A j \in 1 .. 5, k \in K8sGPT :
             ObjectAt(j, k) \in {<<"serviceaccount", None>>, <<"clusterrole", None>>, <<"binding", None>>,
                                 <<"service", k>>, <<"deployment", k>>}
      BY <2>3, <2>4
    <2>6. \A k \in K8sGPT : \A p \in {<<"serviceaccount", None>>, <<"clusterrole", None>>,
                             <<"binding", None>>, <<"service", k>>, <<"deployment", k>>} :
            p \in Object /\ \A o \in Own, l \in K8sGPT : p = <<o, l>> => l = k
      BY <2>1, NoneAssumption DEF Object, Own
    <2> QED
      BY <2>2, <2>4, <2>5, <2>6 DEF Own
  <1>2. CASE ~ DynamicRBAC
    <2>1. Kind = <<"service", "deployment">> /\ Shared = {}
      BY <1>2 DEF Kind, Shared
    <2>2. Len(Kind) = 2
      BY <2>1
    <2>3. \A j \in 1 .. 2 : j = 1 \/ j = 2
      OBVIOUS
    <2>4. \A k : ObjectAt(1, k) = <<"service", k>> /\ ObjectAt(2, k) = <<"deployment", k>>
      BY <2>1 DEF ObjectAt
    <2>5. \A j \in 1 .. 2, k \in K8sGPT :
            ObjectAt(j, k) \in Object /\ \A o \in Own, l \in K8sGPT : ObjectAt(j, k) = <<o, l>> => l = k
      BY <2>1, <2>3, <2>4 DEF Object, Own
    <2> QED
      BY <2>2, <2>4, <2>5 DEF Own
  <1> QED
    BY <1>1, <1>2

\* The operator starts with every variable in its type.
LEMMA TypeInit == Init => TypeOK
  <1> SUFFICES ASSUME Init PROVE TypeOK
    OBVIOUS
  <1>1. Absent \in K8sGPTRec
    BY DEF Absent, K8sGPTRec
  <1>2. NoObject \in ObjectRec
    BY DEF NoObject, ObjectRec, Tag
  <1>3. Len(Kind) \in Nat
    BY KindFacts
  <1>4. k8sgpt \in [K8sGPT -> K8sGPTRec] /\ kcache \in [K8sGPT -> K8sGPTRec]
        /\ ksynced \in [K8sGPT -> BOOLEAN]
    BY <1>1 DEF Init
  <1>5. object \in [Object -> ObjectRec] /\ ocache \in [Object -> ObjectRec]
        /\ osynced \in [Object -> BOOLEAN]
    BY <1>2 DEF Init
  <1>6. /\ secret \in SecretData /\ edits = 0 /\ faults = 0 /\ pc = "idle" /\ res = None
        /\ config = Absent /\ deploy = NoObject /\ wanted = None
    BY DEF Init
  <1>7. current \in BOOLEAN /\ dcurrent \in BOOLEAN
    BY DEF Init
  <1>8. i \in 0 .. Len(Kind)
    BY <1>3 DEF Init
  <1> QED
    BY <1>1, <1>2, <1>4, <1>5, <1>6, <1>7, <1>8 DEF TypeOK

-----------------------------------------------------------------------------
\* Parts of the type invariant, which are what most steps leave alone.
ServerType ==
    /\ k8sgpt \in [K8sGPT -> K8sGPTRec] /\ kcache \in [K8sGPT -> K8sGPTRec]
    /\ ksynced \in [K8sGPT -> BOOLEAN]
ObjectType ==
    /\ object \in [Object -> ObjectRec] /\ ocache \in [Object -> ObjectRec]
    /\ osynced \in [Object -> BOOLEAN]
WorkerType ==
    /\ pc \in {"idle", "finalizer", "backOff", "get", "sync", "image", "destroy", "release"}
    /\ res \in K8sGPT \cup {None}
    /\ pc # "idle" => res \in K8sGPT
    /\ config \in K8sGPTRec /\ current \in BOOLEAN
    /\ deploy \in ObjectRec /\ dcurrent \in BOOLEAN
    /\ wanted \in SecretData \cup {None}
    /\ pc = "sync" => wanted \in SecretData
    /\ i \in 0 .. Len(Kind)
    /\ pc \in {"sync", "destroy"} => i \in 1 .. Len(Kind)
OtherType == secret \in SecretData \cup {None} /\ edits \in Nat /\ faults \in Nat

\* A write leaves the server's objects and the informer's copies typed.
LEMMA WriteK8sGPTType ==
  ASSUME ServerType, NEW k \in K8sGPT, NEW new \in K8sGPTRec, WriteK8sGPT(k, new)
  PROVE  ServerType'
  BY DEF ServerType, WriteK8sGPT

LEMMA WriteObjectType ==
  ASSUME ObjectType, NEW o \in Object, NEW new \in ObjectRec, WriteObject(o, new)
  PROVE  ObjectType'
  BY DEF ObjectType, WriteObject

\* A reconcile that returns leaves a worker without a request.
LEMMA ReturnType == Return => WorkerType'
  <1>1. Absent \in K8sGPTRec /\ NoObject \in ObjectRec
    BY DEF Absent, K8sGPTRec, NoObject, ObjectRec, Tag
  <1>2. Len(Kind) \in Nat
    BY KindFacts
  <1> SUFFICES ASSUME Return PROVE WorkerType'
    OBVIOUS
  <1>3. pc' = "idle" /\ res' = None /\ config' = Absent /\ deploy' = NoObject /\ wanted' = None
    BY DEF Return
  <1>4. current' \in BOOLEAN /\ dcurrent' \in BOOLEAN
    BY DEF Return
  <1>5. i' \in 0 .. Len(Kind)
    BY <1>2 DEF Return
  <1> QED
    BY <1>1, <1>3, <1>4, <1>5 DEF WorkerType

\* The values that are written are K8sGPT resources and objects.
LEMMA Values ==
  ASSUME ServerType, ObjectType, WorkerType
  PROVE  /\ Absent \in K8sGPTRec /\ NoObject \in ObjectRec
         /\ \A k \in K8sGPT : /\ [k8sgpt[k] EXCEPT !.state = "deleting"] \in K8sGPTRec
                              /\ \A v \in Version : [k8sgpt[k] EXCEPT !.version = v] \in K8sGPTRec
         /\ [config EXCEPT !.finalizer = TRUE] \in K8sGPTRec
         /\ [config EXCEPT !.backOff = TRUE] \in K8sGPTRec
         /\ \A o \in Object : /\ [object[o] EXCEPT !.available = ~ @] \in ObjectRec
                              /\ NewObject(o) \in ObjectRec
                              /\ Patched(object[o], ocache[o]) \in ObjectRec
         /\ [deploy EXCEPT !.image = config.version] \in ObjectRec
  <1> USE DEF ServerType, ObjectType, WorkerType
  <1>1. Absent \in K8sGPTRec /\ NoObject \in ObjectRec
    BY DEF Absent, K8sGPTRec, NoObject, ObjectRec, Tag
  <1>2. ASSUME NEW k \in K8sGPT
        PROVE  /\ [k8sgpt[k] EXCEPT !.state = "deleting"] \in K8sGPTRec
               /\ \A v \in Version : [k8sgpt[k] EXCEPT !.version = v] \in K8sGPTRec
    BY DEF K8sGPTRec
  <1>3. /\ [config EXCEPT !.finalizer = TRUE] \in K8sGPTRec
        /\ [config EXCEPT !.backOff = TRUE] \in K8sGPTRec
    BY DEF K8sGPTRec
  <1>4. config.version \in Tag /\ ImageTag(config.version) \in Tag
    BY DEF K8sGPTRec, Tag, ImageTag
  <1>5. ASSUME NEW o \in Object
        PROVE  /\ [object[o] EXCEPT !.available = ~ @] \in ObjectRec
               /\ NewObject(o) \in ObjectRec
               /\ Patched(object[o], ocache[o]) \in ObjectRec
    <2>1. object[o] \in ObjectRec
      OBVIOUS
    <2>2. [object[o] EXCEPT !.available = ~ @] \in ObjectRec
      BY <2>1 DEF ObjectRec
    <2>3. NewObject(o) \in ObjectRec
      BY <1>4 DEF NewObject, NoObject, ObjectRec, Tag
    <2>4. Patched(object[o], ocache[o]) \in ObjectRec
      BY <1>4, <2>1 DEF Patched, ObjectRec
    <2> QED
      BY <2>2, <2>3, <2>4
  <1>6. [deploy EXCEPT !.image = config.version] \in ObjectRec
    BY <1>4 DEF ObjectRec
  <1> QED
    BY <1>1, <1>2, <1>3, <1>5, <1>6

\* An Update of the resource in hand, refused or not, keeps the types.
LEMMA UpdateConfigType ==
  ASSUME ServerType, WorkerType, pc # "idle", NEW c \in K8sGPTRec,
         NEW label \in {"backOff", "get"}, UpdateConfig(c, label)
  PROVE  ServerType' /\ WorkerType'
  <1>1. CASE current
    <2>1. ServerType'
      BY <1>1, WriteK8sGPTType DEF UpdateConfig, WorkerType
    <2>2. pc' = label /\ config' = c /\ UNCHANGED <<res, current, deploy, dcurrent, wanted, i>>
      BY <1>1 DEF UpdateConfig
    <2> QED
      BY <2>1, <2>2 DEF WorkerType
  <1>2. CASE ~ current
    BY <1>2, ReturnType DEF UpdateConfig, resources, ServerType
  <1> QED
    BY <1>1, <1>2

\* So does the step from one object of Sync to the next.
LEMMA NextObjectType ==
  ASSUME WorkerType, pc = "sync", NEW o, NEW new, NextObject(o, new)
  PROVE  WorkerType'
  <1> DEFINE same == o[1] = "deployment" => new = object[o]
  <1>a. Len(Kind) \in Nat
    BY KindFacts
  <1>1. CASE i < Len(Kind)
    <2>1. pc' = "sync" /\ i' = i + 1 /\ dcurrent' = (dcurrent /\ same)
          /\ UNCHANGED <<res, config, current, deploy, wanted>>
      BY <1>1 DEF NextObject, GoOn
    <2>2. i' \in 1 .. Len(Kind)
      BY <1>a, <1>1, <2>1 DEF WorkerType
    <2>3. dcurrent' \in BOOLEAN
      BY <2>1
    <2>4. i' \in 0 .. Len(Kind)
      BY <1>a, <2>2
    <2> HIDE DEF same
    <2> QED
      BY <2>1, <2>2, <2>3, <2>4 DEF WorkerType
  <1>2. CASE ~ (i < Len(Kind)) /\ deploy.exists /\ deploy.available
    <2>1. pc' = "image" /\ i' = 0 /\ dcurrent' = (dcurrent /\ same)
          /\ UNCHANGED <<res, config, current, deploy, wanted>>
      BY <1>2 DEF NextObject, GoOn
    <2>2. i' \in 0 .. Len(Kind)
      BY <1>a, <2>1
    <2>3. dcurrent' \in BOOLEAN
      BY <2>1
    <2> HIDE DEF same
    <2> QED
      BY <2>1, <2>2, <2>3 DEF WorkerType
  <1>3. CASE ~ (i < Len(Kind)) /\ ~ (deploy.exists /\ deploy.available)
    BY <1>3, ReturnType DEF NextObject
  <1> QED
    BY <1>1, <1>2, <1>3

\* What others write makes the worker's copies stale and leaves them typed.
LEMMA CopiesAfterType ==
  ASSUME WorkerType, NEW k, NEW o, CopiesAfter(k, o),
         UNCHANGED <<pc, res, config, deploy, wanted, i>>
  PROVE  WorkerType'
  <1>1. current' \in BOOLEAN /\ dcurrent' \in BOOLEAN
    BY DEF CopiesAfter
  <1> QED
    BY <1>1 DEF WorkerType

\* No step of the controller, the users or the cluster breaks the types; in
\* particular Sync only goes on with the data of a Secret that was found.
LEMMA TypeStep == TypeOK /\ [Next]_vars => TypeOK'
  <1> SUFFICES ASSUME ServerType, ObjectType, WorkerType, OtherType, [Next]_vars
               PROVE  ServerType' /\ ObjectType' /\ WorkerType' /\ OtherType'
    BY DEF TypeOK, ServerType, ObjectType, WorkerType, OtherType
  <1> DEFINE Goal == ServerType' /\ ObjectType' /\ WorkerType' /\ OtherType'
  <1>a. UNCHANGED resources => ServerType'
    BY DEF resources, ServerType
  <1>b. UNCHANGED objects => ObjectType'
    BY DEF objects, ObjectType
  <1>c. UNCHANGED worker => WorkerType'
    BY DEF worker, WorkerType
  <1>d. UNCHANGED <<secret, edits, faults>> => OtherType'
    BY DEF OtherType
  <1>e. /\ \A k \in K8sGPT : <<"deployment", k>> \in Object
        /\ \A j \in 1 .. Len(Kind), k \in K8sGPT : ObjectAt(j, k) \in Object
    BY KindFacts DEF Object, Own
  <1>1. ASSUME NEW k \in K8sGPT, CreateK8sGPT(k) \/ EditK8sGPT(k) \/ DeleteK8sGPT(k)
        PROVE  Goal
    <2>1. \A v \in Version, b \in BOOLEAN :
            [state |-> "live", finalizer |-> FALSE, backOff |-> b, version |-> v] \in K8sGPTRec
      BY DEF K8sGPTRec
    <2>2. \E c \in K8sGPTRec : WriteK8sGPT(k, c)
      BY <1>1, <2>1, Values DEF CreateK8sGPT, EditK8sGPT, DeleteK8sGPT
    <2>3. /\ Edit /\ CopiesAfter(k, None)
          /\ UNCHANGED <<objects, secret>>
      BY <1>1 DEF CreateK8sGPT, EditK8sGPT, DeleteK8sGPT
    <2>4. OtherType'
      BY <2>3 DEF Edit, OtherType
    <2> QED
      BY <1>b, <2>2, <2>3, <2>4, WriteK8sGPTType, CopiesAfterType DEF Edit
  <1>2. CASE EditSecret
    <2>1. OtherType'
      BY <1>2 DEF EditSecret, Edit, OtherType
    <2> QED
      BY <1>2, <1>a, <1>b, <1>c, <2>1 DEF EditSecret, Edit, worker
  <1>3. ASSUME NEW o \in Object, DeleteObject(o) PROVE Goal
    <2>1. OtherType'
      BY <1>3 DEF DeleteObject, Edit, OtherType
    <2> QED
      BY <1>3, <1>a, <2>1, Values, WriteObjectType, CopiesAfterType DEF DeleteObject, Edit
  <1>4. ASSUME NEW k \in K8sGPT, RolloutStatus(k) PROVE Goal
    BY <1>4, <1>a, <1>d, <1>e, Values, WriteObjectType, CopiesAfterType DEF RolloutStatus
  <1>5. ASSUME NEW k \in K8sGPT, SyncK8sGPTCache(k) PROVE Goal
    <2>1. ServerType'
      BY <1>5 DEF SyncK8sGPTCache, ServerType
    <2> QED
      BY <1>5, <1>b, <1>c, <1>d, <2>1 DEF SyncK8sGPTCache
  <1>6. ASSUME NEW o \in Object, SyncObjectCache(o) PROVE Goal
    <2>1. ObjectType'
      BY <1>6 DEF SyncObjectCache, ObjectType
    <2> QED
      BY <1>6, <1>a, <1>c, <1>d, <2>1 DEF SyncObjectCache
  <1>7. ASSUME NEW k \in K8sGPT, StartReconcile(k) PROVE Goal
    <2>1. pc' \in {"destroy", "backOff", "get", "finalizer"}
          /\ (pc' = "destroy" => kcache[k].state = "deleting")
      BY <1>7 DEF StartReconcile, FirstStep, Configure
    <2>2. i' \in 0 .. Len(Kind) /\ (pc' = "destroy" => i' \in 1 .. Len(Kind))
      BY <1>7, <2>1, KindFacts DEF StartReconcile
    <2>3. res' = k /\ config' \in K8sGPTRec /\ current' \in BOOLEAN
          /\ UNCHANGED <<deploy, dcurrent, wanted>>
      BY <1>7 DEF StartReconcile, ServerType
    <2>4. WorkerType'
      BY <2>1, <2>2, <2>3 DEF WorkerType
    <2> QED
      BY <1>7, <1>a, <1>b, <1>d, <2>4 DEF StartReconcile
  <1>8. CASE AddFinalizer \/ ConfigureBackoff
    <2>1. /\ pc # "idle" /\ UNCHANGED <<objects, secret, edits, faults>>
          /\ \E c \in K8sGPTRec, label \in {"backOff", "get"} : UpdateConfig(c, label)
      BY <1>8, Values DEF AddFinalizer, ConfigureBackoff, Configure
    <2> QED
      BY <1>b, <1>d, <2>1, UpdateConfigType
  <1>9. CASE DestroyObject
    <2>1. res \in K8sGPT /\ i \in 1 .. Len(Kind)
      BY <1>9 DEF DestroyObject, WorkerType
    <2>2. ObjectType'
      BY <1>9, <1>e, <2>1, Values, WriteObjectType DEF DestroyObject
    <2>3. /\ pc' \in {"destroy", "release"} /\ i' \in 0 .. Len(Kind)
          /\ pc' = "destroy" => i' \in 1 .. Len(Kind)
      BY <1>9, <2>1, KindFacts DEF DestroyObject
    <2>4. UNCHANGED <<res, config, current, deploy, dcurrent, wanted>>
      BY <1>9 DEF DestroyObject
    <2>5. WorkerType'
      BY <2>1, <2>3, <2>4 DEF WorkerType
    <2> QED
      BY <1>9, <1>a, <1>d, <2>2, <2>5 DEF DestroyObject
  <1>10. CASE RemoveFinalizer
    <2>1. res \in K8sGPT
      BY <1>10 DEF RemoveFinalizer, WorkerType
    <2>2. ServerType'
      BY <1>10, <1>a, <2>1, Values, WriteK8sGPTType DEF RemoveFinalizer
    <2> QED
      BY <1>10, <1>b, <1>d, <2>2, ReturnType DEF RemoveFinalizer
  <1>11. CASE ReadDeployment
    <2>1. CASE secret = None
      BY <1>11, <2>1, <1>a, <1>b, <1>d, ReturnType DEF ReadDeployment, SecretFound
    <2>2. CASE secret # None
      <3>1. res \in K8sGPT
        BY <1>11 DEF ReadDeployment, WorkerType
      <3>2. deploy' \in ObjectRec /\ dcurrent' \in BOOLEAN
        BY <1>11, <2>2, <3>1, <1>e DEF ReadDeployment, SecretFound, ObjectType
      <3>3. wanted' \in SecretData
        BY <1>11, <2>2 DEF ReadDeployment, SecretFound, OtherType
      <3>4. i' \in 0 .. Len(Kind) /\ i' \in 1 .. Len(Kind)
        BY <1>11, <2>2, KindFacts DEF ReadDeployment, SecretFound
      <3>5. pc' = "sync" /\ UNCHANGED <<res, config, current>>
        BY <1>11, <2>2 DEF ReadDeployment, SecretFound
      <3>6. WorkerType'
        BY <3>1, <3>2, <3>3, <3>4, <3>5 DEF WorkerType
      <3> QED
        BY <1>11, <1>a, <1>b, <1>d, <3>6 DEF ReadDeployment
    <2> QED
      BY <2>1, <2>2
  <1>12. CASE CreateObject \/ PatchObject
    <2> DEFINE o == ObjectAt(i, res)
    <2>1. pc = "sync" /\ UNCHANGED <<resources, secret, edits, faults>>
      BY <1>12 DEF CreateObject, PatchObject
    <2>2. o \in Object /\ object[o] \in ObjectRec
      BY <2>1, <1>e DEF WorkerType, ObjectType
    <2>3. \/ Return /\ UNCHANGED objects
          \/ \E new \in ObjectRec : WriteObject(o, new) /\ NextObject(o, new)
      BY <1>12, <2>2, Values DEF CreateObject, PatchObject
    <2> HIDE DEF o
    <2> QED
      BY <1>a, <1>b, <1>d, <2>1, <2>2, <2>3, WriteObjectType, NextObjectType, ReturnType
  <1>13. CASE CheckImage
    <2>1. <<"deployment", res>> \in Object
      BY <1>13, <1>e DEF CheckImage, WorkerType
    <2>2. ObjectType'
      BY <1>13, <1>b, <2>1, Values, WriteObjectType DEF CheckImage, UpdateDeploymentImage
    <2> QED
      BY <1>13, <1>a, <1>d, <2>2, ReturnType DEF CheckImage
  <1>14. CASE CallFails
    <2>1. OtherType'
      BY <1>14 DEF CallFails, OtherType
    <2> QED
      BY <1>14, <1>a, <1>b, <2>1, ReturnType DEF CallFails
  <1>15. CASE UNCHANGED vars
    BY <1>15, <1>a, <1>b, <1>c, <1>d DEF vars
  <1> QED
    BY <1>1, <1>2, <1>3, <1>4, <1>5, <1>6, <1>7, <1>8, <1>9, <1>10, <1>11, <1>12, <1>13,
       <1>14, <1>15 DEF Next, Users, Work

-----------------------------------------------------------------------------
\* Where the resource in hand has its finalizer.
Holding == {"backOff", "get", "sync", "image"}

\* A write of a resource that is not in hand, or whose copy goes stale by it.
LEMMA WriteLeavesCopies ==
  ASSUME TypeOK, CopiesInv, HeldInv, NEW k \in K8sGPT, NEW new \in K8sGPTRec,
         WriteK8sGPT(k, new), UNCHANGED <<pc, res, config>>,
         current' = (current /\ res # k),
         new.state = "absent" => ~ new.finalizer,
         k8sgpt[k].finalizer => new.finalizer
  PROVE  CopiesInv' /\ HeldInv'
  <1>1. /\ k8sgpt' = [k8sgpt EXCEPT ![k] = new]
        /\ kcache' = kcache
        /\ ksynced' = [ksynced EXCEPT ![k] = @ /\ new = k8sgpt[k]]
    BY DEF WriteK8sGPT
  <1>2. /\ k8sgpt \in [K8sGPT -> K8sGPTRec] /\ ksynced \in [K8sGPT -> BOOLEAN]
        /\ pc # "idle" => res \in K8sGPT
    BY DEF TypeOK
  <1>3. k8sgpt'[k] = new /\ \A l \in K8sGPT : l # k => k8sgpt'[l] = k8sgpt[l]
    BY <1>1, <1>2
  <1>4. /\ ksynced'[k] => ksynced[k] /\ new = k8sgpt[k]
        /\ \A l \in K8sGPT : l # k => ksynced'[l] = ksynced[l]
    BY <1>1, <1>2
  <1>5. CopiesInv'
    BY <1>1, <1>2, <1>3, <1>4 DEF CopiesInv
  <1>6. HeldInv'
    BY <1>1, <1>2, <1>3 DEF HeldInv
  <1> QED
    BY <1>5, <1>6

\* An Update of the resource in hand that keeps it live, with a finalizer.
LEMMA UpdateKeepsCopies ==
  ASSUME TypeOK, CopiesInv, HeldInv, pc \in {"finalizer", "backOff"},
         NEW c \in K8sGPTRec, c.state = "live", c.finalizer,
         NEW label \in {"backOff", "get"}, UpdateConfig(c, label)
  PROVE  CopiesInv' /\ HeldInv'
  <1>a. /\ k8sgpt \in [K8sGPT -> K8sGPTRec] /\ ksynced \in [K8sGPT -> BOOLEAN]
        /\ res \in K8sGPT
    BY DEF TypeOK
  <1>1. CASE ~ current
    <2>1. pc' = "idle" /\ UNCHANGED <<k8sgpt, kcache, ksynced>>
      BY <1>1 DEF UpdateConfig, Return, resources
    <2> QED
      BY <2>1 DEF CopiesInv, HeldInv
  <1>2. CASE current
    <2>1. /\ k8sgpt' = [k8sgpt EXCEPT ![res] = c]
          /\ kcache' = kcache
          /\ ksynced' = [ksynced EXCEPT ![res] = @ /\ c = k8sgpt[res]]
          /\ pc' = label /\ config' = c /\ res' = res
      BY <1>2 DEF UpdateConfig, WriteK8sGPT
    <2>2. k8sgpt'[res] = c /\ \A l \in K8sGPT : l # res => k8sgpt'[l] = k8sgpt[l]
      BY <1>a, <2>1
    <2>3. /\ ksynced'[res] => ksynced[res] /\ c = k8sgpt[res]
          /\ \A l \in K8sGPT : l # res => ksynced'[l] = ksynced[l]
      BY <1>a, <2>1
    <2>4. CopiesInv'
      BY <1>a, <2>1, <2>2, <2>3 DEF CopiesInv
    <2>5. HeldInv'
      BY <1>a, <2>1, <2>2 DEF HeldInv
    <2> QED
      BY <2>4, <2>5
  <1> QED
    BY <1>1, <1>2

\* The finalizer of a resource that is seen live, or is being worked on, stays.
LEMMA CopiesStep ==
  ASSUME TypeOK, CopiesInv, HeldInv, [Next]_vars
  PROVE  CopiesInv' /\ HeldInv'
  <1> DEFINE Goal == CopiesInv' /\ HeldInv'
  <1>a. /\ k8sgpt \in [K8sGPT -> K8sGPTRec] /\ kcache \in [K8sGPT -> K8sGPTRec]
        /\ ksynced \in [K8sGPT -> BOOLEAN]
        /\ pc # "idle" => res \in K8sGPT
        /\ config \in K8sGPTRec
    BY DEF TypeOK
  <1>b. ASSUME UNCHANGED resources, pc' = "idle" PROVE Goal
    BY <1>b DEF resources, CopiesInv, HeldInv
  <1>c. ASSUME UNCHANGED resources, UNCHANGED <<pc, res, config>>, current' => current PROVE Goal
    BY <1>c DEF resources, CopiesInv, HeldInv
  <1>1. ASSUME NEW k \in K8sGPT, CreateK8sGPT(k) PROVE Goal
    <2>1. PICK v \in Version, b \in BOOLEAN :
            WriteK8sGPT(k, [state |-> "live", finalizer |-> FALSE, backOff |-> b, version |-> v])
      BY <1>1 DEF CreateK8sGPT
    <2>2. [state |-> "live", finalizer |-> FALSE, backOff |-> b, version |-> v] \in K8sGPTRec
      BY DEF K8sGPTRec
    <2>3. ~ k8sgpt[k].finalizer
      BY <1>1 DEF CreateK8sGPT, HeldInv
    <2>4. UNCHANGED <<pc, res, config>> /\ current' = (current /\ res # k)
      BY <1>1 DEF CreateK8sGPT, Edit, CopiesAfter
    <2> QED
      BY <2>1, <2>2, <2>3, <2>4, WriteLeavesCopies
  <1>2. ASSUME NEW k \in K8sGPT, EditK8sGPT(k) PROVE Goal
    <2>1. PICK v \in Version : WriteK8sGPT(k, [k8sgpt[k] EXCEPT !.version = v])
      BY <1>2 DEF EditK8sGPT
    <2>2. /\ [k8sgpt[k] EXCEPT !.version = v] \in K8sGPTRec
          /\ [k8sgpt[k] EXCEPT !.version = v].finalizer = k8sgpt[k].finalizer
          /\ [k8sgpt[k] EXCEPT !.version = v].state = "live"
      BY <1>2, <1>a DEF EditK8sGPT, K8sGPTRec
    <2>3. UNCHANGED <<pc, res, config>> /\ current' = (current /\ res # k)
      BY <1>2 DEF EditK8sGPT, Edit, CopiesAfter
    <2> QED
      BY <2>1, <2>2, <2>3, WriteLeavesCopies
  <1>3. ASSUME NEW k \in K8sGPT, DeleteK8sGPT(k) PROVE Goal
    <2> DEFINE new == IF k8sgpt[k].finalizer THEN [k8sgpt[k] EXCEPT !.state = "deleting"]
                                             ELSE Absent
    <2>1. WriteK8sGPT(k, new) /\ UNCHANGED <<pc, res, config>> /\ current' = (current /\ res # k)
      BY <1>3 DEF DeleteK8sGPT, Edit, CopiesAfter
    <2>2. /\ new \in K8sGPTRec
          /\ new.state = "absent" => ~ new.finalizer
          /\ k8sgpt[k].finalizer => new.finalizer
      BY <1>a DEF K8sGPTRec, Absent
    <2> HIDE DEF new
    <2> QED
      BY <2>1, <2>2, WriteLeavesCopies
  <1>4. CASE EditSecret
    BY <1>4, <1>c DEF EditSecret, Edit
  <1>5. ASSUME NEW o \in Object, DeleteObject(o) PROVE Goal
    BY <1>5, <1>c DEF DeleteObject, Edit, CopiesAfter
  <1>6. ASSUME NEW k \in K8sGPT, RolloutStatus(k) PROVE Goal
    BY <1>6, <1>c DEF RolloutStatus, CopiesAfter
  <1>7. ASSUME NEW k \in K8sGPT, SyncK8sGPTCache(k) PROVE Goal
    <2>1. /\ kcache'[k] = k8sgpt[k] /\ \A l \in K8sGPT : l # k => kcache'[l] = kcache[l]
          /\ \A l \in K8sGPT : l # k => ksynced'[l] = ksynced[l]
          /\ UNCHANGED <<k8sgpt, pc, res, config, current>>
      BY <1>7, <1>a DEF SyncK8sGPTCache, worker
    <2>2. CopiesInv'
      BY <1>a, <2>1 DEF CopiesInv
    <2>3. HeldInv'
      BY <1>a, <2>1 DEF HeldInv
    <2> QED
      BY <2>2, <2>3
  <1>8. ASSUME NEW o \in Object, SyncObjectCache(o) PROVE Goal
    BY <1>8, <1>c DEF SyncObjectCache, worker
  <1>9. ASSUME NEW k \in K8sGPT, StartReconcile(k) PROVE Goal
    <2>1. /\ UNCHANGED <<k8sgpt, kcache, ksynced>>
          /\ res' = k /\ config' = kcache[k] /\ current' = ksynced[k]
          /\ kcache[k].state \in {"live", "deleting"}
      BY <1>9 DEF StartReconcile, resources
    <2>2. /\ pc' = "destroy" <=> kcache[k].state = "deleting"
          /\ pc' \in Holding => kcache[k].state = "live" /\ kcache[k].finalizer
          /\ pc' \in {"destroy", "finalizer"} \cup Holding
      BY <1>9, <2>1 DEF StartReconcile, FirstStep, Configure, Holding
    <2>3. CopiesInv'
      BY <2>1, <2>2 DEF CopiesInv, Holding
    <2>4. HeldInv'
      BY <2>1, <2>2 DEF HeldInv, Holding
    <2> QED
      BY <2>3, <2>4
  <1>10. CASE AddFinalizer
    <2> DEFINE c == [config EXCEPT !.finalizer = TRUE]
    <2>1. c \in K8sGPTRec /\ c.state = "live" /\ c.finalizer
      BY <1>10, <1>a DEF AddFinalizer, CopiesInv, K8sGPTRec
    <2>2. UpdateConfig(c, Configure(config)) /\ pc = "finalizer"
          /\ Configure(config) \in {"backOff", "get"}
      BY <1>10 DEF AddFinalizer, Configure
    <2> HIDE DEF c
    <2> QED
      BY <2>1, <2>2, UpdateKeepsCopies
  <1>11. CASE ConfigureBackoff
    <2> DEFINE c == [config EXCEPT !.backOff = TRUE]
    <2>1. CASE current
      <3>1. config = k8sgpt[res] /\ k8sgpt[res].finalizer /\ config.state = "live"
        BY <1>11, <2>1 DEF ConfigureBackoff, CopiesInv, HeldInv
      <3>2. c \in K8sGPTRec /\ c.state = "live" /\ c.finalizer
        BY <3>1, <1>a DEF K8sGPTRec
      <3>3. UpdateConfig(c, "get") /\ pc = "backOff"
        BY <1>11 DEF ConfigureBackoff
      <3> HIDE DEF c
      <3> QED
        BY <3>2, <3>3, UpdateKeepsCopies
    <2>2. CASE ~ current
      BY <1>11, <2>2, <1>b DEF ConfigureBackoff, UpdateConfig, Return
    <2> QED
      BY <2>1, <2>2
  <1>12. CASE DestroyObject
    <2>1. UNCHANGED <<k8sgpt, kcache, ksynced, res, config, current>>
          /\ pc = "destroy" /\ pc' \in {"destroy", "release"}
      BY <1>12 DEF DestroyObject, resources
    <2> QED
      BY <2>1 DEF CopiesInv, HeldInv
  <1>13. CASE RemoveFinalizer
    <2>1. CASE ~ current
      BY <1>13, <2>1, <1>b DEF RemoveFinalizer, Return
    <2>2. CASE current
      <3>1. res \in K8sGPT /\ kcache[res].state = "deleting"
        BY <1>13, <2>2, <1>a DEF RemoveFinalizer, CopiesInv
      <3>2. /\ k8sgpt' = [k8sgpt EXCEPT ![res] = Absent]
            /\ kcache' = kcache
            /\ ksynced' = [ksynced EXCEPT ![res] = @ /\ Absent = k8sgpt[res]]
            /\ pc' = "idle"
        BY <1>13, <2>2 DEF RemoveFinalizer, WriteK8sGPT, Return
      <3>3. k8sgpt'[res] = Absent /\ \A l \in K8sGPT : l # res => k8sgpt'[l] = k8sgpt[l]
        BY <1>a, <3>1, <3>2
      <3>4. /\ ksynced'[res] => Absent = k8sgpt[res] /\ ksynced[res]
            /\ \A l \in K8sGPT : l # res => ksynced'[l] = ksynced[l]
        BY <1>a, <3>1, <3>2
      <3>5. CopiesInv'
        BY <3>2, <3>3, <3>4 DEF CopiesInv
      <3>6. HeldInv'
        <4>1. Absent.state = "absent" /\ ~ Absent.finalizer
          BY DEF Absent
        <4> QED
          BY <3>1, <3>2, <3>3, <4>1 DEF HeldInv
      <3> QED
        BY <3>5, <3>6
    <2> QED
      BY <2>1, <2>2
  <1>14. CASE ReadDeployment \/ CreateObject \/ PatchObject
    <2>1. UNCHANGED <<k8sgpt, kcache, ksynced>> /\ pc \in {"get", "sync"}
      BY <1>14 DEF ReadDeployment, CreateObject, PatchObject, resources
    <2>2. \/ pc' = "idle"
          \/ pc' \in {"sync", "image"} /\ UNCHANGED <<res, config, current>>
      BY <1>14 DEF ReadDeployment, CreateObject, PatchObject, NextObject, GoOn, Return
    <2> QED
      BY <2>1, <2>2 DEF CopiesInv, HeldInv
  <1>15. CASE CheckImage \/ CallFails
    BY <1>15, <1>b DEF CheckImage, CallFails, Return
  <1>16. CASE UNCHANGED vars
    BY <1>16, <1>c DEF vars, worker
  <1> QED
    BY <1>1, <1>2, <1>3, <1>4, <1>5, <1>6, <1>7, <1>8, <1>9, <1>10, <1>11, <1>12, <1>13,
       <1>14, <1>15, <1>16 DEF Next, Users, Work

-----------------------------------------------------------------------------
\* The finalizers of the resources stay.
KeepsFinalizers == \A k \in K8sGPT : k8sgpt[k].finalizer => k8sgpt'[k].finalizer

\* No object comes into being.
NothingNew == \A o \in Object : object'[o].exists => object[o].exists

\* What a write of one object does.
LEMMA WriteEffect ==
  ASSUME TypeOK, NEW o \in Object, NEW new, WriteObject(o, new)
  PROVE  object'[o] = new /\ \A p \in Object : p # o => object'[p] = object[p]
  BY DEF WriteObject, TypeOK

\* Users and controllers only drop a finalizer where there is none.
LEMMA FinalizersStay ==
  ASSUME TypeOK, CopiesInv, HeldInv, [Next]_vars, ~ RemoveFinalizer
  PROVE  KeepsFinalizers
  <1> USE DEF KeepsFinalizers
  <1>a. k8sgpt \in [K8sGPT -> K8sGPTRec] /\ config \in K8sGPTRec /\ (pc # "idle" => res \in K8sGPT)
    BY DEF TypeOK
  <1>1. ASSUME NEW k \in K8sGPT, CreateK8sGPT(k) PROVE KeepsFinalizers
    <2>1. ~ k8sgpt[k].finalizer /\ \A l \in K8sGPT : l # k => k8sgpt'[l] = k8sgpt[l]
      BY <1>1, <1>a DEF CreateK8sGPT, HeldInv, WriteK8sGPT
    <2> QED
      BY <2>1
  <1>2. ASSUME NEW k \in K8sGPT, EditK8sGPT(k) \/ DeleteK8sGPT(k) PROVE KeepsFinalizers
    <2>1. \A l \in K8sGPT : l # k => k8sgpt'[l] = k8sgpt[l]
      BY <1>2, <1>a DEF EditK8sGPT, DeleteK8sGPT, WriteK8sGPT
    <2>2. k8sgpt[k].finalizer => k8sgpt'[k].finalizer
      <3>1. /\ [k8sgpt[k] EXCEPT !.state = "deleting"].finalizer = k8sgpt[k].finalizer
            /\ \A v \in Version : [k8sgpt[k] EXCEPT !.version = v].finalizer = k8sgpt[k].finalizer
        BY <1>a DEF K8sGPTRec
      <3>2. k8sgpt[k].finalizer =>
              \/ k8sgpt'[k] = [k8sgpt[k] EXCEPT !.state = "deleting"]
              \/ \E v \in Version : k8sgpt'[k] = [k8sgpt[k] EXCEPT !.version = v]
        BY <1>2, <1>a DEF EditK8sGPT, DeleteK8sGPT, WriteK8sGPT
      <3> QED
        BY <3>1, <3>2
    <2> QED
      BY <2>1, <2>2
  <1>3. CASE AddFinalizer
    <2>1. \/ k8sgpt' = k8sgpt
          \/ k8sgpt' = [k8sgpt EXCEPT ![res] = [config EXCEPT !.finalizer = TRUE]]
      BY <1>3 DEF AddFinalizer, UpdateConfig, WriteK8sGPT, resources
    <2>2. [config EXCEPT !.finalizer = TRUE].finalizer
      BY <1>a DEF K8sGPTRec
    <2>3. res \in K8sGPT
      BY <1>3, <1>a DEF AddFinalizer
    <2> QED
      BY <1>a, <2>1, <2>2, <2>3
  <1>4. CASE ConfigureBackoff
    <2>1. res \in K8sGPT
      BY <1>4, <1>a DEF ConfigureBackoff
    <2>2. \/ k8sgpt' = k8sgpt
          \/ current /\ k8sgpt' = [k8sgpt EXCEPT ![res] = [config EXCEPT !.backOff = TRUE]]
      BY <1>4 DEF ConfigureBackoff, UpdateConfig, WriteK8sGPT, resources
    <2>3. [config EXCEPT !.backOff = TRUE].finalizer = config.finalizer
      BY <1>a DEF K8sGPTRec
    <2> QED
      BY <1>4, <1>a, <2>1, <2>2, <2>3 DEF ConfigureBackoff, CopiesInv, HeldInv
  <1>5. CASE UNCHANGED k8sgpt
    BY <1>5
  <1> QED
    BY <1>1, <1>2, <1>3, <1>4, <1>5
       DEF Next, Users, Work, EditSecret, DeleteObject, RolloutStatus, SyncK8sGPTCache,
           SyncObjectCache, StartReconcile, DestroyObject, ReadDeployment, CreateObject,
           PatchObject, CheckImage, CallFails, resources, vars

\* What a missing object and a missing resource are.
LEMMA AbsentFacts ==
  NoObject.exists = FALSE /\ Absent.state = "absent" /\ Absent.finalizer = FALSE
  BY DEF NoObject, Absent

\* Objects come into being in Sync only, and are those of the resource in hand.
LEMMA NewObjects ==
  ASSUME TypeOK, [Next]_vars
  PROVE  \/ NothingNew
         \/ /\ pc = "sync" /\ UNCHANGED k8sgpt
            /\ \A o \in Own, k \in K8sGPT :
                 object'[<<o, k>>].exists => object[<<o, k>>].exists \/ k = res
  <1> USE DEF NothingNew
  <1>a. object \in [Object -> ObjectRec] /\ (pc # "idle" => res \in K8sGPT)
        /\ (pc \in {"sync", "destroy"} => i \in 1 .. Len(Kind))
    BY DEF TypeOK
  <1>b. /\ \A o \in Own, k \in K8sGPT : <<o, k>> \in Object
        /\ \A k \in K8sGPT : <<"deployment", k>> \in Object
    BY DEF Object, Own
  <1>1. ASSUME NEW o \in Object, DeleteObject(o) PROVE NothingNew
    BY <1>1, WriteEffect, AbsentFacts DEF DeleteObject
  <1>2. ASSUME NEW k \in K8sGPT, RolloutStatus(k) PROVE NothingNew
    BY <1>2, <1>b, WriteEffect DEF RolloutStatus
  <1>3. CASE DestroyObject
    <2>1. ObjectAt(i, res) \in Object
      BY <1>3, <1>a, KindFacts DEF DestroyObject
    <2> QED
      BY <1>3, <2>1, WriteEffect, AbsentFacts DEF DestroyObject
  <1>4. CASE CreateObject \/ PatchObject
    <2> DEFINE o == ObjectAt(i, res)
    <2>1. /\ pc = "sync" /\ UNCHANGED k8sgpt
          /\ object' = object \/ \E new : WriteObject(o, new)
      BY <1>4 DEF CreateObject, PatchObject, resources, objects
    <2>2. /\ o \in Object
          /\ \A n \in Own, k \in K8sGPT : o = <<n, k>> => k = res
      BY <1>a, <2>1, KindFacts
    <2> HIDE DEF o
    <2>3. \A p \in Object : p # o => object'[p] = object[p]
      BY <2>1, <2>2, WriteEffect
    <2> QED
      BY <1>b, <2>1, <2>2, <2>3
  <1>5. CASE CheckImage
    <2>1. <<"deployment", res>> \in Object
      BY <1>5, <1>a, <1>b DEF CheckImage
    <2>2. \/ object' = object
          \/ /\ object[<<"deployment", res>>].exists
             /\ \E new : WriteObject(<<"deployment", res>>, new)
      BY <1>5 DEF CheckImage, UpdateDeploymentImage, objects
    <2> QED
      BY <2>1, <2>2, WriteEffect
  <1>6. CASE UNCHANGED object
    BY <1>6
  <1> QED
    BY <1>1, <1>2, <1>3, <1>4, <1>5, <1>6
       DEF Next, Users, Work, CreateK8sGPT, EditK8sGPT, DeleteK8sGPT, EditSecret,
           SyncK8sGPTCache, SyncObjectCache, StartReconcile, AddFinalizer, RemoveFinalizer,
           ConfigureBackoff, ReadDeployment, CallFails, objects, vars

\* What is destroyed stays so until the resource is released.
LEMMA DestroyedStep ==
  ASSUME TypeOK, DestroyedInv, [Next]_vars
  PROVE  DestroyedInv'
  <1>a. object \in [Object -> ObjectRec] /\ (pc # "idle" => res \in K8sGPT)
        /\ (pc \in {"sync", "destroy"} => i \in 1 .. Len(Kind)) /\ Len(Kind) \in Nat
    BY KindFacts DEF TypeOK
  <1>b. \A o \in Own, k \in K8sGPT : <<o, k>> \in Object
    BY DEF Object, Own
  <1>1. CASE DestroyObject
    <2> DEFINE o == ObjectAt(i, res)
    <2>1. /\ pc = "destroy" /\ res' = res /\ res \in K8sGPT /\ i \in 1 .. Len(Kind)
          /\ WriteObject(o, NoObject)
      BY <1>1, <1>a DEF DestroyObject
    <2>2. \A j \in 1 .. Len(Kind) : ObjectAt(j, res) \in Object
      BY <2>1, KindFacts
    <2>3. /\ ~ object'[o].exists
          /\ \A p \in Object : p # o => object'[p] = object[p]
      BY <2>1, <2>2, WriteEffect, AbsentFacts
    <2>4. \A j \in 1 .. i : ~ object'[ObjectAt(j, res)].exists
      <3>1. \A j \in 1 .. i - 1 : ~ object[ObjectAt(j, res)].exists
        BY <2>1 DEF DestroyedInv
      <3>2. \A j \in 1 .. i : j \in 1 .. Len(Kind) /\ (j = i \/ j \in 1 .. i - 1)
        BY <2>1, <1>a
      <3> QED
        BY <2>2, <2>3, <3>1, <3>2
    <2>5. CASE i = Len(Kind)
      <3>1. pc' = "release"
        BY <1>1, <2>5 DEF DestroyObject
      <3>2. \A n \in Own : ~ object'[<<n, res>>].exists
        BY <2>1, <2>4, <2>5, KindFacts
      <3> QED
        BY <2>1, <3>1, <3>2 DEF DestroyedInv
    <2>6. CASE i # Len(Kind)
      <3>1. pc' = "destroy" /\ i' = i + 1
        BY <1>1, <2>1, <2>6 DEF DestroyObject
      <3>2. i' - 1 = i
        BY <2>1, <3>1
      <3> QED
        BY <2>1, <2>4, <3>1, <3>2 DEF DestroyedInv
    <2> QED
      BY <2>5, <2>6
  <1>2. CASE pc' \notin {"destroy", "release"}
    BY <1>2 DEF DestroyedInv
  <1>3. ASSUME NEW k \in K8sGPT, StartReconcile(k) PROVE DestroyedInv'
    <2>1. pc' \notin {"destroy", "release"} \/ (pc' = "destroy" /\ i' = 1)
      BY <1>3 DEF StartReconcile, FirstStep, Configure
    <2> QED
      BY <2>1 DEF DestroyedInv
  <1>4. CASE UNCHANGED <<pc, res, i>> /\ ~ DestroyObject /\ pc \in {"destroy", "release"}
    <2>1. NothingNew /\ res \in K8sGPT
      BY <1>4, <1>a, NewObjects
    <2>2. pc = "destroy" => \A j \in 1 .. i - 1 : ObjectAt(j, res) \in Object
      BY <1>a, <2>1, KindFacts
    <2> QED
      BY <1>4, <1>b, <2>1, <2>2 DEF DestroyedInv, NothingNew
  <1> QED
    BY <1>1, <1>2, <1>3, <1>4
       DEF Next, Users, Work, CreateK8sGPT, EditK8sGPT, DeleteK8sGPT, EditSecret, Edit,
           DeleteObject, RolloutStatus, SyncK8sGPTCache, SyncObjectCache, worker,
           AddFinalizer, RemoveFinalizer, ConfigureBackoff, UpdateConfig, Configure, Return,
           ReadDeployment, CreateObject, PatchObject, NextObject, GoOn, CheckImage,
           CallFails, vars

\* A server is only made for a resource with a finalizer, and the finalizer is
\* only dropped when nothing of the server is left.
LEMMA HeldStep ==
  ASSUME IInv, [Next]_vars
  PROVE  ServerIsHeld'
  <1>a. TypeOK /\ CopiesInv /\ HeldInv /\ DestroyedInv /\ ServerIsHeld
    BY DEF IInv
  <1>b. \A o \in Own, k \in K8sGPT : <<o, k>> \in Object
    BY DEF Object, Own
  <1>1. CASE RemoveFinalizer
    <2>1. /\ UNCHANGED object /\ pc = "release" /\ res \in K8sGPT
          /\ k8sgpt' = k8sgpt \/ k8sgpt' = [k8sgpt EXCEPT ![res] = Absent]
      BY <1>1, <1>a DEF RemoveFinalizer, WriteK8sGPT, resources, objects, TypeOK
    <2>2. \A o \in Own : ~ object[<<o, res>>].exists
      BY <1>a, <2>1 DEF DestroyedInv
    <2>3. \A k \in K8sGPT : k # res => k8sgpt'[k] = k8sgpt[k]
      BY <1>a, <2>1 DEF TypeOK
    <2> QED
      BY <1>a, <2>1, <2>2, <2>3 DEF ServerIsHeld
  <1>2. CASE ~ RemoveFinalizer
    <2>1. KeepsFinalizers
      BY <1>a, <1>2, FinalizersStay
    <2>2. CASE NothingNew
      BY <1>a, <1>b, <2>1, <2>2 DEF ServerIsHeld, KeepsFinalizers, NothingNew
    <2>3. CASE ~ NothingNew
      <3>1. /\ pc = "sync"
            /\ \A o \in Own, k \in K8sGPT :
                 object'[<<o, k>>].exists => object[<<o, k>>].exists \/ k = res
        BY <1>a, <2>3, NewObjects
      <3>2. k8sgpt[res].finalizer
        BY <1>a, <3>1 DEF HeldInv
      <3> QED
        BY <1>a, <2>1, <3>1, <3>2 DEF ServerIsHeld, KeepsFinalizers
    <2> QED
      BY <2>2, <2>3
  <1> QED
    BY <1>1, <1>2

-----------------------------------------------------------------------------
\* The inductive invariant of the server's life.
THEOREM Invariance == Spec => []IInv
  <1>1. Init => IInv
    <2> SUFFICES ASSUME Init PROVE IInv
      OBVIOUS
    <2>1. TypeOK
      BY TypeInit
    <2>2. /\ pc = "idle" /\ kcache = k8sgpt
          /\ \A k \in K8sGPT : k8sgpt[k] = Absent
          /\ \A o \in Object : object[o] = NoObject
      BY DEF Init
    <2>3. CopiesInv
      BY <2>2 DEF CopiesInv
    <2>4. HeldInv
      BY <2>2, AbsentFacts DEF HeldInv
    <2>5. DestroyedInv
      BY <2>2 DEF DestroyedInv
    <2>6. ServerIsHeld
      <3>1. \A o \in Own, k \in K8sGPT : <<o, k>> \in Object
        BY DEF Object, Own
      <3> QED
        BY <2>2, <3>1, AbsentFacts DEF ServerIsHeld
    <2> QED
      BY <2>1, <2>3, <2>4, <2>5, <2>6 DEF IInv
  <1>2. IInv /\ [Next]_vars => IInv'
    BY TypeStep, CopiesStep, DestroyedStep, HeldStep DEF IInv
  <1> QED
    BY <1>1, <1>2, PTL DEF Spec

\* The controller and the API server keep every variable in its type; in
\* particular a Sync under way has the data of the Secret.
THEOREM TypeCorrect == Spec => []TypeOK
  <1>1. IInv => TypeOK
    BY DEF IInv
  <1> QED
    BY <1>1, Invariance, PTL

\* No Service or Deployment exists without its K8sGPT and the finalizer that
\* makes the controller destroy them, however stale the informers.
THEOREM NoOrphanServer == Spec => []ServerIsHeld
  <1>1. IInv => ServerIsHeld
    BY DEF IInv
  <1> QED
    BY <1>1, Invariance, PTL
================================================================================
