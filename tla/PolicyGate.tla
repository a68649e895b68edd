------------------------------- MODULE PolicyGate ------------------------------
(***************************************************************************)
(* The policy gate on whole manifests: how an answer of the AI backend     *)
(* becomes a proposal (mutation/image_proposal.go, util/from_config.go),   *)
(* how the gate compares it with the live object and decides               *)
(* (remediation/policy/gate.go), and what the patch it allows does to the  *)
(* object (conversions/object_to_execution.go).                            *)
(*                                                                         *)
(* One Mutation and its target. Others edit the target at any time; the    *)
(* life of many Mutations, the informers and the faults are the subject of *)
(* module Remediation, which takes from the gate only that an allowed      *)
(* proposal replaces one image.                                            *)
(***************************************************************************)
EXTENDS Manifest, FiniteSets

CONSTANTS
    Kind,             \* the kinds of target; each stands for its group and version
    Image,            \* the container images
    MaxChangedPaths,  \* Input.MaxChangedPaths; the executor leaves it 0
    MaxEdits          \* bound on the edits by others

ASSUME KindAssumption ==
    Kind \subseteq {"Pod", "Deployment", "DaemonSet", "StatefulSet", "ReplicaSet",
                    "Job", "CronJob", "ConfigMap"}
ASSUME BoundsAssumption == MaxChangedPaths \in Nat /\ MaxEdits \in Nat

kindAt == <<"kind">>
nameAt == <<"metadata", "name">>
uidAt == <<"metadata", "uid">>
versionAt == <<"metadata", "resourceVersion">>
generateNameAt == <<"metadata", "generateName">>
ownersAt == <<"metadata", "ownerReferences">>
annotationsAt == <<"metadata", "annotations">>

\* The annotation's value, parsed into the set of its pointers.
allowedAt == annotationsAt \o <<"allowed-paths">>

KindOf(n) == At(n, kindAt).leaf

-----------------------------------------------------------------------------
(***************************************************************************)
(* policy.Evaluate                                                         *)
(***************************************************************************)
\* registeredPolicies: where the pod spec of each registered kind is.
Workload == {"Deployment", "DaemonSet", "StatefulSet", "ReplicaSet", "Job"}
Registered == {"Pod", "CronJob"} \cup Workload
podSpec(kind) ==
    CASE kind = "Pod"         -> <<"spec">>
      [] kind \in Workload    -> <<"spec", "template", "spec">>
      [] kind = "CronJob"     -> <<"spec", "jobTemplate", "spec", "template", "spec">>

containerLists == {"containers", "initContainers"}

\* imagePath: one numeric segment between the list and the image field.
imagePath(prefix, path) ==
    /\ Len(path) = Len(prefix) + 2
    /\ IsPrefix(prefix, path)
    /\ path[Len(path) - 1] \in {Index(i) : i \in 1 .. 10}
    /\ Last(path) = "image"

annotationAllowedPaths(n) ==
    LET value == At(n, allowedAt) IN IF IsLeaf(value) THEN value.leaf ELSE {}

\* The policy of the live object's kind, or its owner's annotation.
HasPolicy(live) == KindOf(live) \in Registered \/ annotationAllowedPaths(live) # {}

AllowedPath(live, path) ==
    IF KindOf(live) \in Registered
      THEN \E l \in containerLists : imagePath(Append(podSpec(KindOf(live)), l), path)
      ELSE path \in annotationAllowedPaths(live)

\* The prefixes of isHighRisk.
podSpecRisks == {"serviceAccountName", "hostNetwork", "hostPID", "hostIPC",
                 "securityContext"} \cup containerLists
highRisk ==
    {<<"status">>}
    \cup {<<"metadata", f>> : f \in {"ownerReferences", "finalizers", "managedFields",
                                     "annotations", "labels"}}
    \cup {Append(podSpec(k), f) : k \in {"Pod", "Deployment"}, f \in podSpecRisks}

\* Mutant of isHighRisk: no exception for images.
BugImagesRisky(path) == \E p \in highRisk : IsPrefix(p, path)

isHighRisk(path) ==
    \E p \in highRisk :
      /\ IsPrefix(p, path)
      /\ ~ (Last(path) = "image" /\ Last(p) \in containerLists)

\* normalized drops what the API server keeps for itself (of the fields of its
\* list those the model has).
normalized(n) == Put(Put(Put(n, <<"status">>, Nil), uidAt, Nil), versionAt, Nil)

SameShape(a, b) == (IsMap(a) /\ IsMap(b)) \/ (IsList(a) /\ IsList(b))

\* Mutants of CommonSegments: what is new is overlooked, or what is gone.
BugOldSegments(old, new) == Segments(old)
BugNewSegments(old, new) == Segments(new)

\* The keys of both maps, or the indices up to the longer list.
CommonSegments(old, new) == Segments(old) \cup Segments(new)

\* A call of diff, and the calls it makes in turn.
Call(path, old, new) == [path |-> path, old |-> old, new |-> new]
Calls(c) ==
    {Call(Append(c.path, s), Child(c.old, s), Child(c.new, s)) :
       s \in IF SameShape(c.old, c.new) THEN CommonSegments(c.old, c.new) ELSE {}}
CallsOf(cs) == UNION {Calls(c) : c \in cs}

\* diff: the changes are the calls that meet two nodes to be compared and find
\* them different; depth[d] are the calls d levels down. The code's order of
\* keys only decides which reason comes first.
diff(old, new) ==
    LET depth[d \in 0 .. MaxHeight] ==
          IF d = 0 THEN {Call(<<>>, old, new)} ELSE CallsOf(depth[d - 1])
    IN  {c \in UNION {depth[d] : d \in 0 .. MaxHeight} :
           ~ SameShape(c.old, c.new) /\ c.old # c.new}

changesOf(old, new) == diff(normalized(old), normalized(new))

liveMatchesOriginal(original, live) ==
    /\ At(original, uidAt) = At(live, uidAt)
    /\ At(original, versionAt) = At(live, versionAt)
    /\ At(original, kindAt) = At(live, kindAt)
    /\ At(original, nameAt) = At(live, nameAt)

\* The proposal may leave out UID and resourceVersion.
proposedMatchesLive(candidate, live) ==
    /\ At(candidate, kindAt) = At(live, kindAt)
    /\ At(candidate, nameAt) = At(live, nameAt)
    /\ At(candidate, uidAt) \in {Nil, At(live, uidAt)}
    /\ At(candidate, versionAt) \in {Nil, At(live, versionAt)}
    /\ At(candidate, generateNameAt) = At(live, generateNameAt)

\* An owned Pod: its owner would undo the change.
Owned(live) == KindOf(live) = "Pod" /\ At(live, ownersAt) # Nil

\* Mutant of limit: one path too many.
BugLimit == 2

defaultMaxChangedPaths == 1
limit == IF MaxChangedPaths = 0 THEN defaultMaxChangedPaths ELSE MaxChangedPaths

\* Only replacements of allowed paths.
AllowedChange(live, c) ==
    /\ ~ isHighRisk(c.path)
    /\ AllowedPath(live, c.path)
    /\ c.old # Nil /\ c.new # Nil

Evaluate(original, live, candidate) ==
    LET changes == changesOf(live, candidate) IN
    /\ liveMatchesOriginal(original, live)
    /\ proposedMatchesLive(candidate, live)
    /\ HasPolicy(live)
    /\ ~ Owned(live)
    /\ changes # {}
    /\ Cardinality(changes) <= limit
    /\ \A c \in changes : AllowedChange(live, c)

-----------------------------------------------------------------------------
(***************************************************************************)
(* Proposals.                                                              *)
(***************************************************************************)
\* setContainerImage looks for the container here, in this order.
imageLists ==
    LET of(kind) == <<Append(podSpec(kind), "containers"), Append(podSpec(kind), "initContainers")>>
    IN  of("Pod") \o of("Deployment") \o of("CronJob")

\* Where container name's image is in n: the first match of the first list.
Holds(n, p, i, name) ==
    Child(Child(At(n, p), Index(i)), "name") = Leaf(name)
Found(n, name) ==
    {f \in (DOMAIN imageLists) \X (1 .. 10) : Holds(n, imageLists[f[1]], f[2], name)}
First(found) ==
    CHOOSE f \in found : \A g \in found : f[1] < g[1] \/ (f[1] = g[1] /\ f[2] <= g[2])
ImageOf(n, name) ==
    LET f == First(Found(n, name)) IN imageLists[f[1]] \o <<Index(f[2]), "image">>

\* Mutant of setContainerImage: the first container of the pod.
BugFirstContainer(n, name, image) ==
    Put(n, Append(podSpec(KindOf(n)), "containers") \o <<"0", "image">>, Leaf(image))

setContainerImage(n, name, image) == Put(n, ImageOf(n, name), Leaf(image))

\* FromConfig: name and namespace are those of the reference, apiVersion and
\* kind those of the manifest.
FromConfig(n, ref) == Put(n, nameAt, ref)

-----------------------------------------------------------------------------
(***************************************************************************)
(* The manifests the model starts from and the edits it makes.             *)
(***************************************************************************)
Container(name, image) == Map([name |-> Leaf(name), image |-> Leaf(image)])
ContainerName == {"web", "log", "setup"}
anImage == CHOOSE i \in Image : TRUE

PodSpec == Map([containers |-> List(<<Container("web", anImage), Container("log", anImage)>>),
                initContainers |-> List(<<Container("setup", anImage)>>)])

\* A kind's own content.
Content(kind, n) ==
    IF kind \in Registered THEN Put(n, podSpec(kind), PodSpec)
    ELSE Put(Put(n, <<"data">>, Map([level |-> Leaf("info"), mode |-> Leaf("fast")])),
             allowedAt, Leaf({<<"data", "level">>, allowedAt}))

Base(kind) ==
    Content(kind, Map([kind |-> Leaf(kind),
                       metadata |-> Map([name |-> Leaf("it"), uid |-> Leaf("u"),
                                         resourceVersion |-> Leaf(1)]),
                       status |-> Leaf("old")]))

Owner == List(<<Leaf("rs")>>)

EditRec(p, v) == [at |-> p, node |-> v]

\* Edits that leave a valid object.
ContentEdits(kind) ==
    LET s == podSpec(kind) IN
    IF kind \in Registered
      THEN {EditRec(s \o <<l, "0", "image">>, Leaf(i)) : l \in containerLists, i \in Image}
           \cup {EditRec(s \o <<"containers", "1", "image">>, Leaf(i)) : i \in Image}
           \cup {EditRec(s \o <<"containers", "1", "name">>, Leaf("web2")),
                 EditRec(Append(s, "containers"), List(<<Container("log", anImage)>>)),
                 EditRec(Append(s, "containers"),
                         List(<<Container("web", anImage), Container("log", anImage),
                                Container("new", anImage)>>)),
                 EditRec(Append(s, "initContainers"), Nil),
                 EditRec(Append(s, "hostNetwork"), Leaf("true"))}
      ELSE {EditRec(<<"data", "level">>, Leaf("debug")), EditRec(<<"data", "level">>, Nil),
            EditRec(<<"data", "mode">>, Leaf("slow")), EditRec(allowedAt, Leaf({}))}

Edits(kind) ==
    ContentEdits(kind)
    \cup {EditRec(<<"status">>, Leaf("new")), EditRec(ownersAt, Owner)}

\* A manifest answered by the backend may also be wrong about the object's
\* identity, or not be valid at all.
AnswerEdits(kind) ==
    Edits(kind)
    \cup {EditRec(kindAt, Leaf("Other")), EditRec(nameAt, Leaf("other")),
          EditRec(uidAt, Leaf("v")), EditRec(uidAt, Nil), EditRec(versionAt, Nil),
          EditRec(generateNameAt, Leaf("gen")),
          EditRec(IF kind \in Registered THEN podSpec(kind) \o <<"containers", "0", "image">>
                                         ELSE <<"data", "level">>, Map([x |-> Leaf("y")])),
          EditRec(annotationsAt, Leaf("none"))}

Apply(n, e) == Put(n, e.at, e.node)

-----------------------------------------------------------------------------
VARIABLES
    live,      \* the target
    phase,     \* the Mutation's phase; "executing" between gate and patch
    origin,    \* spec.originConfiguration
    proposal,  \* spec.targetConfiguration
    selected,  \* the container the backend chose, if it chose one
    read,      \* the target as ResourceToExecution read it
    edits      \* edits by others so far

vars == <<live, phase, origin, proposal, selected, read, edits>>

None == "none"

Init ==
    /\ live \in {Base(k) : k \in Kind}
    /\ phase = "none"
    /\ origin = Nil /\ proposal = Nil /\ selected = None /\ read = Nil
    /\ edits = 0

VersionOf(n) == At(n, versionAt).leaf

\* The API server writes n as the next version of the live object.
Stored(n) == Put(n, versionAt, Leaf(VersionOf(live) + 1))

\* What the API server's validation refuses: an image or a value that is not a
\* string, annotations that are not a map.
Valid(n) ==
    /\ \A p \in Pointers(n) : p # <<>> /\ Last(p) \in {"image", "level"} => IsLeaf(At(n, p))
    /\ ~ IsLeaf(At(n, annotationsAt))

\* Somebody else edits the object.
EditTarget ==
    /\ edits < MaxEdits
    /\ edits' = edits + 1
    /\ \E e \in Edits(KindOf(live)) :
         Apply(live, e) # live /\ live' = Stored(Apply(live, e))
    /\ UNCHANGED <<phase, origin, proposal, selected, read>>

\* The Mutation is made, with the object as it is.
SnapshotTarget ==
    /\ phase = "none"
    /\ phase' = "NotStarted"
    /\ origin' = live
    /\ UNCHANGED <<live, proposal, selected, read, edits>>

\* imageSelectionProposal on {"container": c, "image": i}: no such container
\* aborts the Mutation.
AnswerSelection ==
    /\ phase = "NotStarted"
    /\ \E c \in ContainerName, i \in Image :
         IF Found(origin, c) # {}
           THEN /\ proposal' = setContainerImage(origin, c, i)
                /\ phase' = "InProgress" /\ selected' = c
           ELSE /\ phase' = "Aborted"
                /\ UNCHANGED <<proposal, selected>>
    /\ UNCHANGED <<live, origin, read, edits>>

\* imageSelectionProposal on a whole manifest, taken as it is.
AnswerManifest ==
    /\ phase = "NotStarted"
    /\ \E e, f \in AnswerEdits(KindOf(origin)) :
         proposal' = Apply(Apply(origin, e), f)
    /\ phase' = "InProgress"
    /\ UNCHANGED <<live, origin, selected, read, edits>>

\* The stored proposal as an object.
proposed == FromConfig(proposal, At(origin, nameAt))

\* The live object is read under the proposal's own kind.
ReadsTarget == At(proposed, kindAt) = At(live, kindAt)

\* ResourceToExecution: read the target, ask the gate.
EvaluateProposal ==
    /\ phase = "InProgress"
    /\ ReadsTarget
    /\ IF Evaluate(origin, live, proposed)
         THEN phase' = "executing" /\ read' = live
         ELSE phase' = "Aborted" /\ UNCHANGED read
    /\ UNCHANGED <<live, origin, proposal, selected, edits>>

\* Another kind: an object of that kind with the target's name has not the
\* snapshot's UID, and the gate refuses it. Without one the read fails and is
\* tried again, which changes nothing.
EvaluateOther ==
    /\ phase = "InProgress"
    /\ ~ ReadsTarget
    /\ phase' = "Aborted"
    /\ UNCHANGED <<live, origin, proposal, selected, read, edits>>

\* The patch the gate made, a replacement of each changed path.
Patched(n) ==
    LET Step(m, c) == Put(m, c.path, c.new)
    IN  FoldLeft(Step, n, SetToSeq(changesOf(read, proposed)))

\* The patch, dry run and then real: refused when the object has changed or
\* would become invalid, which leaves the Mutation as it is.
ExecutePatch ==
    /\ phase = "executing"
    /\ IF VersionOf(live) = VersionOf(read) /\ Valid(Patched(live))
         THEN phase' = "Completed" /\ live' = Stored(Patched(live))
         ELSE phase' = "InProgress" /\ UNCHANGED live
    /\ read' = Nil
    /\ UNCHANGED <<origin, proposal, selected, edits>>

Next ==
    \/ EditTarget
    \/ SnapshotTarget \/ AnswerSelection \/ AnswerManifest
    \/ EvaluateProposal \/ EvaluateOther \/ ExecutePatch

Spec == Init /\ [][Next]_vars

-----------------------------------------------------------------------------
\* Where two documents differ, said without recursion: the pointers at which
\* they hold different nodes, and above which both are maps or both are lists.
Differences(a, b) ==
    {p \in Pointers(a) \cup Pointers(b) :
       /\ At(a, p) # At(b, p)
       /\ ~ SameShape(At(a, p), At(b, p))
       /\ \A i \in 0 .. Len(p) - 1 : SameShape(Descent(a, p)[i], Descent(b, p)[i])}

\* gate.go, diff: the changes the gate counts and checks are the differences
\* between the object and the proposal, all of them and each once; additions
\* and removals of list elements and keys included.
DiffIsExact ==
    proposal # Nil =>
      LET a == normalized(live)
          b == normalized(proposed)
          changes == changesOf(live, proposed)
      IN  /\ {c.path : c \in changes} = Differences(a, b)
          /\ \A c \in changes : c.old = At(a, c.path) /\ c.new = At(b, c.path)

Completes == phase' = "Completed" /\ phase # "Completed"

\* Where the policy lets a proposal change n, in the words of
\* AUTO_REMEDIATION.md: the image of a container of the pod, or a path its
\* owner has listed, never metadata or status.
Permitted(n) ==
    IF KindOf(n) \in Registered
      THEN {podSpec(KindOf(n)) \o <<l, Index(i), "image">> : l \in containerLists, i \in 1 .. 10}
      ELSE {p \in annotationAllowedPaths(n) : p[1] \notin {"metadata", "status"}}

\* AUTO_REMEDIATION.md: a patch replaces exactly one permitted value by
\* another; containers, their names, number and order, metadata and all else
\* are as before, whatever manifest the backend answered.
OneValueReplaced ==
    [][Completes =>
         \E p \in Permitted(live) :
           /\ IsLeaf(At(live, p)) /\ At(live', p) # At(live, p)
           /\ live' = Stored(Put(live, p, At(live', p)))]_vars

\* What is written is what was proposed: apart from what the API server keeps
\* for itself, the patched object is the stored proposal.
PatchMakesProposal ==
    [][Completes => normalized(live') = normalized(proposed)]_vars

\* The reasons for which an image selection may be aborted.
Refusable ==
    \/ VersionOf(live) # VersionOf(origin)
    \/ KindOf(live) \notin Registered \/ Owned(live)
    \/ At(origin, ImageOf(origin, selected)) = At(proposal, ImageOf(origin, selected))

\* The gate is not too strict: a new image for a container of a registered,
\* unowned workload that has not changed since its snapshot is not aborted,
\* for every kind and for containers and initContainers alike.
SelectionAccepted ==
    [][phase = "InProgress" /\ phase' = "Aborted" /\ selected # None => Refusable]_vars

\* An answer {"container": c, "image": i} changes the image of container c and
\* of no other, though the patch names it by list and index.
SelectionHonoured ==
    [][Completes /\ selected # None =>
         \A l \in containerLists, i \in 1 .. 10 :
           LET p == podSpec(KindOf(live)) \o <<l, Index(i)>> IN
           At(live', p) # At(live, p) <=> At(live, Append(p, "name")) = Leaf(selected)]_vars
================================================================================
