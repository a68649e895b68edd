------------------------------- MODULE Eligibility -----------------------------
(***************************************************************************)
(* Which object a finding is remediated on: the K8sGPT controller's        *)
(* calculateRemediationStep resolves each Result to an exact target, walks *)
(* from a Pod up its controller references to the nearest workload the     *)
(* user has enabled, checks the analyzer's reference, merges findings      *)
(* about owned Pods and creates the Mutations                              *)
(* (conversions/to_eligible_resource.go, util/deduplicate.go,              *)
(* k8sgpt/calculate_remediation_step.go).                                  *)
(*                                                                         *)
(* The objects are read one after another, from the API server, while      *)
(* controllers adopt, release and recreate them; Mutations are looked up   *)
(* in the informer, which may be behind. What happens to a Mutation once   *)
(* it exists is the subject of module Remediation, for which the target of *)
(* a finding is fixed.                                                     *)
(***************************************************************************)
EXTENDS Naturals, Sequences, FiniteSets

CONSTANTS
    Object,     \* the objects, by group, version, kind, namespace and name
    Gvk,        \* the group, version and kind of each
    Namespace,  \* the namespace of each
    Name,       \* the name of each
    Finding,    \* the Results
    About,      \* the object each Result is about
    Legacy,     \* the Results without a targetRef: kind and name only
    Resources,  \* the values users give spec.ai.autoRemediation.resources
    VersionLike, \* the groups whose name begins with a "v"
    Owners,     \* the owner references an object may have; see OwnersRec
    None,       \* "no object"
    MaxDepth,   \* bound of the walk (8 in the code)
    MaxEvents   \* bound on what others do and on failed calls, together

\* The owner references of an object: the controller, if any, and all of them.
OwnersRec == [controller: Object \cup {None}, all: SUBSET Object]

ASSUME ObjectAssumption == None \notin Object
ASSUME FindingAssumption == About \in [Finding -> Object] /\ Legacy \subseteq Finding
ASSUME OwnersAssumption == Owners \in [Object -> SUBSET OwnersRec]
ASSUME BoundsAssumption ==
    MaxDepth \in Nat \ {0} /\ MaxEvents \in Nat

Pod == [group |-> "", version |-> "v1", kind |-> "Pod"]
Deployment == [group |-> "apps", version |-> "v1", kind |-> "Deployment"]

VARIABLES
    object,     \* the objects: uid (0 when absent), rv, owners
    result,     \* the Results: reported, and the uid and rv of the targetRef
    resources,  \* the selectors of the K8sGPT
    mut,        \* the Mutations, by name: finding, object and its UID
    mcache,     \* the informer's copy of them
    calc,       \* the step under way
    quiet,      \* nothing was edited since it began
    events      \* edits and failed calls so far

world == <<object, result, resources>>
vars == <<world, mut, mcache, calc, quiet, events>>

Exists(o) == object[o].uid # 0

Idle == [pc |-> "idle", resources |-> {}, list |-> <<>>, todo |-> {}, item |-> None, cur |-> None,
         depth |-> 0, eligible |-> <<>>, left |-> {}, owned |-> {}]

Init ==
    /\ \E w \in [Object -> UNION {Owners[o] : o \in Object}] :
         /\ \A o \in Object : w[o] \in Owners[o]
         /\ object = [o \in Object |-> [uid |-> 1, rv |-> 1, owners |-> w[o]]]
    /\ result = [f \in Finding |-> [reported |-> TRUE, uid |-> 1, rv |-> 1]]
    /\ resources \in Resources
    /\ mut = {} /\ mcache = {}
    /\ calc = Idle /\ quiet = TRUE
    /\ events = 0

-----------------------------------------------------------------------------
(***************************************************************************)
(* Everyone else.                                                          *)
(***************************************************************************)
Edit ==
    /\ events < MaxEvents
    /\ events' = events + 1
    /\ quiet' = FALSE
    /\ UNCHANGED <<mcache, calc>>

\* The resourceVersion of the next write.
NewVersion == events + 2

\* Objects are adopted and released.
ChangeOwners(o) ==
    /\ Edit
    /\ Exists(o)
    /\ \E w \in Owners[o] \ {object[o].owners} :
         object' = [object EXCEPT ![o] = [uid |-> @.uid, rv |-> NewVersion, owners |-> w]]
    /\ UNCHANGED <<result, resources, mut>>

DeleteObject(o) ==
    /\ Edit
    /\ Exists(o)
    /\ object' = [object EXCEPT ![o].uid = 0]
    /\ UNCHANGED <<result, resources, mut>>

\* Deleted and created again under its name, as a StatefulSet's Pods are.
RecreateObject(o) ==
    /\ Edit
    /\ object' = [object EXCEPT ![o] = [uid |-> NewVersion, rv |-> NewVersion, owners |-> @.owners]]
    /\ UNCHANGED <<result, resources, mut>>

\* The analysis reports, with a reference that is exact, by UID or by name
\* only, or the Result is deleted.
AnalysisResult(f) ==
    /\ Edit
    /\ \E r \in [reported: BOOLEAN, uid: {0, object[About[f]].uid},
                 rv: {0, object[About[f]].rv}] :
         r # result[f] /\ result' = [result EXCEPT ![f] = r]
    /\ UNCHANGED <<object, resources, mut>>

EditResources ==
    /\ Edit
    /\ resources' \in Resources \ {resources}
    /\ UNCHANGED <<object, result, mut>>

DeleteMutation(m) ==
    /\ Edit
    /\ mut' = mut \ {m}
    /\ UNCHANGED world

CacheSync ==
    /\ mcache # mut
    /\ mcache' = mut
    /\ UNCHANGED <<world, mut, calc, quiet, events>>

-----------------------------------------------------------------------------
(***************************************************************************)
(* ResultsToEligibleResources                                              *)
(***************************************************************************)
\* AutoRemediationResourceEnabled: a selector names a kind, a group and a kind,
\* or a group, version and kind.
Enabled(selectors, gvk) ==
    \E s \in selectors : \A field \in DOMAIN s : s[field] = gvk[field]

\* A selector of two parts is taken for version and kind of the core group when
\* its first part begins with a "v", be it a group.
TakenForCore(s) == DOMAIN s = {"group", "kind"} /\ s.group \in VersionLike

\* configuredLegacyGVK: the fully qualified selectors of the kind.
FullyQualified(selectors, kind) ==
    {s \in selectors : DOMAIN s = DOMAIN Pod /\ s.kind = kind}
    \cup {[group |-> "", version |-> s.group, kind |-> kind] :
            s \in {v \in selectors : TakenForCore(v) /\ v.kind = kind}}

LegacyGvk(selectors, kind) ==
    LET matches == FullyQualified(selectors, kind) IN
    IF Cardinality(matches) = 1 THEN matches
    ELSE {g \in {Pod, Deployment} : g.kind = kind}

\* resultTarget: the object a finding names, or none.
resultTarget(selectors, f) ==
    LET o == About[f]
        gvks == IF f \in Legacy THEN LegacyGvk(selectors, Gvk[o].kind) ELSE {Gvk[o]}
    IN  {t \in Object : Gvk[t] \in gvks /\ Namespace[t] = Namespace[o] /\ Name[t] = Name[o]}

\* calculateRemediationStep lists the Results and reads each again (module
\* Remediation has the two as steps).
ListResults ==
    /\ calc.pc = "idle"
    /\ \E f \in Finding : result[f].reported
    /\ calc' = [Idle EXCEPT !.pc = "next", !.resources = resources,
                            !.list = result,
                            !.todo = {f \in Finding : result[f].reported}]
    /\ quiet' = TRUE
    /\ UNCHANGED <<world, mut, mcache, events>>

\* The item in hand is done with: eligible, or skipped because an error was
\* logged or its target is not enabled.
Done(c) == [c EXCEPT !.pc = "next", !.item = None, !.cur = None, !.depth = 0]

\* Go on to read t, if it is enabled.
ReadIfEnabled(c, t) ==
    IF Enabled(c.resources, Gvk[t]) THEN [c EXCEPT !.pc = "read", !.cur = t] ELSE Done(c)

\* The next item, in the order of the informer's list, which is any: its
\* target; only a Pod is resolved to an owner.
NextItem ==
    /\ calc.pc = "next"
    /\ \E f \in calc.todo :
         LET c == [calc EXCEPT !.todo = @ \ {f}, !.item = f]
             targets == resultTarget(calc.resources, f)
         IN  calc' = IF targets = {} THEN Done(c)
                     ELSE LET t == CHOOSE t \in targets : TRUE IN
                          IF Gvk[t] = Pod THEN [c EXCEPT !.pc = "walk", !.cur = t]
                                          ELSE ReadIfEnabled(c, t)
    /\ UNCHANGED <<world, mut, mcache, quiet, events>>

\* Mutant of Deeper: the reads are not counted.
BugNotCounted(depth) == depth

\* One read more, of MaxDepth.
Deeper(depth) == depth + 1

\* Mutant of Stops: the owner of the Pod itself is passed over.
BugStopsLate(o) == Enabled(calc.resources, Gvk[o]) /\ calc.depth > 0

\* The walk ends at an owner the user has enabled.
Stops(o) == Enabled(calc.resources, Gvk[o])

\* resolveOwningWorkload reads the object at hand and turns to its controller;
\* a chain without an enabled owner gives the Pod itself.
WalkToOwner ==
    LET owner == object[calc.cur].owners.controller IN
    /\ calc.pc = "walk"
    /\ calc' = IF ~ Exists(calc.cur) THEN Done(calc)
               ELSE IF owner = None
                 THEN ReadIfEnabled(calc, CHOOSE t \in resultTarget(calc.resources, calc.item) : TRUE)
               ELSE IF Stops(owner) THEN ReadIfEnabled(calc, owner)
               ELSE IF Deeper(calc.depth) = MaxDepth THEN Done(calc)
               ELSE [calc EXCEPT !.cur = owner, !.depth = Deeper(@)]
    /\ UNCHANGED <<world, mut, mcache, quiet, events>>

\* The targetRef, where it speaks of the object read, agrees with it.
RefAgrees(item, f, o) ==
    f \notin Legacy /\ Gvk[o] = Gvk[About[f]] =>
      item.uid \in {0, object[o].uid} /\ item.rv \in {0, object[o].rv}

\* Mutant of Readable: an object that is gone is taken all the same.
BugIgnoresMissing(o) == RefAgrees(calc.list[calc.item], calc.item, o)

\* eligibleResource finds the object, and it is the one of the targetRef.
Readable(o) == Exists(o) /\ RefAgrees(calc.list[calc.item], calc.item, o)

\* eligibleResource, and the comparison with the targetRef.
ReadTarget ==
    LET o == calc.cur IN
    /\ calc.pc = "read"
    /\ calc' = IF Readable(o)
                 THEN [Done(calc) EXCEPT !.eligible =
                         Append(@, [finding |-> calc.item, object |-> o, uid |-> object[o].uid,
                                    owners |-> object[o].owners.all])]
                 ELSE Done(calc)
    /\ UNCHANGED <<world, mut, mcache, quiet, events>>

-----------------------------------------------------------------------------
(***************************************************************************)
(* Deduplicate, and the creation of the Mutations                          *)
(***************************************************************************)
OwnerNames(e) == {Name[o] : o \in e.owners}

\* Mutant of Merges: Pods without owners are merged too.
BugMergesPods(e) == Gvk[e.object].kind = "Pod"

\* Owned Pods are merged, of whatever group.
Merges(e) == Gvk[e.object].kind = "Pod" /\ e.owners # {}

\* For each name of an owner the place of the first Pod with such an owner.
FirstOwned(s) ==
    LET ownedBy(n) == {i \in DOMAIN s : Merges(s[i]) /\ n \in OwnerNames(s[i])} IN
    {x \in {Name[o] : o \in Object} \X DOMAIN s :
       x[2] \in ownedBy(x[1]) /\ \A j \in ownedBy(x[1]) : x[2] <= j}

Deduplicate ==
    /\ calc.pc = "next"
    /\ calc.todo = {}
    /\ calc' = [calc EXCEPT !.pc = "create",
                            !.left = {i \in DOMAIN calc.eligible : ~ Merges(calc.eligible[i])},
                            !.owned = FirstOwned(calc.eligible)]
    /\ UNCHANGED <<world, mut, mcache, quiet, events>>

\* Mutant of MutationOf: the Mutation is made for the Pod the finding is about.
BugForTheFound(e) == [finding |-> e.finding, object |-> About[e.finding], uid |-> e.uid]

\* mutationName
MutationOf(e) == [finding |-> e.finding, object |-> e.object, uid |-> e.uid]

\* Create the Mutation of e unless the informer knows it, and go on with c; one
\* that the informer does not know yet makes Create fail, which ends the step.
Create(e, c) ==
    LET m == MutationOf(e) IN
    /\ calc' = IF m \in mut \ mcache THEN Idle ELSE c
    /\ mut' = mut \cup (IF m \in mcache THEN {} ELSE {m})
    /\ UNCHANGED <<world, mcache, quiet, events>>

CreateMutation ==
    /\ calc.pc = "create"
    /\ \E i \in calc.left :
         /\ \A j \in calc.left : i <= j
         /\ Create(calc.eligible[i], [calc EXCEPT !.left = @ \ {i}])

\* The merged ones follow, in the order of a Go map.
CreateOwned ==
    /\ calc.pc = "create"
    /\ calc.left = {}
    /\ \E x \in calc.owned : Create(calc.eligible[x[2]], [calc EXCEPT !.owned = @ \ {x}])

FinishCalculate ==
    /\ calc.pc = "create"
    /\ calc.left = {} /\ calc.owned = {}
    /\ calc' = Idle
    /\ UNCHANGED <<world, mut, mcache, quiet, events>>

\* A read of a target fails: the item is skipped.
ReadFails ==
    /\ calc.pc \in {"walk", "read"}
    /\ events < MaxEvents
    /\ events' = events + 1
    /\ calc' = Done(calc)
    /\ UNCHANGED <<world, mut, mcache, quiet>>

\* A call for a Mutation fails, or the operator restarts.
StepFails ==
    /\ calc.pc # "idle"
    /\ events < MaxEvents
    /\ events' = events + 1
    /\ calc' = Idle
    /\ UNCHANGED <<world, mut, mcache, quiet>>

Others ==
    \/ \E o \in Object : ChangeOwners(o) \/ DeleteObject(o) \/ RecreateObject(o)
    \/ \E f \in Finding : AnalysisResult(f)
    \/ EditResources
    \/ \E m \in mut : DeleteMutation(m)

\* What the step does once it has begun.
Work ==
    \/ NextItem \/ WalkToOwner \/ ReadTarget
    \/ Deduplicate \/ CreateMutation \/ CreateOwned \/ FinishCalculate

Next == Others \/ CacheSync \/ ListResults \/ Work \/ ReadFails \/ StepFails

Spec == Init /\ [][Next]_vars

\* A step that has begun runs on, the K8sGPT is reconciled again and again, and
\* the informer catches up.
FairSpec == Spec /\ WF_vars(Work) /\ WF_vars(ListResults) /\ WF_vars(CacheSync)

-----------------------------------------------------------------------------
ObjectRec == [uid: Nat, rv: Nat, owners: OwnersRec]
ResultRec == [reported: BOOLEAN, uid: Nat, rv: Nat]
EligibleRec == [finding: Finding, object: Object, uid: Nat \ {0}, owners: SUBSET Object]
MutationRec == [finding: Finding, object: Object, uid: Nat \ {0}]
CalcRec == [pc: {"idle", "next", "walk", "read", "create"},
            resources: Resources \cup {{}}, list: [Finding -> ResultRec] \cup {<<>>},
            todo: SUBSET Finding, item: Finding \cup {None}, cur: Object \cup {None},
            depth: 0 .. MaxDepth - 1, eligible: Seq(EligibleRec), left: SUBSET Nat,
            owned: SUBSET ({Name[o] : o \in Object} \X Nat)]

\* Every variable has its type; in particular what is missing is neither
\* eligible nor the object of a Mutation.
TypeOK ==
    /\ object \in [Object -> ObjectRec] /\ result \in [Finding -> ResultRec]
    /\ resources \in Resources
    /\ mut \in SUBSET MutationRec /\ mcache \in SUBSET MutationRec
    /\ calc \in CalcRec
    /\ calc.pc \in {"walk", "read"} => calc.item \in Finding /\ calc.cur \in Object
    /\ calc.pc # "idle" => calc.list \in [Finding -> ResultRec]
    /\ calc.left \subseteq DOMAIN calc.eligible
    /\ \A x \in calc.owned : x[2] \in DOMAIN calc.eligible
    /\ quiet \in BOOLEAN /\ events \in Nat

\* The controller of o among objects objs, if o is there and has one.
ControllerOf(objs, o) ==
    IF o = None THEN None
    ELSE IF objs[o].uid = 0 THEN None
    ELSE objs[o].owners.controller

\* The controller of the controller ... of o, n times.
Ancestor(objs, o, n) ==
    LET anc[i \in 0 .. MaxDepth] ==
          IF i = 0 THEN o ELSE ControllerOf(objs, anc[i - 1])
    IN  anc[n]

\* The nearest enabled owner of Pod o, o itself when the chain has none and
\* ends within the bound, and no object when it does not.
Nearest(objs, selectors, o) ==
    LET owners == {n \in 1 .. MaxDepth : Ancestor(objs, o, n) # None}
        enabled == {n \in owners : Enabled(selectors, Gvk[Ancestor(objs, o, n)])}
        ends == \E n \in 0 .. MaxDepth - 1 :
                  LET last == Ancestor(objs, o, n) IN
                  last # None /\ objs[last].uid # 0 /\ Ancestor(objs, o, n + 1) = None
    IN  {Ancestor(objs, o, n) : n \in {m \in enabled : \A k \in enabled : m <= k}}
        \cup {t \in {o} : enabled = {} /\ ends}

\* The object finding f is to be remediated on.
Subject(objs, selectors, f) ==
    UNION {IF Gvk[t] = Pod THEN Nearest(objs, selectors, t) ELSE {t} :
             t \in resultTarget(selectors, f)}

\* AUTO_REMEDIATION.md: "Pod findings owned by a selected workload are resolved
\* to that workload": as long as nothing changes under the walk, it finds the
\* nearest enabled owner, however long, short or circular the chain, and what
\* it finds is enabled.
ResolvesNearest ==
    quiet =>
      \A i \in DOMAIN calc.eligible :
        LET e == calc.eligible[i] IN
        /\ e.object \in Subject(object, calc.resources, e.finding)
        /\ Enabled(calc.resources, Gvk[e.object])

\* A Mutation is made for the object its finding resolves to, as it is there:
\* no merge, and no order of the list or of the map, gives one finding the
\* target of another.
MutationForSubject ==
    [][\A m \in mut' \ mut :
         quiet => /\ m.object \in Subject(object, calc.resources, m.finding)
                  /\ Enabled(calc.resources, Gvk[m.object])
                  /\ m.uid = object[m.object].uid]_vars

\* The step ends, though owner references may form a cycle.
CalculationEnds == calc.pc # "idle" ~> calc.pc = "idle"

\* AUTO_REMEDIATION.md, "Exact target identity": a Result without targetRef has a
\* target when exactly one fully qualified selector matches its kind. (What the
\* code guesses with none or several, a core Pod or an apps/v1 Deployment, is
\* nothing a user may count on.)
Exact(f) ==
    f \in Legacy => Cardinality(FullyQualified(resources, Gvk[About[f]].kind)) = 1

\* Finding f can be remediated on o: it is reported, its target is exact, o is
\* there and enabled, the analyzer meant o, and o is no owned Pod: the gate
\* would refuse it.
Remediable(f, o) ==
    /\ result[f].reported
    /\ Exact(f)
    /\ o \in Subject(object, resources, f)
    /\ Exists(o)
    /\ Enabled(resources, Gvk[o])
    /\ RefAgrees(result[f], f, o)
    /\ ~ (Gvk[o].kind = "Pod" /\ object[o].owners.all # {})

\* Once the cluster is left alone, every finding that can be remediated has its
\* Mutation, made for the object that is there: no merge with another finding,
\* skipped item, refused Create or deleted Mutation loses it.
EventuallyProposed ==
    \A f \in Finding :
      <>[](\A o \in Object : Remediable(f, o) =>
             [finding |-> f, object |-> o, uid |-> object[o].uid] \in mut)
================================================================================
