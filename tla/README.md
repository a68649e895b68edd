# A TLA+ model of the k8sgpt-operator

The k8sgpt-operator runs a K8sGPT server in a Kubernetes cluster, asks it at
intervals what is wrong, keeps what it answers as `Result` objects, reports them
to a sink and, when auto-remediation is on, turns some of them into patches of the
objects they are about. This directory models the operator's own logic in TLA+,
checks it with TLC on small instances and proves its central safety properties
with TLAPS for every instance. Paths below are relative to the repository.

## 1. The system

### Parts, state, operations

| Part | Source | State it keeps | Operations |
|---|---|---|---|
| K8sGPT controller | `internal/controller/k8sgpt/*_step.go`, `k8sgpt_controller.go` | the map of gRPC clients, two process-wide variables of the circuit breaker; all else is in API objects | a chain of steps per reconcile: Init, Finalizer, Configure, PreAnalysis, Analysis, ResultStatus, CalculateRemediation |
| Server workload | `pkg/resources/k8sgpt.go` | ServiceAccount, Service, Deployment, ClusterRole, ClusterRoleBinding | Sync (create or patch), Sync with DestroyOp, update of the image |
| Client hand-over | `k8sgpt_controller.go`, `cmd/main.go`, `controller/shared/client.go` | open connections, a channel of ten signals, one shared client and one shared backend | clientFor, closeClientFor, send, receive, SetClient, SetBackend |
| Analysis | `analysis_step.go`, `pkg/resources/results.go` | `Result` objects (spec, labels, status), `K8sGPT.status.lastAnalysisError` | analysis, clean-up of stale Results, creation and update, circuit breaker |
| Result status | `resultStatus_step.go`, `pkg/sinks` | `Result.status` (lifecycle, webhook) | report to the sink, record the address |
| Remediation proposals | `calculate_remediation_step.go`, `conversions/to_eligible_resource.go`, `util/deduplicate.go` | none of its own | list Results, find and snapshot their targets, create `Mutation` objects |
| Mutation controller | `mutation/mutation_controller.go`, `conversions/object_to_execution.go` | `Mutation` objects and their phase; the client it took | NotStarted → InProgress → Completed → Pending → Successful, or Aborted |
| Policy gate | `remediation/policy/gate.go`, `mutation/image_proposal.go` | none | make a proposal of an answer; decide whether a proposal may be applied to the live object |

### How they interact

- All parts meet in the API server. Typed objects are read from informer caches
  that lag behind it; unstructured objects (remediation targets) are read from it
  directly. An Update carries a resourceVersion and is refused when it is old. A
  Create is refused when the object exists. A merge patch is applied to whatever
  is there; the remediation patch tests the resourceVersion first.
- Each controller has one worker. The K8sGPT controller runs the whole chain of
  steps for one resource before it takes the next; the mutation controller runs
  beside it.
- The K8sGPT controller hands its connection and its backend to the mutation
  controller through a channel, a goroutine in `main` and a shared struct.
- A returned error ends a reconcile anywhere in it; the request is queued again.
  So every step must be right when the steps before it have already happened once.

### What is hard

Stale reads in front of writes; two writes that belong together with a failure, a
restart or another actor between them; a write that was made and whose answer was
lost; objects deleted and created again under the same name; resources that share
names; connections closed by one goroutine and held by another; a channel that
fills up; things that must eventually happen although every error just means
"again". The list, with lines, is `hazards` in `PROJECT.json`.

### What makes each part correct

- **Remediation**: a patch is made only over the version of the object that the
  proposal was made for, at most once per version; the phase of a Mutation tells the
  truth and only moves forward; every proposal is decided. To the owner of the
  object, all of it is one atomic compare-and-swap of an image.
- **Proposals**: a finding is resolved to the nearest enabled owner of its Pod, or
  to what it names; the resolution ends; no finding is lost on the way.
- **Policy gate**: the diff it decides on is exact; what it lets through replaces one
  permitted value and nothing else; it does not refuse what it should allow.
- **Connections**: no connection leaks, none is used after it was closed, none
  outlives its resource, a blocked sender goes on.
- **Results**: they converge to the findings; sinks hear of every Result that was not
  reported and then have peace.
- **Analysis**: the error in the status comes to agree with the analyses; the breaker
  opens on the failure that exceeds the limit, no earlier and no later.
- **Workload**: no server outlives its resource; the Deployment converges to the
  spec and the Secret; deletion ends; shared objects come back.

## 2. Modules

| Module | Models | Composes |
|---|---|---|
| `Remediation` | the mutation controller and the step that feeds it, with what the gate decides on identity, version and number of changes, admission, and all other writers to the same objects | K8sGPT controller's last step + mutation controller + cluster |
| `MCRemediation` | – | instance: all findings about one target |
| `RemediationProofs` | – | theorems about `Remediation` |
| `AtomicPatch` | what remediation promises: an atomic, versioned patch | abstract specification |
| `AtomicPatchProofs` | – | theorem: `Remediation` implements `AtomicPatch` |
| `Manifest` | nested maps and lists, JSON Pointers | used by `PolicyGate` |
| `PolicyGate` | answers, proposals, gate and patch on whole manifests | gate + proposal code + other writers of one object |
| `PolicyGateProofs` | – | theorem about the gate's diff |
| `Eligibility` | from Results to Mutations: selectors, targets, owners, merging, creation | K8sGPT controller's last step + cluster |
| `MCEligibility` | – | instance: Pods, ReplicaSets and a Deployment in two namespaces |
| `EligibilityProofs` | – | theorems about `Eligibility` |
| `Connections` | clients, hand-over, the mutation controller's use of them | K8sGPT controller + goroutine in `main` + mutation controller |
| `ConnectionsProofs` | – | theorems about `Connections` |
| `Results` | findings, Results, sinks | K8sGPT controller + clusters + garbage collector |
| `ResultsProofs` | – | theorems about `Results` |
| `Analysis` | the error in a K8sGPT's status, the circuit breaker | K8sGPT controller's analysis step + users |
| `MCAnalysis` | – | instance: two resources with different limits of retries |
| `AnalysisProofs` | – | theorems about `Analysis` |
| `Workload` | finalizer, Sync, destruction, image update | K8sGPT controller + users + Deployment controller |
| `WorkloadProofs` | – | theorems about `Workload` |

`PROJECT.json` (`map`) gives for every definition the lines it stands for.

### Conventions

- **One step per API write, or per read that another read or write must be
  consistent with.** Between two calls of a handler any other actor may act. A
  handler's program counter (`pc`, `calc.pc`, `mpc`) names the call it is about to
  make; `Return` is the early return with all locals lost.
- **Informer caches** are variables of their own (`cache`, `kcache`, `rcache`,
  `ocache`) that catch up in `CacheSync` actions. Handlers read them, writes go to
  the server's copy.
- **resourceVersion.** `Remediation` keeps it as a number, for targets and for
  Mutations, because snapshots compare it much later. `Results`, `Analysis` and
  `Workload` only ever use it to tell a current copy from a stale one, so a copy carries that one
  bit (`synced`, `current`, `dcurrent`). A write that changes nothing keeps it, as
  in the API server.
- **Status subresource.** `Result` and `K8sGPT` have one: Create drops the status
  and spec and status are two writes. `Mutation` has none: one Update writes both,
  and `Status().Update` on it always fails.
- **Mutants.** Operators named `Bug…` stand in front of the definition they would
  replace, and no specification uses them. Each is a plausible slip in that code; a
  property that no such slip can break would say nothing.

### Remediation

State: `target` (UID, resourceVersion, image, rollout), `result`, `mut` and its
informer copy `cache`; `calc` for the step in the K8sGPT controller; `pc`, `key`,
`copy`, `live` for the mutation worker. `applied` and `healed` record what happened.

| Actions | Code |
|---|---|
| `ListResults`, `GetResults`, `SnapshotTarget`, `CreateMutation`, `FinishCalculate` | `calculateRemediationStep`, `ResultsToEligibleResources` |
| `StartReconcile`, `RemoveFinalizer` | the head of `MutationReconciler.Reconcile` |
| `QueryAnswered`, `QueryUnanswered` | case NotStarted |
| `ReadLive`, `ReadForeign`, `DryRunPatch`, `ApplyPatch`, `TargetGone` | case InProgress, `ResourceToExecution` |
| `CheckTarget`, `CheckResult` | cases Completed and Pending, `doesResultExist`, `targetReady` |
| `StoreMutation` | the Update at the end |
| `ReconcileFails`, `CalculateFails`, `Restart` | any call that fails or whose answer is lost; the end of the process |

The name of a Mutation is made of the Result's name and a digest of the target's
identity and UID; the model takes it to be the pair (a digest does not collide).
An answer of the AI backend is an image, a wider change (`Wide`), a manifest of another
apiVersion or kind than the target's (`Foreign`), or nothing. `FromConfig` lets the
manifest's apiVersion and kind win, so a foreign proposal is read under its own: the read
fails and the reconcile with it (`ReadForeign`), and the gate never sees it. The
gate is `Evaluate`: same UID, same resourceVersion, exactly one image changed; what
it does on whole manifests is `PolicyGate`'s subject. Admission refuses a dry run
that would give the object an image of `Refused`.

`RemediationIsAtomic` is `Promise!Spec`, where `Promise` instantiates `AtomicPatch`:
its `object` is the target without the rollout fields, `patches` the set `applied`
reduced to the Mutation and the snapshot's version, and `reports` the Mutations that
are stored as Completed, Pending or Successful. Only `ApplyPatch` maps to
`AtomicPatch!Patch`; snapshot, query, gate and dry run are invisible.

### PolicyGate

A manifest is a tree (`Manifest`): maps, lists, leaves, and `Nil` for what is absent,
which the code does not tell from `null`. Pointers are sequences of segments.

| Definitions | Code |
|---|---|
| `podSpec`, `Registered`, `imagePath`, `AllowedPath` | `registeredPolicies`, `imagePath`, `annotationAllowedPaths` |
| `highRisk`, `isHighRisk` | `isHighRisk` |
| `normalized`; `diff`, `Calls`, `CommonSegments` | `normalized`; `diff` and its recursive calls, level by level |
| `liveMatchesOriginal`, `proposedMatchesLive`, `Owned`, `limit`, `Evaluate` | functions of these names, `Evaluate` |
| `setContainerImage`, `AnswerSelection`, `AnswerManifest` | `imageSelectionProposal`, `setContainerImage` |
| `EvaluateProposal`, `EvaluateOther`, `Patched` and the steps that apply it | `ResourceToExecution`, the operations of `Decision.Patch` |

A document's nodes down a pointer, its pointers and the calls of `diff` are recursive
functions over their depth, which `MaxHeight` bounds; the code's recursion ends where
the document does.

State: the live object, one Mutation (`phase`, `origin`, `proposal`), the object as
read in front of the gate. Somebody else edits the object at any time.

### Eligibility

`object` has UID, resourceVersion and owner references (which one is the controller,
and all of them); `result` the findings with their targetRef; `resources` the
selectors. `calc` is the step under way: findings still to do, the object at hand and
its depth, the eligible list, the indices of it that are left to create and the merged
Pods. `quiet` records that nobody else wrote since the step began. `Subject(f)` says
without a walk which object finding `f` is to be remediated on: `Nearest` is the first
of the Pod's chain of controllers (`Ancestor`) that is enabled.

| Actions | Code |
|---|---|
| `ListResults`, `NextItem` | the head of `calculateRemediationStep`, `resultTarget`, `configuredLegacyGVK` |
| `WalkToOwner` | one turn of the loop in `resolveOwningWorkload` |
| `ReadTarget` | `eligibleResource` and the comparison with the targetRef |
| `Deduplicate` | `util.Deduplicate`, merged Pods last and in any order |
| `CreateMutation`, `CreateOwned`, `FinishCalculate` | the loop that creates Mutations |
| `ReadFails`, `StepFails` | an error that skips an item; one that ends the step |

A selector is a record with the fields that were given, so a bare kind, group and
kind, and group, version and kind are three shapes of one thing. `FullyQualified` takes a
two-part selector whose first part begins with "v" for a version of the core group, also
when it is a group (`VersionLike`, `TakenForCore`).

### Connections

`kclients` is the map behind `clientFor`; `open` is what really is open. A dial is
numbered, so a new connection to the same address is another connection. `signal` is
the channel, `held` what the goroutine stores in two calls. The address is looked up
(`GenerateAddress`) and dialled (`ClientFor`, `DialFails`) in two steps; the server may
move in between.

### Results

A finding is a `Content` under a `Name`; `hashResultContent` tells contents apart.
`rawResults` is what an analysis returned, `todo` the rest of the loop under way.
A read and the write made from it are one step, since the write is refused if the
read was stale (`synced`); two writes are two steps (`UpdateResult`,
`UpdateStatus`). `sent` records the reports on a Result since its `status.webhook` was
last removed, by the worker or with the Result itself. An analysis that fails changes
nothing here.

### Analysis

`lastError` is `status.lastAnalysisError` of each K8sGPT, `kcache` the informer's copy of
it; `copy` and `current` are what the worker read at the start of the reconcile and
whether the API server would still accept it. `NeedsWrite` is the code's comparison with
that copy, `RecordError` the write, which is refused when the copy is not current and
whose failure is only logged. `allowBackendAIRequest` and `analysisRetryCount` are the
package's variables, shared by all resources; `outcome` and `streak` record what happened.

### Workload

`Kind` is Sync's list in its order, shorter when RBAC is not dynamic. A K8sGPT's
Service and Deployment carry its name, the rest the namespace's, so it is shared.
`deploy` is the Deployment read *before* Sync, which `CheckImage` updates *after* it.
`Events` selects what users and the cluster do in a run.

## 3. What the runs check

Passing runs:

| Run | Properties | Shows |
|---|---|---|
| `RemediationRecreate` | `TypeOK`, `NoStaleOverwrite`, `OnePatchPerVersion`, `CompletedWasApplied`, `SuccessfulWasRolledOut` | a target edited, rolled out, deleted and created again under another UID, with one failure anywhere: no patch over anything but the snapshot's version, none over a version already patched, and the phases tell the truth |
| `RemediationLive` | `PhaseOnlyForward`, `ProposalDecided`, `RemediationIsAtomic` | Mutations deleted and created again under stale copies, with one failure and an image that admission refuses: phases advance, a proposal whose target exists is applied or aborted, and all of it implements `AtomicPatch` |
| `PolicyGate` | `DiffIsExact`, `OneValueReplaced`, `PatchMakesProposal`, `SelectionAccepted`, `SelectionHonoured` | every image selection, and every manifest two edits away, answered for four kinds of object that others edit: the diff has every difference and no other; a patch replaces one permitted value; it makes the object what was proposed; a selection that changes an image of an untouched object passes; the container that was named is the one that changes |
| `Eligibility` | `TypeOK`, `ResolvesNearest`, `MutationForSubject`, `CalculationEnds`, `EventuallyProposed` | owner chains that grow, break and close in a circle, findings with and without targetRef, selectors that are exact, bare, ambiguous or misread: the nearest enabled owner is found, Mutations are made for it and its UID, the step ends, and every finding that can be remediated has its Mutation in the end |
| `ConnectionsLive` | `TypeOK`, `OpenIsCached`, `NoUseAfterClose`, `RemovedIsClosed`, `ReconcileEnds` | two resources, one with auto-remediation, created, deleted, created again and moved, with a lost answer or a restart: no leak, no use after close, nothing left of what is gone, the worker gets past a full channel |
| `ResultsLife` | `TypeOK`, `HashOfSpec`, `WebhookWasUsed`, `EventuallyExact`, `FindingReported`, `EventuallyQuiet`, `FirstReport` | two resources, one of which may go away, whose findings share a Result name, with changing findings, sinks and Results, stale copies and a failure: in the end there is a Result exactly for what is found; findings are written; what was not reported is; the sink is left in peace; hash and webhook of a status are true |
| `AnalysisShared` | `TypeOK`, `OffWhenExceeded`, `StatusSettles` | two resources with different limits under one breaker, their failures and successes in any order, edits that make the copy in hand stale, a failed status write or a restart: the breaker opens exactly on the failure that exceeds the limit, and the status comes to agree with the analyses |
| `WorkloadLife` | `TypeOK`, `ServerIsHeld`, `SpecReached`, `DeletionEnds` | a resource created, edited, deleted and created again while Secret and objects change, with a failure |
| `WorkloadShared` | `SharedRestored` | shared RBAC objects come back for the resource that is left |

Runs in which the code departs from what a document or comment says. TLC finds the
behaviour; `findings` in `PROJECT.json` quotes the sentence:

| Run | Property | The behaviour |
|---|---|---|
| `RemediationDeletedMutation` | `PatchHasMutation` | the finalizer branch does not return: an InProgress Mutation is released and then executed |
| `ConnectionsStale` | `ClientRecovers` | the mutation controller keeps a closed connection until a restart |
| `ResultsLostReport` | `HistoricalWasSent` | a changed Result whose report was cut short is historical on the retry |

### Where the passing properties stop

The conditions in the properties and the constants of the runs mark where the code
stops keeping them. All but the remarks on Aborted Mutations and on the second Pod of a
ReplicaSet, which are read off the code, are behaviours of the models. Hazards that only
occur beyond such a condition are listed in `PROJECT.json` without the property:

- `ProposalDecided` asks that the target exists. The proposal of a deleted target is
  retried for ever: the read in `object_to_execution.go:30` fails and nothing aborts it.
- `ProposalDecided` also excepts a proposal that admission refuses while its target
  stays as it is: the dry run (`object_to_execution.go:58`) fails and is retried until
  somebody writes to the target. The gate lets such proposals through: a manifest in
  which an image is a map instead of a string replaces an allowed path.
- `ProposalDecided` speaks of proposals that `ReadsTarget`. One under another apiVersion
  or kind is retried for ever as long as no object of that kind has the target's name
  (`object_to_execution.go:28-32`); the gate never sees it, although `AUTO_REMEDIATION.md:36`
  says "All other proposals are aborted and are not applied".
- `CompletedWasApplied` has no converse. When the answer to a patch, or the Update of
  the Mutation after it, is lost, the retry finds another resourceVersion and aborts
  a Mutation whose patch is in the cluster.
- `RemovedIsClosed` holds until an answer is lost. If it is the answer to the Update
  that drops the finalizer (`finalizer_step.go:45`), `closeClientFor` is never called.
- Nothing is claimed of the backend that goes with a client. The two are stored in two
  calls, and the mutation controller keeps the first client it gets and reads the backend
  anew on every reconcile: with two resources that have auto-remediation, a query over
  the connection of one may name the backend of the other, although
  `inter_controller_signal.go:10-11` speaks of "the correct backend for the query".
- `FindingReported` holds while no call fails. If the status write of an update
  fails and the problem changes back, the old hash matches the new finding and the
  wrong spec stays.
- `EventuallyQuiet` is checked with `Endpoint = "url"`. With the address in the sink's
  Secret `status.webhook` stays empty and every Result is sent on every reconcile.
- `EventuallyQuiet` and `FirstReport` except names that several resources go on finding
  something under (`Contested`). Each takes the Result for changed because the other's
  labels are on it, writes its own and, with a sink, reports it, on every reconcile.
- `FirstReport` is about Results with no report on record. A *changed* Result that was
  reported before has no second chance when its report is cut short: `ResultsLostReport`.
- `EventuallyExact` excepts an `Orphaned` Result. Made by one resource and relabelled by
  another, it outlives the second one: its owner reference keeps it, and its label hides
  it from the first one's clean-up. And it is about which Results exist, not about what
  they say; that is `FindingReported`, as long as no call fails.
- `OffWhenExceeded` counts the failures of all resources with back-off, since the last
  success of any resource: that is what the code counts, so a resource may lose its AI
  requests to another's failures. Nothing puts them on again but a restart. The limit is
  exceeded on failure `maxRetries + 2`, because the comparison comes before the count.
- `StatusSettles` speaks of a resource whose analyses all succeed, or all fail, from some
  time on; until a later reconcile reads a current copy the status may be wrong.
- `SpecReached` is checked with `spec.version` set. Without it Sync asks for the tag
  `latest`, and the check after it writes an empty tag; each undoes the other.
- `EventuallyProposed` leaves out owned Pods, which the gate would refuse and
  `Deduplicate` merges by the owner's name, of any namespace. It counts a Mutation
  that is there, in whatever phase: an Aborted one keeps a new one from being made for
  the same finding and UID. And it does not say that there is one Mutation only: two
  Pods of one ReplicaSet that are resolved to its Deployment give two, although
  `calculate_remediation_step.go:52` speaks of merging "duplicates or from the same
  origin e.g., pods in a rs".
- `ResolvesNearest` says nothing of UIDs. The code compares the targetRef's UID with
  the object read only where the two are of one kind: for a Pod that is resolved to its
  workload neither the Pod's UID nor that of the owner reference is compared. It and
  `MutationForSubject` speak of steps during which nobody else wrote (`quiet`).
- `EventuallyProposed` asks of a finding without targetRef that exactly one fully qualified
  selector matches its kind (`Exact`), as `AUTO_REMEDIATION.md:73-77` and the comment at
  `to_eligible_resource.go:47-49` have it. With only bare selectors, or with several
  qualified ones, they say that the finding is rejected "rather than guessing a GVK"; the
  code then takes a Pod for a core Pod and a Deployment for one of `apps/v1`
  (`to_eligible_resource.go:76-86`) and makes a Mutation if that kind is enabled. The
  properties neither ask for that Mutation nor forbid it.
- `SharedRestored` is an eventually: the deletion of one resource first takes the
  ServiceAccount and the RBAC objects from the others.

### Bounds

Every bound is a constant named `Max…`, `Events`, or the size of a set.

- `Remediation`: one Deployment, one finding, one or two UIDs, two images;
  symmetric in findings, UIDs and images where no liveness is checked.
  The properties relate a Mutation to one target or to another Mutation of the same
  target; with two UIDs there are two Mutations of one finding. Competing findings are
  covered by the proofs. `MaxRev` (2 or 3 writes by others) allows creation, an edit or
  status report between any two calls, and recreation; `MaxVer` lets a Mutation be deleted, created again and deleted;
  one fault can hit every call. The proofs need none of these.
- `PolicyGate`: a Pod, a Deployment (it stands for the kinds that keep the pod spec
  in the same place), a CronJob and a ConfigMap with the annotation; two images, three
  containers; answers two edits away from the snapshot (one more than the limit of
  changed paths), two edits by others. `MaxHeight` 9 is the depth of the deepest
  document there is: a CronJob with a map in place of an image.
- `Eligibility`: six objects, two findings, four sets of selectors, and `MaxDepth`
  3 instead of 8: a chain of three, and a circle, reach it. All owner references are
  enumerated in the initial states; one event (a change, or a failure) can fall
  between any two reads.
- `Connections`: two resources, a channel of one place instead of ten (it fills
  sooner), three creations and moves: two resources and a move, or one that is
  created again and moves.
- `Results`: two resources, one of which may be deleted and has a sink at first
  (`SinkAtFirst`), one name, two contents (change, and change back), three changes of
  findings, sinks and Results by others, one fault. Two resources under one name is the
  case in which they meet; `ResultsLostReport` needs only one resource and two changes.
- `Analysis`: two resources with limits of 0 and 1 retries, so that the count passes one
  limit before the other, two error messages (one may replace another), two edits and
  two faults.
- `Workload`: one or two resources, two versions, two Secret contents, three or four
  events by users.

In all modules the bounds limit users and faults, never the operator: its steps stay
enabled when the bounds are reached, so liveness is not cut short by them. Deadlock
is checked wherever something always remains to be done; in `ResultsLife` and the runs
of `Workload` a state in which every resource is gone and users do nothing more is a
proper end, and so are a decided Mutation in `PolicyGate` and a cluster without
findings in `Eligibility`; their configurations turn the check off.

### Fairness

- Weak fairness of a worker's steps (`Work`, `Reconcile`, `Listen`, `Mutate`): a
  goroutine that has started runs on; API and network calls return, with an error
  if need be.
- Weak fairness of `CacheSync` and of garbage collection: watches deliver in the end.
- Strong fairness of `StartReconcile(k)` and `AnalysisSucceeds(k)`: every reconcile
  ends with a requeue (after the interval, or after a back-off on an error) and the
  work queue is first in, first out, so a request is not passed over for ever. For
  analyses it also says that a server answers now and then; without that no Result
  can be kept up to date.
- `Analysis`: weak fairness of the step under way and of the informer, strong fairness of
  `StartReconcile`. Whether analyses succeed or fail is left open.
- `Eligibility` has weak fairness of a step under way (`Work`), of the informer, and of
  `ListResults`, since the K8sGPT is reconciled again and again.
- `ConnectionsLive` needs only that goroutines run on (`RunsOn`). `ConnectionsStale`
  adds the above and strong fairness of `GenerateAddress` and `ClientFor` (a server that is tried again and
  again is reached), so that its counterexample is not one of a server nobody reaches.

Nothing is assumed of users, of the cluster's own changes, or of faults. In
`Workload` the Secret needs no event: the resource is reconciled again anyway.

## 4. What is proved

Each proof module proves `Invariance`, `Spec => []IInv`, for an inductive invariant
`IInv` of named parts, and from it the properties. There is one lemma per part of the
invariant with one step per action (for `Remediation` one per action and part), and
facts on versions and copies are lemmas of their own. Nothing is assumed but the
named assumptions of the modules (special values differ from ordinary ones, the maps
are functions, bounds are numbers) and what is said below. The bounds have no part
in the arguments.

| Module | Theorem | States |
|---|---|---|
| `RemediationProofs` | `TypeCorrect` | `TypeOK` |
| | `PatchesSnapshotOnly` | `NoStaleOverwrite`: a patch is made only over the version of the object its snapshot describes |
| | `PatchedOnce` | `OnePatchPerVersion`: no version is patched twice, by retry or by competition |
| | `CompletedIsTrue` | `CompletedWasApplied`: Completed and what follows stand for a patch that was made |
| | `SuccessfulIsTrue` | `SuccessfulWasRolledOut`: Successful stands for a rollout that was seen |
| | `PhasesAdvance` | `PhaseOnlyForward`: phases only advance, from whatever stale copy |
| `AtomicPatchProofs` | `Refinement` | `RemediationIsAtomic`: `Remediation` implements `AtomicPatch` |
| `ConnectionsProofs` | `TypeCorrect` | `TypeOK` |
| | `NoLeak` | `OpenIsCached`: what is open is in the map |
| | `CallsOverOpen` | `NoUseAfterClose`: the K8sGPT controller's calls go over open connections |
| | `NothingLeft` | `RemovedIsClosed`: a resource that is gone has no connection, as long as no answer was lost |
| `WorkloadProofs` | `TypeCorrect` | `TypeOK` |
| | `NoOrphanServer` | `ServerIsHeld`: no Service or Deployment without its K8sGPT and the finalizer |
| `ResultsProofs` | `TypeCorrect` | `TypeOK` |
| | `HashIsOfSpec` | `HashOfSpec`: the hash that decides on a rewrite is that of the spec, except between the two writes and after a failed call |
| | `WebhookIsTrue` | `WebhookWasUsed`: an address in a status stands for a report that was sent since the last was removed |
| `AnalysisProofs` | `TypeCorrect` | `TypeOK`, with the bound on the counter |
| | `OpensExactly` | `OffWhenExceeded`: the breaker opens on the failure that exceeds the limit, whoever's failures were counted |
| `EligibilityProofs` | `TypeCorrect` | `TypeOK` |
| | `NearestIsFound` | `ResolvesNearest`: a finding is resolved to the nearest enabled owner, for any owner references and any bound of the walk |
| | `MutationsAreRight` | `MutationForSubject`: a Mutation is only made for that object and its UID |
| `PolicyGateProofs` | `GateSeesAll` | `DiffIsExact`: the changes the gate decides on are all the differences and no other |

None of the properties is inductive but `DiffIsExact`, which is not about the state but
about what an operator computes.

**Remediation.** What a patch does depends on what the worker holds, and that on
what it read before others went on. `IInv` adds:

- `TargetsInv`: versions and UIDs are given once, so a version names one state of
  one object. Without it an object with the right version could be another one.
- `LiveInv`: between gate and patch the worker holds an object the gate passed; a
  target with that version is that object, down to its image. This is what makes the
  test operation in front of the patch sufficient.
- `AppliedInv`: a version that was patched is never current again (so there is no
  second patch), and a patched object that is ready has been seen to roll out.
- `DoneInv`, `HealedInv`: *every* copy of a Mutation, in the server, in the informer
  and in the worker's hand, tells the truth; a stale copy must, since it may be the
  one that a reconcile starts from.
- `CopiesInv`: copies with one version agree, up to the one change the worker is
  about to store. This is why the resourceVersion on the final Update is enough to
  keep the phases in order.

**Refinement.** The initial states map to the initial state; the writes of others map
to writes; `ApplyPatch` maps to the compare-and-swap by `LiveInv` (the image it
replaces is the one the gate saw, so the step changes the image); storing a Mutation
as Completed maps to a report by `DoneInv`; a deleted Mutation, or one created again,
maps to forgetting; all other steps leave the mapped variables alone. That a stored
Completed Mutation is only replaced by one with the same snapshot version, which
`CopiesInv` says, keeps reports from changing in place.

**Connections.** `MapInv`: a connection is under its own resource's name, and what the
worker calls over is still in the map (nobody else closes connections). `CopiesInv`:
an informer's copy is an older or the present version, and a resource is gone only
after the informer has shown its deletion, because the Update that lets it go carries
the version of a copy in deletion; so no reconcile dials for a resource that is gone.
`ClosedInv`: a resource that is gone has no connection but the one the worker is about
to close.

**Workload.** `HeldInv`: who is seen live with a finalizer still has it, however stale
the copy, since only an Update of a current copy in deletion drops it; so whatever
Sync creates is held. `DestroyedInv`: what is destroyed stays so until the release,
since Sync is the only one that creates and there is one worker. `CopiesInv`: copies
that are said to be current are.

**Results.** What a status says is written from a copy that may be old. `AbsentInv`: a
Result that is not there has no hash. `SyncInv`: an informer's copy that is said to be
current is the stored Result. `LoopInv`: the loop under way works on names for which the
analysis gave a finding. `CopyInv`: the copy in hand, unless its write will be refused,
has the content and the hash of the stored Result, and between the writes of spec and
status that content is the finding whose hash is about to be written. A failed call
between the two breaks `HashOfSpec`, which is why it asks that there was none.
`UsedInv`: the address in the copy in hand was sent to, unless its write will be refused.
A stale copy may show an address that was removed since; that it is not written back is
what `SyncInv` and `CopyInv` are needed for.

**Analysis.** `CountInv`: while AI requests are on, the counter equals the failures since
the last success or restart. It does not once the breaker has opened, when the count
begins anew. The bound on the counter in `TypeOK` is inductive: a failure leaves the counter
at no more than `maxRetries + 1` of the resource that failed, whatever it was before.

**Eligibility.** `StepOK`: what the step holds makes sense where it stands. `FoundOK`:
while `quiet` holds, the object at hand is the ancestor of its depth and no nearer one
is enabled; what was found is the finding's `Subject` with its present UID, up to and
beyond `Deduplicate`. That the walk stops at the nearest, and that a walk that reached
the bound or the end of the chain has no nearer owner to find, are lemmas on `Ancestor`
(`StopsAtNearest`, `EndsAtItself`, `NoneStays`).

**PolicyGate.** For any documents `a` and `b`: a pointer is reached by the calls of
`diff`, `d` levels down, just when both documents have maps or both have lists above it
and each of its segments is below one of them (`CallsOfCalls`, `DiffIs`). Above its last
segment such a pointer is in both documents, because what is absent is neither a map nor
a list (`ChildAbsent`); so it is a pointer of one of them (`CallPointer`), and what
`diff` reports there is a difference. The converse is `PointerCall`. Nothing is assumed
of the documents, and `MaxHeight` is any number, so documents of every height are
covered.

**Recursive functions.** The provers take no induction with a predicate as parameter. What
the chain of owners, the nodes down a pointer and the calls of `diff` compute is proved
from the least number for which it would fail (`LeastNumber`, which follows from the
well-foundedness of `<`): first that a function with the recursive equation exists
(`ChainExists`, `DescentExists`, `LevelsExist`, `DepthsExist`), then by the same argument
what its values are.

### Only model-checked

Liveness (all `~>` and `<>[]` properties): the prover has no rules for fairness and
ENABLED. In `PolicyGate`, what a *patch* does (`OneValueReplaced`, `PatchMakesProposal`,
`SelectionHonoured`) and that selections pass (`SelectionAccepted`): they need facts on
`Put`, that it changes what is at its pointer and nothing beside it, for documents as
the API server keeps them, and that the text of an index tells indices apart, which the
prover does not know of `ToString`.

## 5. What is left out

- **`Remediation`'s target of a finding** (`TargetOf`) is a constant; how it is found is
  modelled in `Eligibility`, on its own, so an ownership that changes during the life
  of a Mutation is not.
- **Names**: that the first 54 characters and the digest of a Mutation's name tell
  Mutations apart is taken for granted. A selector that is listed twice, which the code
  takes for ambiguous, is not modelled (selectors are a set).
- **The AI Secret's informer**: `ReadDeployment` reads the Secret as the server has it, the
  code an informer's copy. A copy that lags behind is the same as an edit that comes
  later, since nothing else depends on the Secret.
- **Times**: intervals and back-offs become fairness.
- **`LOCAL_MODE`**, in which the operator talks to a server on localhost.
- **`spec.repository` and `imageName`**: part of what the image tag stands for.
- **A K8sGPT without AI Secret**: the model's resources all refer to one.
- **`MapResults`** is one finding per Result name; that two names of one analysis
  may collapse into one is a listed hazard.
- **The server's configuration** (remote cache, custom analyzers, integrations,
  `pkg/client/config.go`, `pkg/integrations`): calls that the operator repeats on every
  reconcile and whose effect is state of the server, whose code is elsewhere. That
  they go over an open connection is in `Connections`.
- Sink messages, metrics, prompts, generated code: nothing in them decides anything.

## 6. Plan

Done: all modules of section 2. Every safety invariant that a run checks is stated by a
theorem, and every safety action property but those of `PolicyGate`.

Next, in this order:

1. Lemmas on `Put` (what is at its pointer, what is beside it) and from them
   `OneValueReplaced` and `PatchMakesProposal`, with the documents' shape as invariant.
2. An abstract specification of `Connections`, one connection or none per resource, and
   its refinement, checked and proved.
3. `Reconcile`: the chain of the K8sGPT controller as one composition – which step
   may follow which, with what in hand, and where the request is queued again.
4. The server's configuration, with the server as an external component that keeps
   what it was told.
