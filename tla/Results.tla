-------------------------------- MODULE Results --------------------------------
(***************************************************************************)
(* Analysis and its Results: the K8sGPT controller asks the K8sGPT server  *)
(* for its findings, deletes the Results that are no longer found, creates *)
(* or updates the others, and reports those that are new or changed to the *)
(* sink (Slack, Mattermost, CloudEvents).                                  *)
(*                                                                         *)
(* One worker serves all K8sGPT resources in turn. Results are read from   *)
(* the informer's copy, which may be stale, and written to the API server, *)
(* which refuses a stale write; every read-then-write of the code is       *)
(* therefore one step here, two writes are two steps. The Results live in  *)
(* one namespace, as do those of K8sGPT resources that monitor several     *)
(* clusters from one management cluster. An analysis that fails changes    *)
(* nothing here: what is remembered of it is the subject of module         *)
(* Analysis.                                                               *)
(*                                                                         *)
(* Sources: k8sgpt/analysis_step.go, resultStatus_step.go, common_step.go, *)
(* pkg/resources/results.go, pkg/client/analysis.go, pkg/sinks/*.go.       *)
(***************************************************************************)
EXTENDS Naturals

CONSTANTS
    K8sGPT,      \* the K8sGPT resources of the namespace
    Name,        \* the names of Results: what MapResults makes of an object's name
    Content,     \* what hashResultContent tells apart: kind, name, target, errors
    None,        \* "nothing found", "no hash", "no such object"
    Endpoint,    \* sink.webhook, "" when the address is in the sink's secret
    SinkAtFirst, \* the K8sGPT resources that have a sink at first
    MaxChanges,  \* bound on changes of findings, sinks and Results by others
    Removable,   \* the K8sGPT resources that a user may delete
    MaxFaults    \* bound on failed calls and restarts

ASSUME K8sGPTAssumption == Removable \subseteq K8sGPT /\ SinkAtFirst \subseteq K8sGPT
ASSUME NoneAssumption == None \notin Content /\ None \notin K8sGPT /\ None \notin Name
ASSUME EndpointAssumption == Endpoint \in {"", "url"}
ASSUME BoundsAssumption == MaxChanges \in Nat /\ MaxFaults \in Nat

Findings == [Name -> Content \cup {None}]

\* A Result. content stands for its spec, label for the labels with its
\* K8sGPT, owner for its owner reference; hash, life and webhook are its
\* status. content is None when there is no such object. The resourceVersion
\* is left out: all the code has of it is whether it is the current one.
ResultRec == [content: Content \cup {None},
              label: K8sGPT \cup {None}, owner: K8sGPT \cup {None},
              hash: Content \cup {None}, life: {"", "updated", "historical"},
              webhook: {"", "url"}]
NoResult == [content |-> None, label |-> None, owner |-> None,
             hash |-> None, life |-> "", webhook |-> ""]

VARIABLES
    \* users and the monitored clusters
    alive,       \* the K8sGPT resources that exist
    sink,        \* those with a sink configured
    finding,     \* what an analysis for each of them would find
    changes,
    \* the API server and the informer
    result, rcache,
    synced,      \* whether the informer's copy has the current resourceVersion
    \* the worker
    pc, cur,     \* where it is, and its K8sGPT
    sinkEnabled, \* whether the K8sGPT it read had a sink
    rawResults,  \* the findings of its analysis
    todo,        \* the Results a loop has still to treat
    item, copy,  \* the one between two calls
    current,     \* whether copy had the current resourceVersion when it was taken
    \* what happened
    sent,        \* the findings reported, since status.webhook was last removed
    faults

others == <<alive, sink, finding, changes>>
worker == <<pc, cur, sinkEnabled, rawResults, todo, item, copy, current>>
store == <<result, rcache, synced, sent>>
vars == <<others, store, worker, faults>>

NoFindings == [n \in Name |-> None]

Init ==
    /\ alive = K8sGPT /\ sink = SinkAtFirst /\ finding = [k \in K8sGPT |-> NoFindings]
    /\ changes = 0
    /\ result = [n \in Name |-> NoResult]
    /\ rcache = result /\ synced = [n \in Name |-> TRUE]
    /\ pc = "idle" /\ cur = None /\ sinkEnabled = FALSE /\ rawResults = NoFindings
    /\ todo = {} /\ item = None /\ copy = NoResult /\ current = FALSE
    /\ sent = {} /\ faults = 0

-----------------------------------------------------------------------------
(***************************************************************************)
(* Everyone else.                                                          *)
(***************************************************************************)
\* The API server stores Result n; a write that changes nothing keeps the
\* resourceVersion.
Write(n, new) ==
    /\ result' = [result EXCEPT ![n] = new]
    /\ synced' = [synced EXCEPT ![n] = @ /\ new = result[n]]
    /\ sent' = IF result[n].webhook # "" /\ new.webhook = ""
                 THEN {s \in sent : s[1] # n} ELSE sent

Change ==
    /\ changes < MaxChanges
    /\ changes' = changes + 1
    /\ UNCHANGED <<rcache, worker, faults>>

\* A problem appears, changes or goes away in a monitored cluster.
ClusterChanges(k, n) ==
    /\ Change
    /\ \E c \in (Content \cup {None}) \ {finding[k][n]} :
         finding' = [finding EXCEPT ![k][n] = c]
    /\ UNCHANGED <<alive, sink, result, synced, sent>>

ConfigureSink(k) ==
    /\ Change
    /\ sink' = IF k \in sink THEN sink \ {k} ELSE sink \cup {k}
    /\ UNCHANGED <<alive, finding, result, synced, sent>>

DeleteResult(n) ==
    /\ Change
    /\ result[n].content # None
    /\ Write(n, NoResult)
    /\ UNCHANGED <<alive, sink, finding>>

\* A K8sGPT goes away: the worker drops its finalizer, in a reconcile of its
\* own.
DeleteK8sGPT(k) ==
    /\ k \in Removable \cap alive
    /\ pc = "idle"
    /\ alive' = alive \ {k}
    /\ UNCHANGED <<sink, finding, changes, store, worker, faults>>

\* The garbage collector follows the owner reference.
CollectGarbage(n) ==
    /\ result[n].content # None
    /\ result[n].owner \notin alive
    /\ Write(n, NoResult)
    /\ UNCHANGED <<others, rcache, worker, faults>>

CacheSync(n) ==
    /\ ~ synced[n]
    /\ rcache' = [rcache EXCEPT ![n] = result[n]]
    /\ synced' = [synced EXCEPT ![n] = TRUE]
    /\ UNCHANGED <<others, result, sent, worker, faults>>

-----------------------------------------------------------------------------
(***************************************************************************)
(* AnalysisStep: ask the server.                                           *)
(***************************************************************************)
Return ==
    /\ pc' = "idle" /\ cur' = None /\ sinkEnabled' = FALSE /\ rawResults' = NoFindings
    /\ todo' = {} /\ item' = None /\ copy' = NoResult /\ current' = FALSE

\* initSinkType: the K8sGPT has a sink, with an address or a secret for one.
SinkEnabled(k) == k \in sink

\* The findings, one per Result name (MapResults).
AnalysisSucceeds(k) ==
    /\ pc = "idle"
    /\ k \in alive
    /\ pc' = "list" /\ cur' = k /\ sinkEnabled' = SinkEnabled(k) /\ rawResults' = finding[k]
    /\ UNCHANGED <<others, store, todo, item, copy, current, faults>>

-----------------------------------------------------------------------------
(***************************************************************************)
(* cleanUpStaleResults                                                     *)
(***************************************************************************)
\* The Results the informer shows with the labels of K8sGPT k.
Labelled(k) == {n \in Name : rcache[n].content # None /\ rcache[n].label = k}

\* Mutant of IsStale: what is still found is deleted.
BugDeletesFound(n) == rawResults[n] # None

IsStale(n) == rawResults[n] = None

ListStale ==
    /\ pc = "list"
    /\ todo' = {n \in Labelled(cur) : IsStale(n)}
    /\ pc' = "clean"
    /\ UNCHANGED <<cur, sinkEnabled, rawResults, item, copy, current, others, store,
                   faults>>

\* A Delete of what is gone already fails and ends the reconcile.
DeleteStale(n) ==
    /\ pc = "clean"
    /\ n \in todo
    /\ \/ /\ result[n].content # None
          /\ Write(n, NoResult)
          /\ todo' = todo \ {n}
          /\ UNCHANGED <<pc, cur, sinkEnabled, rawResults, item, copy, current>>
       \/ /\ result[n].content = None
          /\ Return
          /\ UNCHANGED <<result, synced, sent>>
    /\ UNCHANGED <<others, rcache, faults>>

-----------------------------------------------------------------------------
(***************************************************************************)
(* processRawResults and CreateOrUpdateResult                              *)
(***************************************************************************)
StartProcess ==
    /\ pc = "clean"
    /\ todo = {}
    /\ todo' = {n \in Name : rawResults[n] # None}
    /\ pc' = "process"
    /\ UNCHANGED <<cur, sinkEnabled, rawResults, item, copy, current, others, store,
                   faults>>

\* One Result of the loop is done.
Done(n) ==
    /\ todo' = todo \ {n}
    /\ UNCHANGED <<pc, cur, sinkEnabled, rawResults, item, copy, current>>

\* Create drops the status in hand: Result has a status subresource.
CreateResult(n) ==
    /\ pc = "process" /\ n \in todo
    /\ rcache[n].content = None /\ result[n].content = None
    /\ Write(n, [content |-> rawResults[n], label |-> cur, owner |-> cur,
                 hash |-> None, life |-> "", webhook |-> ""])
    /\ Done(n)
    /\ UNCHANGED <<others, rcache, faults>>

\* Mutants of Unchanged: the hash takes in what varies from one analysis to
\* the next; only the labels are compared.
BugHashVaries(m, n) == FALSE
BugLabelsOnly(m, n) == m.label = cur

\* Same hash, same labels.
Unchanged(m, n) == m.hash = rawResults[n] /\ m.label = cur

MarkHistorical(n) ==
    /\ pc = "process" /\ n \in todo
    /\ rcache[n].content # None /\ Unchanged(rcache[n], n)
    /\ synced[n]
    /\ Write(n, [result[n] EXCEPT !.life = "historical"])
    /\ Done(n)
    /\ UNCHANGED <<others, rcache, faults>>

\* Mutant of UpdateResult: the labels are written, the spec is forgotten.
BugKeepsSpec(n) ==
    LET new == [result[n] EXCEPT !.label = cur] IN
    /\ pc = "process" /\ n \in todo
    /\ rcache[n].content # None /\ ~ Unchanged(rcache[n], n)
    /\ synced[n]
    /\ Write(n, new)
    /\ item' = n /\ copy' = new /\ current' = TRUE /\ pc' = "status"
    /\ UNCHANGED <<cur, sinkEnabled, rawResults, todo, others, rcache, faults>>

\* The first of two writes: spec and labels.
UpdateResult(n) ==
    LET new == [result[n] EXCEPT !.content = rawResults[n], !.label = cur] IN
    /\ pc = "process" /\ n \in todo
    /\ rcache[n].content # None /\ ~ Unchanged(rcache[n], n)
    /\ synced[n]
    /\ Write(n, new)
    /\ item' = n /\ copy' = new /\ current' = TRUE /\ pc' = "status"
    /\ UNCHANGED <<cur, sinkEnabled, rawResults, todo, others, rcache, faults>>

\* The informer was behind, on the conflict's every retry, or did not know of
\* an object that Create finds there: the error ends the reconcile.
WriteRefused(n) ==
    /\ pc = "process" /\ n \in todo
    /\ IF rcache[n].content = None THEN result[n].content # None ELSE ~ synced[n]
    /\ Return
    /\ UNCHANGED <<others, store, faults>>

\* A status update of the Result in hand is accepted: since the copy was taken
\* nobody can have done more to it than delete it.
CurrentCopy == current /\ result[item].content # None

\* Write the status m to the Result in hand and go on with the loop at label.
StoreStatus(m, label) ==
    \/ /\ CurrentCopy
       /\ Write(item, m)
       /\ todo' = todo \ {item} /\ pc' = label
       /\ item' = None /\ copy' = NoResult /\ current' = FALSE
       /\ UNCHANGED <<cur, sinkEnabled, rawResults>>
    \/ /\ ~ CurrentCopy
       /\ Return
       /\ UNCHANGED <<result, synced, sent>>

\* The second write: the status.
UpdateStatus ==
    /\ pc = "status"
    /\ StoreStatus([copy EXCEPT !.life = "updated", !.hash = rawResults[item]], "process")
    /\ UNCHANGED <<others, rcache, faults>>

-----------------------------------------------------------------------------
(***************************************************************************)
(* ResultStatusStep                                                        *)
(***************************************************************************)
\* EmitIfNotHistorical lists; with nothing listed the reconcile is over.
ListLatest ==
    /\ pc = "process"
    /\ todo = {}
    /\ IF Labelled(cur) = {}
         THEN Return
         ELSE /\ todo' = Labelled(cur) /\ pc' = "emit"
              /\ UNCHANGED <<cur, sinkEnabled, rawResults, item, copy, current>>
    /\ UNCHANGED <<others, store, faults>>

\* Mutant of NeedsReport: a sink configured later gets nothing.
BugNotHistoricalOnly(m) == m.life # "historical"

NeedsReport(m) == m.life # "historical" \/ m.webhook = ""

\* Mutant of Gone: a Result that cannot be read is reported all the same.
BugIgnoresNotFound(m) == FALSE

Gone(m) == m.content = None

\* Emit, then the status with the address it was sent to.
Emit(n) ==
    /\ pc = "emit" /\ n \in todo
    /\ ~ Gone(rcache[n])
    /\ sinkEnabled /\ NeedsReport(rcache[n])
    /\ sent' = sent \cup {<<n, rcache[n].content>>}
    /\ item' = n /\ copy' = [rcache[n] EXCEPT !.webhook = Endpoint]
    /\ current' = synced[n] /\ pc' = "webhook"
    /\ UNCHANGED <<cur, sinkEnabled, rawResults, todo, others, result, rcache, synced,
                   faults>>

\* Mutant of WebhookOf: the address is recorded whether or not it was used.
BugRecordsAlways(m) == Endpoint

\* What status.webhook of m, which is not reported, becomes.
WebhookOf(m) == IF sinkEnabled THEN m.webhook ELSE ""

\* Nothing to report; without a sink the address is removed.
Silent(n) ==
    /\ pc = "emit" /\ n \in todo
    /\ ~ Gone(rcache[n])
    /\ sinkEnabled => ~ NeedsReport(rcache[n])
    /\ item' = n /\ current' = synced[n] /\ pc' = "webhook"
    /\ copy' = [rcache[n] EXCEPT !.webhook = WebhookOf(rcache[n])]
    /\ UNCHANGED <<cur, sinkEnabled, rawResults, todo, others, store, faults>>

EmitGone(n) ==
    /\ pc = "emit" /\ n \in todo
    /\ Gone(rcache[n])
    /\ Return
    /\ UNCHANGED <<others, store, faults>>

StoreWebhook ==
    /\ pc = "webhook"
    /\ StoreStatus(copy, "emit")
    /\ UNCHANGED <<others, rcache, faults>>

FinishReconcile ==
    /\ pc = "emit"
    /\ todo = {}
    /\ Return
    /\ UNCHANGED <<others, store, faults>>

-----------------------------------------------------------------------------
(***************************************************************************)
(* Faults: a call fails (the sink's too), or the operator restarts.        *)
(***************************************************************************)
CallFails ==
    /\ pc # "idle"
    /\ faults < MaxFaults
    /\ faults' = faults + 1
    /\ Return
    /\ UNCHANGED <<others, store>>

-----------------------------------------------------------------------------
Others ==
    \/ \E k \in K8sGPT : \/ \E n \in Name : ClusterChanges(k, n)
                         \/ ConfigureSink(k) \/ DeleteK8sGPT(k)
    \/ \E n \in Name : DeleteResult(n)

\* What the worker does after an analysis.
Work ==
    \/ ListStale \/ StartProcess \/ UpdateStatus \/ ListLatest \/ StoreWebhook
    \/ FinishReconcile
    \/ \E n \in Name : \/ DeleteStale(n)
                       \/ CreateResult(n) \/ MarkHistorical(n) \/ UpdateResult(n)
                       \/ WriteRefused(n)
                       \/ Emit(n) \/ Silent(n) \/ EmitGone(n)

Next ==
    \/ Others
    \/ \E n \in Name : CacheSync(n) \/ CollectGarbage(n)
    \/ \E k \in K8sGPT : AnalysisSucceeds(k)
    \/ Work
    \/ CallFails

Spec == Init /\ [][Next]_vars

\* The worker runs on, the informer catches up, and each K8sGPT is analysed
\* again and again: every reconcile ends in a requeue, after an interval or,
\* on an error, after a back-off; the server answers now and then.
Fairness ==
    /\ WF_vars(Work)
    /\ \A n \in Name : WF_vars(CacheSync(n)) /\ WF_vars(CollectGarbage(n))
    /\ \A k \in K8sGPT : SF_vars(AnalysisSucceeds(k))

FairSpec == Spec /\ Fairness

-----------------------------------------------------------------------------
\* Every variable has its type; in particular nothing but a finding is ever
\* sent to a sink.
TypeOK ==
    /\ alive \in SUBSET K8sGPT /\ sink \in SUBSET K8sGPT
    /\ finding \in [K8sGPT -> Findings]
    /\ result \in [Name -> ResultRec] /\ rcache \in [Name -> ResultRec]
    /\ synced \in [Name -> BOOLEAN]
    /\ pc \in {"idle", "list", "clean", "process", "status", "emit", "webhook"}
    /\ cur \in K8sGPT \cup {None}
    /\ pc # "idle" => cur \in K8sGPT
    /\ sinkEnabled \in BOOLEAN
    /\ rawResults \in Findings
    /\ todo \in SUBSET Name /\ item \in Name \cup {None}
    /\ pc \in {"status", "webhook"} => item \in Name
    /\ copy \in ResultRec /\ current \in BOOLEAN
    /\ sent \in SUBSET (Name \X Content)
    /\ changes \in Nat /\ faults \in Nat

Found(n) == \E k \in alive : finding[k][n] # None

\* The Result has the labels of a K8sGPT that is gone, and its owner is another
\* that is not: neither the clean-up nor the garbage collector deletes it.
Orphaned(n) ==
    result[n].content # None /\ result[n].label \notin alive /\ result[n].owner \in alive

\* Once the clusters stay as they are, the Results come to be exactly the
\* findings, and stay so, whatever was stale, refused, deleted or cut short
\* before, and whoever of several K8sGPT resources reports the same name, except
\* for what a K8sGPT leaves that took over the Result of another and went away.
EventuallyExact ==
    <>[](\A n \in Name : (Found(n) <=> result[n].content # None) \/ Orphaned(n))

\* A finding that stays is written to its Result, as long as no call fails
\* between the two writes of an update.
FindingReported ==
    \A k \in K8sGPT, n \in Name, c \in Content :
      finding[k][n] = c ~>
        result[n].content = c \/ finding[k][n] # c \/ k \notin alive \/ faults > 0

\* The hash that decides whether a Result is written again is the hash of its
\* spec, though they are written one after the other, from copies that may be
\* stale, and the Result may be deleted in between: as long as no call fails,
\* the two differ only between the two writes.
HashOfSpec ==
    faults = 0 =>
      \A n \in Name :
        result[n].hash \in {None, result[n].content} \/ (pc = "status" /\ item = n)

\* status.webhook is an address to which a report on the Result was sent since
\* the address was last removed, whatever copies the status was written from.
WebhookWasUsed ==
    \A n \in Name : result[n].webhook # "" => \E c \in Content : <<n, c>> \in sent

\* Several K8sGPT resources find something under this name.
Contested(n) ==
    \E j, k \in alive : j # k /\ finding[j][n] # None /\ finding[k][n] # None

\* Once the clusters stay as they are, the sink is left in peace, unless K8sGPT
\* resources go on contending for a Result name: each then takes the Result for
\* changed, because the other's labels are on it.
EventuallyQuiet ==
    (<>[](\A n \in Name : ~ Contested(n))) => <>[][~ \E n \in Name : Emit(n)]_vars

\* The Result of k's finding c is in place and no report on it is recorded; the
\* worker has no older finding in hand.
Unreported(k, n, c) ==
    /\ k \in sink \cap alive
    /\ finding[k][n] = c
    /\ result[n].content = c /\ result[n].webhook = ""
    /\ pc = "idle"

\* resultStatus_step.go: "when user configures a sink for the first time" it
\* hears of every Result that is there, with its present content, however often
\* the report is cut short by a stale copy or a failing call, and though the
\* Result is historical by the time of the next try. (A change of a Result that
\* was reported before has no such second chance: see HistoricalWasSent.)
FirstReport ==
    \A k \in K8sGPT, n \in Name, c \in Content :
      Unreported(k, n, c) ~>
        \/ <<n, c>> \in sent
        \/ finding[k][n] # c \/ k \notin sink \/ k \notin alive \/ Contested(n)

-----------------------------------------------------------------------------
(***************************************************************************)
(* What a comment in the code says and the code does not do.               *)
(***************************************************************************)
\* results.go: a Result marked historical is one with "no notification
\* needed": what it says was sent to the sink it records.
HistoricalWasSent ==
    \A n \in Name :
      result[n].life = "historical" /\ result[n].webhook # "" /\ result[n].content = result[n].hash
        => <<n, result[n].content>> \in sent
================================================================================
