------------------------------ MODULE ResultsProofs ------------------------------
(***************************************************************************)
(* Proofs about Results, for any K8sGPT resources, names and contents of   *)
(* Results and any number of changes and faults: type correctness, that    *)
(* the hash in a Result's status is that of its spec, and that a recorded  *)
(* sink was told.                                                          *)
(***************************************************************************)
EXTENDS Results, TLAPS

\* A report on Result n was sent, since the address was last removed.
Told(n) == \E c \in Content : <<n, c>> \in sent

\* What is missing has no status.
AbsentInv == \A n \in Name : result[n].content = None => result[n].hash = None

\* A copy of the informer with the current version is the stored Result.
SyncInv == \A n \in Name : synced[n] => rcache[n] = result[n]

\* The loop that writes Results treats what was found.
LoopInv ==
    /\ pc \in {"process", "status"} => \A n \in todo : rawResults[n] # None
    /\ pc = "status" => item \in todo

\* The copy in hand, if it is current and was not deleted meanwhile, is the
\* stored Result, up to the field the worker is about to write; nobody else
\* writes to Results.
CopyInv ==
    /\ pc = "status" => current /\ copy.content = rawResults[item]
    /\ pc = "webhook" => copy.content # None
    /\ pc \in {"status", "webhook"} /\ CurrentCopy =>
         copy.content = result[item].content /\ copy.hash = result[item].hash

\* The address in a copy that may be written was used. (A stale one may show an
\* address that was removed since.)
UsedInv ==
    /\ WebhookWasUsed
    /\ pc \in {"status", "webhook"} /\ CurrentCopy /\ copy.webhook # "" => Told(item)

IInv == TypeOK /\ AbsentInv /\ SyncInv /\ LoopInv /\ CopyInv /\ HashOfSpec /\ UsedInv
-----------------------------------------------------------------------------
\* A write to one Result, and what it leaves.
LEMMA WriteEffect ==
  ASSUME TypeOK, NEW n \in Name, NEW new \in ResultRec, Write(n, new)
  PROVE  /\ result' \in [Name -> ResultRec] /\ synced' \in [Name -> BOOLEAN]
         /\ result'[n] = new /\ (synced'[n] => synced[n] /\ new = result[n])
         /\ \A m \in Name : m # n => result'[m] = result[m] /\ synced'[m] = synced[m]
  <1>1. result \in [Name -> ResultRec] /\ synced \in [Name -> BOOLEAN]
    BY DEF TypeOK
  <1>2. result' = [result EXCEPT ![n] = new]
        /\ synced' = [synced EXCEPT ![n] = synced[n] /\ new = result[n]]
    BY DEF Write
  <1>3. (synced[n] /\ new = result[n]) \in BOOLEAN
    OBVIOUS
  <1>4. result' \in [Name -> ResultRec] /\ result'[n] = new
        /\ \A m \in Name : m # n => result'[m] = result[m]
    BY <1>1, <1>2
  <1>5. synced' \in [Name -> BOOLEAN] /\ synced'[n] = (synced[n] /\ new = result[n])
        /\ \A m \in Name : m # n => synced'[m] = synced[m]
    BY <1>1, <1>2, <1>3
  <1> QED
    BY <1>4, <1>5

\* The worker's variables have their types.
TypeWorker ==
    /\ pc \in {"idle", "list", "clean", "process", "status", "emit", "webhook"}
    /\ cur \in K8sGPT \cup {None}
    /\ pc # "idle" => cur \in K8sGPT
    /\ sinkEnabled \in BOOLEAN
    /\ rawResults \in Findings
    /\ todo \in SUBSET Name /\ item \in Name \cup {None}
    /\ pc \in {"status", "webhook"} => item \in Name
    /\ copy \in ResultRec /\ current \in BOOLEAN

\* The other variables have theirs.
TypeWorld ==
    /\ alive \in SUBSET K8sGPT /\ sink \in SUBSET K8sGPT
    /\ finding \in [K8sGPT -> Findings]
    /\ changes \in Nat /\ faults \in Nat
TypeStore ==
    /\ result \in [Name -> ResultRec] /\ rcache \in [Name -> ResultRec]
    /\ synced \in [Name -> BOOLEAN]
TypeSent == sent \in SUBSET (Name \X Content)

\* The type invariant, in parts.
LEMMA TypeParts ==
  TypeOK <=> TypeWorker /\ TypeWorld /\ TypeStore /\ TypeSent
  BY DEF TypeOK, TypeWorker, TypeWorld, TypeStore, TypeSent

\* The values the worker starts and ends with.
LEMMA Values ==
  /\ NoResult \in ResultRec /\ NoResult.content = None /\ NoResult.hash = None
  /\ NoResult.webhook = "" /\ NoFindings \in Findings
  <1>1. NoResult \in ResultRec
    BY DEF NoResult, ResultRec
  <1>2. NoResult.content = None /\ NoResult.hash = None /\ NoResult.webhook = ""
    BY DEF NoResult
  <1>3. NoFindings \in Findings
    BY DEF NoFindings, Findings
  <1> QED
    BY <1>1, <1>2, <1>3

\* A reconcile that ends leaves nothing in hand.
LEMMA ReturnType ==
  ASSUME Return
  PROVE  TypeWorker' /\ pc' = "idle"
  BY Values DEF Return, TypeWorker

\* The first write of an update stores a Result.
LEMMA UpdatedType ==
  ASSUME TypeOK, NEW n \in Name, pc # "idle"
  PROVE  [result[n] EXCEPT !.content = rawResults[n], !.label = cur] \in ResultRec
  <1>1. result[n] \in ResultRec /\ rawResults[n] \in Content \cup {None} /\ cur \in K8sGPT
    BY DEF TypeOK, Findings
  <1> QED
    BY <1>1 DEF ResultRec

\* The types hold at the start.
LEMMA TypeInit == Init => TypeOK
  <1> SUFFICES ASSUME Init PROVE TypeOK
    OBVIOUS
  <1> USE DEF Init
  <1>1. TypeWorker
    BY Values DEF TypeWorker
  <1>2. TypeWorld
    BY Values, K8sGPTAssumption DEF TypeWorld
  <1>3. TypeStore
    BY Values DEF TypeStore
  <1>4. TypeSent
    BY DEF TypeSent
  <1> QED
    BY <1>1, <1>2, <1>3, <1>4, TypeParts

\* The clusters and the users.
LEMMA WorldStep ==
  ASSUME TypeOK, [Next]_vars
  PROVE  TypeWorld'
  <1> USE DEF TypeWorld
  <1>a. TypeWorld
    BY TypeParts
  <1>1. ASSUME NEW k \in K8sGPT, NEW n \in Name, ClusterChanges(k, n) PROVE TypeWorld'
    <2>1. PICK c \in Content \cup {None} : finding' = [finding EXCEPT ![k][n] = c]
      BY <1>1 DEF ClusterChanges
    <2>2. [finding[k] EXCEPT ![n] = c] \in Findings
      BY <1>a DEF Findings
    <2>3. finding' \in [K8sGPT -> Findings]
      BY <1>a, <2>1, <2>2
    <2>4. UNCHANGED <<alive, sink, faults>> /\ changes' \in Nat
      BY <1>a, <1>1 DEF ClusterChanges, Change
    <2> QED
      BY <1>a, <2>3, <2>4
  <1>2. ASSUME NEW k \in K8sGPT, ConfigureSink(k) PROVE TypeWorld'
    BY <1>a, <1>2 DEF ConfigureSink, Change
  <1>3. ASSUME NEW k \in K8sGPT, DeleteK8sGPT(k) PROVE TypeWorld'
    BY <1>a, <1>3 DEF DeleteK8sGPT
  <1>4. ASSUME NEW n \in Name, DeleteResult(n) PROVE TypeWorld'
    BY <1>a, <1>4 DEF DeleteResult, Change
  <1>5. CASE CallFails
    BY <1>a, <1>5 DEF CallFails, others
  <1>6. CASE UNCHANGED <<others, faults>>
    BY <1>a, <1>6 DEF others
  <1> QED
    BY <1>1, <1>2, <1>3, <1>4, <1>5, <1>6
       DEF Next, Others, Work, AnalysisSucceeds, CollectGarbage, CacheSync, ListStale, DeleteStale, StartProcess,
           CreateResult, MarkHistorical, UpdateResult, WriteRefused, UpdateStatus, ListLatest,
           Emit, Silent, EmitGone, StoreWebhook, FinishReconcile, vars

\* The Results the worker and the others write.
LEMMA Written ==
  ASSUME TypeOK, [Next]_vars
  PROVE  \/ UNCHANGED <<result, synced>> /\ (UNCHANGED sent \/ \E n \in Name : Emit(n))
         \/ UNCHANGED <<result, sent>> /\ \E n \in Name : CacheSync(n)
         \/ \E n \in Name, new \in ResultRec : Write(n, new)
  <1>a. result \in [Name -> ResultRec] /\ rawResults \in Findings /\ copy \in ResultRec
        /\ (pc # "idle" => cur \in K8sGPT) /\ (pc \in {"status", "webhook"} => item \in Name)
    BY DEF TypeOK
  <1>1. ASSUME NEW n \in Name,
               DeleteResult(n) \/ CollectGarbage(n) \/ DeleteStale(n)
        PROVE  UNCHANGED <<result, synced, sent>> \/ Write(n, NoResult)
    BY <1>1 DEF DeleteResult, CollectGarbage, DeleteStale
  <1>2. ASSUME NEW n \in Name, CreateResult(n)
        PROVE  \E new \in ResultRec : Write(n, new)
    <2>1. [content |-> rawResults[n], label |-> cur, owner |-> cur,
           hash |-> None, life |-> "", webhook |-> ""] \in ResultRec
      BY <1>a, <1>2 DEF CreateResult, ResultRec, Findings
    <2> QED
      BY <1>2, <2>1 DEF CreateResult
  <1>3. ASSUME NEW n \in Name, MarkHistorical(n)
        PROVE  \E new \in ResultRec : Write(n, new)
    <2>1. [result[n] EXCEPT !.life = "historical"] \in ResultRec
      BY <1>a DEF ResultRec
    <2> QED
      BY <1>3, <2>1 DEF MarkHistorical
  <1>4. ASSUME NEW n \in Name, UpdateResult(n)
        PROVE  \E new \in ResultRec : Write(n, new)
    <2>1. [result[n] EXCEPT !.content = rawResults[n], !.label = cur] \in ResultRec
      BY <1>4, UpdatedType DEF UpdateResult
    <2> QED
      BY <1>4, <2>1 DEF UpdateResult
  <1>5. CASE UpdateStatus
    <2>1. item \in Name
      BY <1>a, <1>5 DEF UpdateStatus
    <2>2. [copy EXCEPT !.life = "updated", !.hash = rawResults[item]] \in ResultRec
      BY <1>a, <2>1 DEF ResultRec, Findings
    <2> QED
      BY <1>5, <2>1, <2>2 DEF UpdateStatus, StoreStatus
  <1>6. CASE StoreWebhook
    BY <1>a, <1>6 DEF StoreWebhook, StoreStatus
  <1>7. CASE UNCHANGED <<result, synced>> /\ (UNCHANGED sent \/ \E n \in Name : Emit(n))
    BY <1>7
  <1>8. ASSUME NEW n \in Name, CacheSync(n)
        PROVE  UNCHANGED <<result, sent>> /\ \E m \in Name : CacheSync(m)
    BY <1>8 DEF CacheSync
  <1> QED
    BY <1>1, <1>2, <1>3, <1>4, <1>5, <1>6, <1>7, <1>8, Values
       DEF Next, Others, Work, ClusterChanges, ConfigureSink, DeleteK8sGPT, store,
           AnalysisSucceeds, ListStale, StartProcess, WriteRefused, ListLatest,
           Emit, Silent, EmitGone, FinishReconcile, CallFails, vars

\* The informer only changes when it catches up.
LEMMA CacheStep ==
  ASSUME [Next]_vars
  PROVE  \/ UNCHANGED rcache
         \/ \E n \in Name : CacheSync(n)
  BY DEF Next, Others, Work, ClusterChanges, ConfigureSink, DeleteK8sGPT, DeleteResult, Change,
         CollectGarbage, store, AnalysisSucceeds, ListStale, DeleteStale,
         StartProcess, CreateResult, MarkHistorical, UpdateResult, WriteRefused, UpdateStatus,
         ListLatest, Emit, Silent, EmitGone, StoreWebhook, FinishReconcile, CallFails,
         vars

\* The API server and the informer.
LEMMA StoreStep ==
  ASSUME TypeOK, [Next]_vars
  PROVE  TypeStore'
  <1> USE DEF TypeStore
  <1>a. TypeStore
    BY TypeParts
  <1>1. ASSUME NEW n \in Name, CacheSync(n)
        PROVE  rcache' \in [Name -> ResultRec] /\ synced' \in [Name -> BOOLEAN]
    BY <1>a, <1>1 DEF CacheSync
  <1>2. rcache' \in [Name -> ResultRec]
    BY <1>a, <1>1, CacheStep
  <1>3. result' \in [Name -> ResultRec] /\ synced' \in [Name -> BOOLEAN]
    BY <1>a, <1>1, Written, WriteEffect
  <1> QED
    BY <1>2, <1>3

\* Only what exists is reported, so only findings are.
LEMMA SentStep ==
  ASSUME TypeOK, [Next]_vars
  PROVE  TypeSent'
  <1> USE DEF TypeSent
  <1>a. TypeSent /\ rcache \in [Name -> ResultRec]
    BY TypeParts DEF TypeStore
  <1>1. ASSUME NEW n \in Name, Emit(n) PROVE TypeSent'
    <2>1. rcache[n].content \in Content
      BY <1>a, <1>1 DEF Emit, Gone, ResultRec
    <2> QED
      BY <1>a, <1>1, <2>1 DEF Emit
  <1>2. ASSUME NEW n \in Name, NEW new, Write(n, new) PROVE TypeSent'
    BY <1>a, <1>2 DEF Write
  <1> QED
    BY <1>a, <1>1, <1>2, Written

\* The worker.
LEMMA WorkerStep ==
  ASSUME TypeOK, [Next]_vars
  PROVE  TypeWorker'
  <1>a. TypeWorker /\ TypeStore /\ TypeWorld
    BY TypeParts
  <1> USE DEF TypeWorker
  <1>1. ASSUME NEW k \in K8sGPT, AnalysisSucceeds(k) PROVE TypeWorker'
    <2>1. finding[k] \in Findings /\ SinkEnabled(k) \in BOOLEAN
      BY <1>a DEF TypeWorld, SinkEnabled
    <2> QED
      BY <1>a, <1>1, <2>1 DEF AnalysisSucceeds
  <1>2. CASE ListStale \/ StartProcess
    BY <1>a, <1>2 DEF ListStale, StartProcess, Labelled
  <1>3. ASSUME NEW n \in Name, DeleteStale(n) \/ CreateResult(n) \/ MarkHistorical(n)
        PROVE  TypeWorker'
    BY <1>a, <1>3, ReturnType DEF DeleteStale, CreateResult, MarkHistorical, Done
  <1>4. ASSUME NEW n \in Name, UpdateResult(n) PROVE TypeWorker'
    <2>1. [result[n] EXCEPT !.content = rawResults[n], !.label = cur] \in ResultRec
      BY <1>4, UpdatedType DEF UpdateResult
    <2> QED
      BY <1>a, <1>4, <2>1 DEF UpdateResult
  <1>5. ASSUME NEW m, NEW label \in {"process", "emit"}, StoreStatus(m, label), pc # "idle"
        PROVE  TypeWorker'
    BY <1>a, <1>5, ReturnType, Values DEF StoreStatus
  <1>6. CASE UpdateStatus \/ StoreWebhook
    BY <1>5, <1>6 DEF UpdateStatus, StoreWebhook
  <1>7. CASE ListLatest
    BY <1>a, <1>7, ReturnType DEF ListLatest, Labelled
  <1>8. ASSUME NEW n \in Name, Emit(n) PROVE TypeWorker'
    <2>1. [rcache[n] EXCEPT !.webhook = Endpoint] \in ResultRec /\ synced[n] \in BOOLEAN
      BY <1>a, EndpointAssumption DEF ResultRec, TypeStore
    <2> QED
      BY <1>a, <1>8, <2>1 DEF Emit
  <1>9. ASSUME NEW n \in Name, Silent(n) PROVE TypeWorker'
    <2>1. [rcache[n] EXCEPT !.webhook = WebhookOf(rcache[n])] \in ResultRec
          /\ synced[n] \in BOOLEAN
      BY <1>a DEF ResultRec, TypeStore, WebhookOf
    <2> QED
      BY <1>a, <1>9, <2>1 DEF Silent
  <1>10. CASE Return
    BY <1>10, ReturnType
  <1>11. CASE UNCHANGED worker
    BY <1>a, <1>11 DEF worker
  <1> QED
    BY <1>1, <1>2, <1>3, <1>4, <1>6, <1>7, <1>8, <1>9, <1>10, <1>11
       DEF Next, Others, Work, ClusterChanges, ConfigureSink, DeleteK8sGPT, DeleteResult, Change,
           CollectGarbage, CacheSync, WriteRefused, EmitGone, FinishReconcile,
           CallFails, vars

\* Every step keeps the types.
LEMMA TypeStep ==
  ASSUME TypeOK, [Next]_vars
  PROVE  TypeOK'
  <1>1. TypeWorker' /\ TypeWorld' /\ TypeStore' /\ TypeSent'
    BY WorkerStep, WorldStep, StoreStep, SentStep
  <1> QED
    BY <1>1 DEF TypeOK, TypeWorker, TypeWorld, TypeStore, TypeSent
-----------------------------------------------------------------------------
\* Whoever is not the worker does no more to Results than delete them.
OnlyDeletes == \A n \in Name : result'[n] = result[n] \/ result'[n] = NoResult

\* The worker turns to other Results.
Turns ==
    \/ \E k \in K8sGPT : AnalysisSucceeds(k)
    \/ ListStale \/ StartProcess \/ ListLatest

\* The worker treats Result n of the loop.
Treats(n) ==
    \/ DeleteStale(n) \/ CreateResult(n) \/ MarkHistorical(n) \/ UpdateResult(n)
    \/ Emit(n) \/ Silent(n)

\* The steps by what they do to Results and to the worker's copy. A reconcile
\* that is cut short between the two writes of an update is one with a fault.
LEMMA Cases ==
  ASSUME TypeOK, [Next]_vars
  PROVE  \/ UNCHANGED worker /\ OnlyDeletes
         \/ Return /\ UNCHANGED result /\ (pc = "status" => faults' # 0)
         \/ Turns
         \/ \E n \in Name : Treats(n)
         \/ UpdateStatus \/ StoreWebhook
  <1>1. ASSUME NEW n \in Name, DeleteResult(n) \/ CollectGarbage(n)
        PROVE  UNCHANGED worker /\ OnlyDeletes
    <2>1. Write(n, NoResult) /\ UNCHANGED worker
      BY <1>1 DEF DeleteResult, CollectGarbage, Change
    <2> QED
      BY <2>1, WriteEffect, Values DEF OnlyDeletes
  <1>2. ASSUME NEW n \in Name, CacheSync(n)
        PROVE  UNCHANGED worker /\ OnlyDeletes
    BY <1>2 DEF CacheSync, OnlyDeletes
  <1>3. ASSUME NEW k \in K8sGPT,
               \/ \E n \in Name : ClusterChanges(k, n)
               \/ ConfigureSink(k) \/ DeleteK8sGPT(k)
        PROVE  UNCHANGED worker /\ OnlyDeletes
    BY <1>3 DEF ClusterChanges, ConfigureSink, DeleteK8sGPT, Change, store, OnlyDeletes
  <1>4. CASE CallFails
    <2>1. faults \in Nat /\ faults' = faults + 1
      BY <1>4 DEF CallFails, TypeOK
    <2>2. faults' # 0
      BY <2>1
    <2> QED
      BY <1>4, <2>2 DEF CallFails, store
  <1>5. CASE FinishReconcile \/ \E n \in Name : WriteRefused(n) \/ EmitGone(n)
    BY <1>5 DEF FinishReconcile, WriteRefused, EmitGone, store
  <1>6. CASE UNCHANGED vars
    BY <1>6 DEF vars, store, OnlyDeletes
  <1> QED
    BY <1>1, <1>2, <1>3, <1>4, <1>5, <1>6 DEF Next, Others, Work, Turns, Treats

\* Faults are not undone.
LEMMA FaultsStay ==
  ASSUME TypeOK, [Next]_vars, faults' = 0
  PROVE  faults = 0
  <1>1. faults' = faults \/ faults' = faults + 1
    BY DEF Next, Others, Work, ClusterChanges, ConfigureSink, DeleteK8sGPT, DeleteResult, Change,
           CollectGarbage, CacheSync, AnalysisSucceeds, ListStale, DeleteStale, StartProcess,
           CreateResult, MarkHistorical, UpdateResult, WriteRefused, UpdateStatus, ListLatest,
           Emit, Silent, EmitGone, StoreWebhook, FinishReconcile, CallFails, vars
  <1> QED
    BY <1>1 DEF TypeOK

\* The informer's current copies stay the stored ones.
LEMMA SyncStep ==
  ASSUME TypeOK, SyncInv, [Next]_vars
  PROVE  SyncInv'
  <1>a. TypeStore
    BY TypeParts
  <1> USE DEF TypeStore, SyncInv
  <1>1. ASSUME NEW m \in Name, CacheSync(m) PROVE SyncInv'
    BY <1>a, <1>1 DEF CacheSync
  <1>2. ASSUME NEW m \in Name, NEW new \in ResultRec, Write(m, new), UNCHANGED rcache
        PROVE  SyncInv'
    <2>1. /\ result'[m] = new /\ (synced'[m] => synced[m] /\ new = result[m])
          /\ \A n \in Name : n # m => result'[n] = result[n] /\ synced'[n] = synced[n]
      BY <1>2, WriteEffect
    <2> QED
      BY <1>2, <2>1
  <1>3. CASE UNCHANGED <<result, synced, rcache>>
    BY <1>3
  <1> QED
    BY <1>1, <1>2, <1>3, CacheStep, Written

\* What a step does to the stored Results and to the copy in hand, when the
\* worker treats Result n.
LEMMA TreatsEffect ==
  ASSUME TypeOK, SyncInv, LoopInv, NEW n \in Name, Treats(n)
  PROVE  /\ \A m \in Name : m # n => result'[m] = result[m]
         /\ \/ result'[n] = result[n]
            \/ result'[n].content = None /\ result'[n].hash = None /\ result'[n].webhook = ""
            \/ /\ pc' # "status" /\ result'[n].hash = None /\ result'[n].webhook = ""
            \/ /\ pc' # "status"
               /\ result'[n].content = result[n].content /\ result'[n].hash = result[n].hash
               /\ result'[n].webhook = result[n].webhook
            \/ UpdateResult(n)
  <1>a. result \in [Name -> ResultRec] /\ rawResults \in Findings /\ (pc # "idle" => cur \in K8sGPT)
    BY DEF TypeOK
  <1>1. CASE DeleteStale(n)
    BY <1>1, WriteEffect, Values DEF DeleteStale
  <1>2. CASE CreateResult(n)
    <2> DEFINE new == [content |-> rawResults[n], label |-> cur, owner |-> cur,
                       hash |-> None, life |-> "", webhook |-> ""]
    <2>1. new \in ResultRec
      BY <1>a, <1>2 DEF CreateResult, ResultRec, Findings
    <2>2. new.hash = None /\ new.webhook = ""
      OBVIOUS
    <2>3. Write(n, new) /\ pc' = "process"
      BY <1>2 DEF CreateResult, Done
    <2> HIDE DEF new
    <2> QED
      BY <2>1, <2>2, <2>3, WriteEffect
  <1>3. CASE MarkHistorical(n)
    <2> DEFINE new == [result[n] EXCEPT !.life = "historical"]
    <2>1. new \in ResultRec /\ new.content = result[n].content /\ new.hash = result[n].hash
          /\ new.webhook = result[n].webhook
      BY <1>a DEF ResultRec
    <2>2. Write(n, new) /\ pc' = "process"
      BY <1>3 DEF MarkHistorical, Done
    <2> HIDE DEF new
    <2> QED
      BY <2>1, <2>2, WriteEffect
  <1>4. CASE UpdateResult(n)
    <2>1. [result[n] EXCEPT !.content = rawResults[n], !.label = cur] \in ResultRec
      BY <1>4, UpdatedType DEF UpdateResult
    <2> QED
      BY <1>4, <2>1, WriteEffect DEF UpdateResult
  <1>5. CASE Emit(n) \/ Silent(n)
    BY <1>5 DEF Emit, Silent, store
  <1> QED
    BY <1>1, <1>2, <1>3, <1>4, <1>5 DEF Treats

\* The first write of an update, and the copy it leaves in hand.
LEMMA UpdateEffect ==
  ASSUME TypeOK, LoopInv, NEW n \in Name, UpdateResult(n)
  PROVE  /\ \A m \in Name : m # n => result'[m] = result[m]
         /\ result'[n].content = rawResults[n] /\ rawResults[n] # None
         /\ result'[n].hash = result[n].hash /\ result'[n].webhook = result[n].webhook
         /\ pc' = "status" /\ item' = n /\ copy' = result'[n] /\ current'
         /\ n \in todo /\ UNCHANGED <<rawResults, todo>>
  <1>a. result \in [Name -> ResultRec] /\ rawResults \in Findings /\ (pc # "idle" => cur \in K8sGPT)
    BY DEF TypeOK
  <1> DEFINE new == [result[n] EXCEPT !.content = rawResults[n], !.label = cur]
  <1>1. new \in ResultRec
    BY UpdatedType DEF UpdateResult
  <1>2. new.content = rawResults[n] /\ new.hash = result[n].hash /\ new.webhook = result[n].webhook
    BY <1>a DEF ResultRec
  <1>3. Write(n, new) /\ copy' = new
    BY DEF UpdateResult
  <1>4. /\ pc = "process" /\ n \in todo /\ pc' = "status" /\ item' = n /\ current'
        /\ UNCHANGED <<rawResults, todo>>
    BY DEF UpdateResult
  <1>5. rawResults[n] # None
    BY <1>4 DEF LoopInv
  <1> HIDE DEF new
  <1>6. result'[n] = new /\ \A m \in Name : m # n => result'[m] = result[m]
    BY <1>1, <1>3, WriteEffect
  <1> QED
    BY <1>2, <1>3, <1>4, <1>5, <1>6

\* The second write of an update: it is refused when the Result is gone.
LEMMA StatusEffect ==
  ASSUME TypeOK, UpdateStatus
  PROVE  /\ pc = "status" /\ item \in Name
         /\ \/ /\ CurrentCopy
               /\ \A m \in Name : m # item => result'[m] = result[m]
               /\ result'[item].content = copy.content /\ result'[item].hash = rawResults[item]
               /\ result'[item].webhook = copy.webhook
               /\ pc' = "process" /\ todo' = todo \ {item} /\ UNCHANGED rawResults
            \/ ~ CurrentCopy /\ Return /\ UNCHANGED result
  <1>a. /\ rawResults \in Findings /\ copy \in ResultRec
        /\ pc \in {"status", "webhook"} => item \in Name
    BY DEF TypeOK
  <1> DEFINE new == [copy EXCEPT !.life = "updated", !.hash = rawResults[item]]
  <1>1. pc = "status" /\ StoreStatus(new, "process")
    BY DEF UpdateStatus
  <1>2. item \in Name
    BY <1>a, <1>1
  <1>3. new \in ResultRec
    BY <1>a, <1>2 DEF ResultRec, Findings
  <1>4. new.content = copy.content /\ new.hash = rawResults[item] /\ new.webhook = copy.webhook
    BY <1>a DEF ResultRec
  <1> HIDE DEF new
  <1>5. CASE CurrentCopy
    <2>1. Write(item, new) /\ pc' = "process" /\ todo' = todo \ {item} /\ UNCHANGED rawResults
      BY <1>1, <1>5 DEF StoreStatus
    <2>2. result'[item] = new /\ \A m \in Name : m # item => result'[m] = result[m]
      BY <1>2, <1>3, <2>1, WriteEffect
    <2> QED
      BY <1>1, <1>2, <1>4, <1>5, <2>1, <2>2
  <1>6. CASE ~ CurrentCopy
    BY <1>1, <1>2, <1>6 DEF StoreStatus
  <1> QED
    BY <1>5, <1>6

\* The status written after a report, or after none: likewise.
LEMMA WebhookEffect ==
  ASSUME TypeOK, StoreWebhook
  PROVE  /\ pc = "webhook" /\ item \in Name
         /\ \/ /\ CurrentCopy
               /\ \A m \in Name : m # item => result'[m] = result[m]
               /\ result'[item] = copy /\ pc' = "emit"
            \/ ~ CurrentCopy /\ Return /\ UNCHANGED result
  <1>a. copy \in ResultRec /\ (pc \in {"status", "webhook"} => item \in Name)
    BY DEF TypeOK
  <1>1. pc = "webhook" /\ StoreStatus(copy, "emit")
    BY DEF StoreWebhook
  <1>2. item \in Name
    BY <1>a, <1>1
  <1>3. CASE CurrentCopy
    <2>1. Write(item, copy) /\ pc' = "emit"
      BY <1>1, <1>3 DEF StoreStatus
    <2> QED
      BY <1>a, <1>1, <1>2, <1>3, <2>1, WriteEffect
  <1>4. CASE ~ CurrentCopy
    BY <1>1, <1>2, <1>4 DEF StoreStatus
  <1> QED
    BY <1>3, <1>4

\* A report, or the decision that there is none to make: a copy is taken.
LEMMA CopyTaken ==
  ASSUME TypeOK, NEW n \in Name, Emit(n) \/ Silent(n)
  PROVE  /\ pc' = "webhook" /\ item' = n /\ current' = synced[n] /\ UNCHANGED result
         /\ copy'.content = rcache[n].content /\ copy'.content # None
         /\ copy'.hash = rcache[n].hash
         /\ Emit(n) \/ copy'.webhook \in {"", rcache[n].webhook}
  <1>a. rcache[n] \in ResultRec
    BY DEF TypeOK
  <1>1. \E w \in {"", "url"} : copy' = [rcache[n] EXCEPT !.webhook = w]
                               /\ (Emit(n) \/ w \in {"", rcache[n].webhook})
    BY <1>a, EndpointAssumption DEF Emit, Silent, WebhookOf, ResultRec
  <1>2. rcache[n].content # None
    BY DEF Emit, Silent, Gone
  <1> QED
    BY <1>a, <1>1, <1>2 DEF ResultRec, Emit, Silent, store
-----------------------------------------------------------------------------
\* What is missing keeps having no status: a status is only written to what
\* exists.
LEMMA AbsentStep ==
  ASSUME IInv, [Next]_vars
  PROVE  AbsentInv'
  <1>a. TypeOK /\ AbsentInv /\ SyncInv /\ LoopInv /\ CopyInv
    BY DEF IInv
  <1> USE DEF AbsentInv
  <1>1. CASE OnlyDeletes \/ UNCHANGED result
    BY <1>a, <1>1, Values DEF OnlyDeletes
  <1>2. CASE Turns
    BY <1>a, <1>2 DEF Turns, AnalysisSucceeds, ListStale, StartProcess, ListLatest, store
  <1>3. ASSUME NEW n \in Name, Treats(n) PROVE AbsentInv'
    <2>1. CASE UpdateResult(n)
      BY <1>a, <2>1, UpdateEffect
    <2>2. CASE ~ UpdateResult(n)
      BY <1>a, <1>3, <2>2, TreatsEffect
    <2> QED
      BY <2>1, <2>2
  <1>4. CASE UpdateStatus
    <2>1. pc = "status" /\ rawResults[item] # None /\ copy.content = rawResults[item]
      BY <1>a, <1>4, StatusEffect DEF LoopInv, CopyInv
    <2> QED
      BY <1>a, <1>4, <2>1, StatusEffect
  <1>5. CASE StoreWebhook
    <2>1. copy.content # None
      BY <1>a, <1>5, WebhookEffect DEF CopyInv
    <2> QED
      BY <1>a, <1>5, <2>1, WebhookEffect
  <1> QED
    BY <1>a, <1>1, <1>2, <1>3, <1>4, <1>5, Cases

\* The loop that writes goes on treating what was found.
LEMMA LoopStep ==
  ASSUME IInv, [Next]_vars
  PROVE  LoopInv'
  <1>a. TypeOK /\ LoopInv
    BY DEF IInv
  <1> USE DEF LoopInv
  <1>1. CASE UNCHANGED worker
    BY <1>a, <1>1 DEF worker
  <1>2. CASE Return
    BY <1>2 DEF Return
  <1>3. CASE Turns
    BY <1>3 DEF Turns, AnalysisSucceeds, ListStale, StartProcess, ListLatest, Return
  <1>4. ASSUME NEW n \in Name, Treats(n) PROVE LoopInv'
    BY <1>a, <1>4 DEF Treats, DeleteStale, CreateResult, MarkHistorical, UpdateResult, Emit,
                      Silent, Done, Return
  <1>5. CASE UpdateStatus
    BY <1>a, <1>2, <1>5, StatusEffect
  <1>6. CASE StoreWebhook
    BY <1>a, <1>2, <1>6, WebhookEffect
  <1> QED
    BY <1>a, <1>1, <1>2, <1>3, <1>4, <1>5, <1>6, Cases

\* A current copy stays one until it is written, or until its Result is gone.
LEMMA CopyStep ==
  ASSUME IInv, [Next]_vars
  PROVE  CopyInv'
  <1>a. TypeOK /\ SyncInv /\ LoopInv /\ CopyInv
    BY DEF IInv
  <1>b. pc \in {"status", "webhook"} => item \in Name
    BY <1>a DEF TypeOK
  <1>c. ASSUME pc' \notin {"status", "webhook"} PROVE CopyInv'
    BY <1>c DEF CopyInv
  <1>1. CASE UNCHANGED worker /\ OnlyDeletes
    <2>1. UNCHANGED <<pc, item, copy, current, rawResults>>
      BY <1>1 DEF worker
    <2>2. ASSUME pc \in {"status", "webhook"}, CurrentCopy'
          PROVE  CurrentCopy /\ result'[item] = result[item]
      BY <1>1, <1>b, <2>1, <2>2, Values DEF OnlyDeletes, CurrentCopy
    <2> QED
      BY <1>a, <2>1, <2>2 DEF CopyInv
  <1>2. CASE Return
    BY <1>2, <1>c DEF Return
  <1>3. CASE Turns
    BY <1>3, <1>c DEF Turns, AnalysisSucceeds, ListStale, StartProcess, ListLatest, Return
  <1>4. ASSUME NEW n \in Name, Treats(n) PROVE CopyInv'
    <2>1. CASE UpdateResult(n)
      BY <1>a, <2>1, UpdateEffect DEF CopyInv
    <2>2. CASE Emit(n) \/ Silent(n)
      <3>1. synced[n] => rcache[n] = result[n]
        BY <1>a DEF SyncInv
      <3>2. pc' = "webhook" /\ item' = n /\ current' = synced[n] /\ UNCHANGED result
            /\ copy'.content = rcache[n].content /\ copy'.content # None
            /\ copy'.hash = rcache[n].hash
        BY <1>a, <2>2, CopyTaken
      <3> QED
        BY <3>1, <3>2 DEF CopyInv, CurrentCopy
    <2>3. CASE DeleteStale(n) \/ CreateResult(n) \/ MarkHistorical(n)
      BY <1>c, <2>3 DEF DeleteStale, CreateResult, MarkHistorical, Done, Return
    <2> QED
      BY <1>4, <2>1, <2>2, <2>3 DEF Treats
  <1>5. CASE UpdateStatus
    BY <1>a, <1>2, <1>c, <1>5, StatusEffect
  <1>6. CASE StoreWebhook
    BY <1>a, <1>2, <1>c, <1>6, WebhookEffect
  <1> QED
    BY <1>a, <1>1, <1>2, <1>3, <1>4, <1>5, <1>6, Cases

\* The hash stays that of the spec: a Result in the middle of an update leaves
\* it only with its status written, deleted, or through a fault.
LEMMA HashStep ==
  ASSUME IInv, [Next]_vars
  PROVE  HashOfSpec'
  <1> SUFFICES ASSUME faults' = 0, NEW m \in Name
               PROVE  \/ result'[m].hash \in {None, result'[m].content}
                      \/ pc' = "status" /\ item' = m
    BY DEF HashOfSpec
  <1>a. TypeOK /\ AbsentInv /\ SyncInv /\ LoopInv /\ CopyInv
    BY DEF IInv
  <1>b. result[m].hash \in {None, result[m].content} \/ (pc = "status" /\ item = m)
    BY <1>a, FaultsStay DEF IInv, HashOfSpec
  <1>1. CASE UNCHANGED worker /\ OnlyDeletes
    BY <1>b, <1>1, Values DEF worker, OnlyDeletes
  <1>2. CASE Return /\ UNCHANGED result /\ (pc = "status" => faults' # 0)
    BY <1>b, <1>2
  <1>3. CASE Turns
    BY <1>b, <1>3 DEF Turns, AnalysisSucceeds, ListStale, StartProcess, ListLatest, store
  <1>4. ASSUME NEW n \in Name, Treats(n)
        PROVE  \/ result'[m].hash \in {None, result'[m].content}
               \/ pc' = "status" /\ item' = m
    <2>1. pc # "status"
      BY <1>4 DEF Treats, DeleteStale, CreateResult, MarkHistorical, UpdateResult, Emit, Silent
    <2>2. CASE UpdateResult(n)
      BY <1>a, <1>b, <2>1, <2>2, UpdateEffect
    <2>3. CASE ~ UpdateResult(n)
      BY <1>a, <1>b, <1>4, <2>1, <2>3, TreatsEffect
    <2> QED
      BY <2>2, <2>3
  <1>5. CASE UpdateStatus
    <2>1. pc = "status" /\ current /\ copy.content = rawResults[item] /\ item \in Name
      BY <1>a, <1>5, StatusEffect DEF CopyInv
    <2>2. CASE CurrentCopy
      BY <1>a, <1>b, <1>5, <2>1, <2>2, StatusEffect
    <2>3. CASE ~ CurrentCopy
      <3>1. result[item].content = None /\ UNCHANGED result
        BY <1>a, <1>5, <2>1, <2>3, StatusEffect DEF CurrentCopy
      <3>2. result[item].hash = None
        BY <1>a, <2>1, <3>1 DEF AbsentInv
      <3> QED
        BY <1>b, <3>1, <3>2
    <2> QED
      BY <2>2, <2>3
  <1>6. CASE StoreWebhook
    <2>1. pc = "webhook"
      BY <1>a, <1>6, WebhookEffect
    <2>2. CurrentCopy => copy.content = result[item].content /\ copy.hash = result[item].hash
      BY <1>a, <2>1 DEF CopyInv
    <2> QED
      BY <1>a, <1>b, <1>6, <2>1, <2>2, WebhookEffect
  <1> QED
    BY <1>a, <1>1, <1>2, <1>3, <1>4, <1>5, <1>6, Cases

\* Reports are not taken back, until the address is removed.
LEMMA SentStays ==
  ASSUME TypeOK, [Next]_vars, NEW m \in Name, Told(m)
  PROVE  Told(m)' \/ (result[m].webhook # "" /\ result'[m].webhook = "")
  <1>1. PICK c \in Content : <<m, c>> \in sent
    BY DEF Told
  <1> SUFFICES <<m, c>> \in sent' \/ (result[m].webhook # "" /\ result'[m].webhook = "")
    BY DEF Told
  <1>2. ASSUME NEW n \in Name, Emit(n) PROVE <<m, c>> \in sent'
    BY <1>1, <1>2 DEF Emit
  <1>3. ASSUME NEW n \in Name, NEW new \in ResultRec, Write(n, new)
        PROVE  <<m, c>> \in sent' \/ (result[m].webhook # "" /\ result'[m].webhook = "")
    <2>1. result'[n] = new
      BY <1>3, WriteEffect
    <2>2. sent' = sent \/ (/\ result[n].webhook # "" /\ new.webhook = ""
                          /\ sent' = {s \in sent : s[1] # n})
      BY <1>3 DEF Write
    <2>3. CASE m = n
      BY <1>1, <2>1, <2>2, <2>3
    <2>4. CASE m # n
      BY <1>1, <2>2, <2>4
    <2> QED
      BY <2>3, <2>4
  <1> QED
    BY <1>1, <1>2, <1>3, Written

\* An address that is written, to the store or to the copy in hand, comes from
\* the current one or from a report.
LEMMA UsedStep ==
  ASSUME IInv, [Next]_vars
  PROVE  UsedInv'
  <1>a. TypeOK /\ SyncInv /\ LoopInv /\ UsedInv
    BY DEF IInv
  <1>b. pc \in {"status", "webhook"} => item \in Name
    BY <1>a DEF TypeOK
  <1>t. \A n \in Name : Told(n) /\ ~ Told(n)' => result[n].webhook # "" /\ result'[n].webhook = ""
    BY <1>a, SentStays
  <1>u. /\ \A n \in Name : result[n].webhook # "" => Told(n)
        /\ pc \in {"status", "webhook"} /\ CurrentCopy /\ copy.webhook # "" => Told(item)
    BY <1>a DEF UsedInv, WebhookWasUsed, Told
  <1>v. ASSUME NEW n \in Name, result'[n].webhook = result[n].webhook, result[n].webhook # ""
        PROVE  Told(n)'
    BY <1>t, <1>u, <1>v
  <1> SUFFICES /\ \A n \in Name : result'[n].webhook # "" => Told(n)'
               /\ pc' \in {"status", "webhook"} /\ CurrentCopy' /\ copy'.webhook # "" => Told(item)'
    BY DEF UsedInv, WebhookWasUsed, Told
  <1>1. CASE UNCHANGED worker /\ OnlyDeletes
    <2>1. \A n \in Name : result'[n].webhook # "" => Told(n)'
      BY <1>v, <1>1, Values DEF OnlyDeletes
    <2>2. UNCHANGED <<pc, item, copy, current>>
      BY <1>1 DEF worker
    <2>3. ASSUME pc' \in {"status", "webhook"}, CurrentCopy', copy'.webhook # ""
          PROVE  Told(item)'
      <3>1. item \in Name /\ result'[item] = result[item]
        BY <1>1, <1>b, <2>2, <2>3, Values DEF OnlyDeletes, CurrentCopy
      <3>2. Told(item)
        BY <1>u, <2>2, <2>3, <3>1 DEF CurrentCopy
      <3>3. \E n \in Name : n = item /\ Told(n)'
        BY <1>t, <3>1, <3>2
      <3>4. \E n \in Name : n = item' /\ Told(n)'
        BY <2>2, <3>3
      <3> QED
        BY <3>4 DEF Told
    <2> QED
      BY <2>1, <2>3
  <1>2. CASE Return /\ UNCHANGED result
    BY <1>v, <1>2 DEF Return
  <1>3. CASE Turns
    BY <1>v, <1>3
       DEF Turns, AnalysisSucceeds, ListStale, StartProcess, ListLatest, store, Return
  <1>4. ASSUME NEW n \in Name, Treats(n)
        PROVE  /\ \A m \in Name : result'[m].webhook # "" => Told(m)'
               /\ pc' \in {"status", "webhook"} /\ CurrentCopy' /\ copy'.webhook # ""
                    => Told(item)'
    <2>1. CASE UpdateResult(n)
      <3>1. \A m \in Name : result'[m].webhook = result[m].webhook
        BY <1>a, <2>1, UpdateEffect
      <3>2. item' = n /\ copy'.webhook = result[n].webhook
        BY <1>a, <2>1, UpdateEffect
      <3>3. copy'.webhook # "" => Told(n)'
        BY <1>v, <3>1, <3>2
      <3> QED
        BY <1>v, <3>1, <3>2, <3>3 DEF Told
    <2>2. CASE Emit(n)
      <3>1. Told(n)'
        <4>1. rcache[n].content \in Content
          BY <1>a, <2>2 DEF Emit, Gone, TypeOK, ResultRec
        <4> QED
          BY <2>2, <4>1 DEF Emit, Told
      <3>2. item' = n /\ UNCHANGED result
        BY <1>a, <2>2, CopyTaken
      <3> QED
        BY <1>v, <3>1, <3>2 DEF Told
    <2>3. CASE Silent(n) /\ ~ Emit(n)
      <3>1. /\ item' = n /\ UNCHANGED result /\ current' = synced[n]
            /\ copy'.webhook \in {"", rcache[n].webhook}
        BY <1>a, <2>3, CopyTaken
      <3>2. synced[n] => rcache[n] = result[n]
        BY <1>a DEF SyncInv
      <3>3. CurrentCopy' /\ copy'.webhook # "" => Told(n)'
        BY <1>v, <3>1, <3>2 DEF CurrentCopy
      <3> QED
        BY <1>v, <3>1, <3>3 DEF Told
    <2>4. CASE DeleteStale(n) \/ CreateResult(n) \/ MarkHistorical(n)
      <3>1. pc' \notin {"status", "webhook"} /\ pc \in {"clean", "process"}
        BY <2>4 DEF DeleteStale, CreateResult, MarkHistorical, Done, Return
      <3>2. ~ UpdateResult(n)
        BY <3>1 DEF UpdateResult
      <3> QED
        BY <1>a, <1>v, <1>4, <3>1, <3>2, TreatsEffect
    <2> QED
      BY <1>4, <2>1, <2>2, <2>3, <2>4 DEF Treats
  <1>5. CASE UpdateStatus
    <2>1. /\ pc = "status" /\ item \in Name
          /\ CurrentCopy /\ copy.webhook # "" => Told(item)
      BY <1>a, <1>5, <1>u, StatusEffect
    <2>2. CASE CurrentCopy
      <3>1. /\ \A m \in Name : m # item => result'[m] = result[m]
            /\ result'[item].webhook = copy.webhook /\ pc' = "process"
        BY <1>a, <1>5, <2>2, StatusEffect
      <3>2. result'[item].webhook # "" => \E m \in Name : m = item /\ Told(m)'
        BY <1>t, <2>1, <2>2, <3>1
      <3> QED
        BY <1>v, <2>1, <3>1, <3>2
    <2>3. CASE ~ CurrentCopy
      BY <1>a, <1>2, <1>5, <2>3, StatusEffect
    <2> QED
      BY <2>2, <2>3
  <1>6. CASE StoreWebhook
    <2>1. /\ pc = "webhook" /\ item \in Name
          /\ CurrentCopy /\ copy.webhook # "" => Told(item)
      BY <1>a, <1>6, <1>u, WebhookEffect
    <2>2. CASE CurrentCopy
      <3>1. /\ \A m \in Name : m # item => result'[m] = result[m]
            /\ result'[item] = copy /\ pc' = "emit"
        BY <1>a, <1>6, <2>2, WebhookEffect
      <3>2. result'[item].webhook # "" => \E m \in Name : m = item /\ Told(m)'
        BY <1>t, <2>1, <2>2, <3>1
      <3> QED
        BY <1>v, <2>1, <3>1, <3>2
    <2>3. CASE ~ CurrentCopy
      BY <1>a, <1>2, <1>6, <2>3, WebhookEffect
    <2> QED
      BY <2>2, <2>3
  <1> QED
    BY <1>a, <1>1, <1>2, <1>3, <1>4, <1>5, <1>6, Cases
-----------------------------------------------------------------------------
\* The invariant holds at the start, with no Result and nothing sent.
LEMMA InvariantInit == Init => IInv
  <1> SUFFICES ASSUME Init PROVE IInv
    OBVIOUS
  <1>1. TypeOK
    BY TypeInit
  <1>2. pc = "idle" /\ \A n \in Name : result[n] = NoResult /\ rcache[n] = NoResult
    BY DEF Init
  <1>3. AbsentInv /\ SyncInv /\ HashOfSpec
    BY <1>2, Values DEF AbsentInv, SyncInv, HashOfSpec
  <1>4. LoopInv /\ CopyInv
    BY <1>2 DEF LoopInv, CopyInv
  <1>5. UsedInv
    BY <1>2, Values DEF UsedInv, WebhookWasUsed
  <1> QED
    BY <1>1, <1>3, <1>4, <1>5 DEF IInv

\* The invariant from which the theorems follow: the Results, the informer's
\* copies, the worker's loop and its copy in hand agree as each of the two
\* writes of CreateOrUpdateResult and the one of ResultStatusStep needs.
THEOREM Invariance == Spec => []IInv
  <1>1. IInv /\ [Next]_vars => IInv'
    <2> SUFFICES ASSUME IInv, [Next]_vars PROVE IInv'
      OBVIOUS
    <2>1. TypeOK' /\ SyncInv'
      BY TypeStep, SyncStep DEF IInv
    <2>2. AbsentInv' /\ LoopInv' /\ CopyInv' /\ HashOfSpec' /\ UsedInv'
      BY AbsentStep, LoopStep, CopyStep, HashStep, UsedStep
    <2> QED
      BY <2>1, <2>2 DEF IInv
  <1> QED
    BY InvariantInit, <1>1, PTL DEF Spec

\* The variables keep their types: what the worker copies, writes and sends is
\* a Result of a K8sGPT with a finding, and a finding.
THEOREM TypeCorrect == Spec => []TypeOK
  <1>1. IInv => TypeOK
    BY DEF IInv
  <1> QED
    BY <1>1, Invariance, PTL

\* CreateOrUpdateResult skips a Result whose hash is that of the finding: it is
\* right to, the hash is that of the spec as long as no call failed.
THEOREM HashIsOfSpec == Spec => []HashOfSpec
  <1>1. IInv => HashOfSpec
    BY DEF IInv
  <1> QED
    BY <1>1, Invariance, PTL

\* processLatestResults does not report again what has an address in its
\* status: a report on it was sent, whatever stale copy the address came from.
THEOREM WebhookIsTrue == Spec => []WebhookWasUsed
  <1>1. IInv => WebhookWasUsed
    BY DEF IInv, UsedInv
  <1> QED
    BY <1>1, Invariance, PTL
==================================================================================
