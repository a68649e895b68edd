-------------------------------- MODULE Analysis -------------------------------
(***************************************************************************)
(* What the analysis step of the K8sGPT controller remembers of an         *)
(* analysis besides its Results: the error in the status of the K8sGPT,    *)
(* and the circuit breaker that turns AI requests off after too many       *)
(* failures. Breaker and counter are variables of the package, shared by   *)
(* all K8sGPT resources. The findings are the subject of module Results.   *)
(*                                                                         *)
(* One worker serves all K8sGPT resources in turn. It holds the copy that  *)
(* InitStep read from the informer when the reconcile began, decides from  *)
(* it whether the status has to be written, and writes the status from it; *)
(* the API server refuses a copy that is not current, which is only        *)
(* logged.                                                                 *)
(*                                                                         *)
(* Sources: k8sgpt/analysis_step.go, init_step.go, pkg/client/analysis.go. *)
(***************************************************************************)
EXTENDS Naturals

CONSTANTS
    K8sGPT,      \* the K8sGPT resources
    BackOff,     \* those with ai.enabled and ai.backOff.enabled
    MaxRetries,  \* ai.backOff.maxRetries of each
    Message,     \* what a failed analysis may say
    None,        \* "no error", "no K8sGPT in hand"
    MaxEdits,    \* bound on the edits of K8sGPT resources by users
    MaxFaults    \* bound on failed status writes and restarts

ASSUME BackOffAssumption == BackOff \subseteq K8sGPT /\ MaxRetries \in [K8sGPT -> Nat]
ASSUME NoneAssumption == None \notin Message /\ None \notin K8sGPT
ASSUME BoundsAssumption == MaxEdits \in Nat /\ MaxFaults \in Nat

VARIABLES
    lastError,  \* status.lastAnalysisError of each K8sGPT, and its time
    kcache,     \* the informer's copy of it
    synced,     \* whether that copy has the current resourceVersion
    edits,
    allowBackendAIRequest, analysisRetryCount,
    pc, cur,    \* where the worker is, and its K8sGPT
    copy,       \* lastError in the copy it holds
    current,    \* whether that copy still has the current resourceVersion
    \* what happened
    outcome,    \* of the last analysis of each K8sGPT
    streak,     \* failures since the last success or restart, until AI is off
    faults

status == <<lastError, kcache, synced>>
breaker == <<allowBackendAIRequest, analysisRetryCount, streak>>
worker == <<pc, cur, copy, current>>
vars == <<status, edits, breaker, worker, outcome, faults>>

Init ==
    /\ lastError = [k \in K8sGPT |-> None]
    /\ kcache = lastError /\ synced = [k \in K8sGPT |-> TRUE]
    /\ edits = 0
    /\ allowBackendAIRequest = TRUE /\ analysisRetryCount = 0 /\ streak = 0
    /\ pc = "idle" /\ cur = None /\ copy = None /\ current = FALSE
    /\ outcome = [k \in K8sGPT |-> "none"]
    /\ faults = 0

-----------------------------------------------------------------------------
\* A user edits the K8sGPT: its status stays, its resourceVersion does not.
EditK8sGPT(k) ==
    /\ edits < MaxEdits
    /\ edits' = edits + 1
    /\ synced' = [synced EXCEPT ![k] = FALSE]
    /\ current' = (current /\ cur # k)
    /\ UNCHANGED <<lastError, kcache, breaker, pc, cur, copy, outcome, faults>>

CacheSync(k) ==
    /\ ~ synced[k]
    /\ kcache' = [kcache EXCEPT ![k] = lastError[k]]
    /\ synced' = [synced EXCEPT ![k] = TRUE]
    /\ UNCHANGED <<lastError, edits, breaker, worker, outcome, faults>>

-----------------------------------------------------------------------------
Return == pc' = "idle" /\ cur' = None /\ copy' = None /\ current' = FALSE

\* InitStep reads the K8sGPT; the steps before the analysis leave the copy alone
\* once finalizer and defaults are in place.
StartReconcile(k) ==
    /\ pc = "idle"
    /\ pc' = "analyse" /\ cur' = k /\ copy' = kcache[k] /\ current' = synced[k]
    /\ UNCHANGED <<status, edits, breaker, outcome, faults>>

\* Mutant of NeedsWrite: an error is recorded, never cleared.
BugNeverClears(m) == m # None /\ copy # m

\* setAnalysisErrorStatus leaves the same error alone, clearAnalysisError a
\* status that shows none; both look at the copy in hand.
NeedsWrite(m) == copy # m

\* The status is written from the copy in hand. A write that is refused because
\* the copy is not current, or that fails, is logged.
RecordError(m) ==
    \/ /\ NeedsWrite(m) /\ current
       /\ lastError' = [lastError EXCEPT ![cur] = m]
       /\ synced' = [synced EXCEPT ![cur] = FALSE]
       /\ UNCHANGED <<kcache, faults>>
    \/ /\ ~ (NeedsWrite(m) /\ current)
       /\ UNCHANGED <<status, faults>>
    \/ /\ NeedsWrite(m) /\ faults < MaxFaults
       /\ faults' = faults + 1
       /\ UNCHANGED status

\* Mutant of TooManyFailures: one failure early.
BugCountsEarly(k) == analysisRetryCount >= MaxRetries[k]

TooManyFailures(k) == analysisRetryCount > MaxRetries[k]

\* Mutant of NextCount: the count does not begin anew.
BugCountsOn(k) == analysisRetryCount + 1

NextCount(k) == IF TooManyFailures(k) THEN 1 ELSE analysisRetryCount + 1

\* handleAIFailureBackoff: compare, then count.
CountFailure(k) ==
    /\ allowBackendAIRequest' = IF TooManyFailures(k) THEN FALSE ELSE allowBackendAIRequest
    /\ analysisRetryCount' = NextCount(k)
    /\ streak' = IF allowBackendAIRequest THEN streak + 1 ELSE streak

\* ProcessAnalysis returns an error.
AnalysisFails ==
    /\ pc = "analyse"
    /\ IF cur \in BackOff THEN CountFailure(cur) ELSE UNCHANGED breaker
    /\ \E m \in Message : RecordError(m)
    /\ outcome' = [outcome EXCEPT ![cur] = "failed"]
    /\ Return
    /\ UNCHANGED edits

\* Its answer is taken; the rest of the reconcile is in module Results.
AnalysisSucceeds ==
    /\ pc = "analyse"
    /\ RecordError(None)
    /\ analysisRetryCount' = 0
    /\ streak' = 0
    /\ outcome' = [outcome EXCEPT ![cur] = "succeeded"]
    /\ Return
    /\ UNCHANGED <<edits, allowBackendAIRequest>>

Restart ==
    /\ faults < MaxFaults
    /\ faults' = faults + 1
    /\ Return
    /\ allowBackendAIRequest' = TRUE /\ analysisRetryCount' = 0 /\ streak' = 0
    /\ UNCHANGED <<status, edits, outcome>>

Analyse == AnalysisFails \/ AnalysisSucceeds

Next ==
    \/ \E k \in K8sGPT : EditK8sGPT(k) \/ CacheSync(k) \/ StartReconcile(k)
    \/ Analyse
    \/ Restart

Spec == Init /\ [][Next]_vars

\* The informer catches up, the server answers or fails, and every K8sGPT is
\* reconciled again and again: each reconcile ends in a requeue.
Fairness ==
    /\ WF_vars(Analyse)
    /\ \A k \in K8sGPT : WF_vars(CacheSync(k)) /\ SF_vars(StartReconcile(k))

FairSpec == Spec /\ Fairness

-----------------------------------------------------------------------------
\* Every variable has its type; in particular the counter stays within the
\* retries that some K8sGPT allows, whoever's failures it counts.
TypeOK ==
    /\ lastError \in [K8sGPT -> Message \cup {None}]
    /\ kcache \in [K8sGPT -> Message \cup {None}]
    /\ synced \in [K8sGPT -> BOOLEAN]
    /\ allowBackendAIRequest \in BOOLEAN
    /\ analysisRetryCount \in Nat
    /\ analysisRetryCount = 0 \/ \E k \in BackOff : analysisRetryCount <= MaxRetries[k] + 1
    /\ pc \in {"idle", "analyse"}
    /\ pc = "analyse" => cur \in K8sGPT
    /\ copy \in Message \cup {None} /\ current \in BOOLEAN
    /\ outcome \in [K8sGPT -> {"none", "failed", "succeeded"}]
    /\ streak \in Nat /\ edits \in Nat /\ faults \in Nat

\* The breaker opens on the failure that exceeds maxRetries + 1 of the K8sGPT
\* that failed, on no earlier and on no later one, counted since the last
\* success of any K8sGPT or the last restart. The failures are those of all
\* K8sGPT resources with back-off, which have one breaker.
OffWhenExceeded ==
    [][AnalysisFails /\ cur \in BackOff /\ allowBackendAIRequest =>
         (allowBackendAIRequest' <=> streak' <= MaxRetries[cur] + 1)]_vars

\* With the same outcome again and again, the status comes to show an error, or
\* none, and stays so.
Settles(k, result, shown) ==
    <>[](outcome[k] = result) => <>[]((lastError[k] # None) = shown)

\* k8sgpt_types.go, LastAnalysisError: once the analyses of a K8sGPT all succeed
\* its status shows no error, and once they all fail it shows one, though the
\* write is decided and made from a copy that may be stale, and is not repeated
\* when it is refused or fails.
StatusSettles ==
    \A k \in K8sGPT : Settles(k, "succeeded", FALSE) /\ Settles(k, "failed", TRUE)
================================================================================
