----------------------------- MODULE AnalysisProofs ----------------------------
(***************************************************************************)
(* Type correctness of module Analysis, with the bound of the counter, and *)
(* the failure on which the breaker opens, for any number of K8sGPT        *)
(* resources that share it.                                                *)
(***************************************************************************)
EXTENDS Analysis, TLAPS

\* While AI requests are allowed, the counter is the number of failures since
\* the last success or restart. It is not once the breaker has opened: the
\* counter then begins anew.
CountInv == allowBackendAIRequest => analysisRetryCount = streak

IInv == TypeOK /\ CountInv

-----------------------------------------------------------------------------
\* The operator starts typed, and with nothing counted.
LEMMA InitIInv == Init => IInv
  <1> SUFFICES ASSUME Init PROVE IInv
    OBVIOUS
  <1>1. /\ lastError \in [K8sGPT -> Message \cup {None}] /\ kcache = lastError
        /\ synced \in [K8sGPT -> BOOLEAN]
        /\ outcome \in [K8sGPT -> {"none", "failed", "succeeded"}]
    BY DEF Init
  <1>2. /\ allowBackendAIRequest = TRUE /\ analysisRetryCount = 0 /\ streak = 0
        /\ pc = "idle" /\ copy = None /\ current = FALSE /\ edits = 0 /\ faults = 0
    BY DEF Init
  <1> QED BY <1>1, <1>2 DEF IInv, TypeOK, CountInv

\* A handler that returns holds nothing.
LEMMA ReturnType ==
  Return => pc' = "idle" /\ copy' \in Message \cup {None} /\ current' \in BOOLEAN
  BY DEF Return

\* recordAnalysisError and clearAnalysisError leave a status.
LEMMA RecordType ==
  ASSUME TypeOK, pc = "analyse", NEW m \in Message \cup {None}, RecordError(m)
  PROVE  /\ lastError' \in [K8sGPT -> Message \cup {None}]
         /\ kcache' \in [K8sGPT -> Message \cup {None}]
         /\ synced' \in [K8sGPT -> BOOLEAN]
         /\ faults' \in Nat
  <1>1. CASE UNCHANGED status /\ faults' \in {faults, faults + 1}
    BY <1>1 DEF TypeOK, status
  <1>2. CASE /\ lastError' = [lastError EXCEPT ![cur] = m]
             /\ synced' = [synced EXCEPT ![cur] = FALSE]
             /\ UNCHANGED <<kcache, faults>>
    BY <1>2 DEF TypeOK
  <1> QED BY <1>1, <1>2 DEF RecordError

\* handleAIFailureBackoff keeps the counter within the patience of the K8sGPT
\* that failed, and equal to the failures as long as the breaker is closed.
LEMMA CountStep ==
  ASSUME IInv, NEW k \in BackOff, CountFailure(k)
  PROVE  /\ allowBackendAIRequest' \in BOOLEAN /\ streak' \in Nat
         /\ analysisRetryCount' \in Nat /\ analysisRetryCount' <= MaxRetries[k] + 1
         /\ CountInv'
  <1>1. MaxRetries[k] \in Nat /\ analysisRetryCount \in Nat /\ streak \in Nat
    BY BackOffAssumption DEF IInv, TypeOK
  <1>2. CASE TooManyFailures(k)
    <2>1. allowBackendAIRequest' = FALSE /\ analysisRetryCount' = 1 /\ streak' \in Nat
      BY <1>1, <1>2 DEF CountFailure, NextCount
    <2>2. CountInv'
      BY <2>1 DEF CountInv
    <2>3. analysisRetryCount' \in Nat /\ analysisRetryCount' <= MaxRetries[k] + 1
      BY <1>1, <2>1
    <2>4. allowBackendAIRequest' \in BOOLEAN
      BY <2>1
    <2> QED BY <2>1, <2>2, <2>3, <2>4
  <1>3. CASE ~ TooManyFailures(k)
    <2>1. /\ allowBackendAIRequest' = allowBackendAIRequest
          /\ analysisRetryCount' = analysisRetryCount + 1
      BY <1>3 DEF CountFailure, NextCount
    <2>2. analysisRetryCount <= MaxRetries[k]
      BY <1>1, <1>3 DEF TooManyFailures
    <2>3. streak' \in Nat /\ (allowBackendAIRequest => streak' = streak + 1)
      BY <1>1 DEF CountFailure
    <2>4. CountInv'
      BY <2>1, <2>3 DEF CountInv, IInv
    <2> QED BY <1>1, <2>1, <2>2, <2>3, <2>4 DEF IInv, TypeOK
  <1> QED BY <1>2, <1>3

\* Every step keeps the inductive invariant.
LEMMA NextIInv == IInv /\ [Next]_vars => IInv'
  <1> SUFFICES ASSUME IInv, [Next]_vars PROVE IInv'
    OBVIOUS
  <1>1. ASSUME NEW k \in K8sGPT, EditK8sGPT(k) PROVE IInv'
    BY <1>1 DEF EditK8sGPT, breaker, IInv, TypeOK, CountInv
  <1>2. ASSUME NEW k \in K8sGPT, CacheSync(k) PROVE IInv'
    BY <1>2 DEF CacheSync, breaker, worker, IInv, TypeOK, CountInv
  <1>3. ASSUME NEW k \in K8sGPT, StartReconcile(k) PROVE IInv'
    BY <1>3 DEF StartReconcile, breaker, status, IInv, TypeOK, CountInv
  <1>4. CASE AnalysisFails
    <2>1. cur \in K8sGPT /\ TypeOK /\ pc = "analyse"
      BY <1>4 DEF AnalysisFails, IInv, TypeOK
    <2>2. PICK m \in Message : RecordError(m)
      BY <1>4 DEF AnalysisFails
    <2>3. outcome' \in [K8sGPT -> {"none", "failed", "succeeded"}] /\ edits' \in Nat
      BY <1>4, <2>1 DEF AnalysisFails, TypeOK
    <2>4. /\ allowBackendAIRequest' \in BOOLEAN /\ streak' \in Nat
          /\ analysisRetryCount' \in Nat /\ CountInv'
          /\ analysisRetryCount' = 0 \/ \E k \in BackOff : analysisRetryCount' <= MaxRetries[k] + 1
      <3>1. CASE cur \in BackOff
        BY <1>4, <3>1, CountStep DEF AnalysisFails
      <3>2. CASE cur \notin BackOff
        BY <1>4, <3>2 DEF AnalysisFails, breaker, IInv, TypeOK, CountInv
      <3> QED BY <3>1, <3>2
    <2> QED BY <1>4, <2>1, <2>2, <2>3, <2>4, RecordType, ReturnType
        DEF AnalysisFails, IInv, TypeOK
  <1>5. CASE AnalysisSucceeds
    <2>1. cur \in K8sGPT /\ TypeOK /\ pc = "analyse" /\ RecordError(None)
      BY <1>5 DEF AnalysisSucceeds, IInv, TypeOK
    <2>2. /\ outcome' \in [K8sGPT -> {"none", "failed", "succeeded"}] /\ edits' \in Nat
          /\ allowBackendAIRequest' \in BOOLEAN /\ streak' = 0 /\ analysisRetryCount' = 0
      BY <1>5, <2>1 DEF AnalysisSucceeds, TypeOK
    <2>3. CountInv'
      BY <2>2 DEF CountInv
    <2> QED BY <1>5, <2>1, <2>2, <2>3, RecordType, ReturnType DEF AnalysisSucceeds, IInv, TypeOK
  <1>6. CASE Restart
    BY <1>6, ReturnType DEF Restart, status, IInv, TypeOK, CountInv
  <1>7. CASE UNCHANGED vars
    BY <1>7 DEF vars, status, breaker, worker, IInv, TypeOK, CountInv
  <1> QED BY <1>1, <1>2, <1>3, <1>4, <1>5, <1>6, <1>7 DEF Next, Analyse

\* The inductive invariant of the breaker holds in every state.
THEOREM Invariance == Spec => []IInv
  BY InitIInv, NextIInv, PTL DEF Spec

\* Type correctness; the counter stays within the patience of some K8sGPT.
THEOREM TypeCorrect == Spec => []TypeOK
  <1>1. IInv => TypeOK
    BY DEF IInv
  <1> QED BY <1>1, Invariance, PTL

\* The breaker opens on the failure that exceeds maxRetries + 1 and on no other,
\* for any number of K8sGPT resources that count together.
THEOREM OpensExactly == Spec => OffWhenExceeded
  <1> DEFINE Step ==
        AnalysisFails /\ cur \in BackOff /\ allowBackendAIRequest =>
          (allowBackendAIRequest' <=> streak' <= MaxRetries[cur] + 1)
  <1>1. IInv /\ [Next]_vars => [Step]_vars
    <2> SUFFICES ASSUME IInv, AnalysisFails, cur \in BackOff, allowBackendAIRequest
                 PROVE  allowBackendAIRequest' <=> streak' <= MaxRetries[cur] + 1
      OBVIOUS
    <2>1. /\ MaxRetries[cur] \in Nat /\ analysisRetryCount \in Nat
          /\ analysisRetryCount = streak
      BY BackOffAssumption DEF IInv, TypeOK, CountInv
    <2>2. CountFailure(cur)
      BY DEF AnalysisFails
    <2>3. /\ allowBackendAIRequest' <=> ~ TooManyFailures(cur)
          /\ streak' = streak + 1
      BY <2>2 DEF CountFailure
    <2>4. TooManyFailures(cur) <=> ~ (streak + 1 <= MaxRetries[cur] + 1)
      BY <2>1 DEF TooManyFailures
    <2> QED BY <2>3, <2>4
  <1>2. Spec => [][Step]_vars
    BY <1>1, Invariance, PTL DEF Spec
  <1> QED BY <1>2 DEF OffWhenExceeded
================================================================================
