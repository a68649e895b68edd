------------------------------- MODULE MCAnalysis ------------------------------
(***************************************************************************)
(* Two K8sGPT resources with different patience share the breaker.         *)
(***************************************************************************)
EXTENDS Analysis

CONSTANTS a, b

MCMaxRetries == [k \in K8sGPT |-> IF k = a THEN 0 ELSE 1]
================================================================================
