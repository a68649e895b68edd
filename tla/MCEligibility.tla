----------------------------- MODULE MCEligibility -----------------------------
(***************************************************************************)
(* A small cluster for module Eligibility: a Pod in each of two namespaces *)
(* whose ReplicaSets have the same name, a Deployment above one of them,   *)
(* and a resource of another group with the kind and name of the other     *)
(* Pod, which the finding about it does not tell from the Pod.             *)
(***************************************************************************)
EXTENDS Eligibility

CONSTANTS pod, rs, web, otherPod, otherRs, twin, p, q

MCObject == {pod, rs, web, otherPod, otherRs, twin}

ReplicaSet == [group |-> "apps", version |-> "v1", kind |-> "ReplicaSet"]
OtherGroup == [group |-> "x", version |-> "v1", kind |-> "Pod"]

MCGvk ==
    [o \in MCObject |->
       CASE o \in {pod, otherPod} -> Pod
         [] o \in {rs, otherRs}   -> ReplicaSet
         [] o = web               -> Deployment
         [] o = twin              -> OtherGroup]
MCNamespace == [o \in MCObject |-> IF o \in {otherPod, otherRs, twin} THEN "b" ELSE "a"]
MCName ==
    [o \in MCObject |-> CASE o = pod -> "p" [] o \in {otherPod, twin} -> "q"
                          [] o \in {rs, otherRs} -> "r" [] o = web -> "w"]

By(o) == [controller |-> o, all |-> {o}]
NoOwner == [controller |-> None, all |-> {}]
MCOwners ==
    [o \in MCObject |->
       CASE o = pod      -> {NoOwner, By(rs), [controller |-> None, all |-> {rs, web}]}
         [] o = rs       -> {NoOwner, By(web), By(rs)}
         [] o = otherPod -> {NoOwner, By(otherRs)}
         [] OTHER        -> {NoOwner}]

MCAbout == [x \in {p, q} |-> IF x = p THEN pod ELSE otherPod]

AnyPod == [kind |-> "Pod"]
AppsDeployment == [group |-> "apps", kind |-> "Deployment"]
VGroupPod == [group |-> "vx", kind |-> "Pod"]

\* Selectors without a version; one exact selector, for the twin or for Pods; an
\* ambiguous pair.
MCResources ==
    {{AnyPod, AppsDeployment}, {AnyPod, OtherGroup}, {Pod, ReplicaSet, Deployment},
     {Pod, VGroupPod}}
================================================================================
