----------------------------- MODULE MCRemediation -----------------------------
(***************************************************************************)
(* Instances of Remediation for TLC: every finding is about the same       *)
(* target, the case in which Mutations compete.                            *)
(***************************************************************************)
EXTENDS Remediation, TLC

CONSTANTS web

MCTargetOf == [f \in Finding |-> web]

\* Findings, UIDs and images are interchangeable; for runs without liveness.
Symmetry == Permutations(Finding) \cup Permutations(Uid) \cup Permutations(Image)
================================================================================
