----------------------------- MODULE MCProvider -----------------------------
(* Small instances of Provider for TLC. *)
EXTENDS ProviderCustody, Progress, TLC

CONSTANTS k1, k2, p1, p2, p3, o1, o2, v1, v2, v3

\* Every pod is a generation of the one key.
AtOneKey == [p \in Pods |-> k1]

\* p1 lives at k1, the others at k2.
AtTwoKeys == [p \in Pods |-> IF p = p1 THEN k1 ELSE k2]

\* p1 and p3 belong to o1, p2 to o2.
TwoOwners == [p \in Pods |-> IF p = p2 THEN o2 ELSE o1]

\* p1 and p3 belong to o1, p2 is bare.
OwnedAndBare == [p \in Pods |-> IF p = p2 THEN None ELSE o1]

NoLegacy == NoRows

\* A table written before rows carried an authority: one sandbox, held by p1.
OldTable == [NoRows EXCEPT ![k1] = [id |-> v1, podUID |-> p1, authority |-> None,
                                    owner |-> None, deadline |-> 0]]

SandboxSymmetry == Permutations(VMs)
=============================================================================
