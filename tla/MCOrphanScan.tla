---------------------------- MODULE MCOrphanScan ----------------------------
(* A small instance of OrphanScan for TLC. *)
EXTENDS OrphanScan, TLC

CONSTANTS k1, p1, p2, o1, o2, v1, v2, s1

\* Both pods are generations of the one key, each with an owner of its own.
AtOneKey == [p \in Pods |-> k1]
TwoOwners == [p \in Pods |-> IF p = p1 THEN o1 ELSE o2]

NoLegacy == NoRows
=============================================================================
