-------------------------- MODULE ProviderCustody --------------------------
(***************************************************************************)
(* The provider implements Custody: the node says whether a sandbox lives, *)
(* the state file whether its credential is kept.                          *)
(***************************************************************************)
EXTENDS ProviderInvariant

CustodyOf(v) ==
    IF vm[v] = "free" THEN "free"
    ELSE IF vm[v] # "live" THEN "ended"
    ELSE IF v \in lost THEN "lost"
    ELSE IF InTable(v, disk) THEN "kept"
    ELSE "granted"

C == INSTANCE Custody WITH NotTold <- NotPushed, told <- status,
                           custody <- [v \in VMs |-> CustodyOf(v)]

\* The provider implements Custody: a sandbox whose credential reached the state
\* file is never lost again, only an uncommitted one can be, and a pod is told
\* Running or Failed only on a sandbox that is kept or has ended.
ImplementsCustody == C!Spec
=============================================================================
