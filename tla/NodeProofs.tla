----------------------------- MODULE NodeProofs -----------------------------
(***************************************************************************)
(* What sandboxd is left holding, for every value of the constants: how    *)
(* many sandboxes, and what the orphan scan reports of them.               *)
(***************************************************************************)
EXTENDS OrphanScan, ProviderSafety, FiniteSetTheorems

USE ZenonT(5), SMTT(30)

\* A key has sandbox v to its name: at its row, or in the hands of the handler about to
\* record it.
HeldAt(k, v) == Holds(k, v) \/ (pc[k] = "record" /\ row[k].id = v)

\* A live sandbox that is neither queued nor lost is at a key, and a key has one at a time
\* (clearStrandedClaim runs before ClaimGranted: there is no row where a handler claims).
LEMMA KeyOfSandbox ==
    ASSUME IInv, up
    PROVE  /\ \A v \in Live \ (releasing \cup lost) : \E k \in Keys : HeldAt(k, v)
           /\ \A k \in Keys : \A u, v \in VMs : HeldAt(k, u) /\ HeldAt(k, v) => u = v
<1>1. \A v \in Live \ (releasing \cup lost) : \E k \in Keys : HeldAt(k, v)
  BY DEF IInv, NoLiveSandboxForgotten, InTable, Memory, HeldAt, Holds
<1>2. \A k \in Keys : \A u, v \in VMs : HeldAt(k, u) /\ HeldAt(k, v) => u = v
  BY DEF IInv, OwnRows, OwnRow, HeldAt, Holds
<1> QED BY <1>1, <1>2

\* However often creates fail and are retried, a running provider has no more live sandboxes
\* than keys, beyond those it has queued for release and those whose token was lost
\* (clearStrandedClaim, undoUnpersistedClaim).
THEOREM SandboxesBounded ==
    ASSUME IsFiniteSet(Keys)
    PROVE  Spec => []OneSandboxPerKey
<1>1. IInv => OneSandboxPerKey
  <2> SUFFICES ASSUME IInv, up
               PROVE  Cardinality(Live \ (releasing \cup lost)) <= Cardinality(Keys)
    BY DEF OneSandboxPerKey
  <2> DEFINE S == Live \ (releasing \cup lost)
             f == [v \in S |-> CHOOSE k \in Keys : HeldAt(k, v)]
  <2>1. \A v \in S : f[v] \in Keys /\ HeldAt(f[v], v)
    BY KeyOfSandbox
  <2>2. f \in [S -> Keys]
    BY <2>1
  <2>3. S \subseteq VMs
    BY DEF Live
  <2> HIDE DEF f, S
  <2>4. \A u, v \in S : f[u] = f[v] => u = v
    BY <2>1, <2>3, KeyOfSandbox
  <2>5. f \in Injection(S, Keys)
    BY <2>2, <2>4 DEF Injection, IsInjective
  <2>6. Cardinality(S) <= Cardinality(Keys)
    BY <2>5, FS_Injection
  <2> QED BY <2>6 DEF S
<1> QED BY <1>1, Invariance, PTL
-----------------------------------------------------------------------------
\* The provider goes its way beside the scan: a behaviour of both is one of Provider.
LEMMA ScanRefines == ScanSpec => Spec
<1>1. ScanInit => Init
  BY DEF ScanInit
<1>2. [ScanNext]_allVars => [Next]_vars
  BY DEF ScanNext, ProviderStep, ScanList, ScanCompare, allVars, vars
<1> QED BY <1>1, <1>2, PTL DEF ScanSpec, Spec

\* A scan that has a listing to compare belongs to a process that is up.
ScanIsUp == scan = "compare" => up

\* ... and it dies with it (Crash).
LEMMA ScanUp == ScanSpec => []ScanIsUp
<1>1. ScanInit => ScanIsUp
  BY DEF ScanInit, ScanIsUp
<1>2. ScanIsUp /\ [ScanNext]_allVars => ScanIsUp'
  BY DEF ScanIsUp, ScanNext, ProviderStep, ScanList, ScanCompare, allVars, vars, scanVars
<1> QED BY <1>1, <1>2, PTL DEF ScanSpec

\* A scan reports one of this provider's live sandboxes as bound to nothing only when its
\* credential was lost or its claim is on the way into the table, for any constants and
\* however old the listing is by then (OrphanScan).
THEOREM ReportsStrays == ScanSpec => UnboundIsStray
<1> DEFINE Stray == \A v \in VMs :
               scan = "compare" /\ up' /\ scan' = "idle" /\ verdicts'[v] \in {"external", "orphan"}
               => \/ vm[v] # "live" \/ v \in lost
                  \/ \E k \in Keys : pc[k] = "record" /\ row[k].id = v
<1>1. NoLiveSandboxForgotten /\ ScanIsUp /\ [ScanNext]_allVars => [Stray]_allVars
  <2> SUFFICES ASSUME NoLiveSandboxForgotten, ScanIsUp, ScanNext, NEW v \in VMs,
                      scan = "compare", up', scan' = "idle",
                      verdicts'[v] \in {"external", "orphan"}, vm[v] = "live", v \notin lost
               PROVE  \E k \in Keys : pc[k] = "record" /\ row[k].id = v
    OBVIOUS
  <2>1. ScanCompare
    BY DEF ScanNext, ProviderStep, ScanList, scanVars
  <2>2. v \in Unbound
    BY <2>1 DEF ScanCompare, Verdict, Ids
  <2>3. ~InTable(v, Memory)
    BY <2>2 DEF Unbound, InTable, Memory, Claimed
  <2> QED BY <2>3 DEF NoLiveSandboxForgotten, ScanIsUp, Live
<1> QED BY ScanRefines, ScanUp, NothingForgotten, <1>1, PTL DEF ScanSpec, UnboundIsStray
=============================================================================
