----------------------------- MODULE OrphanScan -----------------------------
(***************************************************************************)
(* provider/orphan.go: the audit-only scan, one more goroutine next to the *)
(* provider.  It lists the node, compares the listing with the claims      *)
(* table as it is by then, and reports; it shares the node with sandboxes  *)
(* other parties claimed.                                                  *)
(***************************************************************************)
EXTENDS Progress

CONSTANTS
    Strangers,     \* ids of the sandboxes other parties hold on this node
    Unreferenced   \* the ones among them without a claim_ref

Ids == VMs \cup Strangers

ASSUME StrangersAssumption == Strangers \cap VMs = {} /\ Unreferenced \subseteq Strangers

VARIABLES
    scan,      \* where the scan is
    found,     \* the listing it compares
    verdicts   \* orphanVerdicts: id -> verdict, "none" for a missing entry

scanVars == <<scan, found, verdicts>>

NoVerdicts == [v \in Ids |-> "none"]

ScanInit == Init /\ scan = "idle" /\ found = {} /\ verdicts = NoVerdicts

\* The listing comes first.  A failed one skips the cycle and changes nothing,
\* which is no step at all.
ScanList ==
    /\ up /\ scan = "idle"
    /\ found' = Live \cup Strangers
    /\ scan' = "compare"
    /\ UNCHANGED <<vars, verdicts>>

Claimed == {claims[k].id : k \in {j \in Keys : claims[j] # None}}

\* Mutation of Unbound: the release queue is not consulted.
UnboundByClaims == found \ Claimed

\* Listed, and neither at a key nor queued for release.
Unbound == found \ (Claimed \cup releasing)

\* Mutation of Verdict: a verdict stays until another takes its place.
StickyVerdict(v) ==
    IF v \in Unbound THEN IF v \in Unreferenced THEN "orphan" ELSE "external"
    ELSE IF v \in Claimed \ found THEN "stale"
    ELSE verdicts[v]

\* Mutation of Verdict: a sandbox with a claim_ref is passed over.
VerdictOrphansOnly(v) ==
    IF v \in Unbound /\ v \in Unreferenced THEN "orphan"
    ELSE IF v \in Claimed \ found THEN "stale"
    ELSE "none"

\* This provider's claims carry their pod key as claim_ref.
Verdict(v) ==
    IF v \in Unbound THEN IF v \in Unreferenced THEN "orphan" ELSE "external"
    ELSE IF v \in Claimed \ found THEN "stale"
    ELSE "none"

\* The table is read under the lock once the listing is there; the verdicts of the
\* previous scan are replaced.
ScanCompare ==
    /\ scan = "compare"
    /\ verdicts' = [v \in Ids |-> Verdict(v)]
    /\ scan' = "idle"
    /\ found' = {}
    /\ UNCHANGED vars

\* A step of the provider; the scan and what it remembers die with the process.
ProviderStep ==
    /\ Next
    /\ IF up /\ ~up' THEN scan' = "idle" /\ found' = {} /\ verdicts' = NoVerdicts
       ELSE UNCHANGED scanVars

ScanNext == ProviderStep \/ ScanList \/ ScanCompare

allVars == <<vars, scanVars>>

\* The scan's ticker fires again and again, and sandboxd answers now and then.
ScanFairness == WF_allVars(ScanList \/ ScanCompare) /\ WF_allVars(ProviderStep /\ New)

ScanSpec == ScanInit /\ [][ScanNext]_allVars /\ ScanFairness

\* A scan finds one of this provider's live sandboxes bound to nothing only when its
\* credential was lost or its claim is still on the way into the table; one that is
\* queued for release is not reported (OrphanScan, "live on node but bound to no pod").
UnboundIsStray ==
    [][\A v \in VMs :
          scan = "compare" /\ up' /\ scan' = "idle" /\ verdicts'[v] \in {"external", "orphan"}
          => \/ vm[v] # "live" \/ v \in lost
             \/ \E k \in Keys : pc[k] = "record" /\ row[k].id = v]_allVars

\* A claim reported stale although its sandbox lives, because it was granted after the
\* listing, is not reported so for long: the next scan takes the verdict back
\* (OrphanScan replaces orphanVerdicts).
FalseAlarmsClear ==
    \A v \in VMs : verdicts[v] = "stale" /\ vm[v] = "live"
                     ~> verdicts[v] # "stale" \/ vm[v] # "live"

\* A sandbox whose token nobody has does not stay unnoticed once the process stays up
\* ("bounded by its lease ... and logged by the orphan scan").
StraysReported ==
    <>[]up => \A v \in VMs : v \in lost /\ vm[v] = "live"
                               ~> verdicts[v] # "none" \/ vm[v] # "live"
=============================================================================
