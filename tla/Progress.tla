------------------------------ MODULE Progress ------------------------------
(***************************************************************************)
(* What the provider gets done.  The fairness is that of the code's        *)
(* scheduling: a handler virtual-kubelet started runs to its end, every    *)
(* loop's ticker fires again and again (runTicker), and an outside party   *)
(* that is asked again and again, sandboxd or the apiserver, gives a       *)
(* proper answer now and then.                                             *)
(***************************************************************************)
EXTENDS Provider

\* The handler at key k goes on with what it has begun.
HandlerStep(k) == pc[k] # "idle" /\ (Handler(k) \/ Verify(k))

Fairness ==
    /\ WF_vars(New)
    /\ \A k \in Keys : WF_vars(HandlerStep(k))
    /\ WF_vars(Verify("verify")) /\ SF_vars(VerifyList("verify"))
    /\ WF_vars(LeaseWatch) /\ SF_vars(LeaseList)
    /\ WF_vars(OwnerRecheck)
    /\ \A k \in Keys : SF_vars(RecheckReleases(k))
    /\ \A v \in VMs : SF_vars(DrainRelease(v))

FairSpec == Spec /\ Fairness

\* Every handler comes to its end: no writer waits for saveMu forever, whoever
\* fails to write while holding it (persist, commitClaim, saveState).
HandlersReturn == \A k \in Keys : pc[k] # "idle" ~> pc[k] = "idle"

\* A row loaded without a listing is settled by the loop, pod or no pod
\* (RunClaimVerification: "lifts a startup quarantine on its own loop").
QuarantineLifts == \A k \in Keys : k \in quarantined ~> k \notin quarantined

\* A release owed is paid: a queued sandbox ends and leaves the queue, however
\* often its release fails (drainReleases).
QueueDrains == \A v \in VMs : v \in releasing ~> vm[v] # "live" /\ v \notin releasing

\* A row kept for an owner that has ended, with no pod to delete it.
Abandoned(k) ==
    /\ claims[k] # None /\ claims[k].owner # None
    /\ ownerState[claims[k].owner] # "alive"
    /\ pods[k] = None

\* A preserved row does not outlast its owner: it is released, or a pod takes it
\* over ("asks about the recorded owner of every pod-less claim").
OwnerEndReleases == \A k \in Keys : Abandoned(k) ~> ~Abandoned(k)

\* So it is, although writes, listings and releases fail, for a row whose claim was
\* committed; a stranded one is what the re-check passes by (settled, recheckOwners).
CommittedRowsEnd == \A k \in Keys : Abandoned(k) /\ k \notin tentative ~> ~Abandoned(k)

\* A tracked pod whose lease is over, from its last instant on, and whose sandbox the
\* node no longer has.
LeaseOver(k, p) ==
    /\ pods[k] # None /\ pods[k].uid = p
    /\ claims[k] # None /\ Settled(k) /\ claims[k].deadline \in 1..now
    /\ vm[claims[k].id] # "live"

\* The end of a lease is published while the pod is tracked, however often the
\* listing fails, and no later instant is waited for (RunLeaseWatch, expired).
ExpiryPublished ==
    \A k \in Keys, p \in Pods :
        LeaseOver(k, p) ~> status[p].phase = "Failed" \/ ~LeaseOver(k, p)
=============================================================================
