-------------------------- MODULE BackgroundLoops --------------------------
(***************************************************************************)
(* The goroutines main.go starts next to the handlers: the lease watch     *)
(* (provider/orphan.go) and the owner re-check with its release queue      *)
(* (provider/recheck.go).  The verification loop is process "verify" of    *)
(* ClaimsTable.                                                            *)
(***************************************************************************)
EXTENDS PodLifecycle

\* What the watch and the re-check leave alone.
beyond == <<up, now, kube, controller, ownerState, lost>>
-----------------------------------------------------------------------------
(* publishExpiredLeases *)

LeaseCandidates ==
    [k \in Keys |-> IF claims[k] # None /\ Settled(k) /\ pods[k] # None
                       /\ Expired(claims[k])
                    THEN claims[k] ELSE None]

LeaseSnapshot ==
    /\ up /\ "lease" \in ActiveLoops /\ pc["lease"] = "idle"
    /\ LeaseCandidates # NoRows
    /\ snap' = [snap EXCEPT !["lease"] = LeaseCandidates]
    /\ Goto("lease", "leaseList")
    /\ UNCHANGED <<beyond, tableVars, fileVars, arg, row, listed, recheckVars, vm, status>>

LeaseList ==
    /\ pc["lease"] = "leaseList"
    /\ listed' = [listed EXCEPT !["lease"] = Live]
    /\ Goto("lease", "leaseJudge")
    /\ UNCHANGED <<beyond, tableVars, fileVars, arg, row, snap, recheckVars, vm, status>>

\* Mutation of LeaseListFails: the watch gives up.
LeaseGivesUp ==
    /\ "list" \in Faults
    /\ pc["lease"] = "leaseList"
    /\ Goto("lease", "done")
    /\ UNCHANGED <<beyond, tableVars, fileVars, localVars, recheckVars, vm, status>>

LeaseListFails ==
    /\ "list" \in Faults
    /\ pc["lease"] = "leaseList"
    /\ Return("lease")
    /\ UNCHANGED <<beyond, tableVars, fileVars, recheckVars, vm, status>>

\* Candidate k is done with.
DropCandidate(a, k) == snap' = [snap EXCEPT ![a][k] = None]

\* A candidate the node still lists: its lease is refreshed.
LeaseRefresh(k) ==
    /\ pc["lease"] = "leaseJudge"
    /\ snap["lease"][k] # None
    /\ snap["lease"][k].id \in listed["lease"]
    /\ \E d \in Deadlines : RefreshDeadline(k, snap["lease"][k].id, d)
    /\ DropCandidate("lease", k)
    /\ UNCHANGED <<beyond, pods, tentative, quarantined, releasing, fileVars, pc, arg,
                   row, listed, recheckVars, vm, status>>

\* Mutation of StillCandidate: whatever holds the key now expires.
StillHeld(k) == pods[k] # None /\ claims[k] # None

\* The expiry belongs to the candidate claim, not to whatever holds the key now.
StillCandidate(k) == pods[k] # None /\ Holds(k, snap["lease"][k].id)

\* Mutation of ReapedCandidate: the cached deadline is authoritative.
PastCachedDeadline(k) ==
    /\ pc["lease"] = "leaseJudge"
    /\ snap["lease"][k] # None

\* A candidate the node no longer lists: the pod to publish is read under the lock...
ReapedCandidate(k) ==
    /\ pc["lease"] = "leaseJudge"
    /\ snap["lease"][k] # None
    /\ snap["lease"][k].id \notin listed["lease"]

LeaseConfirm(k) ==
    /\ ReapedCandidate(k)
    /\ StillCandidate(k)
    /\ arg' = [arg EXCEPT !["lease"] = pods[k]]
    /\ row' = [row EXCEPT !["lease"] = snap["lease"][k]]
    /\ DropCandidate("lease", k)
    /\ Goto("lease", "leaseNotify")
    /\ UNCHANGED <<beyond, tableVars, fileVars, listed, recheckVars, vm, status>>

LeaseSuperseded(k) ==
    /\ ReapedCandidate(k)
    /\ ~StillCandidate(k)
    /\ DropCandidate("lease", k)
    /\ UNCHANGED <<beyond, tableVars, fileVars, pc, arg, row, listed, recheckVars, vm,
                   status>>

\* ... and Failed is pushed for it after the lock is let go.
LeaseNotify ==
    /\ pc["lease"] = "leaseNotify"
    /\ Pushed(arg["lease"].uid, "Failed", row["lease"].id)
    /\ Goto("lease", "leaseJudge")
    /\ arg' = [arg EXCEPT !["lease"] = None]
    /\ row' = [row EXCEPT !["lease"] = None]
    /\ UNCHANGED <<beyond, tableVars, fileVars, snap, listed, recheckVars, vm>>

LeaseEnd ==
    /\ pc["lease"] = "leaseJudge"
    /\ snap["lease"] = NoRows
    /\ Return("lease")
    /\ UNCHANGED <<beyond, tableVars, fileVars, recheckVars, vm, status>>
-----------------------------------------------------------------------------
(* recheckOwners *)

Preserved ==
    [k \in Keys |-> IF claims[k] # None /\ claims[k].owner # None
                       /\ pods[k] = None /\ Settled(k)
                    THEN claims[k] ELSE None]

RecheckSnapshot ==
    /\ up /\ "recheck" \in ActiveLoops /\ pc["recheck"] = "idle"
    /\ snap' = [snap EXCEPT !["recheck"] = Preserved]
    /\ seen' = {k \in seen : Preserved[k] # None}
    /\ Goto("recheck", "ask")
    /\ UNCHANGED <<beyond, tableVars, fileVars, arg, row, listed, asking, queue, dirty,
                   vm, status>>

\* A key with a backoff entry may not be due yet.
RecheckNotDue(k) ==
    /\ pc["recheck"] = "ask"
    /\ snap["recheck"][k] # None
    /\ k \in seen
    /\ DropCandidate("recheck", k)
    /\ UNCHANGED <<beyond, tableVars, fileVars, pc, arg, row, listed, recheckVars, vm, status>>

\* The recorded owner is read.
OwnerVerdict(k, authorized) ==
    /\ pc["recheck"] = "ask"
    /\ snap["recheck"][k] # None
    /\ \E answer \in OwnerAnswers(snap["recheck"][k].owner) :
          DestroyAuthorized(snap["recheck"][k].owner, answer) = authorized

\* Preserve: the key backs off.
RecheckKeeps(k) ==
    /\ OwnerVerdict(k, FALSE)
    /\ DropCandidate("recheck", k)
    /\ seen' = seen \cup {k}
    /\ UNCHANGED <<beyond, tableVars, fileVars, pc, arg, row, listed, asking, queue,
                   dirty, vm, status>>

\* Release: the row is withdrawn next.
RecheckReleases(k) ==
    /\ OwnerVerdict(k, TRUE)
    /\ asking' = k
    /\ Goto("recheck", "recheckWithdraw")
    /\ UNCHANGED <<beyond, tableVars, fileVars, localVars, seen, queue, dirty, vm, status>>

\* Mutation of Withdrawable: a pod that came back is not noticed.
WithdrawableIfHeld(k, id) == Holds(k, id)

\* withdrawForRelease: a pod-less row with the same id moves to the release queue.
Withdrawable(k, id) == Holds(k, id) /\ pods[k] = None

WithdrawDone(k) ==
    /\ pc["recheck"] = "recheckWithdraw"
    /\ asking = k
    /\ asking' = None
    /\ seen' = seen \ {k}
    /\ DropCandidate("recheck", k)
    /\ Goto("recheck", "ask")
    /\ UNCHANGED <<beyond, pods, tentative, quarantined, fileVars, arg, row, listed,
                   queue, vm, status>>

\* Mutation of WithdrawForRelease: the row is queued and stays at its key.
QueueOnly(k) ==
    /\ WithdrawDone(k)
    /\ Withdrawable(k, snap["recheck"][k].id)
    /\ releasing' = releasing \cup {snap["recheck"][k].id}
    /\ dirty' = TRUE
    /\ UNCHANGED claims

WithdrawForRelease(k) ==
    /\ WithdrawDone(k)
    /\ Withdrawable(k, snap["recheck"][k].id)
    /\ claims' = [claims EXCEPT ![k] = None]
    /\ releasing' = releasing \cup {snap["recheck"][k].id}
    /\ dirty' = TRUE

WithdrawRefused(k) ==
    /\ WithdrawDone(k)
    /\ ~Withdrawable(k, snap["recheck"][k].id)
    /\ UNCHANGED <<claims, releasing, dirty>>

\* drainReleases copies the queue.
DrainSnapshot ==
    /\ pc["recheck"] = "ask"
    /\ snap["recheck"] = NoRows
    /\ queue' = releasing
    /\ Goto("recheck", "drain")
    /\ UNCHANGED <<beyond, tableVars, fileVars, localVars, seen, asking, dirty, vm, status>>

\* A release that succeeds leaves the queue by id.  Nobody acts on a queued id
\* between the two, so they are one step.
DrainRelease(v) ==
    /\ pc["recheck"] = "drain"
    /\ v \in queue
    /\ ReleaseLands(v)
    /\ releasing' = releasing \ {v}
    /\ queue' = queue \ {v}
    /\ dirty' = TRUE
    /\ UNCHANGED <<beyond, pods, claims, tentative, quarantined, fileVars, pc, localVars,
                   seen, asking, status>>

\* Mutation of DrainReleaseFails: the credential leaves the queue all the same.
DrainDropsFailed(v) ==
    /\ pc["recheck"] = "drain"
    /\ v \in queue
    /\ ReleaseErrs(v)
    /\ releasing' = releasing \ {v}
    /\ queue' = queue \ {v}
    /\ dirty' = TRUE
    /\ UNCHANGED <<beyond, pods, claims, tentative, quarantined, fileVars, pc, localVars,
                   seen, asking, status>>

\* A release that errs keeps the credential queued for the next tick.
DrainReleaseFails(v) ==
    /\ pc["recheck"] = "drain"
    /\ v \in queue
    /\ ReleaseErrs(v)
    /\ queue' = queue \ {v}
    /\ UNCHANGED <<beyond, tableVars, fileVars, pc, localVars, seen, asking, dirty, status>>

\* The tick ends: with a save when anything changed.
DrainEnd ==
    /\ pc["recheck"] = "drain"
    /\ queue = {}
    /\ Goto("recheck", IF dirty THEN "save" ELSE "idle")
    /\ UNCHANGED <<beyond, tableVars, fileVars, localVars, recheckVars, vm, status>>

RecheckSaveBegin ==
    /\ pc["recheck"] = "save"
    /\ BeginWrite("recheck", None)
    /\ Goto("recheck", "saving")
    /\ UNCHANGED <<beyond, tableVars, localVars, recheckVars, vm, status>>

RecheckSaveEnd ==
    /\ pc["recheck"] = "saving"
    /\ \E landed \in BOOLEAN : EndWrite("recheck", landed)
    /\ dirty' = FALSE
    /\ Goto("recheck", "idle")
    /\ UNCHANGED <<beyond, tableVars, localVars, seen, asking, queue, vm, status>>
=============================================================================
