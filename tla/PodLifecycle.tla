---------------------------- MODULE PodLifecycle ----------------------------
(***************************************************************************)
(* provider/create.go, delete.go and ownership.go: the lifecycle handlers  *)
(* virtual-kubelet calls.  Its work queue runs one handler per pod key at  *)
(* a time, handlers of different keys run together; process k is the       *)
(* handler at key k.                                                       *)
(***************************************************************************)
EXTENDS ClaimsTable

\* What a handler at work leaves alone.
outside == <<up, recheckVars, now, kube, controller, ownerState>>

\* The pod object the apiserver holds for p.
PodInKube(p) == [uid |-> p, owner |-> controller[p]]

\* No pod of key k is left in the apiserver.
Vacant(k) == \A p \in Pods : KeyOf[p] = k => kube[p] \notin {"bound", "terminating"}

\* virtual-kubelet syncs a bound pod that has not gone Failed.
SyncDue(k, p) ==
    up /\ pc[k] = "idle" /\ KeyOf[p] = k /\ kube[p] = "bound" /\ status[p].phase # "Failed"

\* virtual-kubelet applies a pushed status unless the pod has already gone Failed.
Pushed(p, phase, v) ==
    status' = [status EXCEPT ![p] = IF @.phase = "Failed" THEN @
                                    ELSE [phase |-> phase, id |-> v]]

\* sandboxd's Release: it may land, fail, or land and lose the answer; releasing
\* a sandbox that is already gone succeeds.
ReleaseLands(v) == vm' = [vm EXCEPT ![v] = IF @ = "live" THEN "released" ELSE @]
ReleaseErrs(v) ==
    \/ "answer" \in Faults /\ ReleaseLands(v)
    \/ "release" \in Faults /\ UNCHANGED vm
-----------------------------------------------------------------------------
(* CreatePod *)

\* Mutation of EnterCreate: a quarantined row is not resolved first.
EnterCreateUnverified(k, pod) ==
    /\ pod.uid \notin BadRuntime
    /\ Goto(k, "expiry")
    /\ arg' = [arg EXCEPT ![k] = pod]

EnterCreate(k, pod) ==
    /\ pod.uid \notin BadRuntime
    /\ Goto(k, IF k \in quarantined THEN "verify" ELSE "expiry")
    /\ arg' = [arg EXCEPT ![k] = pod]

\* virtual-kubelet creates a pod GetPod does not know.
CreatePod(k, p) ==
    /\ SyncDue(k, p)
    /\ pods[k] = None
    /\ EnterCreate(k, PodInKube(p))
    /\ UNCHANGED <<outside, tableVars, fileVars, row, snap, listed, vm, status, lost>>

\* virtual-kubelet updates a pod GetPod knows; another generation's update is ignored.
UpdateDue(k, p) == SyncDue(k, p) /\ pods[k] # None /\ pods[k].uid = p

UpdatePod(k, p) ==
    /\ UpdateDue(k, p)
    /\ k \notin tentative
    /\ pods' = [pods EXCEPT ![k] = PodInKube(p)]
    /\ UNCHANGED <<outside, claims, tentative, quarantined, releasing, fileVars, pc,
                   localVars, vm, status, lost>>

\* UpdatePod retries a stranded claim through CreatePod.
RetryCreate(k, p) ==
    /\ UpdateDue(k, p)
    /\ k \in tentative
    /\ EnterCreate(k, PodInKube(p))
    /\ UNCHANGED <<outside, tableVars, fileVars, row, snap, listed, vm, status, lost>>

\* settleExpiredClaim, the read: only a settled row past its deadline is asked about.
PastDeadline(k) == claims[k] # None /\ Settled(k) /\ Expired(claims[k])

ExpiryDue(k) ==
    /\ pc[k] = "expiry"
    /\ PastDeadline(k)
    /\ row' = [row EXCEPT ![k] = claims[k]]
    /\ Goto(k, "expiryList")
    /\ UNCHANGED <<outside, tableVars, fileVars, arg, snap, listed, vm, status, lost>>

NotExpired(k) ==
    /\ pc[k] = "expiry"
    /\ ~PastDeadline(k)
    /\ Goto(k, "adopt")
    /\ UNCHANGED <<outside, tableVars, fileVars, localVars, vm, status, lost>>

ExpiryList(k) ==
    /\ pc[k] = "expiryList"
    /\ Goto(k, "expiryApply")
    /\ listed' = [listed EXCEPT ![k] = Live]
    /\ UNCHANGED <<outside, tableVars, fileVars, arg, row, snap, vm, status, lost>>

ExpiryListFails(k) ==
    /\ "list" \in Faults
    /\ pc[k] = "expiryList"
    /\ Return(k)
    /\ UNCHANGED <<outside, tableVars, fileVars, vm, status, lost>>

\* settleExpiredClaim, the locked write: a listed row is refreshed, an unlisted one
\* dropped; the locals go out of scope.
ExpirySettled(k) ==
    /\ pc[k] = "expiryApply"
    /\ Goto(k, "adopt")
    /\ row' = [row EXCEPT ![k] = None]
    /\ listed' = [listed EXCEPT ![k] = {}]
    /\ UNCHANGED <<outside, pods, tentative, quarantined, releasing, fileVars, arg,
                   snap, vm, status, lost>>

ExpiryRefresh(k) ==
    /\ ExpirySettled(k)
    /\ row[k].id \in listed[k]
    /\ \E d \in Deadlines : RefreshDeadline(k, row[k].id, d)

ExpiryDrop(k) ==
    /\ ExpirySettled(k)
    /\ row[k].id \notin listed[k]
    /\ DropClaim(k, row[k].id)

\* adoptExistingClaim found nothing to adopt.
AdoptNothing(k) ==
    /\ pc[k] = "adopt"
    /\ claims[k] = None \/ ~Settled(k)
    /\ Goto(k, "stranded")
    /\ UNCHANGED <<outside, tableVars, fileVars, localVars, vm, status, lost>>

\* Mutation of Displace: the displaced row is queued and stays at its key.
DisplaceKeepsRow(k) ==
    /\ pc[k] = "adopt"
    /\ claims[k] # None /\ Settled(k)
    /\ ~AdoptableBy(claims[k], arg[k])
    /\ releasing' = releasing \cup {claims[k].id}
    /\ Goto(k, "stranded")
    /\ UNCHANGED <<outside, claims, pods, tentative, quarantined, fileVars, localVars, vm,
                   status, lost>>

\* adoptExistingClaim found a claim of another authority: it joins the release queue.
Displace(k) ==
    /\ pc[k] = "adopt"
    /\ claims[k] # None /\ Settled(k)
    /\ ~AdoptableBy(claims[k], arg[k])
    /\ claims' = [claims EXCEPT ![k] = None]
    /\ releasing' = releasing \cup {claims[k].id}
    /\ Goto(k, "stranded")
    /\ UNCHANGED <<outside, pods, tentative, quarantined, fileVars, localVars, vm,
                   status, lost>>

\* adoptExistingClaim rebinds the claim to this pod.
Adopted(c, pod) == [c EXCEPT !.podUID = pod.uid, !.authority = AuthorityOf(pod), !.owner = None]

Adopt(k) ==
    /\ pc[k] = "adopt"
    /\ claims[k] # None /\ Settled(k)
    /\ AdoptableBy(claims[k], arg[k])
    /\ claims' = [claims EXCEPT ![k] = Adopted(@, arg[k])]
    /\ pods' = [pods EXCEPT ![k] = arg[k]]
    /\ row' = [row EXCEPT ![k] = claims'[k]]
    /\ Goto(k, "adoptSave")
    /\ UNCHANGED <<outside, tentative, quarantined, releasing, fileVars, arg, snap,
                   listed, vm, status, lost>>

\* saveState after an adoption is log-only: the handler goes on whether the rename
\* landed or not.
AdoptSave(k) ==
    /\ pc[k] = "adoptSave"
    /\ BeginWrite(k, None)
    /\ Goto(k, "adoptSaving")
    /\ UNCHANGED <<outside, tableVars, localVars, vm, status, lost>>

AdoptSaved(k) ==
    /\ pc[k] = "adoptSaving"
    /\ \E landed \in BOOLEAN : EndWrite(k, landed)
    /\ Goto(k, "push")
    /\ UNCHANGED <<outside, tableVars, localVars, vm, status, lost>>

\* clearStrandedClaim, the read.
Stranded(k) == claims[k] # None /\ k \in tentative

StrandedFound(k) ==
    /\ pc[k] = "stranded"
    /\ Stranded(k)
    /\ row' = [row EXCEPT ![k] = claims[k]]
    /\ Goto(k, "strandedRelease")
    /\ UNCHANGED <<outside, tableVars, fileVars, arg, snap, listed, vm, status, lost>>

NoneStranded(k) ==
    /\ pc[k] = "stranded"
    /\ ~Stranded(k)
    /\ Goto(k, "claim")
    /\ UNCHANGED <<outside, tableVars, fileVars, localVars, vm, status, lost>>

\* clearStrandedClaim returns the stranded sandbox.  Nobody reads a tentative row
\* between the release and the withdrawal, so the two are one step.
StrandedRelease(k) ==
    /\ pc[k] = "strandedRelease"
    /\ ReleaseLands(row[k].id)
    /\ WithdrawClaim(k, row[k].id)
    /\ Goto(k, "claim")
    /\ row' = [row EXCEPT ![k] = None]
    /\ UNCHANGED <<outside, releasing, fileVars, arg, snap, listed, status, lost>>

\* Mutation of HandlerReleaseFails: the row is withdrawn all the same.
ReleaseFailsWithdraws(k) ==
    /\ pc[k] \in {"strandedRelease", "undo", "release"}
    /\ ReleaseErrs(row[k].id)
    /\ WithdrawClaim(k, row[k].id)
    /\ Return(k)
    /\ UNCHANGED <<outside, releasing, fileVars, status, lost>>

\* A release that errs ends the handler; the credential stays where it is.
HandlerReleaseFails(k) ==
    /\ pc[k] \in {"strandedRelease", "undo", "release"}
    /\ ReleaseErrs(row[k].id)
    /\ Return(k)
    /\ UNCHANGED <<outside, tableVars, fileVars, status, lost>>

\* A fresh sandbox and the row CreatePod builds for it.
FreshClaim(v, pod, d) ==
    [id |-> v, podUID |-> pod.uid, authority |-> AuthorityOf(pod), owner |-> None,
     deadline |-> d]

\* sandboxd grants the claim, with a lease end in the future or none.
ClaimGranted(k) ==
    /\ pc[k] = "claim"
    /\ arg[k].uid \notin BadSpec
    /\ \E v \in VMs, d \in {d \in Deadlines : d = 0 \/ d > now} :
          /\ vm[v] = "free"
          /\ vm' = [vm EXCEPT ![v] = "live"]
          /\ row' = [row EXCEPT ![k] = FreshClaim(v, arg[k], d)]
    /\ Goto(k, "record")
    /\ UNCHANGED <<outside, tableVars, fileVars, arg, snap, listed, status, lost>>

\* The pod has no usable spec, or sandboxd refuses: CreatePod fails.
ClaimFails(k) ==
    /\ pc[k] = "claim"
    /\ arg[k].uid \in BadSpec \/ "claim" \in Faults \/ \A v \in VMs : vm[v] # "free"
    /\ Return(k)
    /\ UNCHANGED <<outside, tableVars, fileVars, vm, status, lost>>

\* sandboxd grants the claim and the answer is lost: nobody has the token.
ClaimAnswerLost(k) ==
    /\ "answer" \in Faults
    /\ pc[k] = "claim"
    /\ arg[k].uid \notin BadSpec
    /\ \E v \in VMs :
          /\ vm[v] = "free"
          /\ vm' = [vm EXCEPT ![v] = "live"]
          /\ lost' = lost \cup {v}
    /\ Return(k)
    /\ UNCHANGED <<outside, tableVars, fileVars, status>>

Record(k) ==
    /\ pc[k] = "record"
    /\ claims' = [claims EXCEPT ![k] = row[k]]
    /\ pods' = [pods EXCEPT ![k] = arg[k]]
    /\ tentative' = tentative \cup {k}
    /\ Goto(k, "commit")
    /\ UNCHANGED <<outside, quarantined, releasing, fileVars, localVars, vm, status, lost>>

\* commitClaim
CommitBegin(k) ==
    /\ pc[k] = "commit"
    /\ BeginWrite(k, k)
    /\ Goto(k, "committing")
    /\ UNCHANGED <<outside, tableVars, localVars, vm, status, lost>>

\* The marker clears after the rename and before saveMu is let go.
CommitLands(k) ==
    /\ pc[k] = "committing"
    /\ EndWrite(k, TRUE)
    /\ tentative' = tentative \ {k}
    /\ Goto(k, "push")
    /\ UNCHANGED <<outside, pods, claims, quarantined, releasing, localVars, vm,
                   status, lost>>

\* Mutation of CommitFails: the failed write is only logged, as in saveState.
CommitFailsPushes(k) ==
    /\ pc[k] = "committing"
    /\ EndWrite(k, FALSE)
    /\ Goto(k, "push")
    /\ UNCHANGED <<outside, tableVars, localVars, vm, status, lost>>

CommitFails(k) ==
    /\ pc[k] = "committing"
    /\ EndWrite(k, FALSE)
    /\ Goto(k, "undo")
    /\ UNCHANGED <<outside, tableVars, localVars, vm, status, lost>>

\* undoUnpersistedClaim returns the sandbox and withdraws its row; CreatePod fails.
Undo(k) ==
    /\ pc[k] = "undo"
    /\ ReleaseLands(row[k].id)
    /\ WithdrawClaim(k, row[k].id)
    /\ Return(k)
    /\ UNCHANGED <<outside, releasing, fileVars, status, lost>>

PushRunning(k) ==
    /\ pc[k] = "push"
    /\ Pushed(arg[k].uid, "Running", row[k].id)
    /\ Return(k)
    /\ UNCHANGED <<outside, tableVars, fileVars, vm, lost>>
-----------------------------------------------------------------------------
(* DeletePod *)

\* virtual-kubelet deletes a pod marked for deletion, or, when the apiserver has
\* none left, the copy GetPod returns.  A request may arrive late: its pod is removed,
\* and another generation perhaps bound under the name.
DeleteDue(k, pod) ==
    /\ up /\ pc[k] = "idle" /\ KeyOf[pod.uid] = k
    /\ \/ kube[pod.uid] = "terminating" /\ pod = PodInKube(pod.uid)
       \/ Vacant(k) /\ pods[k] = pod
       \/ "late" \in Faults /\ kube[pod.uid] = "removed" /\ pod = PodInKube(pod.uid)
    /\ ForeignDeletes \/ (claims[k] # None => claims[k].podUID = pod.uid)

\* Mutation of PodUIDIsCurrent: no request is stale.
AnyUIDIsCurrent(k, pod) == TRUE

\* podUIDIsCurrent: a key with nothing tracked rejects nobody.
PodUIDIsCurrent(k, pod) == pods[k] # None => pods[k].uid = pod.uid

\* A pod without a claim is only forgotten.
ForgetPod(k, pod) ==
    /\ DeleteDue(k, pod)
    /\ PodUIDIsCurrent(k, pod)
    /\ claims[k] = None
    /\ pods' = [pods EXCEPT ![k] = None]
    /\ UNCHANGED <<outside, claims, tentative, quarantined, releasing, fileVars, pc,
                   localVars, vm, status, lost>>

DeletePod(k, pod) ==
    /\ DeleteDue(k, pod)
    /\ PodUIDIsCurrent(k, pod)
    /\ claims[k] # None
    /\ arg' = [arg EXCEPT ![k] = pod]
    /\ row' = [row EXCEPT ![k] = claims[k]]
    /\ Goto(k, "authorize")
    /\ UNCHANGED <<outside, tableVars, fileVars, snap, listed, vm, status, lost>>

\* What a read of owner o may answer: its state, an error, or an endpoint 404
\* that names nobody (a wrong guess of the resource).
OwnerAnswers(o) == {ownerState[o], "error", "ambiguous404"}

\* Mutation of DestroyAuthorized: any 404 is read as owner gone.
Any404Releases(o, answer) ==
    o = None \/ answer \in {"gone", "deleting", "expired", "replaced", "ambiguous404"}

\* Mutation of DestroyAuthorized: an expired owner counts as alive.
ExpiredOwnerPreserves(o, answer) == o = None \/ answer \in {"gone", "deleting", "replaced"}

\* destroyAuthorized
DestroyAuthorized(o, answer) ==
    o = None \/ answer \in {"gone", "deleting", "expired", "replaced"}

Authorize(k) ==
    /\ pc[k] = "authorize"
    /\ \E answer \in IF arg[k].owner = None THEN {"error"} ELSE OwnerAnswers(arg[k].owner) :
          Goto(k, IF DestroyAuthorized(arg[k].owner, answer) THEN "release" ELSE "preserve")
    /\ UNCHANGED <<outside, tableVars, fileVars, localVars, vm, status, lost>>

PreserveClaim(k) ==
    /\ pc[k] = "preserve"
    /\ pods' = [pods EXCEPT ![k] = None]
    /\ claims' = IF Holds(k, row[k].id)
                 THEN [claims EXCEPT ![k].owner = arg[k].owner] ELSE claims
    /\ Goto(k, "deleteSave")
    /\ UNCHANGED <<outside, tentative, quarantined, releasing, fileVars, localVars,
                   vm, status, lost>>

DeleteRelease(k) ==
    /\ pc[k] = "release"
    /\ ReleaseLands(row[k].id)
    /\ Goto(k, "withdraw")
    /\ UNCHANGED <<outside, tableVars, fileVars, localVars, status, lost>>

DeleteWithdraw(k) ==
    /\ pc[k] = "withdraw"
    /\ WithdrawClaim(k, row[k].id)
    /\ Goto(k, "deleteSave")
    /\ UNCHANGED <<outside, releasing, fileVars, localVars, vm, status, lost>>

\* saveState at the end of DeletePod, log-only as well.
DeleteSave(k) ==
    /\ pc[k] = "deleteSave"
    /\ BeginWrite(k, None)
    /\ Goto(k, "deleteSaving")
    /\ UNCHANGED <<outside, tableVars, localVars, vm, status, lost>>

DeleteSaved(k) ==
    /\ pc[k] = "deleteSaving"
    /\ \E landed \in BOOLEAN : EndWrite(k, landed)
    /\ Return(k)
    /\ UNCHANGED <<outside, tableVars, vm, status, lost>>
-----------------------------------------------------------------------------
(* GetPodStatus *)

\* Mutation of PodStatus: a row that is not settled counts.
PodStatusUnsettled(k) ==
    IF pods[k] = None THEN "none"
    ELSE IF claims[k] = None THEN "Pending"
    ELSE IF Expired(claims[k]) THEN "Failed"
    ELSE "Running"

\* The phase a caller reads, by the cached deadline alone.
PodStatus(k) ==
    IF pods[k] = None THEN "none"
    ELSE IF claims[k] = None \/ ~Settled(k) THEN "Pending"
    ELSE IF Expired(claims[k]) THEN "Failed"
    ELSE "Running"
=============================================================================
