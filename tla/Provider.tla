------------------------------ MODULE Provider ------------------------------
(***************************************************************************)
(* The vk-sandbox provider as one system: the handlers, the background     *)
(* loops, crashes and restarts, and the surroundings, interleaved.         *)
(***************************************************************************)
EXTENDS Surroundings, FiniteSets

LegacyVMs == {LegacyClaims[k].id : k \in {j \in Keys : LegacyClaims[j] # None}}

\* The daemon is not running yet; the file is absent or an older build's.
Init ==
    /\ up = FALSE
    /\ pods = NoRows
    /\ claims = NoRows
    /\ tentative = {}
    /\ quarantined = {}
    /\ releasing = {}
    /\ disk = [claims |-> LegacyClaims, releasing |-> {}]
    /\ saveMu = None
    /\ buf = EmptyTable
    /\ pc = [a \in Procs |-> "idle"]
    /\ arg = [a \in Procs |-> None]
    /\ row = [a \in Procs |-> None]
    /\ snap = [a \in Procs |-> NoRows]
    /\ listed = [a \in Procs |-> {}]
    /\ seen = {}
    /\ asking = None
    /\ queue = {}
    /\ dirty = FALSE
    /\ vm = [v \in VMs |-> IF v \in LegacyVMs THEN "live" ELSE "free"]
    /\ now = 0
    /\ kube = [p \in Pods |-> "absent"]
    /\ controller = OwnerOf
    /\ ownerState = [o \in Owners |-> "alive"]
    /\ status = [p \in Pods |-> NotPushed]
    /\ lost = {}

Create(k) ==
    \/ \E p \in Pods : CreatePod(k, p) \/ UpdatePod(k, p) \/ RetryCreate(k, p)
    \/ ExpiryDue(k) \/ NotExpired(k) \/ ExpiryList(k) \/ ExpiryListFails(k)
    \/ ExpiryRefresh(k) \/ ExpiryDrop(k)
    \/ AdoptNothing(k) \/ Displace(k) \/ Adopt(k) \/ AdoptSave(k) \/ AdoptSaved(k)
    \/ StrandedFound(k) \/ NoneStranded(k) \/ StrandedRelease(k)
    \/ ClaimGranted(k) \/ ClaimFails(k) \/ ClaimAnswerLost(k)
    \/ Record(k) \/ CommitBegin(k) \/ CommitLands(k) \/ CommitFails(k)
    \/ Undo(k) \/ PushRunning(k)

Delete(k) ==
    \/ \E pod \in PodObject : ForgetPod(k, pod) \/ DeletePod(k, pod)
    \/ Authorize(k) \/ PreserveClaim(k) \/ DeleteRelease(k) \/ DeleteWithdraw(k)
    \/ DeleteSave(k) \/ DeleteSaved(k)

Handler(k) == Create(k) \/ Delete(k) \/ HandlerReleaseFails(k)

Verify(a) ==
    \/ VerifySnapshot(a) \/ VerifyNothing(a)
    \/ VerifyList(a) \/ VerifyListFails(a) \/ VerifyApply(a)

LeaseWatch ==
    \/ LeaseSnapshot \/ LeaseList \/ LeaseListFails \/ LeaseNotify \/ LeaseEnd
    \/ \E k \in Keys : LeaseRefresh(k) \/ LeaseConfirm(k) \/ LeaseSuperseded(k)

OwnerRecheck ==
    \/ RecheckSnapshot \/ DrainSnapshot \/ DrainEnd
    \/ RecheckSaveBegin \/ RecheckSaveEnd
    \/ \E k \in Keys : RecheckNotDue(k) \/ RecheckKeeps(k) \/ RecheckReleases(k)
                     \/ WithdrawForRelease(k) \/ WithdrawRefused(k)
    \/ \E v \in VMs : DrainRelease(v) \/ DrainReleaseFails(v)

Environment ==
    \/ \E p \in Pods : PodBound(p) \/ PodTerminating(p) \/ PodRemoved(p)
    \/ \E p \in Pods, o \in Adopters : PodAdopted(p, o)
    \/ \E o \in Owners : OwnerEnds(o)
    \/ \E v \in VMs : SandboxGone(v)
    \/ Tick

Next ==
    \/ New \/ Crash
    \/ \E k \in Keys : Handler(k)
    \/ \E a \in Procs : Verify(a)
    \/ LeaseWatch
    \/ OwnerRecheck
    \/ Environment

Spec == Init /\ [][Next]_vars
-----------------------------------------------------------------------------
(* Safety *)

\* A release credential that counts is on disk: every row that is not tentative
\* and every queued release is in the state file, whatever write is in flight
\* (commitClaim, persist, the saveMu ordering; "Release credentials survive
\* restarts").
CredentialsDurable ==
    /\ \A k \in Keys : claims[k] # None /\ k \notin tentative => InTable(claims[k].id, disk)
    /\ \A v \in releasing : InTable(v, disk)

\* A sandbox a pod was told Running on can be torn down after any crash: while it
\* lives its credential is in the state file (CreatePod pushes after commitClaim,
\* and no path drops the row of a live sandbox).
RunningIsRecoverable ==
    \A p \in Pods :
        status[p].phase = "Running" /\ vm[status[p].id] = "live"
          => InTable(status[p].id, disk)

\* The provider never forgets a live sandbox: unless a crash or a lost answer took
\* the token, a running process holds the credential in its table or in the
\* handler about to record it.
NoLiveSandboxForgotten ==
    up => \A v \in Live :
             \/ v \in lost
             \/ InTable(v, Memory)
             \/ \E k \in Keys : pc[k] = "record" /\ row[k].id = v

\* Failed is published only for a sandbox the node no longer has
\* (publishExpiredLeases confirms with a listing and re-checks the row).
FailedOnlyWhenGone ==
    \A p \in Pods : status[p].phase = "Failed" => vm[status[p].id] # "live"

\* One sandbox, one holder: no id sits at two keys, or at a key and in the release
\* queue, so a sandbox on its way out is never adopted.
OneHolder ==
    /\ \A j, k \in Keys : claims[j] # None /\ claims[k] # None /\ j # k
                            => claims[j].id # claims[k].id
    /\ \A k \in Keys : claims[k] # None => claims[k].id \notin releasing

\* Two pods told Running on one sandbox answer to the same authority: a pod of
\* another owner, or another bare pod, claims fresh (adoptableBy).
NoHandoffAcrossOwners ==
    \A p, q \in Pods :
        /\ status[p].phase = "Running" /\ status[q].phase = "Running"
        /\ status[p].id = status[q].id
        /\ status[p].id \notin LegacyVMs
        => AuthorityOf(PodInKube(p)) = AuthorityOf(PodInKube(q))

\* The owner a row answers to lives.
OwnerAlive(c) == AnswersTo(c) \in Owners /\ ownerState[AnswersTo(c)] = "alive"

\* DeletePod destroys the sandbox of a controlled pod only when the owner its row
\* answers to has ended (destroyAuthorized).
DeleteSparesLiveOwners ==
    [][\A k \in Keys :
          /\ pc[k] = "release" /\ claims[k] # None
          /\ vm[claims[k].id] = "live" /\ vm'[claims[k].id] = "released"
          => ~OwnerAlive(claims[k])]_vars

\* The controller of the row's pod is on record in the row, and lives.
OwnControllerAlive(c) ==
    LET o == controller[c.podUID] IN
    o # None /\ o \in {c.authority, c.owner} /\ ownerState[o] = "alive"

\* Whatever pod a delete is for, DeletePod destroys a sandbox only when the owner it asked
\* about has ended and no other pod is tracked at the key, and it asks the right one when
\* the row is its pod's: the controller on record there has ended (podUIDIsCurrent,
\* destroyAuthorized).
DeleteSparesItsOwner ==
    [][\A k \in Keys :
          /\ pc[k] = "release" /\ claims[k] # None
          /\ vm[claims[k].id] = "live" /\ vm'[claims[k].id] = "released"
          => /\ pods[k] # None => pods[k].uid = arg[k].uid
             /\ arg[k].owner # None => ownerState[arg[k].owner] # "alive"
             /\ claims[k].podUID = arg[k].uid => ~OwnControllerAlive(claims[k])]_vars

\* A queued release is somebody's decision: a sandbox joins the queue when its
\* owner has ended, or when a pod of another authority took its key.
QueuedForCause ==
    [][\A k \in Keys :
          claims[k] # None /\ claims[k].id \in releasing' \ releasing
          => \/ ~OwnerAlive(claims[k])
             \/ pc[k] = "adopt" /\ AuthorityOf(arg[k]) # AnswersTo(claims[k])]_vars

\* A sandbox outlives the pod that runs on it: nobody releases it while that pod is
\* bound, neither its own handlers nor a re-check that read an older table
\* (podUIDIsCurrent, withdrawForRelease).
BoundPodKeepsSandbox ==
    [][\A p \in Pods :
          /\ kube[p] = "bound" /\ status[p].phase = "Running"
          /\ vm[status[p].id] = "live"
          => vm'[status[p].id] # "released"]_vars

\* A crash changes this in one way only: the sandbox of a bound pod is released when the
\* pod's owner has ended, and a bare pod's never (New loads rows without their pods, and
\* the re-check asks about them before the pods are back; saveState after an adoption is
\* log-only, so the row may name an earlier pod of that owner).
BoundReleasedForCause ==
    [][\A p \in Pods :
          /\ kube[p] = "bound" /\ status[p].phase = "Running"
          /\ status[p].id \notin LegacyVMs
          /\ vm[status[p].id] = "live" /\ vm'[status[p].id] = "released"
          => controller[p] # None /\ ownerState[controller[p]] # "alive"]_vars

\* A key costs the node one sandbox, however often its creates fail and are retried:
\* beyond those queued for release, and those whose token was lost, there are no more
\* live sandboxes than keys (clearStrandedClaim returns a stranded one before the next
\* is claimed).
OneSandboxPerKey == up => Cardinality(Live \ (releasing \cup lost)) <= Cardinality(Keys)

\* A pod reported Failed is not one that holds a sandbox: the expiry published for
\* it was its own row's, whatever took the key behind the listing
\* (publishExpiredLeases re-checks the row's id).
FailedPodHoldsNothing ==
    \A k \in Keys :
        pods[k] # None /\ claims[k] # None /\ status[pods[k].uid].phase = "Failed"
          => vm[claims[k].id] # "live"

\* Running is pushed only on a row that counts: on disk, and not one loaded without
\* a listing to vouch for it (resolveUnverifiedClaim, commitClaim; "not adoptable
\* and not Running until a later listing vouches for them").
RunningIsVouchedFor ==
    [][\A p \in Pods :
          status'[p] # status[p] /\ status'[p].phase = "Running"
          => Settled(KeyOf[p])]_vars

\* A pod that is read as Running, between handlers or in the middle of one, was told so
\* on the very sandbox it is read on, save while the handler at its key is about to: a
\* claim that is recorded and not committed, or whose commit or undo failed, stays
\* Pending (GetPodStatus, CreatePod's notify).
PolledAgreesWithPushed ==
    \A k \in Keys :
        PodStatus(k) = "Running" /\ pc[k] \notin {"adoptSave", "adoptSaving", "push"}
          => /\ status[pods[k].uid].phase # "none"
             /\ status[pods[k].uid].id = claims[k].id

\* A tracked pod that was told Running has a row for the lease watch to look at:
\* the end of its sandbox is published ("Lease expiry is published, never
\* discovered").  The code keeps this as long as every listing succeeds; after one that
\* failed, VerifyClaimsAgainstNode drops a row that left quarantine, and was adopted,
\* while its listing was on the way.
RunningPodIsWatched ==
    \A k \in Keys :
        /\ pods[k] # None /\ pc[k] = "idle"
        /\ status[pods[k].uid].phase = "Running"
        => claims[k] # None
=============================================================================
