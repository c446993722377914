-------------------------- MODULE ProviderTracking --------------------------
(*****************************************************************************)
(* What the pods the provider tracks, the rows it holds and the statuses it  *)
(* pushed have to do with each other: TrackedInv is an invariant of          *)
(* Provider, for every value of the constants.                               *)
(*****************************************************************************)
EXTENDS ProviderSafety

\* First-order and set reasoning first, then SMT.
USE ZenonT(5), SMTT(30), ZenonT(40)
USE DEF Rows, NoRows, Table, EmptyTable, Procs, Loops
USE DEF tableVars, fileVars, localVars, recheckVars, kubeVars, outside, beyond, inside

\* Only the surroundings change what the apiserver holds.
LEMMA KubeElsewhere ==
    ASSUME [Next]_vars
    PROVE  Environment \/ UNCHANGED <<kube, controller, ownerState>>
<1>1. CASE New \/ Crash \/ UNCHANGED vars \/ \E a \in Procs : Verify(a)
  BY <1>1 DEF New, Crash, vars, Verify, VerifySnapshot, VerifyNothing, VerifyList,
     VerifyListFails, VerifyApply
<1>2. ASSUME NEW k \in Keys, Create(k) PROVE UNCHANGED <<kube, controller, ownerState>>
  BY <1>2 DEF Create, CreatePod, UpdatePod, RetryCreate, ExpiryDue, NotExpired,
     ExpiryList, ExpiryListFails, ExpirySettled, ExpiryRefresh, ExpiryDrop, AdoptNothing,
     Displace, Adopt, AdoptSave, AdoptSaved, StrandedFound, NoneStranded, StrandedRelease,
     ClaimGranted, ClaimFails, ClaimAnswerLost, Record, CommitBegin, CommitLands,
     CommitFails, Undo, PushRunning
<1>3. ASSUME NEW k \in Keys, Delete(k) \/ HandlerReleaseFails(k)
      PROVE  UNCHANGED <<kube, controller, ownerState>>
  BY <1>3 DEF Delete, ForgetPod, DeletePod, Authorize, PreserveClaim, DeleteRelease,
     DeleteWithdraw, DeleteSave, DeleteSaved, HandlerReleaseFails
<1>4. CASE LeaseWatch \/ OwnerRecheck
  BY <1>4 DEF LeaseWatch, LeaseSnapshot, LeaseList, LeaseListFails, LeaseNotify,
     LeaseEnd, LeaseRefresh, LeaseConfirm, LeaseSuperseded, OwnerRecheck, RecheckSnapshot,
     DrainSnapshot, DrainEnd, RecheckSaveBegin, RecheckSaveEnd, RecheckNotDue, RecheckKeeps,
     RecheckReleases, WithdrawDone, WithdrawForRelease, WithdrawRefused, DrainRelease,
     DrainReleaseFails
<1> QED BY <1>1, <1>2, <1>3, <1>4 DEF Next, Handler

\* A pod that was bound once is not bound anew.
KubeForward ==
    \A p \in Pods : kube[p] # "absent" =>
        kube'[p] # "absent" /\ (kube'[p] = "bound" => kube[p] = "bound")

\* The apiserver's pods only move forward: bound, terminating, removed.
LEMMA KubeStep ==
    ASSUME TypeInv, [Next]_vars
    PROVE  KubeForward
<1>t. kube \in [Pods -> {"absent", "bound", "terminating", "removed"}]
  BY DEF TypeInv, TypeOK
<1>0. CASE UNCHANGED kube
  BY <1>0 DEF KubeForward
<1>1. ASSUME NEW p \in Pods, PodBound(p) \/ PodTerminating(p) \/ PodRemoved(p)
      PROVE  KubeForward
  BY <1>t, <1>1 DEF PodBound, PodTerminating, PodRemoved, KubeForward
<1>2. CASE Environment
  BY <1>0, <1>1, <1>2 DEF Environment, PodAdopted, OwnerEnds, SandboxGone, Tick
<1> QED BY <1>0, <1>2, KubeElsewhere

\* The pod at key j: another one is tracked by CreatePod only; one is forgotten by a
\* CreatePod that gives up or by a delete of that very pod.
PodTaken(j) == pods'[j] = arg[j] /\ (Adopt(j) \/ Record(j))
PodRenewed(j) ==
    /\ pods[j] # None /\ pods'[j] # None /\ pods'[j].uid = pods[j].uid
    /\ pods'[j] = PodInKube(pods[j].uid) /\ UNCHANGED <<claims, controller>>
    /\ pc[j] = "idle" /\ pc'[j] = "idle"
PodForgotten(j) ==
    /\ pods[j] # None /\ pods'[j] = None
    /\ \/ pc[j] \in {"strandedRelease", "undo"}
       \/ /\ pc[j] \in {"idle", "preserve", "withdraw"}
          /\ kube[pods[j].uid] # "bound" /\ UNCHANGED kube

\* Only the handler of its own key, and a crash, change the pod that is tracked there.
LEMMA PodElsewhere ==
    ASSUME TypeInv, [Next]_vars, NEW j \in Keys, ~Handler(j), ~Crash
    PROVE  pods'[j] = pods[j]
<1>t. pods \in [Keys -> PodObject \cup {None}]
  BY DEF TypeInv, TypeOK
<1>1. ASSUME NEW k \in Keys, k # j, Create(k) PROVE pods'[j] = pods[j]
  BY <1>t, <1>1 DEF Create, CreatePod, UpdatePod, RetryCreate, ExpiryDue, NotExpired,
     ExpiryList, ExpiryListFails, ExpirySettled, ExpiryRefresh, ExpiryDrop, AdoptNothing,
     Displace, Adopt, AdoptSave, AdoptSaved, StrandedFound, NoneStranded, StrandedRelease,
     ClaimGranted, ClaimFails, ClaimAnswerLost, Record, CommitBegin, CommitLands,
     CommitFails, Undo, PushRunning, WithdrawClaim
<1>2. ASSUME NEW k \in Keys, k # j, Delete(k) \/ HandlerReleaseFails(k)
      PROVE  pods'[j] = pods[j]
  BY <1>t, <1>2 DEF Delete, ForgetPod, DeletePod, Authorize, PreserveClaim, DeleteRelease,
     DeleteWithdraw, DeleteSave, DeleteSaved, HandlerReleaseFails, WithdrawClaim
<1>3. CASE New \/ \E a \in Procs : Verify(a)
  BY <1>3 DEF New, Verify, VerifySnapshot, VerifyNothing, VerifyList, VerifyListFails,
     VerifyApply
<1>4. CASE LeaseWatch \/ OwnerRecheck
  BY <1>4 DEF LeaseWatch, LeaseSnapshot, LeaseList, LeaseListFails, LeaseNotify,
     LeaseEnd, LeaseRefresh, LeaseConfirm, LeaseSuperseded, OwnerRecheck, RecheckSnapshot,
     DrainSnapshot, DrainEnd, RecheckSaveBegin, RecheckSaveEnd, RecheckNotDue, RecheckKeeps,
     RecheckReleases, WithdrawDone, WithdrawForRelease, WithdrawRefused, DrainRelease,
     DrainReleaseFails
<1>5. CASE Environment \/ UNCHANGED vars
  BY <1>5 DEF Environment, PodBound, PodTerminating, PodRemoved, PodAdopted, OwnerEnds,
     SandboxGone, Tick, vars
<1> QED BY <1>1, <1>2, <1>3, <1>4, <1>5 DEF Next, Handler

\* The apiserver's object of a pod.
LEMMA KubePod ==
    ASSUME TypeInv, NEW p \in Pods
    PROVE  PodInKube(p) \in PodObject /\ PodInKube(p) # None /\ PodInKube(p).uid = p
<1>1. controller[p] \in Owners \cup {None}
  BY DEF TypeInv, TypeOK
<1>2. PodInKube(p) \in PodObject /\ PodInKube(p).uid = p
  BY <1>1 DEF PodInKube, PodObject
<1> QED BY <1>2, NoneAssumption

\* The delete that virtual-kubelet asks for is of a pod that is not bound.
LEMMA DeleteIsDue ==
    ASSUME TypeInv, PodsInPlace, NEW k \in Keys, NEW pod \in PodObject, DeleteDue(k, pod)
    PROVE  kube[pod.uid] \notin {"bound", "absent"}
<1>1. KeyOf[pod.uid] = k /\ pod.uid \in Pods
  BY PodOwner DEF DeleteDue
<1>2. CASE Vacant(k) /\ pods[k] = pod
  BY <1>1, <1>2, NoneAssumption DEF Vacant, PodsInPlace
<1> QED BY <1>2 DEF DeleteDue

\* No other step changes which pod a key is tracked for.
LEMMA PodsStep ==
    ASSUME TypeInv, PodsInPlace, [Next]_vars, NEW j \in Keys, pods'[j] # pods[j]
    PROVE  Crash \/ PodTaken(j) \/ PodRenewed(j) \/ PodForgotten(j)
<1>t. pods \in [Keys -> PodObject \cup {None}]
  BY DEF TypeInv, TypeOK
<1>1. CASE Create(j)
  <2>1. ASSUME NEW p \in Pods, UpdatePod(j, p) PROVE PodRenewed(j)
    BY <1>t, <2>1, KubePod DEF UpdatePod, UpdateDue, SyncDue, PodRenewed
  <2>2. CASE Adopt(j) \/ Record(j)
    BY <1>t, <2>2 DEF Adopt, Record, PodTaken
  <2>3. CASE StrandedRelease(j) \/ Undo(j)
    BY <1>t, <2>3 DEF StrandedRelease, Undo, WithdrawClaim, PodForgotten
  <2> QED BY <1>1, <2>1, <2>2, <2>3 DEF Create, CreatePod, RetryCreate, ExpiryDue,
             NotExpired, ExpiryList, ExpiryListFails, ExpirySettled, ExpiryRefresh,
             ExpiryDrop, AdoptNothing, Displace, AdoptSave, AdoptSaved, StrandedFound,
             NoneStranded, ClaimGranted, ClaimFails, ClaimAnswerLost, CommitBegin,
             CommitLands, CommitFails, PushRunning
<1>2. CASE Delete(j) \/ HandlerReleaseFails(j)
  <2>1. ASSUME NEW pod \in PodObject, ForgetPod(j, pod) PROVE PodForgotten(j)
    BY <1>t, <2>1, DeleteIsDue DEF ForgetPod, DeleteDue, PodUIDIsCurrent, PodForgotten
  <2>2. CASE PreserveClaim(j) \/ DeleteWithdraw(j)
    BY <1>t, <2>2 DEF PreserveClaim, DeleteWithdraw, WithdrawClaim, PodForgotten,
       PodsInPlace, Deleting
  <2> QED BY <1>2, <2>1, <2>2 DEF Delete, DeletePod, Authorize, DeleteRelease, DeleteSave,
             DeleteSaved, HandlerReleaseFails
<1> QED BY <1>1, <1>2, PodElsewhere DEF Handler

\* A handler goes on with the pod it serves: in CreatePod, on to the announcement by an
\* adoption or a commit that landed, or in DeletePod.
GoesOn(j) ==
    /\ pc[j] \in ServesPod /\ arg'[j] = arg[j]
    /\ pc'[j] \in Creating => pc[j] \in Creating
    /\ pc'[j] \in {"commit", "committing"} => pc[j] \in {"commit", "committing"} \/ Record(j)
    /\ pc'[j] \in Announcing => pc[j] \in Announcing \/ Adopt(j) \/ CommitLands(j)
    /\ pc'[j] \in Deleting => pc[j] \in Deleting
Enters(j) ==
    \/ \E p \in Pods : CreatePod(j, p) \/ RetryCreate(j, p)
    \/ \E pod \in PodObject : DeletePod(j, pod)

\* A handler serves the pod it was called with until it returns.
LEMMA ServedStep ==
    ASSUME TypeInv, [Next]_vars, NEW j \in Keys, pc'[j] \in ServesPod
    PROVE  GoesOn(j) \/ Enters(j)
<1>p. /\ pc \in [Procs -> WorkerPCs \cup LoopPCs] /\ arg \in [Procs -> PodObject \cup {None}]
      /\ j \in Procs /\ j \notin Loops
  BY ProcsAssumption DEF TypeInv, TypeOK
<1> USE DEF ServesPod, PastVerify, Creating, Announcing, Deleting
<1>0. ASSUME pc'[j] = pc[j] /\ arg'[j] = arg[j] PROVE GoesOn(j)
  BY <1>0 DEF GoesOn
<1>1. CASE ~Own(j)
  BY <1>0, <1>1, Elsewhere DEF LocalKept
<1>2. CASE Verify(j)
  BY <1>p, <1>2 DEF Verify, VerifySnapshot, VerifyNothing, VerifyList, VerifyListFails,
     VerifyApply, VerifyDue, AfterVerify, Goto, Return, GoesOn
<1>3. CASE New \/ Crash
  BY <1>0, <1>3 DEF New, Crash
<1>4. CASE Create(j)
  <2>1. CASE \E p \in Pods : UpdatePod(j, p)
    BY <1>0, <2>1 DEF UpdatePod
  <2>2. CASE \/ ExpiryDue(j) \/ NotExpired(j) \/ ExpiryList(j) \/ ExpiryListFails(j)
             \/ ExpiryRefresh(j) \/ ExpiryDrop(j) \/ AdoptNothing(j) \/ Displace(j)
    BY <1>p, <2>2 DEF ExpiryDue, NotExpired, ExpiryList, ExpiryListFails, ExpirySettled,
       ExpiryRefresh, ExpiryDrop, AdoptNothing, Displace, Goto, Return, GoesOn
  <2>3. CASE Adopt(j) \/ AdoptSave(j) \/ AdoptSaved(j)
    BY <1>p, <2>3 DEF Adopt, AdoptSave, AdoptSaved, Goto, GoesOn
  <2>4. CASE \/ StrandedFound(j) \/ NoneStranded(j) \/ StrandedRelease(j) \/ ClaimGranted(j)
             \/ ClaimFails(j) \/ ClaimAnswerLost(j)
    BY <1>p, <2>4 DEF StrandedFound, NoneStranded, StrandedRelease, ClaimGranted, ClaimFails,
       ClaimAnswerLost, Goto, Return, GoesOn
  <2>5. CASE Record(j) \/ CommitBegin(j) \/ CommitLands(j) \/ CommitFails(j)
    BY <1>p, <2>5 DEF Record, CommitBegin, CommitLands, CommitFails, Goto, GoesOn
  <2>6. CASE Undo(j) \/ PushRunning(j)
    BY <1>p, <2>6 DEF Undo, PushRunning, Goto, Return
  <2> QED BY <1>4, <2>1, <2>2, <2>3, <2>4, <2>5, <2>6 DEF Create, Enters
<1>5. CASE Delete(j) \/ HandlerReleaseFails(j)
  <2>1. CASE \E pod \in PodObject : ForgetPod(j, pod)
    BY <1>0, <2>1 DEF ForgetPod
  <2>2. CASE \E pod \in PodObject : DeletePod(j, pod)
    BY <2>2 DEF Enters
  <2>3. CASE Authorize(j) \/ PreserveClaim(j) \/ DeleteRelease(j)
    BY <1>p, <2>3 DEF Authorize, PreserveClaim, DeleteRelease, Goto, GoesOn
  <2>4. CASE \/ DeleteWithdraw(j) \/ DeleteSave(j) \/ DeleteSaved(j) \/ HandlerReleaseFails(j)
    BY <1>p, <2>4 DEF DeleteWithdraw, DeleteSave, DeleteSaved, HandlerReleaseFails, Goto,
       Return
  <2> QED BY <1>5, <2>1, <2>2, <2>3, <2>4 DEF Delete
<1> QED BY <1>1, <1>2, <1>3, <1>4, <1>5 DEF Own, Handler

\* A handler about to announce its row goes on until it has.
LEMMA AnnouncingLeft ==
    ASSUME TypeInv, [Next]_vars, NEW j \in Keys, pc[j] \in Announcing, pc'[j] \notin Announcing
    PROVE  Crash \/ PushRunning(j)
<1>p. pc \in [Procs -> WorkerPCs \cup LoopPCs] /\ j \in Procs
  BY DEF TypeInv, TypeOK
<1>1. CASE ~Own(j)
  BY <1>1, Elsewhere DEF LocalKept
<1>2. CASE Verify(j)
  BY <1>2 DEF Verify, VerifySnapshot, VerifyNothing, VerifyList, VerifyListFails, VerifyApply,
     VerifyDue, Announcing
<1>3. CASE New
  BY <1>3 DEF New
<1>4. CASE Create(j)
  BY <1>p, <1>4 DEF Create, CreatePod, UpdatePod, RetryCreate, UpdateDue, SyncDue, ExpiryDue,
     NotExpired, ExpiryList, ExpiryListFails, ExpirySettled, ExpiryRefresh, ExpiryDrop,
     AdoptNothing, Displace, Adopt, AdoptSave, AdoptSaved, StrandedFound, NoneStranded,
     StrandedRelease, ClaimGranted, ClaimFails, ClaimAnswerLost, Record, CommitBegin,
     CommitLands, CommitFails, Undo, Goto, Announcing
<1>5. CASE Delete(j) \/ HandlerReleaseFails(j)
  BY <1>5 DEF Delete, ForgetPod, DeletePod, DeleteDue, Authorize, PreserveClaim,
     DeleteRelease, DeleteWithdraw, DeleteSave, DeleteSaved, HandlerReleaseFails, Announcing
<1> QED BY <1>1, <1>2, <1>3, <1>4, <1>5 DEF Own, Handler

\* What a handler that was just called serves: a bound pod that is not tracked, or that
\* has a stranded claim; or one on its way out, and nobody else is tracked.
LEMMA EntersWith ==
    ASSUME TypeInv, PodsInPlace, NEW j \in Keys, Enters(j)
    PROVE  /\ UNCHANGED <<pods, claims, tentative, kube, status>> /\ pc[j] = "idle"
           /\ KeyOf[arg'[j].uid] = j /\ kube[arg'[j].uid] # "absent"
           /\ pc'[j] \notin Announcing \cup {"commit", "committing"}
           /\ pc'[j] \in Deleting =>
                 /\ kube[arg'[j].uid] # "bound"
                 /\ pods[j] # None => pods[j].uid = arg'[j].uid
           /\ pc'[j] \in Creating =>
                 /\ kube[arg'[j].uid] = "bound" /\ status[arg'[j].uid].phase # "Failed"
                 /\ \/ pods[j] = None
                    \/ j \in tentative /\ Tracks(j, arg'[j].uid)
<1>p. /\ pc \in [Procs -> WorkerPCs \cup LoopPCs] /\ arg \in [Procs -> PodObject \cup {None}]
      /\ j \in Procs
  BY DEF TypeInv, TypeOK
<1>1. ASSUME NEW p \in Pods, CreatePod(j, p) \/ RetryCreate(j, p)
      PROVE  /\ arg'[j].uid = p /\ pc[j] = "idle"
             /\ pc'[j] \in Creating /\ pc'[j] \notin Announcing \cup Deleting
             /\ pc'[j] \notin {"commit", "committing"}
             /\ KeyOf[p] = j /\ kube[p] = "bound" /\ status[p].phase # "Failed"
             /\ pods[j] = None \/ (j \in tentative /\ Tracks(j, p))
             /\ UNCHANGED <<pods, claims, tentative, kube, status>>
  <2>1. arg'[j] = PodInKube(p)
    BY <1>p, <1>1 DEF CreatePod, RetryCreate, EnterCreate
  <2>2. pc'[j] \in {"verify", "expiry"}
    BY <1>p, <1>1 DEF CreatePod, RetryCreate, EnterCreate, Goto
  <2>3. pc'[j] \in Creating /\ pc'[j] \notin Announcing \cup Deleting
        /\ pc'[j] \notin {"commit", "committing"}
    BY <2>2 DEF Creating, Announcing, Deleting
  <2> QED BY <1>1, <2>1, <2>3, KubePod DEF CreatePod, RetryCreate, UpdateDue, SyncDue, Tracks
<1>2. ASSUME NEW pod \in PodObject, DeletePod(j, pod)
      PROVE  /\ arg'[j] = pod /\ pc[j] = "idle"
             /\ pc'[j] = "authorize"
             /\ KeyOf[pod.uid] = j /\ kube[pod.uid] \notin {"bound", "absent"}
             /\ pods[j] # None => pods[j].uid = pod.uid
             /\ UNCHANGED <<pods, claims, tentative, kube, status>>
  BY <1>p, <1>2, DeleteIsDue DEF DeletePod, DeleteDue, PodUIDIsCurrent, Goto
<1>3. "authorize" \notin Creating \cup Announcing \cup {"commit", "committing"}
  BY DEF Creating, Announcing
<1> QED BY <1>1, <1>2, <1>3 DEF Enters

\* A status is pushed by the handler that serves the pod, or by the lease watch, and not
\* over Failed.
LEMMA ToldStep ==
    ASSUME TypeInv, [Next]_vars, NEW p \in Pods, status'[p] # status[p]
    PROVE  /\ status[p].phase # "Failed"
           /\ \/ \E k \in Keys : /\ PushRunning(k) /\ p = arg[k].uid
                                 /\ status'[p] = [phase |-> "Running", id |-> row[k].id]
              \/ /\ LeaseNotify /\ p = arg["lease"].uid
                 /\ status'[p] = [phase |-> "Failed", id |-> row["lease"].id]
<1>t. status \in [Pods -> [phase: {"none", "Running", "Failed"}, id: VMs \cup {None}]]
  BY DEF TypeInv, TypeOK
<1>1. ASSUME NEW q, NEW phase, NEW v, Pushed(q, phase, v)
      PROVE  p = q /\ status[p].phase # "Failed" /\ status'[p] = [phase |-> phase, id |-> v]
  BY <1>t, <1>1 DEF Pushed
<1>2. ASSUME NEW k \in Keys, PushRunning(k)
      PROVE  /\ p = arg[k].uid /\ status[p].phase # "Failed"
             /\ status'[p] = [phase |-> "Running", id |-> row[k].id]
  <2>1. Pushed(arg[k].uid, "Running", row[k].id)
    BY <1>2 DEF PushRunning
  <2> QED BY <1>1, <2>1
<1>3. CASE LeaseNotify
  <2>1. Pushed(arg["lease"].uid, "Failed", row["lease"].id)
    BY <1>3 DEF LeaseNotify
  <2>2. /\ p = arg["lease"].uid /\ status[p].phase # "Failed"
        /\ status'[p] = [phase |-> "Failed", id |-> row["lease"].id]
    BY <1>1, <2>1
  <2> QED BY <1>3, <2>2
<1> QED BY <1>2, <1>3, Telling

\* A tentative row counts once its commit lands; until then it leaves with its pod.
LEMMA TentativeCleared ==
    ASSUME TypeInv, TableInv, [Next]_vars, NEW j \in Keys, j \in tentative, j \notin tentative'
    PROVE  Crash \/ CommitLands(j) \/ pods'[j] = None
<1>t. pods \in [Keys -> PodObject \cup {None}]
  BY DEF TypeInv, TypeOK
<1>1. CASE New \/ RowFades(j)
  BY <1>1 DEF New, RowFades
<1>2. ASSUME pc[j] \in WorksOnRow \ {"record"}, WithdrawClaim(j, row[j].id) PROVE pods'[j] = None
  BY <1>t, <1>2 DEF WithdrawClaim, TableInv, Markers, OwnRows, OwnRow, Holds
<1>3. CASE Create(j)
  <2>1. CASE StrandedRelease(j) \/ Undo(j)
    BY <1>2, <2>1 DEF StrandedRelease, Undo, WorksOnRow
  <2> QED BY <1>3, <2>1 DEF Create, CreatePod, UpdatePod, RetryCreate, ExpiryDue,
             NotExpired, ExpiryList, ExpiryListFails, ExpirySettled, ExpiryRefresh,
             ExpiryDrop, AdoptNothing, Displace, Adopt, AdoptSave, AdoptSaved, StrandedFound,
             NoneStranded, ClaimGranted, ClaimFails, ClaimAnswerLost, Record, CommitBegin,
             CommitFails, PushRunning
<1>4. CASE Delete(j) \/ HandlerReleaseFails(j)
  <2>1. CASE DeleteWithdraw(j)
    BY <1>2, <2>1 DEF DeleteWithdraw, WorksOnRow
  <2> QED BY <1>4, <2>1 DEF Delete, ForgetPod, DeletePod, Authorize, PreserveClaim,
             DeleteRelease, DeleteSave, DeleteSaved, HandlerReleaseFails
<1> QED BY <1>1, <1>3, <1>4, RowElsewhere DEF Handler

\* Where the lease watch is about to publish, the pod was bound once.
LEMMA NotifiesBound ==
    ASSUME TypeInv, TrackedInv, pc["lease"] = "leaseNotify"
    PROVE  arg["lease"].uid \in Pods /\ kube[arg["lease"].uid] # "absent"
<1>1. arg["lease"].uid \in Pods
  <2>1. arg["lease"] \in PodObject
    BY DEF TypeInv, TypeOK, InHand
  <2> QED BY <2>1, PodOwner
<1>2. Doomed(arg["lease"].uid, row["lease"].id) /\ PodsInPlace
  BY DEF TrackedInv
<1>3. KeyOf[arg["lease"].uid] \in Keys
  BY <1>1, ConstantsAssumption
<1> QED BY <1>1, <1>2, <1>3 DEF Doomed, PodsInPlace, Tracks

\* A tracked pod, and one being served, stays one of its key that was bound once.
LEMMA PlaceStep ==
    ASSUME TypeInv, TableInv, TrackedInv, [Next]_vars
    PROVE  PodsInPlace'
<1>t. /\ pods \in [Keys -> PodObject \cup {None}] /\ arg \in [Procs -> PodObject \cup {None}]
      /\ pc \in [Procs -> WorkerPCs \cup LoopPCs]
  BY DEF TypeInv, TypeOK
<1>i. PodsInPlace /\ KubeForward
  BY KubeStep DEF TrackedInv
<1>a. \A k \in Keys : pc[k] \in ServesPod =>
         arg[k].uid \in Pods /\ KeyOf[arg[k].uid] = k /\ kube[arg[k].uid] # "absent"
  <2>1. \A k \in Keys : pc[k] \in ServesPod => arg[k] \in PodObject
    BY <1>t DEF TypeInv, InHand
  <2> QED BY <1>i, <2>1, PodOwner DEF PodsInPlace
<1>b. \A k \in Keys : pods[k] # None =>
         pods[k].uid \in Pods /\ KeyOf[pods[k].uid] = k /\ kube[pods[k].uid] # "absent"
  BY <1>t, <1>i, PodOwner DEF PodsInPlace
<1>1. ~up' => pods' = NoRows
  <2>1. CASE up
    BY <2>1, StaysUp DEF Crash
  <2>2. CASE ~up
    BY <1>i, <2>2, DownActs DEF New, TableInv, PodsInPlace
  <2> QED BY <2>1, <2>2
<1>2. ASSUME NEW k \in Keys, pods'[k] # None
      PROVE  KeyOf[pods'[k].uid] = k /\ kube'[pods'[k].uid] # "absent"
  <2>1. CASE pods'[k] = pods[k] \/ PodRenewed(k)
    BY <1>b, <1>i, <1>2, <2>1 DEF KubeForward, PodRenewed
  <2>2. CASE PodTaken(k)
    <3>1. pc[k] \in ServesPod
      BY <2>2 DEF PodTaken, Adopt, Record, ServesPod, PastVerify
    <3> QED BY <1>a, <1>i, <2>2, <3>1 DEF PodTaken, KubeForward
  <2>3. ~Crash
    BY <1>2 DEF Crash
  <2> QED BY <1>i, <1>2, <2>1, <2>2, <2>3, PodsStep DEF PodForgotten
<1>3. ASSUME NEW k \in Keys, pc'[k] \in ServesPod
      PROVE  KeyOf[arg'[k].uid] = k /\ kube'[arg'[k].uid] # "absent"
  BY <1>a, <1>i, <1>3, ServedStep, EntersWith DEF GoesOn, KubeForward
<1>4. ASSUME NEW k \in Keys, pc'[k] \in Deleting
      PROVE  /\ kube'[arg'[k].uid] # "bound"
             /\ pods'[k] # None => pods'[k].uid = arg'[k].uid
  <2>1. pc'[k] \in ServesPod
    BY <1>4 DEF Deleting, ServesPod
  <2>2. CASE Enters(k)
    BY <1>i, <1>4, <2>2, EntersWith
  <2>3. CASE GoesOn(k)
    <3>1. pc[k] \in Deleting /\ pc[k] \in ServesPod /\ arg'[k] = arg[k]
      BY <1>4, <2>3 DEF GoesOn
    <3>2. ~PodTaken(k) /\ ~PodRenewed(k)
      BY <3>1 DEF PodTaken, PodRenewed, Adopt, Record, Deleting
    <3>3. pods'[k] # None => ~Crash
      BY DEF Crash
    <3>4. pods'[k] # None => pods'[k] = pods[k]
      BY <1>i, <3>2, <3>3, PodsStep DEF PodForgotten
    <3> QED BY <1>a, <1>i, <3>1, <3>4 DEF PodsInPlace, KubeForward
  <2> QED BY <2>1, <2>2, <2>3, ServedStep
<1>5. ASSUME NEW p \in Pods, status'[p].phase # "none" PROVE kube'[p] # "absent"
  <2>1. CASE status'[p] = status[p]
    BY <1>i, <1>5, <2>1 DEF PodsInPlace, KubeForward
  <2>2. ASSUME NEW k \in Keys, PushRunning(k), p = arg[k].uid PROVE kube[p] # "absent"
    BY <1>a, <2>2 DEF PushRunning, ServesPod, PastVerify
  <2>3. CASE LeaseNotify /\ p = arg["lease"].uid
    BY <1>i, <2>3, NotifiesBound DEF LeaseNotify, KubeForward
  <2> QED BY <1>i, <2>1, <2>2, <2>3, ToldStep DEF KubeForward
<1> QED BY <1>1, <1>2, <1>3, <1>4, <1>5 DEF PodsInPlace

\* CreatePod works on an untracked pod, or on a stranded claim, until it has a row that
\* counts; from Record on it tracks its pod.
LEMMA UntrackedStep ==
    ASSUME TypeInv, TableInv, TrackedInv, [Next]_vars
    PROVE  CreatesUntracked'
<1>t. /\ pods \in [Keys -> PodObject \cup {None}] /\ arg \in [Procs -> PodObject \cup {None}]
      /\ pc \in [Procs -> WorkerPCs \cup LoopPCs]
  BY DEF TypeInv, TypeOK
<1>i. PodsInPlace /\ CreatesUntracked
  BY DEF TrackedInv
<1>s. Creating \subseteq ServesPod /\ Announcing \cup {"commit", "committing"} \subseteq ServesPod
      /\ Creating \cap Announcing = {} /\ {"commit", "committing"} \subseteq Creating
      /\ "idle" \notin Creating \cup Announcing
  BY DEF Creating, Announcing, ServesPod, PastVerify
<1>1. ASSUME NEW k \in Keys, pc'[k] \in Creating, pods'[k] # None PROVE k \in tentative'
  <2>0. ~Crash
    BY <1>1 DEF Crash
  <2>1. CASE Enters(k)
    BY <1>i, <1>1, <2>1, EntersWith
  <2>2. CASE GoesOn(k)
    <3>1. pc[k] \in Creating
      BY <1>1, <2>2 DEF GoesOn
    <3>2. ~CommitLands(k) /\ ~Adopt(k) /\ ~PodRenewed(k)
      BY <1>t, <1>1, <1>s DEF CommitLands, Adopt, PodRenewed, Goto, Creating
    <3>3. CASE Record(k)
      BY <3>3 DEF Record
    <3>4. CASE pods'[k] = pods[k]
      BY <1>i, <1>1, <2>0, <3>1, <3>2, <3>4, TentativeCleared DEF CreatesUntracked
    <3> QED BY <1>i, <1>1, <2>0, <3>2, <3>3, <3>4, PodsStep DEF PodTaken, PodForgotten
  <2> QED BY <1>1, <1>s, <2>1, <2>2, ServedStep
<1>2. ASSUME NEW k \in Keys, pc'[k] \in Announcing PROVE k \notin tentative'
  <2>1. ~Record(k)
    BY <1>t, <1>2 DEF Record, Goto, Announcing
  <2>2. CASE Adopt(k)
    BY <2>2 DEF Adopt, Settled
  <2>3. CASE CommitLands(k)
    BY <2>3 DEF CommitLands
  <2>4. CASE pc[k] \in Announcing
    BY <1>i, <2>1, <2>4, TentativeStep DEF CreatesUntracked
  <2> QED BY <1>i, <1>2, <1>s, <2>2, <2>3, <2>4, ServedStep, EntersWith DEF GoesOn
<1>3. ASSUME NEW k \in Keys, pc'[k] \in Announcing \cup {"commit", "committing"}
      PROVE  Tracks(k, arg[k].uid)' /\ arg'[k] = arg[k]
  <2>0. ~Crash
    BY <1>3 DEF Crash, Announcing
  <2>1. GoesOn(k)
    BY <1>i, <1>3, <1>s, ServedStep, EntersWith
  <2>2. CASE Adopt(k) \/ Record(k)
    <3>1. pods'[k] = arg[k] /\ arg'[k] = arg[k]
      BY <1>t, <2>1, <2>2 DEF Adopt, Record, GoesOn
    <3>2. arg[k] # None
      BY <2>2 DEF Adopt, Record, TypeInv, InHand, ServesPod, PastVerify
    <3> QED BY <3>1, <3>2 DEF Tracks
  <2>3. CASE ~Adopt(k) /\ ~Record(k)
    <3>1. pc[k] \in Announcing \cup {"commit", "committing"}
      BY <1>3, <2>1, <2>3 DEF GoesOn, CommitLands
    <3>2. Tracks(k, arg[k].uid)
      BY <1>i, <3>1 DEF CreatesUntracked
    <3>3. ~PodRenewed(k) /\ ~PodTaken(k)
      BY <2>3, <3>1 DEF PodRenewed, PodTaken, Announcing
    <3>4. ~PodForgotten(k)
      BY <3>1 DEF PodForgotten, Announcing
    <3>5. pods'[k] = pods[k]
      BY <1>i, <2>0, <3>3, <3>4, PodsStep
    <3> QED BY <2>1, <3>2, <3>5 DEF GoesOn, Tracks
  <2> QED BY <2>2, <2>3
<1> QED BY <1>1, <1>2, <1>3 DEF CreatesUntracked

\* A pod that was told Failed, or is about to be, gets no other sandbox.
LEMMA DoomedStep ==
    ASSUME TypeInv, TableInv, TrackedInv, [Next]_vars, NEW p \in Pods, NEW v, Doomed(p, v),
           ~Crash \/ status[p].phase = "Failed"
    PROVE  Doomed(p, v)'
<1>t. /\ pods \in [Keys -> PodObject \cup {None}] /\ pc \in [Procs -> WorkerPCs \cup LoopPCs]
      /\ kube \in [Pods -> {"absent", "bound", "terminating", "removed"}]
      /\ kube' \in [Pods -> {"absent", "bound", "terminating", "removed"}]
  BY TypeStep DEF TypeInv, TypeOK
<1>i. PodsInPlace /\ CreatesUntracked /\ KubeForward
  BY KubeStep DEF TrackedInv
<1>s. Creating \subseteq ServesPod
  BY DEF Creating, ServesPod, PastVerify
<1> DEFINE k == KeyOf[p]
<1>k. k \in Keys
  BY ConstantsAssumption
<1>d. /\ pc[k] \in Creating => arg[k].uid # p
      /\ Tracks(k, p) => k \notin tentative /\ (claims[k] # None => claims[k].id = v)
      /\ ~Tracks(k, p) => kube[p] \in {"terminating", "removed"} \/ status[p].phase = "Failed"
  BY DEF Doomed
<1> HIDE DEF k
<1>f. status[p].phase = "Failed" => status'[p] = status[p]
  BY ToldStep
<1>1. ASSUME pc'[k] \in Creating PROVE arg'[k].uid # p
  <2>1. CASE Enters(k)
    BY <1>d, <1>i, <1>k, <1>1, <2>1, EntersWith DEF Tracks
  <2> QED BY <1>d, <1>k, <1>s, <1>1, <2>1, ServedStep DEF GoesOn
<1>2. ASSUME Tracks(k, p)'
      PROVE  Tracks(k, p) /\ k \notin tentative' /\ (claims'[k] # None => claims'[k].id = v)
  <2>0. pods'[k] # None /\ pods'[k].uid = p
    BY <1>2 DEF Tracks
  <2>1. ~Crash /\ ~PodForgotten(k)
    BY <1>k, <2>0 DEF Crash, PodForgotten
  <2>2. ~PodTaken(k)
    BY <1>d, <2>0 DEF PodTaken, Adopt, Record, Creating
  <2>3. Tracks(k, p)
    BY <1>i, <1>k, <2>0, <2>1, <2>2, PodsStep DEF PodRenewed, Tracks
  <2>4. ~Record(k)
    <3>1. pc[k] \notin Creating
      BY <1>d, <1>i, <1>k, <2>3 DEF CreatesUntracked, Tracks
    <3> QED BY <3>1 DEF Record, Creating
  <2>5. ~New
    BY <1>i, <1>k, <2>3 DEF New, PodsInPlace, Tracks
  <2>6. k \notin tentative'
    BY <1>d, <1>k, <2>3, <2>4, TentativeStep
  <2>7. ASSUME claims'[k] # None PROVE claims'[k].id = v
    BY <1>d, <1>k, <2>3, <2>4, <2>5, <2>7, RowOrigin DEF IdKept
  <2> QED BY <2>3, <2>6, <2>7
<1>3. ASSUME ~Tracks(k, p)'
      PROVE  kube'[p] \in {"terminating", "removed"} \/ status'[p].phase = "Failed"
  <2>1. CASE status[p].phase = "Failed"
    BY <1>f, <2>1
  <2>2. CASE kube[p] \in {"terminating", "removed"}
    BY <1>i, <1>t, <2>2 DEF KubeForward
  <2>3. CASE Tracks(k, p) /\ ~Crash
    <3>1. pods[k] # None /\ pods[k].uid = p /\ pods'[k] # pods[k]
      BY <1>3, <2>3 DEF Tracks
    <3>2. pc[k] \notin Creating
      BY <1>d, <1>i, <1>k, <2>3, <3>1 DEF CreatesUntracked
    <3>3. ~PodTaken(k) /\ ~PodRenewed(k)
      BY <1>3, <3>1, <3>2 DEF PodTaken, PodRenewed, Adopt, Record, Creating, Tracks
    <3>4. PodForgotten(k)
      BY <1>i, <1>k, <2>3, <3>1, <3>3, PodsStep
    <3>5. kube[p] # "bound" /\ kube[p] # "absent"
      BY <1>i, <1>k, <3>1, <3>2, <3>4 DEF PodForgotten, PodsInPlace, Creating
    <3> QED BY <1>i, <1>t, <3>5 DEF KubeForward
  <2> QED BY <1>d, <2>1, <2>2, <2>3
<1> QED BY <1>1, <1>2, <1>3 DEF Doomed, k

\* The row a tracked pod is read on stays the one it was told of.
LEMMA ToldOfRowStep ==
    ASSUME TypeInv, TableInv, TrackedInv, [Next]_vars
    PROVE  ToldOfRow'
<1>t. /\ pods \in [Keys -> PodObject \cup {None}] /\ pc \in [Procs -> WorkerPCs \cup LoopPCs]
      /\ status \in [Pods -> [phase: {"none", "Running", "Failed"}, id: VMs \cup {None}]]
  BY DEF TypeInv, TypeOK
<1>i. PodsInPlace /\ CreatesUntracked /\ ToldOfRow
  BY DEF TrackedInv
<1> SUFFICES ASSUME NEW k \in Keys, pods'[k] # None, claims'[k] # None, k \notin tentative',
                    pc'[k] \notin Announcing
             PROVE  /\ status'[pods'[k].uid].phase # "none"
                    /\ status'[pods'[k].uid].id = claims'[k].id
  BY DEF ToldOfRow
<1>1. ~Crash /\ ~PodForgotten(k)
  BY DEF Crash, PodForgotten
<1>2. ~Adopt(k) /\ ~Record(k) /\ ~CommitLands(k)
  BY <1>t DEF Adopt, Record, CommitLands, Goto, Announcing
<1>3. pods[k] # None /\ pods'[k].uid = pods[k].uid
  BY <1>i, <1>1, <1>2, PodsStep DEF PodTaken, PodRenewed
<1> DEFINE p == pods[k].uid
<1>p. p \in Pods /\ KeyOf[p] = k /\ Tracks(k, p)
  BY <1>t, <1>i, <1>3, PodOwner DEF PodsInPlace, Tracks
<1> HIDE DEF p
<1>4. ~New
  BY <1>i, <1>3 DEF New, PodsInPlace
<1>5. k \notin tentative /\ claims[k] # None /\ claims'[k].id = claims[k].id
  BY <1>2, <1>4, SettledRowStep DEF IdKept
<1>6. CASE pc[k] \notin Announcing
  <2>1. status[p].phase # "none" /\ status[p].id = claims[k].id
    BY <1>i, <1>3, <1>5, <1>6 DEF ToldOfRow, p
  <2>2. ASSUME NEW j \in Keys, PushRunning(j), p = arg[j].uid PROVE FALSE
    <3>1. KeyOf[p] = j /\ pc[j] = "push"
      BY <1>i, <2>2 DEF PushRunning, PodsInPlace, ServesPod, PastVerify
    <3> QED BY <1>p, <1>6, <3>1 DEF Announcing
  <2>4. status'[p].phase # "none" /\ status'[p].id = claims[k].id
    <3>1. CASE LeaseNotify /\ p = arg["lease"].uid
               /\ status'[p] = [phase |-> "Failed", id |-> row["lease"].id]
      <4>1. Doomed(p, row["lease"].id)
        BY <3>1 DEF TrackedInv, LeaseNotify
      <4> QED BY <1>p, <1>5, <3>1, <4>1 DEF Doomed
    <3> QED BY <1>p, <2>1, <2>2, <3>1, ToldStep
  <2> QED BY <1>3, <1>5, <2>4 DEF p
<1>7. CASE pc[k] \in Announcing
  <2>1. PushRunning(k)
    BY <1>7, AnnouncingLeft, <1>1
  <2>2. arg[k].uid = p /\ row[k].id = claims[k].id
    BY <1>i, <1>3, <1>5, <1>7
       DEF CreatesUntracked, Tracks, p, TableInv, OwnRows, OwnRow, Announcing, WorksOnRow
  <2>3. status'[p] = IF status[p].phase = "Failed" THEN status[p]
                     ELSE [phase |-> "Running", id |-> row[k].id]
    BY <1>t, <1>p, <2>1, <2>2 DEF PushRunning, Pushed
  <2>4. CASE status[p].phase = "Failed"
    <3>1. Doomed(p, status[p].id)
      BY <1>p, <2>4 DEF TrackedInv
    <3> QED BY <1>p, <1>3, <1>5, <2>3, <2>4, <3>1 DEF Doomed, p
  <2> QED BY <1>3, <1>5, <2>2, <2>3, <2>4 DEF p
<1> QED BY <1>6, <1>7

\* The watch publishes for the pod whose own row it found gone.
LEMMA NotifyStep ==
    ASSUME TypeInv, TableInv, TrackedInv, [Next]_vars, pc'["lease"] = "leaseNotify"
    PROVE  Doomed(arg["lease"].uid, row["lease"].id)'
<1>t. /\ pods \in [Keys -> PodObject \cup {None}] /\ arg \in [Procs -> PodObject \cup {None}]
      /\ row \in [Procs -> Claim \cup {None}] /\ "lease" \in Procs /\ "lease" \notin Keys
      /\ pc \in [Procs -> WorkerPCs \cup LoopPCs]
  BY ProcsAssumption DEF TypeInv, TypeOK
<1>1. ASSUME NEW k \in Keys, LeaseConfirm(k) PROVE Doomed(arg["lease"].uid, row["lease"].id)'
  <2> DEFINE p == pods[k].uid
             v == snap["lease"][k].id
  <2>1. arg'["lease"] = pods[k] /\ row'["lease"] = snap["lease"][k]
    BY <1>t, <1>1 DEF LeaseConfirm
  <2>2. pods[k] # None /\ Holds(k, v) /\ snap["lease"][k] # None
    BY <1>1 DEF LeaseConfirm, StillCandidate, ReapedCandidate
  <2>3. KeyOf[p] = k /\ Tracks(k, p)
    BY <2>2 DEF TrackedInv, PodsInPlace, Tracks
  <2>4. k \notin tentative
    BY <1>t, <2>2 DEF TableInv, Markers
  <2>5. pc[k] \notin Creating
    BY <2>2, <2>4 DEF TrackedInv, CreatesUntracked
  <2>6. pc'[k] = pc[k] /\ UNCHANGED <<pods, claims, tentative, kube, status>>
    BY <1>t, <1>1 DEF LeaseConfirm, Goto
  <2>7. Doomed(p, v)
    BY <2>2, <2>3, <2>4, <2>5 DEF Doomed, Holds
  <2> QED BY <2>1, <2>2, <2>3, <2>5, <2>6, <2>7 DEF Doomed, Tracks
<1>2. CASE /\ pc["lease"] = "leaseNotify"
           /\ row'["lease"] = row["lease"] /\ arg'["lease"] = arg["lease"]
  <2>1. ~Crash
    BY <1>t DEF Crash
  <2>2. arg["lease"].uid \in Pods /\ Doomed(arg["lease"].uid, row["lease"].id)
    BY <1>2, NotifiesBound DEF TrackedInv
  <2> DEFINE p == arg["lease"].uid
             v == row["lease"].id
  <2>3. ASSUME NEW q \in Pods, NEW w, q = p, w = v PROVE Doomed(q, w)'
    BY <2>1, <2>2, <2>3, DoomedStep
  <2>4. p' = p /\ v' = v
    BY <1>2
  <2> QED BY <2>2, <2>3, <2>4 DEF Doomed, Tracks
<1> QED BY <1>1, <1>2, NotifyEntered

\* A pod reported Failed stays with the sandbox that is gone.
LEMMA FailedStep ==
    ASSUME TypeInv, TableInv, TrackedInv, [Next]_vars, NEW p \in Pods,
           status'[p].phase = "Failed"
    PROVE  Doomed(p, status[p].id)'
<1>1. CASE status'[p] = status[p]
  <2>1. Doomed(p, status[p].id) /\ status[p].phase = "Failed"
    BY <1>1 DEF TrackedInv
  <2>2. ASSUME NEW w, w = status[p].id PROVE Doomed(p, w)'
    BY <2>1, <2>2, DoomedStep
  <2> QED BY <1>1, <2>2 DEF Doomed, Tracks
<1>2. CASE /\ LeaseNotify /\ p = arg["lease"].uid
           /\ status'[p] = [phase |-> "Failed", id |-> row["lease"].id]
  <2>1. Doomed(p, row["lease"].id)
    BY <1>2 DEF TrackedInv, LeaseNotify
  <2>2. ~Crash
    BY <1>2 DEF LeaseNotify, Crash
  <2>3. ASSUME NEW w, w = row["lease"].id PROVE Doomed(p, w)'
    BY <2>1, <2>2, <2>3, DoomedStep
  <2> QED BY <1>2, <2>3 DEF Doomed, Tracks
<1>3. CASE \E k \in Keys : status'[p] = [phase |-> "Running", id |-> row[k].id]
  BY <1>3
<1> QED BY <1>1, <1>2, <1>3, ToldStep

\* Nothing is tracked before the first start.
LEMMA InitTracked == Init => TrackedInv
<1> SUFFICES ASSUME Init PROVE TrackedInv
  OBVIOUS
<1>1. PodsInPlace
  BY DEF Init, PodsInPlace, ServesPod, PastVerify, Deleting, NotPushed
<1>2. CreatesUntracked /\ ToldOfRow
  BY DEF Init, CreatesUntracked, ToldOfRow, Creating, Announcing
<1> QED BY <1>1, <1>2 DEF Init, TrackedInv, NotPushed

\* Every step keeps the invariant.
LEMMA TrackedStep ==
    ASSUME TypeInv, TableInv, TrackedInv, [Next]_vars
    PROVE  TrackedInv'
BY PlaceStep, UntrackedStep, ToldOfRowStep, NotifyStep, FailedStep DEF TrackedInv

\* The provider and the pods agree on who holds what, in every reachable state.
THEOREM Tracking == Spec => [](FullInv /\ TrackedInv)
<1>1. Init => FullInv /\ TrackedInv
  BY InitType, InitIdentity, InitTable, InitSafety, InitTracked DEF FullInv
<1>2. FullInv /\ TrackedInv /\ [Next]_vars => (FullInv /\ TrackedInv)'
  <2>1. ASSUME FullInv, TrackedInv, [Next]_vars PROVE FullInv' /\ TrackedInv'
    BY <2>1, FullStep, TrackedStep DEF FullInv
  <2> QED BY <2>1
<1> QED BY <1>1, <1>2, PTL DEF Spec

\* A pod that is read as Running was told so, on the sandbox it is read on, save while
\* CreatePod is about to push it (GetPodStatus, CreatePod's notify).
THEOREM PolledIsPushed == Spec => []PolledAgreesWithPushed
<1>1. TrackedInv => PolledAgreesWithPushed
  <2> SUFFICES ASSUME TrackedInv, NEW k \in Keys, PodStatus(k) = "Running",
                      pc[k] \notin Announcing
               PROVE  /\ status[pods[k].uid].phase # "none"
                      /\ status[pods[k].uid].id = claims[k].id
    BY DEF PolledAgreesWithPushed, Announcing
  <2>1. pods[k] # None /\ claims[k] # None /\ k \notin tentative
    BY DEF PodStatus, Settled
  <2> QED BY <2>1 DEF TrackedInv, ToldOfRow
<1> QED BY <1>1, Tracking, PTL

\* A pod reported Failed holds no sandbox: what expired was its own row, whatever took the
\* key behind the listing (publishExpiredLeases).
THEOREM FailedHoldsNothing == Spec => []FailedPodHoldsNothing
<1>1. FullInv /\ TrackedInv => FailedPodHoldsNothing
  <2> SUFFICES ASSUME FullInv, TrackedInv, NEW k \in Keys, pods[k] # None, claims[k] # None,
                      status[pods[k].uid].phase = "Failed"
               PROVE  vm[claims[k].id] # "live"
    BY DEF FailedPodHoldsNothing
  <2> DEFINE p == pods[k].uid
  <2>1. p \in Pods /\ KeyOf[p] = k /\ Tracks(k, p)
    <3>1. pods[k] \in PodObject
      BY DEF FullInv, TypeInv, TypeOK
    <3> QED BY <3>1, PodOwner DEF TrackedInv, PodsInPlace, Tracks
  <2>2. Doomed(p, status[p].id) /\ vm[status[p].id] # "live"
    BY <2>1 DEF TrackedInv, FullInv, SafetyInv, StatusTrue, FailedOnlyWhenGone
  <2> QED BY <2>1, <2>2 DEF Doomed
<1> QED BY <1>1, Tracking, PTL

\* Running is pushed on a row that is on disk and that a listing vouched for
\* (resolveUnverifiedClaim, commitClaim).
THEOREM VouchedFor == Spec => RunningIsVouchedFor
<1>1. FullInv /\ TrackedInv /\ [Next]_vars =>
        [\A p \in Pods : status'[p] # status[p] /\ status'[p].phase = "Running"
                           => Settled(KeyOf[p])]_vars
  <2> SUFFICES ASSUME FullInv, TrackedInv, [Next]_vars, NEW p \in Pods,
                      status'[p] # status[p], status'[p].phase = "Running"
               PROVE  Settled(KeyOf[p])
    OBVIOUS
  <2>0. TypeInv /\ status'[p] # [phase |-> "Failed", id |-> row["lease"].id]
    BY DEF FullInv
  <2>1. PICK k \in Keys : PushRunning(k) /\ p = arg[k].uid
    BY <2>0, ToldStep
  <2>2. pc[k] = "push"
    BY <2>1 DEF PushRunning
  <2>3. KeyOf[p] = k /\ k \notin tentative
    BY <2>1, <2>2 DEF TrackedInv, PodsInPlace, CreatesUntracked, ServesPod, PastVerify, Announcing
  <2>4. k \notin quarantined
    BY <2>2 DEF FullInv, TableInv, OwnRows, OwnRow, PastVerify
  <2> QED BY <2>3, <2>4 DEF Settled
<1> QED BY <1>1, Tracking, PTL DEF Spec, RunningIsVouchedFor

\* drainReleases drops an id from its copy before or when it leaves the queue.
LEMMA DrainsStep ==
    ASSUME TypeInv, TableInv, DrainsQueued, [Next]_vars
    PROVE  DrainsQueued'
<1>1. CASE Crash
  BY <1>1 DEF Crash, DrainsQueued
<1>2. CASE New
  BY <1>2 DEF New, DrainsQueued
<1>3. CASE OwnerRecheck
  <2>1. CASE DrainSnapshot
    BY <2>1 DEF DrainSnapshot, DrainsQueued, TableInv, DownIsEmpty
  <2> QED BY <1>3, <2>1 DEF OwnerRecheck, RecheckNotDue, RecheckKeeps, RecheckReleases,
             WithdrawDone, WithdrawForRelease, WithdrawRefused, DrainRelease,
             DrainReleaseFails, RecheckSnapshot, DrainEnd, RecheckSaveBegin, RecheckSaveEnd,
             DrainsQueued
<1>4. CASE UNCHANGED <<up, queue>>
  <2>1. CASE UNCHANGED releasing \/ \E k \in Keys : Displace(k)
    BY <1>4, <2>1 DEF Displace, DrainsQueued
  <2> QED BY <1>1, <1>2, <1>3, <2>1, QueueChanges DEF QueueChange, OwnerRecheck
<1>5. ASSUME NEW k \in Keys, Handler(k) PROVE UNCHANGED <<up, queue>>
  <2>1. CASE Create(k)
    BY <2>1 DEF Create, CreatePod, UpdatePod, RetryCreate, ExpiryDue, NotExpired,
       ExpiryList, ExpiryListFails, ExpirySettled, ExpiryRefresh, ExpiryDrop, AdoptNothing,
       Displace, Adopt, AdoptSave, AdoptSaved, StrandedFound, NoneStranded, StrandedRelease,
       ClaimGranted, ClaimFails, ClaimAnswerLost, Record, CommitBegin, CommitLands,
       CommitFails, Undo, PushRunning
  <2> QED BY <1>5, <2>1 DEF Handler, Delete, ForgetPod, DeletePod, Authorize, PreserveClaim,
             DeleteRelease, DeleteWithdraw, DeleteSave, DeleteSaved, HandlerReleaseFails
<1>6. CASE LeaseWatch \/ Environment \/ UNCHANGED vars \/ \E a \in Procs : Verify(a)
  BY <1>4, <1>6 DEF LeaseWatch, LeaseSnapshot, LeaseList, LeaseListFails, LeaseNotify,
     LeaseEnd, LeaseRefresh, LeaseConfirm, LeaseSuperseded, Environment, PodBound,
     PodTerminating, PodRemoved, PodAdopted, OwnerEnds, SandboxGone, Tick, vars,
     Verify, VerifySnapshot, VerifyNothing, VerifyList, VerifyListFails, VerifyApply
<1> QED BY <1>1, <1>2, <1>3, <1>4, <1>5, <1>6 DEF Next

\* A row in hand is the one it was, or the one at the key.
LEMMA InHandStep ==
    ASSUME TypeInv, TableInv, [Next]_vars, NEW k \in Keys, pc'[k] \in WorksOnRow \ {"record"}
    PROVE  \/ pc[k] \in WorksOnRow \ {"record"} /\ row'[k] = row[k]
           \/ Holds(k, row[k].id)'
<1>t. /\ pc \in [Procs -> WorkerPCs \cup LoopPCs] /\ row \in [Procs -> Claim \cup {None}]
      /\ claims \in Rows /\ k \in Procs
  BY DEF TypeInv, TypeOK
<1> DEFINE Goal == \/ pc[k] \in WorksOnRow \ {"record"} /\ row'[k] = row[k]
                   \/ Holds(k, row[k].id)'
<1> SUFFICES Goal
  OBVIOUS
<1>0. ASSUME pc'[k] = pc[k] /\ row'[k] = row[k] PROVE Goal
  BY <1>0
<1>h. ASSUME claims'[k] # None, row'[k] = claims'[k] PROVE Goal
  BY <1>h DEF Holds
<1> HIDE DEF Goal
<1>1. CASE ~Own(k)
  BY <1>0, <1>1, Elsewhere DEF LocalKept
<1>2. CASE Verify(k)
  BY <1>t, <1>2 DEF Verify, VerifySnapshot, VerifyNothing, VerifyList, VerifyListFails,
     VerifyApply, VerifyDue, AfterVerify, Goto, Return, WorksOnRow
<1>3. CASE New \/ Crash
  BY <1>3 DEF New, Crash, TableInv, DownIsEmpty, WorksOnRow
<1>4. CASE Create(k)
  <2>1. CASE \E p \in Pods : UpdatePod(k, p)
    BY <1>0, <2>1 DEF UpdatePod
  <2>2. CASE ExpiryDue(k) \/ StrandedFound(k)
    BY <1>t, <1>h, <2>2 DEF ExpiryDue, PastDeadline, StrandedFound, Stranded
  <2>3. CASE Adopt(k)
    <3>1. claims'[k] = Adopted(claims[k], arg[k]) /\ row'[k] = claims'[k] /\ claims[k] # None
      BY <1>t, <2>3 DEF Adopt
    <3>2. claims'[k] # None
      <4>1. claims[k] \in Claim /\ arg[k] \in PodObject
        BY <1>t, <2>3 DEF Adopt, TypeInv, TypeOK, InHand, ServesPod, PastVerify
      <4> QED BY <3>1, <4>1, ClaimExcept, NoneAssumption
    <3> QED BY <1>h, <3>1, <3>2
  <2>4. CASE Record(k)
    <3>1. row[k] # None
      BY <2>4 DEF Record, TypeInv, InHand, WorksOnRow
    <3> QED BY <1>t, <1>h, <2>4, <3>1 DEF Record
  <2>5. CASE AdoptSave(k) \/ AdoptSaved(k) \/ CommitBegin(k) \/ CommitLands(k) \/ CommitFails(k)
             \/ ExpiryList(k)
    BY <1>t, <2>5 DEF AdoptSave, AdoptSaved, CommitBegin, CommitLands, CommitFails,
       ExpiryList, WorksOnRow, Goal
  <2> QED BY <1>t, <1>4, <2>1, <2>2, <2>3, <2>4, <2>5 DEF Create, CreatePod, RetryCreate,
             EnterCreate, NotExpired, ExpiryListFails, ExpirySettled, ExpiryRefresh,
             ExpiryDrop, AdoptNothing, Displace, NoneStranded, StrandedRelease, ClaimGranted,
             ClaimFails, ClaimAnswerLost, Undo, PushRunning, Goto, Return, WorksOnRow
<1>5. CASE Delete(k) \/ HandlerReleaseFails(k)
  <2>1. CASE \E pod \in PodObject : ForgetPod(k, pod)
    BY <1>0, <2>1 DEF ForgetPod
  <2>2. CASE \E pod \in PodObject : DeletePod(k, pod)
    BY <1>t, <1>h, <2>2 DEF DeletePod
  <2>3. CASE Authorize(k) \/ DeleteRelease(k)
    BY <1>t, <2>3 DEF Authorize, DeleteRelease, WorksOnRow, Goal
  <2> QED BY <1>t, <1>5, <2>1, <2>2, <2>3 DEF Delete, PreserveClaim, DeleteWithdraw,
             DeleteSave, DeleteSaved, HandlerReleaseFails, Goto, Return, WorksOnRow
<1> QED BY <1>1, <1>2, <1>3, <1>4, <1>5 DEF Own, Handler, Goal

\* A live sandbox at a key that is tracked, and whose handler is not about to displace it,
\* does not join the release queue.
LEMMA TrackedNotQueued ==
    ASSUME FullInv, [Next]_vars, ~New, NEW k \in Keys, NEW v \in VMs, Holds(k, v),
           pods[k] # None, pc[k] # "adopt"
    PROVE  v \notin releasing'
<1>1. /\ v \notin releasing
      /\ \A j \in Keys : Holds(j, v) => j = k
  BY DEF FullInv, SafetyInv, NamedOnce, Distinct, Memory, Holds
<1>2. ~Queued(v)
  BY <1>1 DEF Queued, Displace, WithdrawForRelease, Withdrawable
<1> QED BY <1>1, <1>2, QueueStep DEF FullInv

\* A live sandbox a handler works on stays at its key or joins the queue, one that is
\* about to be announced stays at its key.
LEMMA InHandKeptStep ==
    ASSUME FullInv, TrackedInv, InHandKept, [Next]_vars
    PROVE  InHandKept'
<1> SUFFICES ASSUME NEW k \in Keys, pc'[k] \in WorksOnRow \ {"record"}, vm'[row'[k].id] = "live"
             PROVE  \/ Holds(k, row[k].id)'
                    \/ /\ row'[k].id \in releasing'
                       /\ pc'[k] \notin Announcing \cup {"commit", "committing"}
  BY DEF InHandKept
<1>i. TypeInv /\ IdentityInv /\ TableInv /\ ListingSound /\ CreatesUntracked
  BY DEF FullInv, SafetyInv, TrackedInv
<1>s. /\ WorksOnRow \subseteq ServesPod /\ "adopt" \notin Announcing \cup {"commit", "committing"}
      /\ "idle" \notin WorksOnRow
  BY DEF WorksOnRow, ServesPod, PastVerify, Announcing
<1>1. CASE pc[k] \in WorksOnRow \ {"record"} /\ row'[k] = row[k] /\ ~Holds(k, row[k].id)'
  <2> DEFINE v == row[k].id
  <2>1. v \in VMs /\ vm[v] # "free"
    BY <1>i, <1>1, IssuedInHand DEF TypeInv, InHand
  <2>2. vm[v] = "live" /\ vm'[v] = "live"
    BY <1>i, <1>1, <2>1, Rebirth DEF NoRebirth
  <2>3. ~New /\ ~Crash
    BY <1>i, <1>s, <1>1 DEF New, Crash, TableInv, DownIsEmpty
  <2>4. Enters(k) => pc[k] = "idle"
    BY <1>i, EntersWith DEF TrackedInv
  <2>5. GoesOn(k)
    BY <1>i, <1>s, <1>1, <2>4, ServedStep
  <2>6. ~Adopt(k) /\ ~Record(k)
    BY <1>1 DEF Adopt, Record, WorksOnRow
  <2>7. pc'[k] \in Announcing \cup {"commit", "committing"} =>
          pc[k] \in Announcing \cup {"commit", "committing"}
    BY <2>5, <2>6 DEF GoesOn, CommitLands
  <2>8. CASE Holds(k, v)
    <3>1. v \in releasing'
      BY <1>i, <1>1, <2>1, <2>2, <2>3, <2>8, RowKeepsLive DEF RowStays, Holds
    <3>2. ASSUME pc[k] \in Announcing \cup {"commit", "committing"} PROVE FALSE
      <4>1. pods[k] # None
        BY <1>i, <3>2 DEF CreatesUntracked, Tracks
      <4> QED BY <1>s, <2>1, <2>3, <2>8, <3>1, <3>2, <4>1, TrackedNotQueued
    <3> QED BY <1>1, <2>7, <3>1, <3>2
  <2>9. CASE v \in releasing /\ pc[k] \notin Announcing \cup {"commit", "committing"}
    BY <1>i, <1>1, <2>2, <2>3, <2>7, <2>9, QueueKeepsLive
  <2> QED BY <1>1, <2>2, <2>8, <2>9 DEF InHandKept
<1> QED BY <1>i, <1>1, InHandStep

\* A bound pod that was told Running keeps its row, while nothing crashes.
LEMMA BoundTrackedStep ==
    ASSUME FullInv, TrackedInv, BoundInv, [Next]_vars, ~Crash
    PROVE  BoundIsTracked'
<1> SUFFICES ASSUME NEW p \in Pods, kube'[p] = "bound", status'[p].phase = "Running",
                    vm'[status'[p].id] = "live"
             PROVE  /\ Tracks(KeyOf[p], p)' /\ Holds(KeyOf[p], status[p].id)'
                    /\ KeyOf[p] \notin tentative'
  BY DEF BoundIsTracked
<1>i. /\ TypeInv /\ IdentityInv /\ TableInv /\ ListingSound /\ StatusNamed
      /\ PodsInPlace /\ CreatesUntracked /\ KubeForward
      /\ status \in [Pods -> [phase: {"none", "Running", "Failed"}, id: VMs \cup {None}]]
  BY KubeStep DEF FullInv, SafetyInv, StatusTrue, TrackedInv, TypeInv, TypeOK
<1> DEFINE k == KeyOf[p]
<1>k. k \in Keys
  BY ConstantsAssumption
<1>1. CASE status'[p] = status[p]
  <2> DEFINE v == status[p].id
  <2>1. v \in VMs /\ vm[v] # "free"
    BY <1>i, <1>1 DEF IdentityInv, AllIssued, StatusNamed
  <2>2. vm[v] = "live" /\ vm'[v] = "live"
    BY <1>i, <1>1, <2>1, Rebirth DEF NoRebirth
  <2>3. kube[p] = "bound"
    BY <1>i, <1>1 DEF PodsInPlace, KubeForward
  <2>4. Tracks(k, p) /\ Holds(k, v) /\ k \notin tentative
    BY <1>1, <2>2, <2>3 DEF BoundInv, BoundIsTracked
  <2>5. ~New
    BY <1>i, <1>k, <2>4 DEF New, PodsInPlace, Tracks
  <2>6. pc[k] \notin Creating
    BY <1>i, <1>k, <2>4 DEF CreatesUntracked, Tracks
  <2>7. v \notin releasing'
    BY <1>k, <2>1, <2>4, <2>5, <2>6, TrackedNotQueued DEF Tracks, Creating
  <2>8. claims'[k] # None /\ claims'[k].id = v /\ k \notin tentative'
    <3>1. ASSUME NEW w \in VMs, w = v PROVE RowStays(k, w)
      BY <1>i, <1>k, <2>2, <2>4, <2>5, <3>1, RowKeepsLive
    <3> QED BY <2>1, <2>4, <2>7, <3>1 DEF RowStays, Holds
  <2>9. pods'[k] = pods[k] \/ PodRenewed(k)
    <3>1. ~PodTaken(k)
      BY <2>6 DEF PodTaken, Adopt, Record, Creating
    <3>2. ~PodForgotten(k)
      BY <2>3, <2>4, <2>6 DEF PodForgotten, Creating, Tracks
    <3> QED BY <1>i, <1>k, <3>1, <3>2, PodsStep
  <2>10. Tracks(k, p)'
    BY <2>4, <2>9 DEF PodRenewed, Tracks
  <2> QED BY <1>1, <2>8, <2>10 DEF Holds
<1>2. ASSUME NEW j \in Keys, PushRunning(j), p = arg[j].uid,
             status'[p] = [phase |-> "Running", id |-> row[j].id]
      PROVE  Tracks(k, p)' /\ Holds(k, status[p].id)' /\ k \notin tentative'
  <2>1. pc[j] = "push" /\ UNCHANGED <<vm, pods, claims, tentative>>
    BY <1>2 DEF PushRunning
  <2>2. k = j /\ Tracks(j, p) /\ j \notin tentative
    BY <1>i, <1>2, <2>1 DEF PodsInPlace, CreatesUntracked, ServesPod, PastVerify, Announcing
  <2>3. Holds(j, row[j].id)
    BY <1>2, <2>1 DEF BoundInv, InHandKept, WorksOnRow, Announcing
  <2> QED BY <1>2, <2>1, <2>2, <2>3 DEF Holds, Tracks
<1>3. status'[p] # [phase |-> "Failed", id |-> row["lease"].id]
  OBVIOUS
<1> QED BY <1>i, <1>1, <1>2, <1>3, ToldStep

\* A release is of a sandbox in the hand of a handler at work on it, or of a queued one.
LEMMA ReleasedFrom ==
    ASSUME TypeInv, [Next]_vars, NEW v \in VMs, vm[v] # "released", vm'[v] = "released"
    PROVE  \/ v \in queue
           \/ \E k \in Keys : pc[k] \in {"strandedRelease", "undo", "release"} /\ row[k].id = v
<1>t. vm \in [VMs -> {"free", "live", "released", "gone"}]
  BY DEF TypeInv, TypeOK
<1>0. CASE vm'[v] = vm[v]
  BY <1>0
<1>r. ASSUME NEW w, ReleaseLands(w) \/ ReleaseErrs(w) PROVE w = v
  BY <1>t, <1>r DEF ReleaseLands, ReleaseErrs
<1>1. ASSUME NEW k \in Keys, Create(k)
      PROVE  pc[k] \in {"strandedRelease", "undo"} /\ row[k].id = v
  <2>1. CASE StrandedRelease(k) \/ Undo(k)
    BY <1>r, <2>1 DEF StrandedRelease, Undo
  <2>2. CASE ClaimGranted(k) \/ ClaimAnswerLost(k)
    BY <1>t, <2>2 DEF ClaimGranted, ClaimAnswerLost
  <2> QED BY <1>1, <2>1, <2>2 DEF Create, CreatePod, UpdatePod, RetryCreate, ExpiryDue,
             NotExpired, ExpiryList, ExpiryListFails, ExpirySettled, ExpiryRefresh,
             ExpiryDrop, AdoptNothing, Displace, Adopt, AdoptSave, AdoptSaved, StrandedFound,
             NoneStranded, ClaimFails, Record, CommitBegin, CommitLands, CommitFails,
             PushRunning
<1>2. ASSUME NEW k \in Keys, Delete(k) \/ HandlerReleaseFails(k)
      PROVE  pc[k] \in {"strandedRelease", "undo", "release"} /\ row[k].id = v
  BY <1>r, <1>2 DEF Delete, ForgetPod, DeletePod, Authorize, PreserveClaim, DeleteRelease,
     DeleteWithdraw, DeleteSave, DeleteSaved, HandlerReleaseFails
<1>3. CASE OwnerRecheck
  <2>1. ASSUME NEW w \in VMs, DrainRelease(w) \/ DrainReleaseFails(w) PROVE v \in queue
    BY <1>r, <2>1 DEF DrainRelease, DrainReleaseFails
  <2> QED BY <1>0, <1>3, <2>1 DEF OwnerRecheck, RecheckSnapshot, DrainSnapshot, DrainEnd,
             RecheckSaveBegin, RecheckSaveEnd, RecheckNotDue, RecheckKeeps, RecheckReleases,
             WithdrawDone, WithdrawForRelease, WithdrawRefused
<1>4. CASE Environment
  BY <1>t, <1>4 DEF Environment, PodBound, PodTerminating, PodRemoved, PodAdopted, OwnerEnds,
     SandboxGone, Tick
<1>5. CASE LeaseWatch \/ New \/ Crash \/ UNCHANGED vars \/ \E a \in Procs : Verify(a)
  BY <1>5 DEF LeaseWatch, LeaseSnapshot, LeaseList, LeaseListFails, LeaseNotify, LeaseEnd,
     LeaseRefresh, LeaseConfirm, LeaseSuperseded, New, Crash, vars, Verify, VerifySnapshot,
     VerifyNothing, VerifyList, VerifyListFails, VerifyApply
<1> QED BY <1>1, <1>2, <1>3, <1>4, <1>5 DEF Next, Handler

\* While nothing crashes, the sandbox a bound pod was told Running on stays at the key that
\* is tracked for the pod, out of reach of clearStrandedClaim, undoUnpersistedClaim,
\* DeletePod, the re-check and its queue (podUIDIsCurrent, withdrawForRelease).
THEOREM Bound ==
    ASSUME "crash" \notin Faults
    PROVE  Spec => [](FullInv /\ TrackedInv /\ BoundInv)
<1>1. Init => FullInv /\ TrackedInv /\ BoundInv
  <2>1. Init => BoundInv
    BY DEF Init, BoundInv, InHandKept, DrainsQueued, BoundIsTracked, WorksOnRow, NotPushed
  <2> QED BY <2>1, InitType, InitIdentity, InitTable, InitSafety, InitTracked DEF FullInv
<1>2. FullInv /\ TrackedInv /\ BoundInv /\ [Next]_vars => (FullInv /\ TrackedInv /\ BoundInv)'
  <2> SUFFICES ASSUME FullInv, TrackedInv, BoundInv, [Next]_vars
               PROVE  FullInv' /\ TrackedInv' /\ BoundInv'
    OBVIOUS
  <2>1. ~Crash
    BY DEF Crash
  <2>2. FullInv' /\ TrackedInv'
    BY FullStep, TrackedStep DEF FullInv
  <2>3. InHandKept' /\ DrainsQueued' /\ BoundIsTracked'
    BY <2>1, InHandKeptStep, DrainsStep, BoundTrackedStep DEF FullInv, BoundInv
  <2> QED BY <2>2, <2>3 DEF BoundInv
<1> QED BY <1>1, <1>2, PTL DEF Spec

\* While nothing crashes, nobody releases the sandbox of a bound pod that was told
\* Running: neither its own handlers nor a re-check that read an older table
\* (podUIDIsCurrent, withdrawForRelease).
THEOREM BoundKept ==
    ASSUME "crash" \notin Faults
    PROVE  Spec => BoundPodKeepsSandbox
<1>1. FullInv /\ TrackedInv /\ BoundInv /\ [Next]_vars =>
        [\A p \in Pods :
            /\ kube[p] = "bound" /\ status[p].phase = "Running"
            /\ vm[status[p].id] = "live"
            => vm'[status[p].id] # "released"]_vars
  <2> SUFFICES ASSUME FullInv, TrackedInv, BoundInv, [Next]_vars, NEW p \in Pods,
                      kube[p] = "bound", status[p].phase = "Running",
                      vm[status[p].id] = "live", vm'[status[p].id] = "released"
               PROVE  FALSE
    OBVIOUS
  <2> DEFINE k == KeyOf[p]
             v == status[p].id
  <2>1. Tracks(k, p) /\ Holds(k, v) /\ k \notin tentative /\ k \in Keys
    BY ConstantsAssumption DEF BoundInv, BoundIsTracked
  <2>2. v \in VMs
    BY ConstantsAssumption, ClaimId, <2>1 DEF FullInv, TypeInv, TypeOK, Holds
  <2>3. v \notin releasing /\ \A j \in Keys : Holds(j, v) => j = k
    BY <2>1 DEF FullInv, SafetyInv, NamedOnce, Distinct, Memory, Holds
  <2>4. ASSUME NEW j \in Keys, pc[j] \in {"strandedRelease", "undo", "release"}, row[j].id = v
        PROVE  FALSE
    <3>1. j = k
      BY <2>3, <2>4 DEF BoundInv, InHandKept, WorksOnRow
    <3>2. pc[k] = "release"
      BY <2>1, <2>4, <3>1 DEF TrackedInv, CreatesUntracked, Tracks, Creating
    <3>3. arg[k].uid = p /\ kube[arg[k].uid] # "bound"
      BY <2>1, <3>2 DEF TrackedInv, PodsInPlace, Deleting, Tracks
    <3> QED BY <3>3
  <2>5. v \notin queue
    BY <2>3 DEF BoundInv, DrainsQueued
  <2> QED BY <2>2, <2>4, <2>5, ReleasedFrom DEF FullInv
<1> QED BY <1>1, Bound, PTL DEF Spec, BoundPodKeepsSandbox
-----------------------------------------------------------------------------
(* A tracked pod has a row, as long as every listing succeeds. *)

\* CreatePod leaves a row at its key when it starts to track a pod.
LEMMA RowTaken ==
    ASSUME TypeInv, NEW k \in Keys, Adopt(k) \/ Record(k)
    PROVE  claims'[k] # None /\ \A j \in Keys : j # k => claims'[j] = claims[j]
<1>t. /\ claims \in [Keys -> Claim \cup {None}]
      /\ pc[k] \in ServesPod => arg[k] \in PodObject
      /\ pc[k] = "record" => row[k] # None
  BY DEF TypeInv, TypeOK, InHand, WorksOnRow
<1>1. CASE Adopt(k)
  <2>1. Adopted(claims[k], arg[k]) # None
    BY <1>t, <1>1, ClaimExcept, NoneAssumption DEF Adopt, ServesPod, PastVerify
  <2>2. claims' = [claims EXCEPT ![k] = Adopted(claims[k], arg[k])]
    BY <1>1 DEF Adopt
  <2> QED BY <1>t, <2>1, <2>2
<1>2. CASE Record(k)
  BY <1>t, <1>2 DEF Record
<1> QED BY <1>1, <1>2

\* A row leaves its key by a start, a crash, a listing, a displacement, or with its pod.
LEMMA RowDropped ==
    ASSUME TypeInv, [Next]_vars, NEW j \in Keys, claims[j] # None, claims'[j] = None
    PROVE  \/ New \/ Crash \/ \E a \in Procs : VerifyApply(a)
           \/ ExpiryDrop(j) \/ Displace(j)
           \/ pods'[j] = None
<1> USE DEF TypeInv, TypeOK
<1>1. ASSUME NEW k \in Keys, Create(k)
      PROVE  ExpiryDrop(j) \/ Displace(j) \/ pods'[j] = None
  <2>1. CASE ExpiryDrop(k)
    <3>1. k # j => claims'[j] = claims[j]
      BY <2>1 DEF ExpiryDrop, DropClaim
    <3> QED BY <2>1, <3>1
  <2>2. CASE Displace(k)
    BY <2>2 DEF Displace
  <2>3. CASE StrandedRelease(k) \/ Undo(k)
    <3>1. WithdrawClaim(k, row[k].id)
      BY <2>3 DEF StrandedRelease, Undo
    <3> QED BY <3>1 DEF WithdrawClaim, DropClaim
  <2>4. CASE ExpiryRefresh(k)
    BY <2>4, RefreshFades DEF ExpiryRefresh
  <2>5. CASE Adopt(k) \/ Record(k)
    BY <2>5, RowTaken
  <2> QED
    BY <1>1, <2>1, <2>2, <2>3, <2>4, <2>5 DEF Create, CreatePod, UpdatePod, RetryCreate,
       ExpiryDue, NotExpired, ExpiryList, ExpiryListFails, AdoptNothing, AdoptSave, AdoptSaved,
       StrandedFound, NoneStranded, ClaimGranted, ClaimFails, ClaimAnswerLost, CommitBegin,
       CommitLands, CommitFails, PushRunning
<1>2. ASSUME NEW k \in Keys, Delete(k) \/ HandlerReleaseFails(k)
      PROVE  pods'[j] = None
  <2>1. CASE PreserveClaim(k)
    BY <2>1, PreserveFades
  <2>2. CASE DeleteWithdraw(k)
    BY <2>2 DEF DeleteWithdraw, WithdrawClaim, DropClaim
  <2> QED
    BY <1>2, <2>1, <2>2 DEF Delete, ForgetPod, DeletePod, Authorize, DeleteRelease, DeleteSave,
       DeleteSaved, HandlerReleaseFails
<1>3. ASSUME NEW a \in Procs, Verify(a) PROVE VerifyApply(a)
  BY <1>3 DEF Verify, VerifySnapshot, VerifyNothing, VerifyList, VerifyListFails
<1>4. ~LeaseWatch
  BY RefreshFades DEF LeaseWatch, LeaseSnapshot, LeaseList, LeaseListFails, LeaseNotify,
     LeaseEnd, LeaseRefresh, LeaseConfirm, LeaseSuperseded
<1>5. CASE OwnerRecheck
  <2>1. PICK k \in Keys : WithdrawForRelease(k)
    BY <1>5 DEF OwnerRecheck, RecheckSnapshot, DrainSnapshot, DrainEnd, RecheckSaveBegin,
       RecheckSaveEnd, RecheckNotDue, RecheckKeeps, RecheckReleases, WithdrawRefused,
       DrainRelease, DrainReleaseFails
  <2> QED BY <2>1 DEF WithdrawForRelease, WithdrawDone, Withdrawable
<1>6. ~Environment /\ ~UNCHANGED vars
  BY DEF Environment, PodBound, PodTerminating, PodRemoved, PodAdopted, OwnerEnds,
     SandboxGone, Tick, vars
<1> QED BY <1>1, <1>2, <1>3, <1>4, <1>5, <1>6 DEF Next, Handler

\* A verification begins with rows to settle, and then asks for a listing.
LEMMA VerifyEntered ==
    ASSUME TypeInv, [Next]_vars, NEW a \in Procs, pc'[a] \in {"verifyList", "verifyApply"}
    PROVE  \/ pc[a] \in {"verifyList", "verifyApply"}
           \/ \E b \in Procs : VerifySnapshot(b) \/ VerifyList(b)
<1> DEFINE V == {"verifyList", "verifyApply"}
<1>p. pc \in [Procs -> WorkerPCs \cup LoopPCs]
  BY DEF TypeInv, TypeOK
<1>1. CASE New \/ Crash \/ Environment \/ UNCHANGED vars
  BY <1>1 DEF New, Crash, Environment, PodBound, PodTerminating, PodRemoved, PodAdopted,
     OwnerEnds, SandboxGone, Tick, vars
<1>2. ASSUME NEW b \in Procs, Verify(b)
      PROVE  pc[a] \in V \/ VerifySnapshot(b) \/ VerifyList(b)
  BY <1>p, <1>2 DEF Verify, VerifyNothing, VerifyListFails, VerifyApply, AfterVerify, Goto, Return
<1>3. ASSUME NEW k \in Keys, Create(k) PROVE pc[a] \in V
  BY <1>p, <1>3 DEF Create, CreatePod, UpdatePod, RetryCreate, EnterCreate, ExpiryDue,
     NotExpired, ExpiryList, ExpiryListFails, ExpirySettled, ExpiryRefresh, ExpiryDrop,
     AdoptNothing, Displace, Adopt, AdoptSave, AdoptSaved, StrandedFound, NoneStranded,
     StrandedRelease, ClaimGranted, ClaimFails, ClaimAnswerLost, Record, CommitBegin,
     CommitLands, CommitFails, Undo, PushRunning, Goto, Return
<1>4. ASSUME NEW k \in Keys, Delete(k) \/ HandlerReleaseFails(k) PROVE pc[a] \in V
  BY <1>p, <1>4 DEF Delete, ForgetPod, DeletePod, Authorize, PreserveClaim, DeleteRelease,
     DeleteWithdraw, DeleteSave, DeleteSaved, HandlerReleaseFails, Goto, Return
<1>5. CASE LeaseWatch \/ OwnerRecheck
  BY <1>p, <1>5 DEF LeaseWatch, LeaseSnapshot, LeaseList, LeaseListFails, LeaseNotify,
     LeaseEnd, LeaseRefresh, LeaseConfirm, LeaseSuperseded, OwnerRecheck, RecheckSnapshot,
     DrainSnapshot, DrainEnd, RecheckSaveBegin, RecheckSaveEnd, RecheckNotDue, RecheckKeeps,
     RecheckReleases, WithdrawDone, WithdrawForRelease, WithdrawRefused, DrainRelease,
     DrainReleaseFails, Goto, Return
<1> QED BY <1>1, <1>2, <1>3, <1>4, <1>5 DEF Next, Handler

\* Nothing is quarantined, nothing is verified, and a tracked pod has a row.
WatchedInv ==
    /\ quarantined = {}
    /\ \A a \in Procs : pc[a] \notin {"verifyList", "verifyApply"}
    /\ \A k \in Keys : pods[k] # None => claims[k] # None

\* A start that gets its listing quarantines nothing, so VerifyClaimsAgainstNode has
\* nothing to drop behind a pod; nobody else drops the row of a tracked pod.
LEMMA WatchedStep ==
    ASSUME "list" \notin Faults, FullInv, TrackedInv, WatchedInv, [Next]_vars
    PROVE  WatchedInv'
<1> USE DEF FullInv
<1>1. quarantined' = {}
  <2>1. ASSUME NEW j \in Keys PROVE j \notin quarantined'
    BY <2>1, QuarantineStep DEF New, WatchedInv
  <2> QED BY <2>1, TypeStep DEF TypeInv, TypeOK
<1>2. ASSUME NEW a \in Procs PROVE pc'[a] \notin {"verifyList", "verifyApply"}
  <2> SUFFICES ASSUME pc'[a] \in {"verifyList", "verifyApply"} PROVE FALSE
    OBVIOUS
  <2>1. \E b \in Procs : VerifySnapshot(b) \/ VerifyList(b)
    BY VerifyEntered DEF WatchedInv
  <2> QED BY <2>1 DEF VerifySnapshot, VerifyList, QuarantinedRows, WatchedInv
<1>3. ASSUME NEW j \in Keys, pods'[j] # None PROVE claims'[j] # None
  <2>1. CASE pods'[j] # pods[j]
    <3>1. PodTaken(j) \/ PodRenewed(j)
      BY <1>3, <2>1, PodsStep DEF TrackedInv, Crash, PodForgotten
    <3> QED BY <3>1, RowTaken DEF PodTaken, PodRenewed, WatchedInv
  <2>2. CASE pods'[j] = pods[j]
    <3> SUFFICES ASSUME claims'[j] = None PROVE FALSE
      OBVIOUS
    <3>1. claims[j] # None /\ pods[j] # None
      BY <1>3, <2>2 DEF WatchedInv
    <3>2. ~New /\ ~Crash
      BY <1>3, <3>1 DEF New, Crash, TrackedInv, PodsInPlace
    <3>3. ~\E a \in Procs : VerifyApply(a)
      BY DEF VerifyApply, WatchedInv
    <3>4. ~ExpiryDrop(j)
      BY <3>1 DEF ExpiryDrop, ExpirySettled, TrackedInv, CreatesUntracked, Creating, TableInv,
         OwnRows, OwnRow
    <3>5. ~Displace(j)
      BY <3>1 DEF Displace, Settled, TrackedInv, CreatesUntracked, Creating
    <3> QED BY <1>3, <3>1, <3>2, <3>3, <3>4, <3>5, RowDropped
  <2> QED BY <2>1, <2>2
<1> QED BY <1>1, <1>2, <1>3 DEF WatchedInv

\* As long as every listing succeeds, a tracked pod that was told Running has a row for the
\* lease watch to look at, whatever crashes and failed writes happen (withdrawClaim,
\* settleExpiredClaim, withdrawForRelease).
THEOREM Watched ==
    ASSUME "list" \notin Faults
    PROVE  Spec => []RunningPodIsWatched
<1>1. Init => WatchedInv
  BY DEF Init, WatchedInv
<1>2. FullInv /\ TrackedInv /\ WatchedInv /\ [Next]_vars => WatchedInv'
  BY WatchedStep
<1>3. WatchedInv => RunningPodIsWatched
  BY DEF WatchedInv, RunningPodIsWatched
<1> QED BY <1>1, <1>2, <1>3, Tracking, PTL DEF Spec
=============================================================================
