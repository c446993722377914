-------------------------- MODULE ProviderRestart --------------------------
(*****************************************************************************)
(* What a crash and a restart can do to the sandbox of a pod that stays      *)
(* bound, for every value of the constants: with failing writes it is        *)
(* released only after the pod's owner has ended, and without them never.    *)
(*****************************************************************************)
EXTENDS ProviderOwnership

\* First-order and set reasoning first, then SMT.
USE ZenonT(5), SMTT(30), ZenonT(40)
USE DEF Rows, NoRows, Table, EmptyTable, Procs, Loops
USE DEF tableVars, fileVars, localVars, recheckVars, kubeVars, outside, beyond, inside

\* A write in flight belongs to a process that is up, and ends before the next one starts.
LEMMA WriterIsUp ==
    ASSUME TableInv, saveMu # None
    PROVE  up
BY DEF TableInv, DownIsEmpty

\* A row that counts is in the file and in the bytes in flight at its own key: it gets there
\* with its commit, and every later write copies the table key by key (commitClaim, write).
LEMMA InPlaceStep ==
    ASSUME TypeInv, TableInv, RowsInPlace, [Next]_vars
    PROVE  RowsInPlace'
<1> SUFFICES ASSUME NEW k \in Keys, claims'[k] # None, k \notin tentative'
             PROVE  /\ HasAt(disk, k, claims[k].id)'
                    /\ saveMu' # None => HasAt(buf, k, claims[k].id)'
  BY DEF RowsInPlace
<1>1. CASE New
  <2>1. disk'.claims = claims'
    BY <1>1 DEF New
  <2>2. saveMu' = None
    BY <1>1 DEF New, TableInv, DownIsEmpty
  <2> QED BY <2>1, <2>2 DEF HasAt
<1>2. CASE CommitLands(k) /\ UNCHANGED claims
  <2>1. HasAt(buf, k, claims[k].id)
    BY <1>2 DEF CommitLands, TableInv, WriteInFlight, OwnRows, OwnRow, WorksOnRow, HasAt
  <2>2. disk' = buf /\ saveMu' = None
    BY <1>2 DEF CommitLands, EndWrite
  <2> QED BY <1>2, <2>1, <2>2 DEF HasAt
<1>3. CASE ~New /\ k \notin tentative /\ IdKept(k)
  <2>1. HasAt(disk, k, claims[k].id) /\ (saveMu # None => HasAt(buf, k, claims[k].id))
    BY <1>3 DEF RowsInPlace, IdKept
  <2>2. HasAt(disk, k, claims[k].id)'
    BY <1>3, <2>1, WriterSteps DEF FileStep, HasAt, IdKept
  <2>3. ASSUME saveMu' # None PROVE HasAt(buf, k, claims[k].id)'
    <3>1. CASE saveMu' = saveMu /\ buf' = buf
      BY <1>3, <2>1, <2>3, <3>1 DEF HasAt, IdKept
    <3>2. ASSUME NEW c \in Keys \cup {None}, WriteTaken(c) PROVE HasAt(buf, k, claims[k].id)'
      BY <1>3, <3>2 DEF WriteTaken, Durable, HasAt, IdKept
    <3> QED BY <2>3, <3>1, <3>2, WriterSteps DEF BufStep
  <2> QED BY <2>2, <2>3
<1> QED BY <1>1, <1>2, <1>3, SettledRowStep

\* A name is taken by one bound pod at a time.
LEMMA OneBoundStep ==
    ASSUME TypeInv, OneBound, [Next]_vars
    PROVE  OneBound'
<1>t. kube \in [Pods -> {"absent", "bound", "terminating", "removed"}]
  BY DEF TypeInv, TypeOK
<1>1. CASE UNCHANGED kube
  BY <1>1 DEF OneBound
<1>2. ASSUME NEW p \in Pods, PodBound(p) PROVE OneBound'
  BY <1>t, <1>2 DEF PodBound, Vacant, OneBound
<1>3. ASSUME NEW p \in Pods, PodTerminating(p) \/ PodRemoved(p) PROVE OneBound'
  BY <1>t, <1>3 DEF PodTerminating, PodRemoved, OneBound
<1>4. CASE Environment
  BY <1>1, <1>2, <1>3, <1>4 DEF Environment, PodAdopted, OwnerEnds, SandboxGone, Tick
<1> QED BY <1>1, <1>4, KubeElsewhere

\* clearStrandedClaim gets to its release by finding a stranded row.
LEMMA StrandedEntered ==
    ASSUME TypeInv, NEW j \in Keys, Handler(j) \/ Verify(j), pc'[j] = "strandedRelease"
    PROVE  StrandedFound(j)
<1>p. pc \in [Procs -> WorkerPCs \cup LoopPCs] /\ j \in Procs
  BY DEF TypeInv, TypeOK
<1>1. ~Verify(j)
  BY <1>p DEF Verify, VerifySnapshot, VerifyNothing, VerifyList, VerifyListFails, VerifyApply,
     AfterVerify, Goto, Return
<1>2. CASE Create(j)
  BY <1>p, <1>2 DEF Create, CreatePod, UpdatePod, RetryCreate, EnterCreate, UpdateDue, SyncDue,
     ExpiryDue, NotExpired, ExpiryList, ExpiryListFails, ExpirySettled, ExpiryRefresh,
     ExpiryDrop, AdoptNothing, Displace, Adopt, AdoptSave, AdoptSaved, NoneStranded,
     StrandedRelease, ClaimGranted, ClaimFails, ClaimAnswerLost, Record, CommitBegin,
     CommitLands, CommitFails, Undo, PushRunning, Goto, Return
<1>3. ~Delete(j) /\ ~HandlerReleaseFails(j)
  BY <1>p DEF Delete, ForgetPod, DeletePod, DeleteDue, Authorize, PreserveClaim, DeleteRelease,
     DeleteWithdraw, DeleteSave, DeleteSaved, HandlerReleaseFails, Goto, Return
<1> QED BY <1>1, <1>2, <1>3 DEF Handler

\* Between its read and its release, clearStrandedClaim's row stays tentative.
LEMMA StrandsStep ==
    ASSUME TypeInv, TableInv, StrandsTentative, [Next]_vars
    PROVE  StrandsTentative'
<1> SUFFICES ASSUME NEW k \in Keys, pc'[k] = "strandedRelease", claims'[k] # None
             PROVE  k \in tentative'
  BY DEF StrandsTentative
<1>1. StrandedFound(k) \/ (pc[k] = "strandedRelease" /\ ~Own(k))
  <2>1. CASE New \/ Crash
    BY <2>1 DEF New, Crash, TableInv, DownIsEmpty
  <2>2. CASE ~Own(k)
    BY <2>2, Elsewhere DEF LocalKept
  <2> QED BY <2>1, <2>2, StrandedEntered DEF Own
<1>2. CASE StrandedFound(k)
  BY <1>2 DEF StrandedFound, Stranded
<1>3. CASE pc[k] = "strandedRelease" /\ ~Own(k)
  <2>1. RowFades(k)
    BY <1>3, RowElsewhere DEF Own
  <2> QED BY <1>3, <2>1 DEF RowFades, StrandsTentative
<1> QED BY <1>1, <1>2, <1>3

\* A bound pod that runs on a live sandbox did so before the step, or was just told.
LEMMA RunsFrom ==
    ASSUME FullInv, TrackedInv, [Next]_vars, NEW p \in Pods, RunsOnLive(p)'
    PROVE  \/ RunsOnLive(p) /\ status'[p] = status[p]
           \/ \E k \in Keys : /\ PushRunning(k) /\ p = arg[k].uid /\ kube[p] = "bound"
                              /\ status'[p] = [phase |-> "Running", id |-> row[k].id]
                              /\ vm[row[k].id] = "live"
<1> DEFINE v == status'[p].id
<1>1. kube'[p] = "bound" /\ status'[p].phase = "Running" /\ vm'[v] = "live"
  BY DEF RunsOnLive
<1>2. CASE status'[p] = status[p]
  <2>1. v # None /\ v \in VMs
    BY <1>1, <1>2, StatusIds DEF FullInv, SafetyInv, StatusTrue, StatusNamed
  <2>2. vm[v] = "live"
    BY <1>1, <1>2, <2>1, Rebirth DEF FullInv, IdentityInv, AllIssued, NoRebirth
  <2>3. kube[p] = "bound"
    BY <1>1, <1>2, KubeStep DEF FullInv, KubeForward, TrackedInv, PodsInPlace
  <2> QED BY <1>1, <1>2, <2>2, <2>3 DEF RunsOnLive
<1>3. CASE status'[p] # status[p]
  <2>1. PICK k \in Keys : /\ PushRunning(k) /\ p = arg[k].uid
                          /\ status'[p] = [phase |-> "Running", id |-> row[k].id]
    BY <1>1, <1>3, ToldStep DEF FullInv
  <2>2. kube' = kube /\ vm' = vm
    BY <2>1 DEF PushRunning
  <2> QED BY <1>1, <2>1, <2>2
<1> QED BY <1>2, <1>3

\* The pod that is told Running is the one at its key.
LEMMA AloneAtPush ==
    ASSUME FullInv, TrackedInv, NEW k \in Keys, PushRunning(k), NEW p \in Pods, p = arg[k].uid
    PROVE  /\ KeyOf[p] = k /\ AloneAt(k, p)' /\ up /\ up'
           /\ UNCHANGED <<claims, tentative, disk, buf, saveMu, snap["recheck"]>>
           /\ pc'[k] = "idle"
<1>1. pc'[k] = "idle" /\ UNCHANGED <<up, pods, claims, tentative, disk, buf, saveMu>>
  BY DEF PushRunning, Return, Goto, FullInv, TypeInv, TypeOK
<1>2. Tracks(k, p) /\ KeyOf[p] = k
  BY DEF PushRunning, TrackedInv, CreatesUntracked, PodsInPlace, Announcing, ServesPod, PastVerify
<1>3. up
  BY DEF PushRunning, FullInv, TableInv, DownIsEmpty
<1>4. snap'["recheck"] = snap["recheck"]
  BY ProcsAssumption DEF PushRunning, Return, FullInv, TypeInv, TypeOK
<1> QED BY <1>1, <1>2, <1>3, <1>4 DEF AloneAt, Tracks, Creating, Announcing

\* Nobody else is tracked or created under the name of a pod that stays bound.
LEMMA AloneStep ==
    ASSUME FullInv, TrackedInv, OneBound, [Next]_vars, NEW p \in Pods,
           kube[p] = "bound", AloneAt(KeyOf[p], p)
    PROVE  AloneAt(KeyOf[p], p)'
<1> DEFINE k == KeyOf[p]
<1>k. k \in Keys
  BY ConstantsAssumption
<1>1. ASSUME pods'[k] # None PROVE pods'[k].uid = p
  <2>1. CASE pods'[k] = pods[k]
    BY <1>1, <2>1 DEF AloneAt
  <2>2. CASE PodTaken(k)
    <3>1. pods'[k] = arg[k] /\ pc[k] \in Creating
      BY <2>2 DEF PodTaken, Adopt, Record, Creating
    <3> QED BY <3>1 DEF AloneAt
  <2>3. CASE PodRenewed(k)
    BY <2>3 DEF PodRenewed, AloneAt
  <2> QED BY <1>k, <1>1, <2>1, <2>2, <2>3, PodsStep DEF FullInv, TrackedInv, PodForgotten, Crash
<1>2. ASSUME pc'[k] \in Creating \cup Announcing PROVE arg'[k].uid = p
  <2>0. pc'[k] \in ServesPod
    BY <1>2 DEF Creating, Announcing, ServesPod, PastVerify
  <2>1. CASE GoesOn(k)
    <3>1. pc[k] \in Creating \cup Announcing
      BY <1>2, <2>1 DEF GoesOn, Adopt, CommitLands, Creating
    <3> QED BY <2>1, <3>1 DEF GoesOn, AloneAt
  <2>2. CASE Enters(k)
    <3>1. /\ pc'[k] \in Creating /\ KeyOf[arg'[k].uid] = k
          /\ kube[arg'[k].uid] = "bound"
      BY <1>k, <1>2, <2>2, EntersWith DEF FullInv, TrackedInv
    <3>2. arg'[k] \in PodObject
      <4>1. TypeInv'
        BY TypeStep DEF FullInv
      <4> QED BY <1>k, <2>0, <4>1 DEF TypeInv, TypeOK, InHand
    <3>3. arg'[k].uid \in Pods
      BY <3>2, PodOwner
    <3> QED BY <3>1, <3>3 DEF OneBound
  <2> QED BY <1>k, <2>0, <2>1, <2>2, ServedStep DEF FullInv
<1> QED BY <1>1, <1>2 DEF AloneAt

\* With crashes too, a live sandbox a handler works on is at its key or queued, and
\* drainReleases works on queued ones (withdrawClaim, drainReleases).
LEMMA AtWork == Spec => [](FullInv /\ TrackedInv /\ InHandKept /\ DrainsQueued)
<1>1. Init => InHandKept /\ DrainsQueued
  BY DEF Init, InHandKept, DrainsQueued, WorksOnRow
<1>2. /\ FullInv /\ TrackedInv /\ InHandKept /\ DrainsQueued /\ [Next]_vars
      => InHandKept' /\ DrainsQueued'
  BY InHandKeptStep, DrainsStep DEF FullInv
<1> QED BY <1>1, <1>2, Tracking, PTL DEF Spec

\* A release of a sandbox that sits, settled, at a key is DeletePod's at that key.
LEMMA ReleaseAtKey ==
    ASSUME FullInv, InHandKept, DrainsQueued, StrandsTentative, [Next]_vars,
           NEW k \in Keys, NEW v \in VMs, Holds(k, v), k \notin tentative,
           vm[v] = "live", vm'[v] = "released"
    PROVE  pc[k] = "release" /\ row[k].id = v
<1>1. v \notin releasing /\ \A j \in Keys : Holds(j, v) => j = k
  BY DEF FullInv, SafetyInv, NamedOnce, Distinct, Memory, Holds
<1>2. v \notin queue
  BY <1>1 DEF DrainsQueued
<1>3. PICK j \in Keys : pc[j] \in {"strandedRelease", "undo", "release"} /\ row[j].id = v
  BY <1>2, ReleasedFrom DEF FullInv
<1>4. j = k
  BY <1>1, <1>3 DEF InHandKept, WorksOnRow
<1>5. pc[k] \notin {"strandedRelease", "undo"}
  BY DEF FullInv, TableInv, OwnRows, OwnRow, StrandsTentative, Holds
<1> QED BY <1>3, <1>4, <1>5
-----------------------------------------------------------------------------
(* Writes that fail. *)

\* Where no owner adopts pods, a pod has the controller it was made with.
LEMMA ControllersStay ==
    ASSUME Adopters = {}, [Next]_vars
    PROVE  UNCHANGED controller
<1>1. CASE Environment
  BY <1>1 DEF Environment, PodBound, PodTerminating, PodRemoved, OwnerEnds, SandboxGone, Tick
<1> QED BY <1>1, KubeElsewhere

\* The party of a pod object that names the pod's controller.
LEMMA PartyOfExact ==
    ASSUME NEW pod, ExactPod(pod)
    PROVE  AuthorityOf(pod) = PartyOf(pod.uid)
BY DEF ExactPod, AuthorityOf, PartyOf, PodInKube

\* The row of a grant, an adoption or a preserve names the party of the pod.
LEMMA MadeExact ==
    ASSUME TypeInv, DeletesOwn, Exact, NEW c \in Claim, Made(c)
    PROVE  ExactRow(c)
<1>t. /\ claims \in Rows /\ row \in [Procs -> Claim \cup {None}]
      /\ \A k \in Keys : pc[k] \in ServesPod => arg[k] \in PodObject /\ ExactPod(arg[k])
  BY DEF TypeInv, TypeOK, InHand, Exact
<1>0. ASSUME NEW pod, ExactPod(pod), c.podUID = pod.uid, AnswersTo(c) = AuthorityOf(pod)
      PROVE  ExactRow(c)
  BY <1>0, PartyOfExact DEF ExactRow
<1>1. ASSUME NEW k \in Keys, ClaimGranted(k), c = row'[k] PROVE ExactRow(c)
  <2>1. ExactPod(arg[k])
    BY <1>t, <1>1 DEF ClaimGranted, ServesPod, PastVerify
  <2>2. PICK v \in VMs, d \in Deadlines : c = FreshClaim(v, arg[k], d)
    BY <1>t, <1>1 DEF ClaimGranted
  <2>3. c.podUID = arg[k].uid /\ AnswersTo(c) = AuthorityOf(arg[k])
    BY <2>2 DEF FreshClaim, AnswersTo
  <2> QED BY <1>0, <2>1, <2>3
<1>2. ASSUME NEW k \in Keys, Adopt(k), c = Adopted(claims[k], arg[k]) PROVE ExactRow(c)
  <2>1. ExactPod(arg[k]) /\ claims[k] \in Claim
    BY <1>t, <1>2 DEF Adopt, ServesPod, PastVerify
  <2>2. c.podUID = arg[k].uid /\ AnswersTo(c) = AuthorityOf(arg[k])
    BY <1>2, <2>1 DEF Adopted, AnswersTo, Claim
  <2> QED BY <1>0, <2>1, <2>2
<1>3. ASSUME NEW k \in Keys, PreserveClaim(k), claims[k] # None, c = Preserves(claims[k], arg[k])
      PROVE  ExactRow(c)
  <2>1. ExactPod(arg[k]) /\ arg[k].owner # None
    BY <1>t, <1>3 DEF PreserveClaim, ServesPod, DeletesOwn
  <2>2. claims[k] \in Claim /\ claims[k].podUID = arg[k].uid
    BY <1>t, <1>3 DEF PreserveClaim, DeletesOwn, Deleting
  <2>3. c.podUID = arg[k].uid /\ AnswersTo(c) = AuthorityOf(arg[k])
    BY <1>3, <2>1, <2>2 DEF Preserves, AnswersTo, AuthorityOf, Claim
  <2> QED BY <1>0, <2>1, <2>3
<1> QED BY <1>1, <1>2, <1>3 DEF Made

\* Rows and pod objects go on naming the party of their pod.
LEMMA ExactStep ==
    ASSUME Adopters = {}, TypeInv, PodsInPlace, DeletesOwn, Exact, [Next]_vars
    PROVE  Exact'
<1>t. /\ TypeInv' /\ arg \in [Procs -> PodObject \cup {None}] /\ Keys \subseteq Procs
      /\ pods \in [Keys -> PodObject \cup {None}]
  BY TypeStep DEF TypeInv, TypeOK
<1>q. RowsHeld' \subseteq Claim
  BY <1>t DEF RowsHeld, TypeInv, TypeOK
<1>c. controller' = controller
  BY ControllersStay
<1>0. ASSUME NEW p \in Pods PROVE ExactPod(PodInKube(p))
  BY <1>0 DEF ExactPod, PodInKube
<1>1. ASSUME NEW c \in RowsHeld' PROVE ExactRow(c)'
  <2>1. c \in Claim /\ RowsHeld \subseteq Claim
    BY <1>q, Holding
  <2>2. CASE WasHeld(c)
    <3>1. PICK d \in RowsHeld : SameParty(c, d)
      BY <2>2 DEF WasHeld
    <3>2. ExactRow(d)
      BY DEF Exact
    <3> QED BY <1>c, <3>1, <3>2 DEF SameParty, ExactRow, AnswersTo, PartyOf, PodInKube
  <2>3. CASE Made(c)
    BY <1>c, <2>1, <2>3, MadeExact DEF ExactRow, PartyOf, PodInKube
  <2> QED BY <2>2, <2>3, RowsStep
<1>2. ASSUME NEW k \in Keys, pods'[k] # None PROVE ExactPod(pods[k])'
  <2>1. ExactPod(pods'[k])
    <3>1. CASE pods'[k] = pods[k]
      BY <1>2, <3>1 DEF Exact
    <3>2. CASE PodTaken(k)
      BY <1>t, <1>2, <3>2 DEF PodTaken, Exact
    <3>3. CASE PodRenewed(k)
      BY <1>t, <1>0, <3>3, PodOwner DEF PodRenewed
    <3> QED BY <1>2, <3>1, <3>2, <3>3, PodsStep DEF PodForgotten, Crash
  <2> QED BY <1>c, <2>1 DEF ExactPod
<1>3. ASSUME NEW k \in Keys, arg'[k] # None PROVE ExactPod(arg[k])'
  <2>1. ExactPod(arg'[k])
    BY <1>t, <1>0, <1>3, ArgStep DEF Exact
  <2> QED BY <1>c, <2>1 DEF ExactPod
<1> QED BY <1>1, <1>2, <1>3 DEF Exact

\* The row of a pod's sandbox answers to the pod's party.
LEMMA SparedParty ==
    ASSUME FullInv, OwnersInv, Exact, NEW p \in Pods, Spared(p), NEW k \in Keys,
           Holds(k, status[p].id)
    PROVE  /\ claims[k] \in Claim /\ claims[k].podUID \in Pods
           /\ PartyOf(claims[k].podUID) = PartyOf(p) /\ AnswersTo(claims[k]) = PartyOf(p)
<1> DEFINE v == status[p].id
<1>1. claims[k] \in Claim /\ claims[k] \in RowsHeld /\ claims[k].id = v
  BY Holding DEF FullInv, TypeInv, TypeOK, Holds
<1>2. v \in VMs \ LegacyVMs /\ claims[k].podUID \in Pods
  BY <1>1, PartyOfRow DEF FullInv, Spared
<1>3. p \in Attached(v) /\ claims[k].podUID \in Attached(v)
  BY <1>1, <1>2 DEF Attached, Spared, RunsOnLive
<1>4. PartyOf(claims[k].podUID) = PartyOf(p)
  BY <1>2, <1>3 DEF OwnersInv, OneParty
<1>5. AnswersTo(claims[k]) = PartyOf(claims[k].podUID)
  BY <1>1, <1>2 DEF Exact, ExactRow
<1> QED BY <1>1, <1>2, <1>4, <1>5

\* An owner that has ended is not the party of such a pod.
LEMMA SparedOwner ==
    ASSUME TypeInv, NEW p \in Pods, Spared(p), NEW o \in Owners, ownerState[o] # "alive"
    PROVE  PartyOf(p) # o
BY PartyOfPod, UIDAssumption DEF Spared

\* The row of such a pod's sandbox does not join the release queue: CreatePod serves the
\* pod itself and adopts, and the re-check was told of no owner that ended.
LEMMA SparedNotQueued ==
    ASSUME FullInv, TrackedInv, OwnersInv, SparedInv, [Next]_vars, NEW p \in Pods, Spared(p), up
    PROVE  status[p].id \notin releasing'
<1> DEFINE k == KeyOf[p]
           v == status[p].id
<1> SUFFICES ASSUME v \in releasing' PROVE FALSE
  OBVIOUS
<1>1. k \in Keys /\ Holds(k, v) /\ AloneAt(k, p)
  BY ConstantsAssumption DEF SparedInv, SparedAtKey
<1>2. /\ claims[k] \in Claim /\ claims[k].podUID \in Pods
      /\ PartyOf(claims[k].podUID) = PartyOf(p) /\ AnswersTo(claims[k]) = PartyOf(p)
  BY <1>1, SparedParty DEF SparedInv
<1>3. v \in VMs /\ v \notin releasing /\ \A j \in Keys : Holds(j, v) => j = k
  BY <1>1, <1>2, ClaimId DEF FullInv, SafetyInv, NamedOnce, Distinct, Memory, Holds
<1>4. ~New
  BY DEF New
<1>5. Displace(k) \/ WithdrawForRelease(k)
  BY <1>3, <1>4, QueueStep DEF FullInv, Queued
<1>6. CASE Displace(k)
  <2>1. arg[k] # None /\ arg[k].uid = p
    BY <1>1, <1>6 DEF Displace, AloneAt, Creating, FullInv, TypeInv, InHand, ServesPod, PastVerify
  <2>2. AuthorityOf(arg[k]) = PartyOf(p)
    BY <1>1, <2>1, PartyOfExact DEF SparedInv, Exact
  <2> QED BY <1>2, <1>6, <2>2 DEF Displace, AdoptableBy
<1>7. CASE WithdrawForRelease(k)
  <2> DEFINE o == snap["recheck"][k].owner
  <2>1. /\ pc["recheck"] = "recheckWithdraw" /\ asking = k
        /\ Holds(k, snap["recheck"][k].id)
    BY <1>7 DEF WithdrawForRelease, WithdrawDone, Withdrawable
  <2>2. snap["recheck"][k] # None
    BY <2>1 DEF FullInv, TypeInv, InHand
  <2>3. o # None /\ ownerState[o] # "alive" /\ controller[claims[k].podUID] = o
    BY <1>1, <2>1, <2>2 DEF OwnersInv, AsksOwner
  <2>4. o \in Owners /\ PartyOf(claims[k].podUID) = o
    BY <1>2, <2>3, PartyOfPod DEF FullInv
  <2> QED BY <1>2, <2>3, <2>4, SparedOwner DEF FullInv
<1> QED BY <1>5, <1>6, <1>7

\* A bound pod's sandbox stays at its key while the pod's owner lives, in memory and in
\* the file, across crashes and restarts.
LEMMA SparedStep ==
    ASSUME Adopters = {}, FullInv, TrackedInv, OwnersInv, InHandKept, SparedInv, [Next]_vars
    PROVE  SparedAtKey'
<1> SUFFICES ASSUME NEW p \in Pods, Spared(p)', NEW v, v = status'[p].id
             PROVE  /\ HasAt(disk, KeyOf[p], v)' /\ AloneAt(KeyOf[p], p)'
                    /\ up' => Holds(KeyOf[p], v)' /\ KeyOf[p] \notin tentative'
  BY DEF SparedAtKey, HasAt, Holds
<1> DEFINE k == KeyOf[p]
<1>k. k \in Keys /\ TypeInv
  BY ConstantsAssumption DEF FullInv
<1>1. ASSUME NEW j \in Keys, PushRunning(j), p = arg[j].uid, vm[row[j].id] = "live",
             status'[p] = [phase |-> "Running", id |-> row[j].id]
      PROVE  /\ HasAt(disk, k, v)' /\ AloneAt(k, p)'
             /\ Holds(k, v)' /\ k \notin tentative'
  <2>1. /\ k = j /\ AloneAt(k, p)'
        /\ UNCHANGED <<claims, tentative, disk>>
    BY <1>1, AloneAtPush
  <2>2. Holds(k, row[k].id) /\ k \notin tentative
    BY <1>1, <2>1 DEF PushRunning, InHandKept, TrackedInv, CreatesUntracked, Announcing, WorksOnRow
  <2>3. HasAt(disk, k, row[k].id)
    BY <1>k, <2>2 DEF SparedInv, RowsInPlace, Holds
  <2>4. v = row[k].id
    BY <1>1, <2>1
  <2> QED BY <2>1, <2>2, <2>3, <2>4 DEF HasAt, Holds
<1>2. ASSUME RunsOnLive(p), status'[p] = status[p]
      PROVE  /\ HasAt(disk, k, v)' /\ AloneAt(k, p)'
             /\ up' => Holds(k, v)' /\ k \notin tentative'
  <2>0. v = status[p].id
    BY <1>2
  <2>1. Spared(p)
    <3>1. controller' = controller
      BY ControllersStay
    <3>2. controller[p] # None => controller[p] \in Owners
      BY <1>k DEF TypeInv, TypeOK
    <3> QED BY <1>2, <3>1, <3>2, OwnersStep, <1>k DEF Spared, OwnersForward
  <2>2. HasAt(disk, k, v) /\ AloneAt(k, p) /\ (up => Holds(k, v) /\ k \notin tentative)
    BY <2>0, <2>1 DEF SparedInv, SparedAtKey
  <2>3. v \in VMs /\ vm[v] = "live" /\ vm'[v] = "live"
    BY <1>2, <2>0, <1>k, StatusIds DEF RunsOnLive, Spared, FullInv, SafetyInv, StatusTrue, StatusNamed
  <2>4. AloneAt(k, p)'
    BY <1>2, <2>2, AloneStep DEF SparedInv, RunsOnLive
  <2>5. ASSUME up' PROVE Holds(k, v)' /\ k \notin tentative'
    <3>1. CASE New
      <4>1. PICK canList \in BOOLEAN, d \in [Keys -> Deadlines] : claims' = LoadedRows(canList, d)
        BY <3>1 DEF New
      <4>2. claims'[k] # None
        <5>1. disk.claims[k] \in Claim /\ disk.claims[k].id \in Live
          BY <1>k, <2>2, <2>3 DEF HasAt, Live, TypeInv, TypeOK
        <5> QED BY <1>k, <4>1, <5>1, ClaimExcept, NoneAssumption DEF LoadedRows
      <4>3. claims'[k].id = v
        BY <1>k, <2>2, <4>1, <4>2, LoadedIds DEF HasAt
      <4>4. tentative' = {}
        BY <3>1 DEF New, FullInv, TableInv, DownIsEmpty
      <4> QED BY <4>2, <4>3, <4>4 DEF Holds
    <3>2. CASE ~New
      <4>1. up /\ ~Crash
        BY <2>5, <3>2, DownActs DEF FullInv, TableInv, Crash
      <4>2. v \notin releasing'
        BY <2>0, <2>1, <4>1, SparedNotQueued
      <4>3. Holds(k, v)' /\ (k \in tentative' => k \in tentative)
        BY <1>k, <2>2, <2>3, <3>2, <4>1, <4>2, RowKeepsLive DEF FullInv, SafetyInv, RowStays
      <4> QED BY <2>2, <4>1, <4>3
    <3> QED BY <3>1, <3>2
  <2>6. HasAt(disk, k, v)'
    <3>1. CASE UNCHANGED disk
      BY <2>2, <3>1 DEF HasAt
    <3>2. CASE New
      <4>1. up' /\ disk'.claims = claims'
        BY <3>2 DEF New
      <4> QED BY <2>5, <4>1 DEF HasAt, Holds
    <3>3. CASE saveMu # None /\ disk' = buf
      <4>1. up
        BY <3>3, WriterIsUp DEF FullInv
      <4>2. HasAt(buf, k, v)
        BY <1>k, <2>2, <3>3, <4>1 DEF SparedInv, RowsInPlace, Holds
      <4> QED BY <3>3, <4>2 DEF HasAt
    <3> QED BY <1>k, <3>1, <3>2, <3>3, WriterSteps DEF FileStep
  <2> QED BY <2>4, <2>5, <2>6
<1>3. RunsOnLive(p)'
  BY DEF Spared
<1> QED BY <1>1, <1>2, <1>3, RunsFrom

\* With crashes, failed writes, failed listings and late deletions, the sandbox of a bound
\* pod whose owner lives is at the pod's key, in the table and in the state file (write,
\* New, adoptExistingClaim).
THEOREM Sparing ==
    ASSUME ~ForeignDeletes, LegacyHonest, Adopters = {}
    PROVE  Spec => []SparedInv
<1>1. Init => SparedInv
  <2> SUFFICES ASSUME Init PROVE SparedInv
    OBVIOUS
  <2>1. RowsInPlace /\ OneBound /\ StrandsTentative
    BY DEF Init, RowsInPlace, OneBound, StrandsTentative
  <2>2. ASSUME NEW c \in RowsHeld PROVE c.id \in LegacyVMs
    BY <2>2 DEF Init, RowsHeld, LegacyVMs
  <2>3. Exact
    BY <2>2 DEF Init, Exact, ExactRow
  <2>4. SparedAtKey
    BY DEF Init, SparedAtKey, Spared, RunsOnLive
  <2> QED BY <2>1, <2>3, <2>4 DEF SparedInv
<1>2. /\ FullInv /\ TrackedInv /\ OwnersInv /\ InHandKept /\ SparedInv /\ [Next]_vars
      => SparedInv'
  BY InPlaceStep, OneBoundStep, StrandsStep, ExactStep, SparedStep
     DEF FullInv, TrackedInv, OwnersInv, SparedInv
<1> QED BY <1>1, <1>2, AtWork, Ownership, PTL DEF Spec

\* Whatever crashes, and whichever writes, listings and releases fail, the sandbox of a
\* bound pod is released only after the pod's owner has ended, and a bare pod's never
\* (destroyAuthorized, withdrawForRelease, adoptExistingClaim).
THEOREM ReleasedForCause ==
    ASSUME ~ForeignDeletes, LegacyHonest, Adopters = {}
    PROVE  Spec => BoundReleasedForCause
<1> DEFINE I == /\ FullInv /\ TrackedInv /\ OwnersInv /\ InHandKept /\ DrainsQueued
                /\ SparedInv
           A == \A p \in Pods :
                   /\ kube[p] = "bound" /\ status[p].phase = "Running"
                   /\ status[p].id \notin LegacyVMs
                   /\ vm[status[p].id] = "live" /\ vm'[status[p].id] = "released"
                   => controller[p] # None /\ ownerState[controller[p]] # "alive"
<1>1. I /\ [Next]_vars => [A]_vars
  <2> SUFFICES ASSUME I, [Next]_vars, NEW p \in Pods, Spared(p),
                      vm'[status[p].id] = "released"
               PROVE  FALSE
    BY DEF Spared, RunsOnLive
  <2> DEFINE k == KeyOf[p]
             v == status[p].id
  <2>1. vm[v] = "live" /\ kube[p] = "bound" /\ k \in Keys /\ v \in VMs
    BY StatusIds, ConstantsAssumption
       DEF Spared, RunsOnLive, FullInv, SafetyInv, StatusTrue, StatusNamed
  <2>2. up
    <3> SUFFICES ASSUME ~up PROVE FALSE
      OBVIOUS
    <3>1. pc = [a \in Procs |-> "idle"] /\ queue = {}
      BY DEF FullInv, TableInv, DownIsEmpty, DrainsQueued
    <3> QED BY <2>1, <3>1, ReleasedFrom DEF FullInv
  <2>3. Holds(k, v) /\ k \notin tentative
    BY <2>2 DEF SparedInv, SparedAtKey
  <2>4. pc[k] = "release"
    BY <2>1, <2>3, ReleaseAtKey DEF SparedInv
  <2>5. PartyOf(claims[k].podUID) = PartyOf(p) /\ claims[k].podUID \in Pods
    BY <2>1, <2>3, SparedParty DEF SparedInv
  <2>6. /\ arg[k] \in PodObject /\ ExactPod(arg[k]) /\ claims[k].podUID = arg[k].uid
        /\ arg[k].owner # None => ownerState[arg[k].owner] # "alive"
        /\ kube[arg[k].uid] # "bound"
    <3>1. arg[k] # None /\ arg[k] \in PodObject
      BY <2>1, <2>4 DEF FullInv, TypeInv, TypeOK, InHand, ServesPod
    <3>2. /\ claims[k].podUID = arg[k].uid
          /\ arg[k].owner # None => ownerState[arg[k].owner] # "alive"
      BY <2>1, <2>3, <2>4 DEF OwnersInv, DeletesOwn, Deleting, Holds
    <3>3. ExactPod(arg[k]) /\ kube[arg[k].uid] # "bound"
      BY <2>1, <2>4, <3>1 DEF SparedInv, Exact, TrackedInv, PodsInPlace, Deleting
    <3> QED BY <3>1, <3>2, <3>3
  <2>7. CASE arg[k].owner # None
    <3>1. arg[k].owner \in Owners /\ PartyOf(claims[k].podUID) = arg[k].owner
      BY <2>6, <2>7, PodOwner, PartyOfExact DEF AuthorityOf
    <3> QED BY <2>5, <2>6, <2>7, <3>1, SparedOwner DEF FullInv
  <2>8. CASE arg[k].owner = None
    <3>1. PartyOf(arg[k].uid) = arg[k].uid
      BY <2>6, <2>8, PartyOfExact DEF AuthorityOf
    <3>2. PartyOf(p) \in Pods
      BY <2>5, <2>6, <3>1
    <3>3. PartyOf(p) = p
      BY <3>2, PartyOfPod, UIDAssumption DEF FullInv
    <3> QED BY <2>1, <2>5, <2>6, <3>1, <3>3
  <2> QED BY <2>7, <2>8
<1> HIDE DEF A
<1>2. Spec => []I
  BY AtWork, Ownership, Sparing, PTL
<1> HIDE DEF I
<1>3. Spec => [][A]_vars
  BY <1>1, <1>2, PTL DEF Spec
<1> QED BY <1>3 DEF A, BoundReleasedForCause
-----------------------------------------------------------------------------
(* Writes that succeed. *)

\* A row that keeps its party stays its pod's.
LEMMA OwnKept ==
    ASSUME NEW k \in Keys, NEW p, NEW v, claims'[k] # None, RowAsWas(k), OwnAt(Memory, k, p, v)
    PROVE  OwnAt(Memory, k, p, v)'
BY DEF RowAsWas, SameParty, OwnAt, HasAt, Memory

\* What CreatePod adopts is its pod's, with nothing to re-check.
LEMMA OwnAdopted ==
    ASSUME TypeInv, NEW k \in Keys, Adopt(k), NEW p, NEW v, p = arg[k].uid, v = claims[k].id
    PROVE  OwnAt(Memory, k, p, v)' /\ arg'[k] = arg[k] /\ row'[k].id = v
<1>t. /\ claims \in Rows /\ row \in [Procs -> Claim \cup {None}]
      /\ claims[k] # None /\ claims[k] \in Claim
  BY DEF TypeInv, TypeOK, Adopt
<1>1. /\ claims'[k] = Adopted(claims[k], arg[k]) /\ claims'[k] # None
      /\ row'[k] = claims'[k] /\ arg'[k] = arg[k]
  BY <1>t, RowTaken DEF Adopt
<1>2. claims'[k].id = v /\ claims'[k].podUID = p /\ claims'[k].owner = None
  BY <1>t, <1>1 DEF Adopted, Claim
<1> QED BY <1>1, <1>2 DEF OwnAt, HasAt, Memory

\* A write in flight has the row of the table at a key that is not tentative.
LEMMA OwnBytes ==
    ASSUME TypeInv, [Next]_vars, saveMu' # None, NEW k \in Keys, NEW p, NEW v,
           k \notin tentative', OwnAt(Memory, k, p, v)',
           saveMu # None => OwnAt(buf, k, p, v)
    PROVE  OwnAt(buf, k, p, v)'
<1>1. CASE saveMu' = saveMu /\ buf' = buf
  BY <1>1 DEF OwnAt, HasAt
<1>2. ASSUME NEW c \in Keys \cup {None}, WriteTaken(c) PROVE OwnAt(buf, k, p, v)'
  BY <1>2 DEF WriteTaken, Durable, OwnAt, HasAt, Memory
<1> QED BY <1>1, <1>2, WriterSteps DEF BufStep

\* From the grant or the adoption on, CreatePod has its own pod's row at hand, in the table,
\* in the write it waits for, and then in the file; later writes copy it from the table.
LEMMA AnnouncesStep ==
    ASSUME "write" \notin Faults, FullInv, TrackedInv, \A j \in Keys : AnnouncesOwn(j),
           [Next]_vars, NEW k \in Keys
    PROVE  AnnouncesOwn(k)'
<1> SUFFICES ASSUME NEW p, NEW v, p = arg'[k].uid, v = row'[k].id
             PROVE  /\ pc'[k] = "record" => row'[k].podUID = p /\ row'[k].owner = None
                    /\ pc'[k] \in {"adoptSaving", "committing"} => saveMu' = k
                    /\ claims'[k] # None =>
                          /\ pc'[k] \in Announcing \cup {"commit", "committing"}
                               => OwnAt(Memory, k, p, v)'
                          /\ pc'[k] \in {"adoptSaving", "committing"} => OwnAt(buf, k, p, v)'
                          /\ pc'[k] = "push" => /\ OwnAt(disk, k, p, v)'
                                                /\ saveMu' # None => OwnAt(buf, k, p, v)'
  BY DEF AnnouncesOwn, OwnAt, HasAt
<1>t. TypeInv /\ TableInv /\ AnnouncesOwn(k) /\ CreatesUntracked /\ CreatesUntracked'
  BY UntrackedStep DEF FullInv, TrackedInv
<1>0. ASSUME New \/ Crash PROVE pc'[k] = "idle"
  BY <1>0, <1>t DEF New, Crash, TableInv, DownIsEmpty
<1>1. ASSUME pc'[k] = "record" PROVE row'[k].podUID = p /\ row'[k].owner = None
  <2>1. CASE ClaimGranted(k)
    <3>1. PICK u \in VMs, d \in Deadlines : row'[k] = FreshClaim(u, arg[k], d)
      BY <1>t, <2>1 DEF ClaimGranted, TypeInv, TypeOK
    <3>2. arg'[k] = arg[k]
      BY <2>1 DEF ClaimGranted
    <3> QED BY <3>1, <3>2 DEF FreshClaim
  <2>2. CASE pc[k] = "record" /\ row'[k] = row[k] /\ arg'[k] = arg[k]
    BY <1>t, <2>2 DEF AnnouncesOwn
  <2>3. ~Adopt(k)
    BY <1>1, <1>t DEF Adopt, Goto, TypeInv, TypeOK
  <2> QED BY <1>1, <1>t, <2>1, <2>2, <2>3, HandsEntered, RecordEntered DEF HandingOver
<1>2. ASSUME claims'[k] # None, pc'[k] \in Announcing \cup {"commit", "committing"}
      PROVE  OwnAt(Memory, k, p, v)'
  <2>1. CASE Adopt(k)
    BY <1>t, <2>1, OwnAdopted
  <2>2. ~ClaimGranted(k)
    BY <1>2, <1>t DEF ClaimGranted, Goto, TypeInv, TypeOK, Announcing
  <2>3. CASE pc[k] \in HandingOver /\ row'[k] = row[k] /\ arg'[k] = arg[k] /\ ~Adopt(k)
    <3>0. ~New
      BY <1>0, <1>2 DEF Announcing
    <3>1. CASE pc[k] = "record"
      <4>1. Record(k)
        BY <1>0, <1>2, <1>t, <3>1, HandlerLeaves, Elsewhere DEF Own, LocalKept, Announcing
      <4>2. claims'[k] = row[k]
        BY <1>t, <4>1 DEF Record, TypeInv, TypeOK
      <4> QED BY <1>2, <1>t, <2>3, <3>1, <4>2 DEF AnnouncesOwn, OwnAt, HasAt, Memory
    <3>2. CASE pc[k] # "record"
      <4>1. pc[k] \in Announcing \cup {"commit", "committing"}
        BY <2>3, <3>2 DEF HandingOver
      <4>2. RowAsWas(k)
        BY <1>2, <1>t, <2>3, <3>0, <4>1, ClaimsStep DEF Record, PreserveClaim, Announcing
      <4>3. OwnAt(Memory, k, p, v)
        BY <1>t, <2>3, <4>1, <4>2 DEF AnnouncesOwn, RowAsWas
      <4> QED BY <1>2, <4>2, <4>3, OwnKept
    <3> QED BY <3>1, <3>2
  <2> QED BY <1>2, <1>t, <2>1, <2>2, <2>3, HandsEntered DEF HandingOver
<1>3. ASSUME pc'[k] \in {"adoptSaving", "committing"}
      PROVE  saveMu' = k /\ (claims'[k] # None => OwnAt(buf, k, p, v)')
  <2>1. CASE AdoptSave(k) \/ CommitBegin(k)
    <3>1. /\ saveMu' = k /\ UNCHANGED claims
          /\ buf'.claims[k] = claims[k]
      BY <1>t, <2>1 DEF AdoptSave, CommitBegin, BeginWrite, Durable, CreatesUntracked, Announcing
    <3> QED BY <1>2, <1>3, <3>1 DEF OwnAt, HasAt, Memory, Announcing
  <2>2. CASE ~Own(k)
    <3>1. pc'[k] = pc[k] /\ row'[k] = row[k] /\ arg'[k] = arg[k]
      BY <1>t, <2>2, Elsewhere DEF LocalKept
    <3>2. saveMu = k /\ k # None /\ (claims[k] # None => OwnAt(buf, k, p, v))
      BY <1>3, <1>t, <3>1, NoneAssumption DEF AnnouncesOwn
    <3>3. saveMu' = k
      BY <1>t, <2>2, <3>2, LockStep
    <3>4. buf' = buf
      BY <1>t, <3>2, <3>3, WriterSteps DEF BufStep, WriteTaken
    <3>5. claims'[k] # None => claims[k] # None
      BY <1>t, <2>2, RowElsewhere DEF Own, RowFades
    <3> QED BY <3>2, <3>3, <3>4, <3>5 DEF OwnAt, HasAt
  <2>3. ~New /\ ~Crash
    BY <1>0, <1>3
  <2> QED BY <1>3, <1>t, <2>1, <2>2, <2>3, HandlerEnters DEF Own, Entered
<1>4. ASSUME pc'[k] = "push", claims'[k] # None
      PROVE  OwnAt(disk, k, p, v)' /\ (saveMu' # None => OwnAt(buf, k, p, v)')
  <2>1. CASE AdoptSaved(k) \/ CommitLands(k)
    <3>1. disk' = buf /\ saveMu' = None /\ UNCHANGED <<claims, arg, row>>
      BY <2>1 DEF AdoptSaved, CommitLands, EndWrite
    <3>2. pc[k] \in {"adoptSaving", "committing"}
      BY <2>1 DEF AdoptSaved, CommitLands
    <3> QED BY <1>4, <1>t, <3>1, <3>2 DEF AnnouncesOwn, OwnAt, HasAt
  <2>2. CASE ~Own(k)
    <3>1. pc[k] = "push" /\ row'[k] = row[k] /\ arg'[k] = arg[k]
      BY <1>4, <1>t, <2>2, Elsewhere DEF LocalKept
    <3>2. claims[k] # None
      BY <1>4, <1>t, <2>2, RowElsewhere DEF Own, RowFades
    <3>3. OwnAt(disk, k, p, v) /\ (saveMu # None => OwnAt(buf, k, p, v))
      BY <1>t, <3>1, <3>2 DEF AnnouncesOwn
    <3>4. OwnAt(disk, k, p, v)'
      BY <1>t, <2>2, <3>3, WriterSteps DEF FileStep, Own, OwnAt, HasAt
    <3>5. k \notin tentative'
      BY <1>4, <1>t DEF CreatesUntracked, Announcing
    <3> QED BY <1>2, <1>4, <1>t, <3>3, <3>4, <3>5, OwnBytes DEF Announcing
  <2>3. ~New /\ ~Crash
    BY <1>0, <1>4
  <2> QED BY <1>4, <1>t, <2>1, <2>2, <2>3, HandlerEnters DEF Own, Entered
<1> QED BY <1>1, <1>2, <1>3, <1>4

\* Such a row does not join the release queue: CreatePod serves the pod the row names, and
\* the re-check has no copy of it to withdraw.
LEMMA OwnNotQueued ==
    ASSUME FullInv, OwnAtKey, [Next]_vars, NEW p \in Pods, RunsOnLive(p), up
    PROVE  status[p].id \notin releasing'
<1> DEFINE k == KeyOf[p]
           v == status[p].id
<1> SUFFICES ASSUME v \in releasing' PROVE FALSE
  OBVIOUS
<1>1. /\ k \in Keys /\ OwnAt(Memory, k, p, v) /\ AloneAt(k, p) /\ Holds(k, v)
      /\ pods[k] = None /\ snap["recheck"][k] # None => snap["recheck"][k].id # v
  BY ConstantsAssumption DEF OwnAtKey, OwnAt, HasAt, Memory, Holds
<1>2. v \in VMs /\ v \notin releasing /\ \A j \in Keys : Holds(j, v) => j = k
  BY <1>1, ClaimId DEF FullInv, SafetyInv, NamedOnce, Distinct, Memory, Holds, TypeInv, TypeOK
<1>3. ~New
  BY DEF New
<1>4. Displace(k) \/ WithdrawForRelease(k)
  BY <1>2, <1>3, QueueStep DEF FullInv, Queued
<1>5. ~Displace(k)
  BY <1>1 DEF Displace, AdoptableBy, AloneAt, Creating, OwnAt, Memory
<1>6. ~WithdrawForRelease(k)
  <2> SUFFICES ASSUME WithdrawForRelease(k) PROVE FALSE
    OBVIOUS
  <2>1. snap["recheck"][k] # None
    BY DEF WithdrawForRelease, WithdrawDone, FullInv, TypeInv, InHand
  <2> QED BY <1>1, <2>1 DEF WithdrawForRelease, Withdrawable, Holds
<1> QED BY <1>4, <1>5, <1>6

\* The re-check copies rows with an owner to ask about, and the pod at the key goes
\* only when the sandbox is released or the pod is deleted.
LEMMA OwnUnasked ==
    ASSUME FullInv, TrackedInv, StrandsTentative, OwnAtKey, [Next]_vars, NEW p \in Pods,
           RunsOnLive(p), pods'[KeyOf[p]] = None, snap'["recheck"][KeyOf[p]] # None
    PROVE  snap'["recheck"][KeyOf[p]].id # status[p].id
<1> DEFINE k == KeyOf[p]
           v == status[p].id
<1>1. /\ k \in Keys /\ AloneAt(k, p) /\ (up => OwnAt(Memory, k, p, v) /\ k \notin tentative)
      /\ pods[k] = None /\ snap["recheck"][k] # None => snap["recheck"][k].id # v
  BY ConstantsAssumption DEF OwnAtKey
<1>2. ~RecheckSnapshot
  <2> SUFFICES ASSUME RecheckSnapshot PROVE FALSE
    OBVIOUS
  <2>1. snap'["recheck"] = Preserved
    BY DEF RecheckSnapshot, FullInv, TypeInv, TypeOK
  <2>2. claims[k].owner = None
    BY <1>1 DEF RecheckSnapshot, OwnAt, Memory
  <2> QED BY <1>1, <2>1, <2>2 DEF Preserved
<1>3. snap'["recheck"][k] = snap["recheck"][k]
  BY <1>1, <1>2, RecheckCopies DEF FullInv
<1>4. ASSUME pods[k] # None PROVE FALSE
  <2>1. up
    BY <1>1, <1>4 DEF TrackedInv, PodsInPlace
  <2>2. CASE Crash
    BY <1>1, <2>2 DEF Crash
  <2>3. ~PodTaken(k)
    BY <1>1 DEF PodTaken, Adopt, Record, FullInv, TypeInv, InHand, ServesPod, PastVerify
  <2>4. ~PodForgotten(k)
    <3>1. pc[k] \notin {"strandedRelease", "undo"}
      BY <1>1, <2>1 DEF FullInv, TableInv, OwnRows, OwnRow, StrandsTentative, OwnAt, HasAt, Memory
    <3> QED BY <1>1, <1>4, <3>1 DEF PodForgotten, AloneAt, RunsOnLive
  <2> QED BY <1>1, <1>4, <2>2, <2>3, <2>4, PodsStep DEF FullInv, TrackedInv, PodRenewed
<1> QED BY <1>1, <1>3, <1>4

\* A bound pod's sandbox stays at its key under the pod's own name, across crashes and
\* restarts: DeletePod acts on pods that are not bound, CreatePod adopts for the pod itself.
LEMMA OwnStep ==
    ASSUME ~ForeignDeletes, FullInv, TrackedInv, InHandKept, OwnInv, [Next]_vars
    PROVE  OwnAtKey'
<1> SUFFICES ASSUME NEW p \in Pods, RunsOnLive(p)', NEW v, v = status'[p].id
             PROVE  /\ OwnAt(disk, KeyOf[p], p, v)' /\ AloneAt(KeyOf[p], p)'
                    /\ pc'[KeyOf[p]] \notin Deleting
                    /\ saveMu' # None => OwnAt(buf, KeyOf[p], p, v)'
                    /\ up' => OwnAt(Memory, KeyOf[p], p, v)' /\ KeyOf[p] \notin tentative'
                    /\ pods'[KeyOf[p]] = None /\ snap'["recheck"][KeyOf[p]] # None
                         => snap'["recheck"][KeyOf[p]].id # v
  BY DEF OwnAtKey, OwnAt, HasAt
<1> DEFINE k == KeyOf[p]
<1>k. k \in Keys /\ TypeInv
  BY ConstantsAssumption DEF FullInv
<1>1. ASSUME NEW j \in Keys, PushRunning(j), p = arg[j].uid, vm[row[j].id] = "live",
             status'[p] = [phase |-> "Running", id |-> row[j].id]
      PROVE  /\ OwnAt(disk, k, p, v)' /\ AloneAt(k, p)' /\ pc'[k] \notin Deleting
             /\ saveMu' # None => OwnAt(buf, k, p, v)'
             /\ OwnAt(Memory, k, p, v)' /\ k \notin tentative' /\ pods'[k] # None
  <2>1. /\ k = j /\ AloneAt(k, p)' /\ pc'[k] = "idle"
        /\ UNCHANGED <<claims, tentative, disk, buf, saveMu>>
    BY <1>1, AloneAtPush
  <2>2. claims[k] # None /\ k \notin tentative /\ pods[k] # None
    BY <1>1, <2>1 DEF PushRunning, InHandKept, TrackedInv, CreatesUntracked, Announcing,
       WorksOnRow, Holds, Tracks
  <2>3. v = row[k].id
    BY <1>1, <2>1
  <2>4. /\ OwnAt(Memory, k, p, v) /\ OwnAt(disk, k, p, v)
        /\ saveMu # None => OwnAt(buf, k, p, v)
    BY <1>1, <1>k, <2>1, <2>2, <2>3 DEF PushRunning, OwnInv, AnnouncesOwn, Announcing
  <2>5. pods' = pods
    BY <1>1 DEF PushRunning
  <2> QED BY <2>1, <2>2, <2>4, <2>5 DEF OwnAt, HasAt, Memory, Deleting
<1>2. ASSUME RunsOnLive(p), status'[p] = status[p]
      PROVE  /\ OwnAt(disk, k, p, v)' /\ AloneAt(k, p)' /\ pc'[k] \notin Deleting
             /\ saveMu' # None => OwnAt(buf, k, p, v)'
             /\ up' => OwnAt(Memory, k, p, v)' /\ k \notin tentative'
             /\ pods'[k] = None /\ snap'["recheck"][k] # None => snap'["recheck"][k].id # v
  <2>0. v = status[p].id
    BY <1>2
  <2>1. /\ OwnAt(disk, k, p, v) /\ AloneAt(k, p) /\ pc[k] \notin Deleting
        /\ saveMu # None => OwnAt(buf, k, p, v)
        /\ up => OwnAt(Memory, k, p, v) /\ k \notin tentative
    BY <1>2, <2>0 DEF OwnInv, OwnAtKey
  <2>2. v \in VMs /\ vm'[v] = "live" /\ vm[v] = "live"
    BY <1>2, <2>0, <1>k, StatusIds DEF RunsOnLive, FullInv, SafetyInv, StatusTrue, StatusNamed
  <2>3. AloneAt(k, p)'
    BY <1>2, <2>1, AloneStep DEF OwnInv, RunsOnLive
  <2>4. ASSUME up' PROVE OwnAt(Memory, k, p, v)' /\ k \notin tentative'
    <3>1. CASE New
      <4>1. PICK canList \in BOOLEAN, d \in [Keys -> Deadlines] : claims' = LoadedRows(canList, d)
        BY <3>1 DEF New
      <4>2. disk.claims[k] \in Claim /\ disk.claims[k].id \in Live /\ disk.claims[k] # None
        <5>1. disk.claims \in Rows
          BY <1>k DEF TypeInv, TypeOK
        <5> QED BY <1>k, <2>1, <2>2, <5>1 DEF OwnAt, HasAt, Live
      <4>3. claims'[k] # None
        BY <1>k, <4>1, <4>2, ClaimExcept, NoneAssumption DEF LoadedRows
      <4>4. SameParty(claims'[k], disk.claims[k])
        BY <1>k, <4>1, <4>2, DeadlineKeepsParty DEF LoadedRows
      <4>5. tentative' = {}
        BY <3>1 DEF New, FullInv, TableInv, DownIsEmpty
      <4> QED BY <2>1, <4>3, <4>4, <4>5 DEF SameParty, OwnAt, HasAt, Memory
    <3>2. CASE ~New
      <4>1. up /\ ~Crash
        BY <2>4, <3>2, DownActs DEF FullInv, TableInv, Crash
      <4>2. v \notin releasing'
        BY <1>2, <2>0, <4>1, OwnNotQueued DEF OwnInv
      <4>3. Holds(k, v) /\ claims[k].podUID = p
        BY <2>1, <4>1 DEF OwnAt, HasAt, Memory, Holds
      <4>4. Holds(k, v)' /\ (k \in tentative' => k \in tentative)
        BY <1>k, <2>2, <3>2, <4>1, <4>2, <4>3, RowKeepsLive DEF FullInv, SafetyInv, RowStays
      <4>5. claims'[k] # None
        BY <4>4 DEF Holds
      <4>6. ~Record(k)
        BY <1>k, <4>3 DEF Record, FullInv, TableInv, OwnRows, OwnRow, Holds
      <4>7. ~PreserveClaim(k)
        BY <2>1 DEF PreserveClaim, Deleting
      <4>8. CASE Adopt(k)
        <5>1. p = arg[k].uid /\ v = claims[k].id
          BY <2>1, <4>3, <4>8 DEF Adopt, AloneAt, Creating, Holds
        <5> QED BY <1>k, <2>1, <4>1, <4>4, <4>8, <5>1, OwnAdopted
      <4>9. CASE RowAsWas(k)
        BY <1>k, <2>1, <4>1, <4>4, <4>5, <4>9, OwnKept
      <4> QED BY <1>k, <3>2, <4>5, <4>6, <4>7, <4>8, <4>9, ClaimsStep
    <3> QED BY <3>1, <3>2
  <2>5. OwnAt(disk, k, p, v)'
    <3>1. CASE UNCHANGED disk
      BY <2>1, <3>1 DEF OwnAt, HasAt
    <3>2. CASE New
      <4>1. up' /\ disk'.claims = claims'
        BY <3>2 DEF New
      <4> QED BY <2>4, <4>1 DEF OwnAt, HasAt, Memory
    <3>3. CASE saveMu # None /\ disk' = buf
      BY <2>1, <3>3 DEF OwnAt, HasAt
    <3> QED BY <1>k, <3>1, <3>2, <3>3, WriterSteps DEF FileStep
  <2>6. ASSUME saveMu' # None PROVE OwnAt(buf, k, p, v)'
    <3>1. up'
      BY <2>6, FullStep DEF FullInv, TableInv, DownIsEmpty
    <3> QED BY <1>k, <2>1, <2>4, <2>6, <3>1, OwnBytes
  <2>7. pc'[k] \notin Deleting
    <3> SUFFICES ASSUME NEW pod \in PodObject, DeletePod(k, pod) PROVE FALSE
      BY <1>k, <2>1, DeletingStep DEF DeletesOn
    <3>1. pod.uid = p
      BY <2>1 DEF DeletePod, DeleteDue, OwnAt, HasAt, Memory
    <3> QED BY <1>2, <1>k, <3>1, DeleteIsDue DEF DeletePod, TrackedInv, RunsOnLive
  <2>8. pods'[k] = None /\ snap'["recheck"][k] # None => snap'["recheck"][k].id # v
    BY <1>2, <2>0, OwnUnasked DEF OwnInv
  <2> QED BY <2>3, <2>4, <2>5, <2>6, <2>7, <2>8
<1>3. \/ RunsOnLive(p) /\ status'[p] = status[p]
      \/ \E j \in Keys : /\ PushRunning(j) /\ p = arg[j].uid /\ vm[row[j].id] = "live"
                         /\ status'[p] = [phase |-> "Running", id |-> row[j].id]
  BY RunsFrom
<1> QED BY <1>1, <1>2, <1>3

\* Where every write of the state file succeeds, the sandbox of a bound pod is at the pod's
\* key under the pod's own name, in the table, in the file and in the next one, whatever
\* crashes and whichever listings and releases fail (saveState, commitClaim, New).
THEOREM Owning ==
    ASSUME "write" \notin Faults, ~ForeignDeletes
    PROVE  Spec => []OwnInv
<1>1. Init => OwnInv
  <2> SUFFICES ASSUME Init PROVE OwnInv
    OBVIOUS
  <2>1. OneBound /\ StrandsTentative
    BY DEF Init, OneBound, StrandsTentative
  <2>2. ASSUME NEW k \in Keys PROVE AnnouncesOwn(k)
    <3>1. pc[k] = "idle"
      BY DEF Init
    <3> QED BY <3>1 DEF AnnouncesOwn, Announcing
  <2>3. OwnAtKey
    BY DEF Init, OwnAtKey, RunsOnLive
  <2> QED BY <2>1, <2>2, <2>3 DEF OwnInv
<1>2. FullInv /\ TrackedInv /\ InHandKept /\ OwnInv /\ [Next]_vars => OwnInv'
  <2> SUFFICES ASSUME FullInv, TrackedInv, InHandKept, OwnInv, [Next]_vars PROVE OwnInv'
    OBVIOUS
  <2>1. \A k \in Keys : AnnouncesOwn(k)'
    BY AnnouncesStep DEF OwnInv
  <2>2. OneBound' /\ StrandsTentative' /\ OwnAtKey'
    BY OneBoundStep, StrandsStep, OwnStep DEF FullInv, OwnInv
  <2> QED BY <2>1, <2>2 DEF OwnInv
<1> QED BY <1>1, <1>2, AtWork, PTL DEF Spec

\* Where every write of the state file succeeds, nobody releases the sandbox of a bound pod
\* that was told Running, not even after a crash, when New loads rows without their pods
\* and the re-check runs before the pods are back (recheckOwners, withdrawForRelease).
THEOREM RestartKeeps ==
    ASSUME "write" \notin Faults, ~ForeignDeletes
    PROVE  Spec => BoundPodKeepsSandbox
<1> DEFINE I == FullInv /\ TrackedInv /\ InHandKept /\ DrainsQueued /\ OwnInv
           A == \A p \in Pods :
                   /\ kube[p] = "bound" /\ status[p].phase = "Running"
                   /\ vm[status[p].id] = "live"
                   => vm'[status[p].id] # "released"
<1>1. I /\ [Next]_vars => [A]_vars
  <2> SUFFICES ASSUME I, [Next]_vars, NEW p \in Pods, RunsOnLive(p),
                      vm'[status[p].id] = "released"
               PROVE  FALSE
    BY DEF RunsOnLive
  <2> DEFINE k == KeyOf[p]
             v == status[p].id
  <2>1. vm[v] = "live" /\ k \in Keys /\ v \in VMs
    BY StatusIds, ConstantsAssumption
       DEF RunsOnLive, FullInv, SafetyInv, StatusTrue, StatusNamed
  <2>2. up
    <3> SUFFICES ASSUME ~up PROVE FALSE
      OBVIOUS
    <3>1. pc = [a \in Procs |-> "idle"] /\ queue = {}
      BY DEF FullInv, TableInv, DownIsEmpty, DrainsQueued
    <3> QED BY <2>1, <3>1, ReleasedFrom DEF FullInv
  <2>3. Holds(k, v) /\ k \notin tentative /\ pc[k] \notin Deleting
    BY <2>2 DEF OwnInv, OwnAtKey, OwnAt, HasAt, Memory, Holds
  <2>4. pc[k] = "release"
    BY <2>1, <2>3, ReleaseAtKey DEF OwnInv
  <2> QED BY <2>3, <2>4 DEF Deleting
<1> HIDE DEF A
<1>2. Spec => []I
  BY AtWork, Owning, PTL
<1> HIDE DEF I
<1>3. Spec => [][A]_vars
  BY <1>1, <1>2, PTL DEF Spec
<1> QED BY <1>3 DEF A, BoundPodKeepsSandbox
=============================================================================
