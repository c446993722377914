-------------------------- MODULE ProviderEffects ---------------------------
(*****************************************************************************)
(* What one step of Provider may do to a row of the table, to the copies     *)
(* taken of it, to the state file and to the write in flight; and that no    *)
(* step but a grant and a record makes an id known where it was not.  The    *)
(* invariance proofs rest on these facts and not on the actions.             *)
(*****************************************************************************)
EXTENDS ProviderTypes

\* First-order and set reasoning first, then SMT.
USE ZenonT(5), SMTT(30), ZenonT(40)
USE DEF Rows, NoRows, Table, EmptyTable, Procs, Loops
USE DEF tableVars, fileVars, localVars, recheckVars, kubeVars, outside, beyond, inside

\* A background loop, or the surroundings.
Background ==
    \/ \E a \in Procs : Verify(a)
    \/ LeaseWatch \/ OwnerRecheck \/ Environment \/ UNCHANGED vars

\* Outside a handler a row changes only by losing its quarantine, by a new lease end,
\* or by being dropped by a loop that holds a copy of it.
RowFades(j) ==
    /\ j \in tentative' <=> j \in tentative
    /\ j \in quarantined' => j \in quarantined
    /\ claims'[j] # None => claims[j] # None /\ claims'[j].id = claims[j].id
    /\ claims'[j] = None /\ claims[j] # None
         => /\ \E a \in Procs : snap[a][j] # None /\ Holds(j, snap[a][j].id)
            /\ j \in quarantined' => snap["recheck"][j] # None

\* refreshDeadline keeps every row and its id.
LEMMA RefreshFades ==
    ASSUME TypeInv, NEW k \in Keys, NEW v, NEW d \in Deadlines,
           RefreshDeadline(k, v, d), NEW j \in Keys
    PROVE  /\ claims'[j] # None <=> claims[j] # None
           /\ claims[j] # None => claims'[j].id = claims[j].id
<1>1. claims \in Rows
  BY DEF TypeInv, TypeOK
<1>2. CASE Holds(k, v) /\ j = k
  <2>1. claims[k] \in Claim
    BY <1>1, <1>2 DEF Holds
  <2>2. claims'[k] = [claims[k] EXCEPT !.deadline = d]
    BY <1>1, <1>2 DEF RefreshDeadline
  <2>3. [claims[k] EXCEPT !.deadline = d] # None
    BY <2>1, ClaimExcept, NoneAssumption
  <2> QED BY <1>2, <2>1, <2>2, <2>3, ClaimKeepsId DEF Holds
<1>3. CASE ~(Holds(k, v) /\ j = k)
  BY <1>1, <1>3 DEF RefreshDeadline
<1> QED BY <1>2, <1>3

\* preserveClaim keeps every row and its id.
LEMMA PreserveFades ==
    ASSUME TypeInv, NEW k \in Keys, PreserveClaim(k), NEW j \in Keys
    PROVE  /\ claims'[j] # None <=> claims[j] # None
           /\ claims[j] # None => claims'[j].id = claims[j].id
<1>1. claims \in Rows
  BY DEF TypeInv, TypeOK
<1>2. CASE Holds(k, row[k].id) /\ j = k
  <2>1. claims[k] \in Claim
    BY <1>1, <1>2 DEF Holds
  <2>2. arg[k] \in PodObject
    BY DEF PreserveClaim, TypeInv, TypeOK, InHand, ServesPod
  <2>3. claims'[k] = [claims[k] EXCEPT !.owner = arg[k].owner]
    BY <1>1, <1>2 DEF PreserveClaim
  <2>4. [claims[k] EXCEPT !.owner = arg[k].owner] # None
    BY <2>1, <2>2, PodOwner, ClaimExcept, NoneAssumption
  <2> QED BY <1>2, <2>1, <2>3, <2>4, ClaimKeepsId DEF Holds
<1>3. CASE ~(Holds(k, row[k].id) /\ j = k)
  BY <1>1, <1>3 DEF PreserveClaim
<1> QED BY <1>2, <1>3

\* A verification leaves a row, vouches for it or drops it, and never marks it.
LEMMA VerifyFades ==
    ASSUME TypeInv, NEW a \in Procs, Verify(a), NEW j \in Keys
    PROVE  RowFades(j)
<1>1. CASE VerifyApply(a)
  <2>1. PICK d \in [Keys -> Deadlines] :
            claims' = [k \in Keys |->
                IF k \notin Judged(a) THEN claims[k]
                ELSE IF claims[k].id \in listed[a] THEN Vouched(claims[k], d[k])
                ELSE None]
    BY <1>1 DEF VerifyApply
  <2>2. UNCHANGED tentative /\ quarantined' = quarantined \ Judged(a)
    BY <1>1 DEF VerifyApply, Goto, AfterVerify
  <2>3. CASE j \in Judged(a)
    <3>1. snap[a][j] # None /\ Holds(j, snap[a][j].id)
      BY <2>3 DEF Judged
    <3>2. claims[j] \in Claim /\ d[j] \in Deadlines
      BY <3>1 DEF Holds, TypeInv, TypeOK
    <3>3. claims'[j] = None \/ claims'[j] = Vouched(claims[j], d[j])
      BY <2>1, <2>3
    <3>4. claims'[j] # None => claims'[j].id = claims[j].id
      BY <3>2, <3>3, ClaimKeepsId
    <3> QED BY <2>2, <2>3, <3>1, <3>4 DEF RowFades, Holds
  <2>4. CASE j \notin Judged(a)
    BY <2>1, <2>2, <2>4 DEF RowFades
  <2> QED BY <2>3, <2>4
<1>2. CASE UNCHANGED <<claims, tentative, quarantined>>
  BY <1>2 DEF RowFades
<1> QED BY <1>1, <1>2 DEF Verify, VerifySnapshot, VerifyNothing, VerifyList, VerifyListFails

\* No background step brings a row to a key, changes its id or marks it.
LEMMA BackgroundFades ==
    ASSUME TypeInv, Background, NEW j \in Keys
    PROVE  RowFades(j)
<1>0. CASE UNCHANGED <<claims, tentative, quarantined>>
  BY <1>0 DEF RowFades
<1>1. CASE LeaseWatch
  <2>1. ASSUME NEW k \in Keys, LeaseRefresh(k) PROVE RowFades(j)
    BY <2>1, RefreshFades DEF LeaseRefresh, RowFades
  <2> QED BY <1>0, <1>1, <2>1 DEF LeaseWatch, LeaseSnapshot, LeaseList, LeaseListFails,
             LeaseNotify, LeaseEnd, LeaseConfirm, LeaseSuperseded
<1>2. CASE OwnerRecheck
  <2>1. ASSUME NEW k \in Keys, WithdrawForRelease(k) PROVE RowFades(j)
    <3>1. /\ UNCHANGED <<tentative, quarantined>> /\ claims' = [claims EXCEPT ![k] = None]
          /\ Withdrawable(k, snap["recheck"][k].id) /\ asking = k
          /\ pc["recheck"] = "recheckWithdraw"
      BY <2>1 DEF WithdrawForRelease, WithdrawDone
    <3>2. snap["recheck"][k] # None
      BY <3>1 DEF TypeInv, InHand
    <3>3. claims \in Rows /\ "recheck" \in Procs
      BY DEF TypeInv, TypeOK
    <3> QED BY <3>1, <3>2, <3>3 DEF RowFades, Withdrawable
  <2> QED BY <1>0, <1>2, <2>1 DEF OwnerRecheck, RecheckSnapshot, DrainSnapshot,
             DrainEnd, RecheckSaveBegin, RecheckSaveEnd, RecheckNotDue, RecheckKeeps,
             RecheckReleases, WithdrawDone, WithdrawRefused, DrainRelease, DrainReleaseFails
<1>3. CASE Environment
  BY <1>0, <1>3 DEF Environment, PodBound, PodTerminating, PodRemoved, PodAdopted,
     OwnerEnds, SandboxGone, Tick
<1>4. CASE UNCHANGED vars
  BY <1>0, <1>4 DEF vars
<1> QED BY <1>1, <1>2, <1>3, <1>4, VerifyFades DEF Background

\* A step that is neither of the process nor of handler j nor of a loop is another
\* handler's, which leaves the row at j alone.
LEMMA RowElsewhere ==
    ASSUME TypeInv, [Next]_vars, NEW j \in Keys
    PROVE  New \/ Crash \/ Handler(j) \/ RowFades(j)
<1>1. ASSUME NEW k \in Keys, k # j, Handler(k) PROVE RowFades(j)
  BY <1>1, CreateElsewhere, DeleteElsewhere DEF Handler, RowKept, RowFades
<1> QED BY <1>1, BackgroundFades DEF Next, Background

\* A copy of a row is taken under the lock, of a row no handler is still recording.
LEMMA CopyStep ==
    ASSUME TypeInv, [Next]_vars, NEW a \in Procs, NEW j \in Keys, snap'[a][j] # None
    PROVE  \/ snap'[a][j] = snap[a][j]
           \/ /\ snap'[a][j] = claims[j] /\ UNCHANGED <<claims, tentative, quarantined>>
              /\ Settled(j) \/ (j \in quarantined /\ a # "recheck")
<1>s. snap \in [Procs -> Rows]
  BY DEF TypeInv, TypeOK
<1> DEFINE Goal == \/ snap'[a][j] = snap[a][j]
                   \/ /\ snap'[a][j] = claims[j] /\ UNCHANGED <<claims, tentative, quarantined>>
                      /\ Settled(j) \/ (j \in quarantined /\ a # "recheck")
<1> SUFFICES Goal
  OBVIOUS
<1>0. CASE UNCHANGED snap
  BY <1>0
<1>1. ASSUME NEW b \in Procs, snap' = [snap EXCEPT ![b] = NoRows] PROVE Goal
  BY <1>1, <1>s
<1>2. ASSUME NEW b \in Procs, NEW k \in Keys, DropCandidate(b, k) PROVE Goal
  BY <1>2, <1>s DEF DropCandidate
<1> HIDE DEF Goal
<1>3. CASE Crash
  BY <1>3 DEF Crash
<1>4. ASSUME NEW b \in Procs, Verify(b) PROVE Goal
  <2>1. CASE VerifySnapshot(b)
    BY <1>s, <2>1, ProcsAssumption DEF VerifySnapshot, VerifyDue, QuarantinedRows, Goal
  <2>2. CASE VerifyListFails(b) \/ VerifyApply(b)
    BY <1>1, <2>2 DEF VerifyListFails, VerifyApply, Return
  <2> QED BY <1>0, <1>4, <2>1, <2>2 DEF Verify, VerifyNothing, VerifyList
<1>5. ASSUME NEW k \in Keys, Create(k) PROVE Goal
  <2>1. CASE \/ ExpiryListFails(k) \/ ClaimFails(k) \/ ClaimAnswerLost(k) \/ Undo(k)
             \/ PushRunning(k)
    BY <1>1, <2>1 DEF ExpiryListFails, ClaimFails, ClaimAnswerLost, Undo,
       PushRunning, Return
  <2> QED BY <1>0, <1>5, <2>1 DEF Create, CreatePod, UpdatePod, RetryCreate,
             ExpiryDue, NotExpired, ExpiryList, ExpirySettled, ExpiryRefresh, ExpiryDrop,
             AdoptNothing, Displace, Adopt, AdoptSave, AdoptSaved, StrandedFound, NoneStranded,
             StrandedRelease, ClaimGranted, Record, CommitBegin, CommitLands, CommitFails
<1>6. ASSUME NEW k \in Keys, Delete(k) \/ HandlerReleaseFails(k) PROVE Goal
  <2>1. CASE DeleteSaved(k) \/ HandlerReleaseFails(k)
    BY <1>1, <2>1 DEF DeleteSaved, HandlerReleaseFails, Return
  <2> QED BY <1>0, <1>6, <2>1 DEF Delete, ForgetPod, DeletePod, Authorize, PreserveClaim,
             DeleteRelease, DeleteWithdraw, DeleteSave
<1>7. CASE LeaseWatch
  <2>1. CASE LeaseSnapshot
    BY <1>s, <2>1 DEF LeaseSnapshot, LeaseCandidates, Goal
  <2>2. CASE LeaseListFails \/ LeaseEnd
    BY <1>1, <2>2 DEF LeaseListFails, LeaseEnd, Return
  <2>3. ASSUME NEW k \in Keys, LeaseRefresh(k) \/ LeaseConfirm(k) \/ LeaseSuperseded(k)
        PROVE  Goal
    BY <1>2, <2>3 DEF LeaseRefresh, LeaseConfirm, LeaseSuperseded
  <2> QED BY <1>0, <1>7, <2>1, <2>2, <2>3 DEF LeaseWatch, LeaseList, LeaseNotify
<1>8. CASE OwnerRecheck
  <2>1. CASE RecheckSnapshot
    BY <1>s, <2>1 DEF RecheckSnapshot, Preserved, Goal
  <2>2. ASSUME NEW k \in Keys, RecheckNotDue(k) \/ RecheckKeeps(k) \/ WithdrawForRelease(k)
                               \/ WithdrawRefused(k)
        PROVE  Goal
    BY <1>2, <2>2 DEF RecheckNotDue, RecheckKeeps, WithdrawForRelease, WithdrawRefused,
       WithdrawDone
  <2> QED BY <1>0, <1>8, <2>1, <2>2 DEF OwnerRecheck, DrainSnapshot, DrainEnd,
             RecheckSaveBegin, RecheckSaveEnd, RecheckReleases, DrainRelease, DrainReleaseFails
<1>9. CASE Environment
  BY <1>0, <1>9 DEF Environment, PodBound, PodTerminating, PodRemoved, PodAdopted,
     OwnerEnds, SandboxGone, Tick
<1>10. CASE New \/ UNCHANGED vars
  BY <1>0, <1>10 DEF New, vars
<1> QED BY <1>3, <1>4, <1>5, <1>6, <1>7, <1>8, <1>9, <1>10 DEF Next, Handler, Goal

\* The file changes at startup, or when the write in flight lands.
FileStep ==
    \/ UNCHANGED disk
    \/ New
    \/ saveMu # None /\ saveMu' = None /\ disk' = buf

\* The write in flight is a snapshot of the table, taken under mu inside saveMu, and
\* stays as it was taken.
WriteTaken(c) ==
    /\ saveMu = None /\ buf' = Durable(c)
    /\ c # None => CommitBegin(c)
    /\ UNCHANGED <<claims, releasing, tentative, disk>>
BufStep ==
    saveMu' # None => \/ saveMu' = saveMu /\ buf' = buf
                      \/ \E c \in Keys \cup {None} : WriteTaken(c)

\* The file changes only by a rename, and the bytes in flight only by a snapshot.
LEMMA WriterSteps ==
    ASSUME TypeInv, [Next]_vars
    PROVE  FileStep /\ BufStep
<1>0. CASE UNCHANGED <<disk, saveMu, buf>>
  BY <1>0 DEF FileStep, BufStep
<1>1. ASSUME NEW a \in Procs, NEW landed, EndWrite(a, landed) PROVE FileStep /\ BufStep
  BY <1>1, ProcsAssumption DEF EndWrite, FileStep, BufStep
<1>2. ASSUME NEW a \in Procs, BeginWrite(a, None), UNCHANGED <<claims, releasing, tentative>>
      PROVE  FileStep /\ BufStep
  BY <1>2 DEF BeginWrite, FileStep, BufStep, WriteTaken
<1>3. CASE New
  BY <1>3 DEF New, FileStep, BufStep
<1>4. CASE Crash
  BY <1>4 DEF Crash, FileStep, BufStep
<1>5. ASSUME NEW a \in Procs, Verify(a) PROVE FileStep /\ BufStep
  BY <1>0, <1>5 DEF Verify, VerifySnapshot, VerifyNothing, VerifyList, VerifyListFails,
     VerifyApply
<1>6. ASSUME NEW k \in Keys, Create(k) PROVE FileStep /\ BufStep
  <2>1. CASE AdoptSave(k)
    BY <1>2, <2>1 DEF AdoptSave
  <2>2. CASE CommitBegin(k)
    BY <2>2 DEF CommitBegin, BeginWrite, FileStep, BufStep, WriteTaken
  <2>3. CASE AdoptSaved(k) \/ CommitLands(k) \/ CommitFails(k)
    BY <1>1, <2>3 DEF AdoptSaved, CommitLands, CommitFails
  <2> QED BY <1>0, <1>6, <2>1, <2>2, <2>3 DEF Create, CreatePod, UpdatePod, RetryCreate,
             ExpiryDue, NotExpired, ExpiryList, ExpiryListFails, ExpirySettled, ExpiryRefresh,
             ExpiryDrop, AdoptNothing, Displace, Adopt, StrandedFound, NoneStranded,
             StrandedRelease, ClaimGranted, ClaimFails, ClaimAnswerLost, Record, Undo,
             PushRunning
<1>7. ASSUME NEW k \in Keys, Delete(k) \/ HandlerReleaseFails(k) PROVE FileStep /\ BufStep
  <2>1. CASE DeleteSave(k)
    BY <1>2, <2>1 DEF DeleteSave
  <2>2. CASE DeleteSaved(k)
    BY <1>1, <2>2 DEF DeleteSaved
  <2> QED BY <1>0, <1>7, <2>1, <2>2 DEF Delete, ForgetPod, DeletePod, Authorize, PreserveClaim,
             DeleteRelease, DeleteWithdraw, HandlerReleaseFails
<1>8. CASE LeaseWatch
  BY <1>0, <1>8 DEF LeaseWatch, LeaseSnapshot, LeaseList, LeaseListFails,
     LeaseNotify, LeaseEnd, LeaseRefresh, LeaseConfirm, LeaseSuperseded
<1>9. CASE OwnerRecheck
  <2>1. CASE RecheckSaveBegin
    BY <1>2, <2>1 DEF RecheckSaveBegin
  <2>2. CASE RecheckSaveEnd
    BY <1>1, <2>2 DEF RecheckSaveEnd
  <2> QED BY <1>0, <1>9, <2>1, <2>2 DEF OwnerRecheck, RecheckSnapshot, DrainSnapshot,
             DrainEnd, RecheckNotDue, RecheckKeeps, RecheckReleases, WithdrawDone,
             WithdrawForRelease, WithdrawRefused, DrainRelease, DrainReleaseFails
<1>10. CASE Environment
  BY <1>0, <1>10 DEF Environment, PodBound, PodTerminating, PodRemoved, PodAdopted,
     OwnerEnds, SandboxGone, Tick
<1>11. CASE UNCHANGED vars
  BY <1>0, <1>11 DEF vars
<1> QED BY <1>3, <1>4, <1>5, <1>6, <1>7, <1>8, <1>9, <1>10, <1>11 DEF Next, Handler

\* Where a goroutine judges the rows it copied by the listing it received.
Judging == {"verifyApply", "leaseJudge", "leaseNotify"}

\* The copies and the listing it judges by are the ones it took.
JudgesOn(a) ==
    /\ pc[a] \in Judging /\ listed'[a] = listed[a]
    /\ \A k \in Keys : snap'[a][k] # None => snap'[a][k] = snap[a][k]

\* A goroutine judges by a listing it has just received, or goes on doing so.
LEMMA JudgingStep ==
    ASSUME TypeInv, [Next]_vars, NEW a \in Procs, pc'[a] \in Judging
    PROVE  JudgesOn(a) \/ (listed'[a] = Live /\ UNCHANGED vm)
<1>p. /\ pc \in [Procs -> WorkerPCs \cup LoopPCs] /\ snap \in [Procs -> Rows]
      /\ listed \in [Procs -> SUBSET VMs]
  BY DEF TypeInv, TypeOK
<1>0. ASSUME pc'[a] = pc[a] /\ listed'[a] = listed[a] /\ snap'[a] = snap[a] PROVE JudgesOn(a)
  BY <1>0 DEF JudgesOn
<1>1. CASE New \/ Crash \/ Environment \/ UNCHANGED vars
  BY <1>0, <1>1 DEF New, Crash, Environment, PodBound, PodTerminating, PodRemoved,
     PodAdopted, OwnerEnds, SandboxGone, Tick, vars, Judging
<1>2. ASSUME NEW b \in Procs, Verify(b) PROVE JudgesOn(a) \/ (listed'[a] = Live /\ UNCHANGED vm)
  <2>1. CASE VerifyList(b)
    BY <1>p, <1>0, <2>1 DEF VerifyList, Goto
  <2>2. CASE VerifySnapshot(b) \/ VerifyNothing(b) \/ VerifyListFails(b) \/ VerifyApply(b)
    BY <1>p, <1>0, <2>2 DEF VerifySnapshot, VerifyNothing, VerifyListFails, VerifyApply,
       AfterVerify, Goto, Return, Judging
  <2> QED BY <1>2, <2>1, <2>2 DEF Verify
<1>3. ASSUME NEW k \in Keys, Create(k) PROVE JudgesOn(a)
  <2>1. CASE a # k
    <3>1. pc'[a] = pc[a] /\ listed'[a] = listed[a] /\ snap'[a] = snap[a]
      BY <1>p, <1>3, <2>1 DEF Create, CreatePod, UpdatePod, RetryCreate, EnterCreate,
         ExpiryDue, NotExpired, ExpiryList, ExpiryListFails, ExpirySettled, ExpiryRefresh,
         ExpiryDrop, AdoptNothing, Displace, Adopt, AdoptSave, AdoptSaved, StrandedFound,
         NoneStranded, StrandedRelease, ClaimGranted, ClaimFails, ClaimAnswerLost, Record,
         CommitBegin, CommitLands, CommitFails, Undo, PushRunning, Goto, Return
    <3> QED BY <1>0, <3>1
  <2>2. CASE a = k /\ \E p \in Pods : UpdatePod(k, p)
    BY <1>0, <2>2 DEF UpdatePod
  <2>3. CASE a = k /\ ~\E p \in Pods : UpdatePod(k, p)
    BY <1>p, <1>3, <2>3 DEF Create, CreatePod, RetryCreate, EnterCreate, ExpiryDue,
       NotExpired, ExpiryList, ExpiryListFails, ExpirySettled, ExpiryRefresh, ExpiryDrop,
       AdoptNothing, Displace, Adopt, AdoptSave, AdoptSaved, StrandedFound, NoneStranded,
       StrandedRelease, ClaimGranted, ClaimFails, ClaimAnswerLost, Record, CommitBegin,
       CommitLands, CommitFails, Undo, PushRunning, Goto, Return, Judging
  <2> QED BY <2>1, <2>2, <2>3
<1>4. ASSUME NEW k \in Keys, Delete(k) \/ HandlerReleaseFails(k) PROVE JudgesOn(a)
  <2>1. CASE a # k
    <3>1. pc'[a] = pc[a] /\ listed'[a] = listed[a] /\ snap'[a] = snap[a]
      BY <1>p, <1>4, <2>1 DEF Delete, ForgetPod, DeletePod, Authorize, PreserveClaim,
         DeleteRelease, DeleteWithdraw, DeleteSave, DeleteSaved, HandlerReleaseFails, Goto,
         Return
    <3> QED BY <1>0, <3>1
  <2>2. CASE a = k /\ \E pod \in PodObject : ForgetPod(k, pod)
    BY <1>0, <2>2 DEF ForgetPod
  <2>3. CASE a = k /\ ~\E pod \in PodObject : ForgetPod(k, pod)
    BY <1>p, <1>4, <2>3 DEF Delete, DeletePod, Authorize, PreserveClaim, DeleteRelease,
       DeleteWithdraw, DeleteSave, DeleteSaved, HandlerReleaseFails, Goto, Return, Judging
  <2> QED BY <2>1, <2>2, <2>3
<1>5. CASE LeaseWatch
  <2>1. CASE LeaseList
    BY <1>p, <1>0, <2>1 DEF LeaseList, Goto
  <2>2. CASE \E k \in Keys : LeaseRefresh(k) \/ LeaseConfirm(k) \/ LeaseSuperseded(k)
    BY <1>p, <1>0, <2>2 DEF LeaseRefresh, LeaseConfirm, LeaseSuperseded,
       ReapedCandidate, DropCandidate, JudgesOn, Judging, Goto
  <2>3. CASE LeaseSnapshot \/ LeaseListFails \/ LeaseNotify \/ LeaseEnd
    BY <1>p, <1>0, <2>3 DEF LeaseSnapshot, LeaseListFails, LeaseNotify, LeaseEnd, JudgesOn,
       Judging, Goto, Return
  <2> QED BY <1>5, <2>1, <2>2, <2>3 DEF LeaseWatch
<1>6. CASE OwnerRecheck
  <2>1. CASE a # "recheck"
    <3>1. pc'[a] = pc[a] /\ listed'[a] = listed[a] /\ snap'[a] = snap[a]
      BY <1>p, <1>6, <2>1 DEF OwnerRecheck, RecheckSnapshot, DrainSnapshot,
         DrainEnd, RecheckSaveBegin, RecheckSaveEnd, RecheckNotDue, RecheckKeeps,
         RecheckReleases, WithdrawDone, WithdrawForRelease, WithdrawRefused, DrainRelease,
         DrainReleaseFails, DropCandidate, Goto
    <3> QED BY <1>0, <3>1
  <2>2. CASE a = "recheck"
    BY <1>p, <1>6, <2>2 DEF OwnerRecheck, RecheckSnapshot, DrainSnapshot, DrainEnd,
       RecheckSaveBegin, RecheckSaveEnd, RecheckNotDue, RecheckKeeps, RecheckReleases,
       OwnerVerdict, WithdrawDone, WithdrawForRelease, WithdrawRefused, DrainRelease,
       DrainReleaseFails, Goto, Judging
  <2> QED BY <2>1, <2>2
<1> QED BY <1>1, <1>2, <1>3, <1>4, <1>5, <1>6 DEF Next, Handler

\* The rows New keeps are rows of the file.
LEMMA LoadedIds ==
    ASSUME TypeInv, NEW canList \in BOOLEAN, NEW d \in [Keys -> Deadlines], NEW k \in Keys,
           LoadedRows(canList, d)[k] # None
    PROVE  disk.claims[k] # None /\ LoadedRows(canList, d)[k].id = disk.claims[k].id
<1>1. disk.claims[k] # None
  BY DEF LoadedRows
<1>2. disk.claims[k] \in Claim
  BY <1>1 DEF TypeInv, TypeOK
<1> QED BY <1>1, <1>2 DEF LoadedRows, Vouched, Claim

\* A step teaches nobody an id that was not known before.
KnowledgeKept == \A v \in VMs, x \in Procs \cup {None} : Known(v, x)' => Known(v, x)

\* A verification teaches the provider no new id.
LEMMA VerifyKnowledge ==
    ASSUME TypeInv, NEW a \in Procs, Verify(a)
    PROVE  KnowledgeKept
<1>c. claims \in Rows
  BY DEF TypeInv, TypeOK
<1>r. row \in [Procs -> Claim \cup {None}]
  BY DEF TypeInv, TypeOK
<1>s. snap \in [Procs -> Rows]
  BY DEF TypeInv, TypeOK
<1>1. CASE VerifySnapshot(a)
  BY <1>1, <1>s, NoneAssumption, ProcsAssumption DEF VerifySnapshot, Goto,
     VerifyDue, QuarantinedRows, KnowledgeKept, Known, InTable, Memory
<1>2. CASE VerifyNothing(a)
  <2>1. UNCHANGED <<claims, releasing, disk, buf, row, snap>>
    BY <1>2 DEF VerifyNothing, Goto, VerifyDue, AfterVerify
  <2> QED BY <2>1 DEF KnowledgeKept, Known, InTable, Memory
<1>3. CASE VerifyList(a)
  <2>1. UNCHANGED <<claims, releasing, disk, buf, row, snap>>
    BY <1>3 DEF VerifyList, Goto, Live
  <2> QED BY <2>1 DEF KnowledgeKept, Known, InTable, Memory
<1>4. CASE VerifyListFails(a)
  BY <1>4, <1>r, <1>s, NoneAssumption, ProcsAssumption
     DEF VerifyListFails, Return, Goto,
     KnowledgeKept, Known, InTable, Memory
<1>5. CASE VerifyApply(a)
  BY <1>5, <1>c, <1>s, NoneAssumption, ProcsAssumption
     DEF VerifyApply, Goto, AfterVerify,
     Judged, Holds, Vouched, KnowledgeKept, Known, InTable, Memory
<1> QED BY <1>1, <1>2, <1>3, <1>4, <1>5 DEF Verify

\* A start knows what the file knew, a crash no more.
LEMMA ProcessKnowledge ==
    ASSUME TypeInv, New \/ Crash
    PROVE  KnowledgeKept
<1>c. claims \in Rows
  BY DEF TypeInv, TypeOK
<1>r. row \in [Procs -> Claim \cup {None}]
  BY DEF TypeInv, TypeOK
<1>s. snap \in [Procs -> Rows]
  BY DEF TypeInv, TypeOK
<1>d. disk \in Table /\ buf \in Table
  BY DEF TypeInv, TypeOK
<1>q. releasing \subseteq VMs
  BY DEF TypeInv, TypeOK
<1>1. CASE New
  <2>1. \A k \in Keys : claims'[k] # None => disk.claims[k] # None /\ claims'[k].id = disk.claims[k].id
    BY <1>1, LoadedIds DEF New
  <2>2. releasing' = disk.releasing /\ disk' = [claims |-> claims', releasing |-> disk.releasing]
        /\ UNCHANGED <<buf, snap, row>>
    BY <1>1 DEF New
  <2> QED BY <2>1, <2>2 DEF KnowledgeKept, Known, InTable, Memory
<1>2. CASE Crash
  BY <1>2, <1>c, <1>r, <1>s, <1>d, <1>q, NoneAssumption, ProcsAssumption DEF Crash,
     Live, KnowledgeKept, Known, InTable, Memory
<1> QED BY <1>1, <1>2
-----------------------------------------------------------------------------
\* No step of CreatePod teaches an id, but the grant and the record of a fresh one.
LEMMA CreateKnowledge ==
    ASSUME TypeInv, NEW k \in Keys, Create(k), ~ClaimGranted(k), ~Record(k)
    PROVE  KnowledgeKept
<1>c. claims \in Rows
  BY DEF TypeInv, TypeOK
<1>r. row \in [Procs -> Claim \cup {None}]
  BY DEF TypeInv, TypeOK
<1>s. snap \in [Procs -> Rows]
  BY DEF TypeInv, TypeOK
<1>d. disk \in Table /\ buf \in Table
  BY DEF TypeInv, TypeOK
<1>q. releasing \subseteq VMs
  BY DEF TypeInv, TypeOK
<1>1. ASSUME NEW p \in Pods, CreatePod(k, p) PROVE KnowledgeKept
  <2>1. UNCHANGED <<claims, releasing, disk, buf, row, snap>>
    BY <1>1 DEF CreatePod, EnterCreate, SyncDue, Goto
  <2> QED BY <2>1 DEF KnowledgeKept, Known, InTable, Memory
<1>2. ASSUME NEW p \in Pods, UpdatePod(k, p) PROVE KnowledgeKept
  <2>1. UNCHANGED <<claims, releasing, disk, buf, row, snap>>
    BY <1>2 DEF UpdatePod
  <2> QED BY <2>1 DEF KnowledgeKept, Known, InTable, Memory
<1>3. ASSUME NEW p \in Pods, RetryCreate(k, p) PROVE KnowledgeKept
  <2>1. UNCHANGED <<claims, releasing, disk, buf, row, snap>>
    BY <1>3 DEF RetryCreate, EnterCreate, UpdateDue, SyncDue, Goto
  <2> QED BY <2>1 DEF KnowledgeKept, Known, InTable, Memory
<1>4. CASE ExpiryDue(k)
  BY <1>4, <1>r, NoneAssumption, ProcsAssumption DEF ExpiryDue, Goto, PastDeadline, Settled,
     KnowledgeKept, Known, InTable, Memory
<1>5. CASE NotExpired(k)
  <2>1. UNCHANGED <<claims, releasing, disk, buf, row, snap>>
    BY <1>5 DEF NotExpired, Goto
  <2> QED BY <2>1 DEF KnowledgeKept, Known, InTable, Memory
<1>6. CASE ExpiryList(k)
  <2>1. UNCHANGED <<claims, releasing, disk, buf, row, snap>>
    BY <1>6 DEF ExpiryList, Goto, Live
  <2> QED BY <2>1 DEF KnowledgeKept, Known, InTable, Memory
<1>7. CASE ExpiryListFails(k)
  BY <1>7, <1>r, <1>s, NoneAssumption, ProcsAssumption
     DEF ExpiryListFails, Return, Goto,
     KnowledgeKept, Known, InTable, Memory
<1>8. CASE ExpiryRefresh(k)
  BY <1>8, <1>c, <1>r, NoneAssumption, ProcsAssumption
     DEF ExpiryRefresh, Goto, ExpirySettled,
     RefreshDeadline, Holds, KnowledgeKept, Known, InTable, Memory
<1>9. CASE ExpiryDrop(k)
  BY <1>9, <1>c, <1>r, NoneAssumption, ProcsAssumption DEF ExpiryDrop, Goto, ExpirySettled,
     DropClaim, Holds, KnowledgeKept, Known, InTable, Memory
<1>10. CASE AdoptNothing(k)
  <2>1. UNCHANGED <<claims, releasing, disk, buf, row, snap>>
    BY <1>10 DEF AdoptNothing, Goto, Settled
  <2> QED BY <2>1 DEF KnowledgeKept, Known, InTable, Memory
<1>11. CASE Displace(k)
  BY <1>11, <1>c, <1>q, NoneAssumption, ProcsAssumption DEF Displace, Goto, Settled,
     KnowledgeKept, Known, InTable, Memory
<1>12. CASE Adopt(k)
  BY <1>12, <1>c, <1>r, NoneAssumption, ProcsAssumption
     DEF Adopt, Goto, Settled, Adopted,
     KnowledgeKept, Known, InTable, Memory
<1>13. CASE AdoptSave(k)
  BY <1>13, <1>d, NoneAssumption, ProcsAssumption
     DEF AdoptSave, Goto, BeginWrite, Durable,
     KnowledgeKept, Known, InTable, Memory
<1>14. CASE AdoptSaved(k)
  BY <1>14, <1>d, NoneAssumption, ProcsAssumption
     DEF AdoptSaved, Goto, EndWrite,
     KnowledgeKept, Known, InTable, Memory
<1>15. CASE StrandedFound(k)
  BY <1>15, <1>r, NoneAssumption, ProcsAssumption DEF StrandedFound, Goto, Stranded,
     KnowledgeKept, Known, InTable, Memory
<1>16. CASE NoneStranded(k)
  <2>1. UNCHANGED <<claims, releasing, disk, buf, row, snap>>
    BY <1>16 DEF NoneStranded, Goto, Stranded
  <2> QED BY <2>1 DEF KnowledgeKept, Known, InTable, Memory
<1>17. CASE StrandedRelease(k)
  BY <1>17, <1>c, <1>r, NoneAssumption, ProcsAssumption DEF StrandedRelease, Goto,
     ReleaseLands, WithdrawClaim, DropClaim, Holds, KnowledgeKept, Known, InTable, Memory
<1>18. CASE ClaimGranted(k)
  BY <1>18
<1>19. CASE ClaimFails(k)
  BY <1>19, <1>r, <1>s, NoneAssumption, ProcsAssumption DEF ClaimFails, Return, Goto,
     KnowledgeKept, Known, InTable, Memory
<1>20. CASE ClaimAnswerLost(k)
  BY <1>20, <1>r, <1>s, NoneAssumption, ProcsAssumption DEF ClaimAnswerLost, Return, Goto,
     KnowledgeKept, Known, InTable, Memory
<1>21. CASE Record(k)
  BY <1>21
<1>22. CASE CommitBegin(k)
  BY <1>22, <1>d, NoneAssumption, ProcsAssumption
     DEF CommitBegin, Goto, BeginWrite, Durable,
     KnowledgeKept, Known, InTable, Memory
<1>23. CASE CommitLands(k)
  BY <1>23, <1>d, NoneAssumption, ProcsAssumption DEF CommitLands, Goto, EndWrite,
     KnowledgeKept, Known, InTable, Memory
<1>24. CASE CommitFails(k)
  BY <1>24, <1>d, NoneAssumption, ProcsAssumption DEF CommitFails, Goto, EndWrite,
     KnowledgeKept, Known, InTable, Memory
<1>25. CASE Undo(k)
  BY <1>25, <1>c, <1>r, <1>s, NoneAssumption, ProcsAssumption DEF Undo, Return,
     Goto, ReleaseLands, WithdrawClaim, DropClaim, Holds, KnowledgeKept, Known, InTable, Memory
<1>26. CASE PushRunning(k)
  BY <1>26, <1>r, <1>s, NoneAssumption, ProcsAssumption DEF PushRunning, Return, Goto,
     KnowledgeKept, Known, InTable, Memory
<1> QED BY <1>1, <1>2, <1>3, <1>4, <1>5, <1>6, <1>7, <1>8, <1>9, <1>10, <1>11, <1>12, <1>13,
           <1>14, <1>15, <1>16, <1>17, <1>18, <1>19, <1>20, <1>21, <1>22, <1>23, <1>24, <1>25,
           <1>26 DEF Create

\* DeletePod teaches no new id.
LEMMA DeleteKnowledge ==
    ASSUME TypeInv, NEW k \in Keys, Delete(k)
    PROVE  KnowledgeKept
<1>c. claims \in Rows
  BY DEF TypeInv, TypeOK
<1>r. row \in [Procs -> Claim \cup {None}]
  BY DEF TypeInv, TypeOK
<1>s. snap \in [Procs -> Rows]
  BY DEF TypeInv, TypeOK
<1>d. disk \in Table /\ buf \in Table
  BY DEF TypeInv, TypeOK
<1>1. ASSUME NEW pod \in PodObject, ForgetPod(k, pod) PROVE KnowledgeKept
  <2>1. UNCHANGED <<claims, releasing, disk, buf, row, snap>>
    BY <1>1 DEF ForgetPod
  <2> QED BY <2>1 DEF KnowledgeKept, Known, InTable, Memory
<1>2. ASSUME NEW pod \in PodObject, DeletePod(k, pod) PROVE KnowledgeKept
  BY <1>2, <1>r, NoneAssumption, ProcsAssumption
     DEF DeletePod, Goto, DeleteDue, KnowledgeKept,
     Known, InTable, Memory
<1>3. CASE Authorize(k)
  <2>1. UNCHANGED <<claims, releasing, disk, buf, row, snap>>
    BY <1>3 DEF Authorize, Goto
  <2> QED BY <2>1 DEF KnowledgeKept, Known, InTable, Memory
<1>4. CASE PreserveClaim(k)
  BY <1>4, <1>c, NoneAssumption, ProcsAssumption
     DEF PreserveClaim, Goto, Holds, KnowledgeKept,
     Known, InTable, Memory
<1>5. CASE DeleteRelease(k)
  <2>1. UNCHANGED <<claims, releasing, disk, buf, row, snap>>
    BY <1>5 DEF DeleteRelease, Goto, ReleaseLands
  <2> QED BY <2>1 DEF KnowledgeKept, Known, InTable, Memory
<1>6. CASE DeleteWithdraw(k)
  BY <1>6, <1>c, NoneAssumption, ProcsAssumption
     DEF DeleteWithdraw, Goto, WithdrawClaim,
     DropClaim, Holds, KnowledgeKept, Known, InTable, Memory
<1>7. CASE DeleteSave(k)
  BY <1>7, <1>d, NoneAssumption, ProcsAssumption
     DEF DeleteSave, Goto, BeginWrite, Durable,
     KnowledgeKept, Known, InTable, Memory
<1>8. CASE DeleteSaved(k)
  BY <1>8, <1>r, <1>s, <1>d, NoneAssumption, ProcsAssumption
     DEF DeleteSaved, Return, Goto,
     EndWrite, KnowledgeKept, Known, InTable, Memory
<1> QED BY <1>1, <1>2, <1>3, <1>4, <1>5, <1>6, <1>7, <1>8 DEF Delete

\* No handler step teaches an id, but the grant and the record of a fresh one.
LEMMA HandlerKnowledge ==
    ASSUME TypeInv, NEW k \in Keys, Handler(k), ~ClaimGranted(k), ~Record(k)
    PROVE  KnowledgeKept
<1>r. row \in [Procs -> Claim \cup {None}]
  BY DEF TypeInv, TypeOK
<1>s. snap \in [Procs -> Rows]
  BY DEF TypeInv, TypeOK
<1>1. CASE Create(k)
  BY <1>1, CreateKnowledge
<1>2. CASE Delete(k)
  BY <1>2, DeleteKnowledge
<1>3. CASE HandlerReleaseFails(k)
  BY <1>3, <1>r, <1>s, NoneAssumption, ProcsAssumption DEF HandlerReleaseFails, Return, Goto,
     ReleaseErrs, ReleaseLands, KnowledgeKept, Known, InTable, Memory
<1> QED BY <1>1, <1>2, <1>3 DEF Handler

\* The lease watch teaches no new id.
LEMMA LeaseKnowledge ==
    ASSUME TypeInv, LeaseWatch
    PROVE  KnowledgeKept
<1>c. claims \in Rows
  BY DEF TypeInv, TypeOK
<1>r. row \in [Procs -> Claim \cup {None}]
  BY DEF TypeInv, TypeOK
<1>s. snap \in [Procs -> Rows]
  BY DEF TypeInv, TypeOK
<1>1. CASE LeaseSnapshot
  BY <1>1, <1>s, NoneAssumption, ProcsAssumption
     DEF LeaseSnapshot, Goto, LeaseCandidates,
     Settled, KnowledgeKept, Known, InTable, Memory
<1>2. CASE LeaseList
  <2>1. UNCHANGED <<claims, releasing, disk, buf, row, snap>>
    BY <1>2 DEF LeaseList, Goto, Live
  <2> QED BY <2>1 DEF KnowledgeKept, Known, InTable, Memory
<1>3. CASE LeaseListFails
  BY <1>3, <1>r, <1>s, NoneAssumption, ProcsAssumption DEF LeaseListFails, Return, Goto,
     KnowledgeKept, Known, InTable, Memory
<1>4. CASE LeaseNotify
  BY <1>4, <1>r, NoneAssumption, ProcsAssumption
     DEF LeaseNotify, Goto, KnowledgeKept, Known,
     InTable, Memory
<1>5. CASE LeaseEnd
  BY <1>5, <1>r, <1>s, NoneAssumption, ProcsAssumption DEF LeaseEnd, Return, Goto,
     KnowledgeKept, Known, InTable, Memory
<1>6. ASSUME NEW k \in Keys, LeaseRefresh(k) PROVE KnowledgeKept
  BY <1>6, <1>c, <1>s, NoneAssumption, ProcsAssumption
     DEF LeaseRefresh, RefreshDeadline,
     Holds, DropCandidate, KnowledgeKept, Known, InTable, Memory
<1>7. ASSUME NEW k \in Keys, LeaseConfirm(k) PROVE KnowledgeKept
  BY <1>7, <1>r, <1>s, NoneAssumption, ProcsAssumption DEF LeaseConfirm, StillCandidate,
     ReapedCandidate, Holds, DropCandidate, Goto, KnowledgeKept, Known, InTable, Memory
<1>8. ASSUME NEW k \in Keys, LeaseSuperseded(k) PROVE KnowledgeKept
  BY <1>8, <1>s, NoneAssumption, ProcsAssumption DEF LeaseSuperseded, ReapedCandidate,
     DropCandidate, KnowledgeKept, Known, InTable, Memory
<1> QED BY <1>1, <1>2, <1>3, <1>4, <1>5, <1>6, <1>7, <1>8 DEF LeaseWatch

\* The owner re-check and the drain teach no new id.
LEMMA RecheckKnowledge ==
    ASSUME TypeInv, OwnerRecheck
    PROVE  KnowledgeKept
<1>c. claims \in Rows
  BY DEF TypeInv, TypeOK
<1>s. snap \in [Procs -> Rows]
  BY DEF TypeInv, TypeOK
<1>d. disk \in Table /\ buf \in Table
  BY DEF TypeInv, TypeOK
<1>q. releasing \subseteq VMs
  BY DEF TypeInv, TypeOK
<1>1. CASE RecheckSnapshot
  BY <1>1, <1>s, NoneAssumption, ProcsAssumption DEF RecheckSnapshot, Goto, Preserved, Settled,
     KnowledgeKept, Known, InTable, Memory
<1>2. CASE DrainSnapshot
  <2>1. UNCHANGED <<claims, releasing, disk, buf, row, snap>>
    BY <1>2 DEF DrainSnapshot, Goto
  <2> QED BY <2>1 DEF KnowledgeKept, Known, InTable, Memory
<1>3. CASE DrainEnd
  <2>1. UNCHANGED <<claims, releasing, disk, buf, row, snap>>
    BY <1>3 DEF DrainEnd, Goto
  <2> QED BY <2>1 DEF KnowledgeKept, Known, InTable, Memory
<1>4. CASE RecheckSaveBegin
  BY <1>4, <1>d, NoneAssumption, ProcsAssumption DEF RecheckSaveBegin, Goto, BeginWrite,
     Durable, KnowledgeKept, Known, InTable, Memory
<1>5. CASE RecheckSaveEnd
  BY <1>5, <1>d, NoneAssumption, ProcsAssumption
     DEF RecheckSaveEnd, Goto, EndWrite,
     KnowledgeKept, Known, InTable, Memory
<1>6. ASSUME NEW k \in Keys, RecheckNotDue(k) PROVE KnowledgeKept
  BY <1>6, <1>s, NoneAssumption, ProcsAssumption DEF RecheckNotDue, DropCandidate,
     KnowledgeKept, Known, InTable, Memory
<1>7. ASSUME NEW k \in Keys, RecheckKeeps(k) PROVE KnowledgeKept
  BY <1>7, <1>s, NoneAssumption, ProcsAssumption
     DEF RecheckKeeps, OwnerVerdict, DropCandidate,
     KnowledgeKept, Known, InTable, Memory
<1>8. ASSUME NEW k \in Keys, RecheckReleases(k) PROVE KnowledgeKept
  <2>1. UNCHANGED <<claims, releasing, disk, buf, row, snap>>
    BY <1>8 DEF RecheckReleases, OwnerVerdict, Goto
  <2> QED BY <2>1 DEF KnowledgeKept, Known, InTable, Memory
<1>9. ASSUME NEW k \in Keys, WithdrawForRelease(k) PROVE KnowledgeKept
  BY <1>9, <1>c, <1>s, <1>q, NoneAssumption, ProcsAssumption DEF WithdrawForRelease,
     WithdrawDone, Withdrawable, Holds, DropCandidate, Goto, KnowledgeKept, Known, InTable,
     Memory
<1>10. ASSUME NEW k \in Keys, WithdrawRefused(k) PROVE KnowledgeKept
  BY <1>10, <1>s, NoneAssumption, ProcsAssumption DEF WithdrawRefused,
     WithdrawDone, DropCandidate, Goto, KnowledgeKept, Known, InTable, Memory
<1>11. ASSUME NEW v \in VMs, DrainRelease(v) PROVE KnowledgeKept
  BY <1>11, <1>q, NoneAssumption, ProcsAssumption DEF DrainRelease, ReleaseLands,
     KnowledgeKept, Known, InTable, Memory
<1>12. ASSUME NEW v \in VMs, DrainReleaseFails(v) PROVE KnowledgeKept
  <2>1. UNCHANGED <<claims, releasing, disk, buf, row, snap>>
    BY <1>12 DEF DrainReleaseFails, ReleaseErrs, ReleaseLands
  <2> QED BY <2>1 DEF KnowledgeKept, Known, InTable, Memory
<1> QED BY <1>1, <1>2, <1>3, <1>4, <1>5, <1>6, <1>7, <1>8, <1>9, <1>10, <1>11,
           <1>12 DEF OwnerRecheck

\* The surroundings teach the provider nothing.
LEMMA EnvironmentKnowledge ==
    ASSUME TypeInv, Environment
    PROVE  KnowledgeKept
<1>1. ASSUME NEW p \in Pods, PodBound(p) PROVE KnowledgeKept
  <2>1. UNCHANGED <<claims, releasing, disk, buf, row, snap>>
    BY <1>1 DEF PodBound
  <2> QED BY <2>1 DEF KnowledgeKept, Known, InTable, Memory
<1>2. ASSUME NEW p \in Pods, PodTerminating(p) PROVE KnowledgeKept
  <2>1. UNCHANGED <<claims, releasing, disk, buf, row, snap>>
    BY <1>2 DEF PodTerminating
  <2> QED BY <2>1 DEF KnowledgeKept, Known, InTable, Memory
<1>3. ASSUME NEW p \in Pods, PodRemoved(p) PROVE KnowledgeKept
  <2>1. UNCHANGED <<claims, releasing, disk, buf, row, snap>>
    BY <1>3 DEF PodRemoved
  <2> QED BY <2>1 DEF KnowledgeKept, Known, InTable, Memory
<1>4. ASSUME NEW p \in Pods, NEW o \in Adopters, PodAdopted(p, o) PROVE KnowledgeKept
  <2>1. UNCHANGED <<claims, releasing, disk, buf, row, snap>>
    BY <1>4 DEF PodAdopted
  <2> QED BY <2>1 DEF KnowledgeKept, Known, InTable, Memory
<1>5. ASSUME NEW o \in Owners, OwnerEnds(o) PROVE KnowledgeKept
  <2>1. UNCHANGED <<claims, releasing, disk, buf, row, snap>>
    BY <1>5 DEF OwnerEnds
  <2> QED BY <2>1 DEF KnowledgeKept, Known, InTable, Memory
<1>6. ASSUME NEW v \in VMs, SandboxGone(v) PROVE KnowledgeKept
  <2>1. UNCHANGED <<claims, releasing, disk, buf, row, snap>>
    BY <1>6 DEF SandboxGone
  <2> QED BY <2>1 DEF KnowledgeKept, Known, InTable, Memory
<1>7. CASE Tick
  <2>1. UNCHANGED <<claims, releasing, disk, buf, row, snap>>
    BY <1>7 DEF Tick
  <2> QED BY <2>1 DEF KnowledgeKept, Known, InTable, Memory
<1> QED BY <1>1, <1>2, <1>3, <1>4, <1>5, <1>6, <1>7 DEF Environment

\* Ids spread by copying, but for a grant and its recording.
LEMMA Knowledge ==
    ASSUME TypeInv, [Next]_vars
    PROVE  \/ KnowledgeKept
           \/ \E k \in Keys : ClaimGranted(k) \/ Record(k)
<1>1. CASE UNCHANGED vars
  BY <1>1 DEF vars, KnowledgeKept, Known, InTable, Memory
<1>2. CASE Next
  BY <1>2, VerifyKnowledge, ProcessKnowledge, HandlerKnowledge, LeaseKnowledge,
     RecheckKnowledge, EnvironmentKnowledge DEF Next
<1> QED BY <1>1, <1>2

\* Recording a fresh row shows its id to nobody but the recorder.
LEMMA RecordKnowledge ==
    ASSUME TypeInv, NEW k \in Keys, Record(k),
           NEW v \in VMs, NEW x \in Procs \cup {None}, x # k, Known(v, x)'
    PROVE  Known(v, x)
<1>1. row \in [Procs -> Claim \cup {None}] /\ claims \in Rows /\ k \in Procs
  BY DEF TypeInv, TypeOK
<1>2. /\ claims' = [claims EXCEPT ![k] = row[k]]
      /\ UNCHANGED <<releasing, disk, buf, snap, row>>
  BY DEF Record
<1> QED BY <1>1, <1>2 DEF Known, InTable, Memory

\* A granted id was free, is live, and only the handler that asked learns it.
LEMMA GrantKnowledge ==
    ASSUME TypeInv, NEW k \in Keys, ClaimGranted(k)
    PROVE  /\ row'[k].id \in VMs /\ vm[row'[k].id] = "free" /\ vm'[row'[k].id] = "live"
           /\ \A v \in VMs, x \in Procs \cup {None} :
                 Known(v, x)' => Known(v, x) \/ (x # k /\ v = row'[k].id)
<1>r. row \in [Procs -> Claim \cup {None}] /\ vm \in [VMs -> {"free", "live", "released", "gone"}]
  BY DEF TypeInv, TypeOK
<1>1. PICK w \in VMs, d \in Deadlines :
         /\ vm[w] = "free" /\ vm' = [vm EXCEPT ![w] = "live"]
         /\ row' = [row EXCEPT ![k] = FreshClaim(w, arg[k], d)]
  BY DEF ClaimGranted
<1>2. row'[k].id = w
  BY <1>1, <1>r DEF FreshClaim
<1>3. UNCHANGED <<claims, releasing, disk, buf, snap>>
  BY DEF ClaimGranted
<1>4. \A a \in Procs : a # k => row'[a] = row[a]
  BY <1>1, <1>r
<1>5. \A v \in VMs, x \in Procs \cup {None} :
         Known(v, x)' => Known(v, x) \/ (x # k /\ v = row'[k].id)
  BY <1>3, <1>4 DEF Known, InTable, Memory
<1> QED BY <1>1, <1>2, <1>5, <1>r
=============================================================================
