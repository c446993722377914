--------------------------- MODULE ProviderSafety ---------------------------
(*****************************************************************************)
(* The inductive invariant of Provider, for every value of the constants.    *)
(*                                                                           *)
(* Ids the provider knows were issued by sandboxd, one just granted is its   *)
(* handler's alone, one that is lost is nobody's, and a listing that lacks   *)
(* an id stays right about it.  What the table's markers say of its rows,    *)
(* what a handler may assume of the row at its own key, and that every       *)
(* credential that counts is in the state file.  No path drops the           *)
(* credential of a sandbox that lives.  Then the properties the invariant    *)
(* carries, and that Provider implements Custody.                            *)
(*****************************************************************************)
EXTENDS ProviderEffects, ProviderCustody

\* First-order and set reasoning first, then SMT.
USE ZenonT(5), SMTT(30), ZenonT(40)
USE DEF Rows, NoRows, Table, EmptyTable, Procs, Loops
USE DEF tableVars, fileVars, localVars, recheckVars, kubeVars, outside, beyond, inside

\* Ids the provider knows were issued; a granted one is private until recorded.
IdentityInv == AllIssued /\ FreshIsPrivate

\* Before the first start only the ids of an older build's file are known.
LEMMA InitIdentity == Init => IdentityInv
<1> SUFFICES ASSUME Init PROVE IdentityInv
  OBVIOUS
<1>1. \A v \in VMs : Known(v, None) => v \in LegacyVMs
  BY DEF Init, Known, InTable, Memory, LegacyVMs
<1>2. AllIssued
  BY <1>1 DEF Init, AllIssued, NotPushed
<1>3. FreshIsPrivate
  BY DEF Init, FreshIsPrivate
<1> QED BY <1>2, <1>3 DEF IdentityInv

\* Every step keeps: known ids are issued, and a fresh one is its handler's alone.
LEMMA IdentityStep ==
    ASSUME TypeInv, IdentityInv, [Next]_vars
    PROVE  IdentityInv'
<1> USE DEF IdentityInv
<1>1. NoRebirth
  BY Rebirth
<1>2. \A v \in VMs, x \in Procs \cup {None} : Known(v, x) => Known(v, None)
  BY NoneAssumption, ProcsAssumption DEF Known
<1>3. \A j \in Keys : pc[j] = "record" =>
         /\ row[j].id \in VMs /\ Known(row[j].id, None)
  BY NoneAssumption, ClaimId DEF Known, TypeInv, TypeOK, InHand, WorksOnRow
<1>4. \A v \in VMs : Known(v, None)' => vm'[v] # "free"
  <2>1. CASE KnowledgeKept
    BY <1>1, <2>1 DEF KnowledgeKept, AllIssued, NoRebirth
  <2>2. ASSUME NEW k \in Keys, Record(k) PROVE \A v \in VMs : Known(v, None)' => vm'[v] # "free"
    BY <1>1, <2>2, RecordKnowledge, ProcsAssumption DEF AllIssued, NoRebirth
  <2>3. ASSUME NEW k \in Keys, ClaimGranted(k) PROVE \A v \in VMs : Known(v,
  None)' => vm'[v] # "free"
    BY <1>1, <2>3, GrantKnowledge, ProcsAssumption DEF AllIssued, NoRebirth
  <2> QED BY <2>1, <2>2, <2>3, Knowledge
<1>5. \A p \in Pods : status'[p].id # None => vm'[status'[p].id] # "free"
  <2>1. CASE UNCHANGED status
    BY <1>1, <2>1, StatusIds DEF AllIssued, NoRebirth
  <2>2. ASSUME NEW a \in Procs, row[a] # None, StatusOf(row[a].id)
        PROVE  \A p \in Pods : status'[p].id # None => vm'[status'[p].id] # "free"
    <3>1. row[a].id \in VMs /\ vm'[row[a].id] # "free"
      BY <1>1, <2>2, IdsBefore, NoneAssumption, ProcsAssumption DEF AllIssued, Known, NoRebirth
    <3> QED BY <1>1, <2>2, <3>1, StatusIds DEF AllIssued, NoRebirth, StatusOf
  <2> QED BY <2>1, <2>2, StatusStep
<1>6. FreshIsPrivate'
  <2> SUFFICES ASSUME NEW j \in Keys, pc'[j] = "record", NEW w \in VMs, w = row'[j].id
               PROVE  ~Known(w, j)'
    <3>1. \A j \in Keys : pc'[j] = "record" => row'[j].id \in VMs
      BY TypeStep, IdsAfter
    <3> QED BY <3>1 DEF FreshIsPrivate, Known, InTable, Memory
  <2>1. CASE ClaimGranted(j)
    BY <1>2, <2>1, GrantKnowledge, ProcsAssumption DEF AllIssued
  <2>2. CASE pc[j] = "record" /\ row'[j] = row[j]
    <3>1. ~Known(w, j) /\ vm[w] # "free"
      BY <1>3, <2>2 DEF FreshIsPrivate, AllIssued
    <3>2. CASE KnowledgeKept
      BY <2>2, <3>1, <3>2 DEF KnowledgeKept
    <3>3. ASSUME NEW k \in Keys, Record(k), k # j PROVE ~Known(w, j)'
      BY <2>2, <3>1, <3>3, RecordKnowledge
    <3>4. ASSUME NEW k \in Keys, ClaimGranted(k) PROVE ~Known(w, j)'
      BY <2>2, <3>1, <3>4, GrantKnowledge
    <3>5. ~Record(j)
      BY <2>2 DEF Record, Goto, TypeInv, TypeOK
    <3> QED BY <3>2, <3>3, <3>4, <3>5, Knowledge
  <2> QED BY <2>1, <2>2, RecordEntered
<1> QED BY <1>4, <1>5, <1>6 DEF AllIssued

\* What is lost stays lost: nobody learns its id again.
LEMMA LostStep ==
    ASSUME TypeInv, IdentityInv, LostForgotten, [Next]_vars
    PROVE  LostForgotten'
<1>0. NoRebirth /\ \A v \in VMs : Known(v, None) => vm[v] # "free"
  BY Rebirth DEF IdentityInv, AllIssued
<1>1. ASSUME NEW v \in VMs, v \in lost PROVE vm'[v] # "free" /\ ~Known(v, None)'
  <2>1. vm[v] # "free" /\ ~Known(v, None)
    BY <1>1 DEF LostForgotten
  <2>2. ASSUME NEW k \in Keys, ClaimGranted(k) PROVE ~Known(v, None)'
    BY <2>1, <2>2, GrantKnowledge
  <2>3. ASSUME NEW k \in Keys, Record(k) PROVE ~Known(v, None)'
    <3>1. None \in Procs \cup {None} /\ None # k
      BY NoneAssumption
    <3> QED BY <2>1, <2>3, <3>1, RecordKnowledge
  <2>4. CASE KnowledgeKept
    BY <1>0, <2>1, <2>4 DEF KnowledgeKept, NoRebirth
  <2> QED BY <1>0, <2>1, <2>2, <2>3, <2>4, Knowledge DEF NoRebirth
<1>2. ASSUME NEW v \in VMs, v \in lost', v \notin lost PROVE vm'[v] # "free" /\ ~Known(v, None)'
  <2>1. CASE Crash
    <3>1. vm[v] = "live" /\ vm' = vm /\ ~InTable(v, disk')
      BY <1>2, <2>1 DEF Crash, Live, InTable
    <3>2. ~InTable(v, Memory)' /\ ~InTable(v, buf)'
      BY <2>1 DEF Crash, InTable, Memory
    <3>3. \A a \in Procs : row'[a] = None /\ \A k \in Keys : snap'[a][k] = None
      BY <2>1 DEF Crash
    <3> QED BY <3>1, <3>2, <3>3 DEF Known, InTable
  <2>2. ASSUME NEW k \in Keys, ClaimAnswerLost(k) PROVE vm'[v] # "free" /\ ~Known(v, None)'
    <3>1. vm[v] = "free" /\ vm'[v] = "live"
      BY <1>2, <2>2 DEF ClaimAnswerLost, TypeInv, TypeOK
    <3>2. ~ClaimGranted(k) /\ ~Record(k)
      BY <1>2, <2>2 DEF ClaimAnswerLost, ClaimGranted, Record
    <3>3. KnowledgeKept
      BY <2>2, <3>2, CreateKnowledge DEF Create
    <3> QED BY <1>0, <3>1, <3>3 DEF KnowledgeKept
  <2>3. CASE UNCHANGED lost
    BY <1>2, <2>3
  <2> QED BY <2>1, <2>2, <2>3, OutwardStep DEF Outward, Inward, LeaseNotify,
             ClaimGranted, PushRunning, Ends
<1>3. lost' \subseteq VMs
  <2>1. TypeInv'
    BY TypeStep
  <2> QED BY <2>1 DEF TypeInv, TypeOK
<1> QED BY <1>1, <1>2, <1>3 DEF LostForgotten

\* The markers, the handlers' rows, the write in flight and the file agree.
TableInv == Markers /\ OwnRows /\ WriteInFlight /\ CredentialsDurable /\ DownIsEmpty

\* Copies and rows in hand name sandboxes that were issued.
LEMMA IssuedInHand ==
    ASSUME TypeInv, IdentityInv
    PROVE  /\ \A a \in Procs, k \in Keys : snap[a][k] # None =>
                 snap[a][k].id \in VMs /\ vm[snap[a][k].id] # "free"
           /\ \A a \in Procs : row[a] # None => row[a].id \in VMs /\ vm[row[a].id] # "free"
<1>1. /\ \A a \in Procs, k \in Keys : snap[a][k] # None => snap[a][k].id \in VMs
      /\ \A a \in Procs : row[a] # None => row[a].id \in VMs
  BY ClaimId DEF TypeInv, TypeOK
<1>2. \A v \in VMs : Known(v, None) => vm[v] # "free"
  BY DEF IdentityInv, AllIssued
<1> QED BY <1>1, <1>2, ProcsAssumption DEF Known

\* A row missing from a listing has no live sandbox, and none when the row is judged:
\* an id that has ended is never issued again.
LEMMA ListingStep ==
    ASSUME TypeInv, IdentityInv, TableInv, ListingSound, [Next]_vars
    PROVE  ListingSound'
<1>1. NoRebirth
  BY Rebirth
<1>2. /\ \A a \in Procs, k \in Keys : snap[a][k] # None =>
            snap[a][k].id \in VMs /\ vm[snap[a][k].id] # "free"
      /\ \A a \in Procs : row[a] # None => row[a].id \in VMs /\ vm[row[a].id] # "free"
  BY IssuedInHand
<1>3. \A k \in Keys : claims[k] # None => claims[k].id \in VMs
  BY ClaimId DEF TypeInv, TypeOK
<1>4. ASSUME NEW a \in Procs, NEW k \in Keys, pc'[a] \in Judging, snap'[a][k] # None,
             snap'[a][k].id \notin listed'[a]
      PROVE  vm'[snap'[a][k].id] # "live"
  <2>1. CASE JudgesOn(a)
    <3>1. snap'[a][k] = snap[a][k] /\ snap[a][k].id \notin listed[a] /\ pc[a] \in Judging
      BY <1>4, <2>1 DEF JudgesOn
    <3>2. vm[snap[a][k].id] # "live"
      BY <1>4, <3>1 DEF ListingSound, Judging
    <3> QED BY <1>1, <1>2, <1>4, <3>1, <3>2 DEF NoRebirth
  <2>2. CASE listed'[a] = Live /\ UNCHANGED vm
    <3>1. snap'[a][k].id \in VMs
      BY <1>2, <1>3, <1>4, CopyStep
    <3> QED BY <1>4, <2>2, <3>1 DEF Live
  <2> QED BY <1>4, <2>1, <2>2, JudgingStep
<1>5. ASSUME NEW k \in Keys, pc'[k] \in {"expiryApply", "withdraw"},
             pc'[k] = "expiryApply" => row'[k].id \notin listed'[k]
      PROVE  vm'[row'[k].id] # "live"
  <2>1. CASE ~Own(k)
    <3>1. LocalKept(k)
      BY <2>1, Elsewhere
    <3>2. row[k] # None /\ vm[row[k].id] # "live"
      BY <1>5, <3>1 DEF LocalKept, ListingSound, TypeInv, InHand, WorksOnRow
    <3> QED BY <1>1, <1>2, <3>1, <3>2 DEF LocalKept, NoRebirth
  <2>2. CASE New \/ Crash
    BY <1>5, <2>2 DEF New, Crash, TableInv, DownIsEmpty
  <2>3. CASE ExpiryList(k) /\ pc'[k] = "expiryApply"
    <3>1. row[k] # None /\ row'[k] = row[k] /\ listed'[k] = Live /\ vm' = vm
      BY <2>3 DEF ExpiryList, TypeInv, TypeOK, InHand, WorksOnRow
    <3> QED BY <1>2, <1>5, <2>3, <3>1 DEF Live
  <2>4. CASE DeleteRelease(k)
    <3>1. row[k] # None /\ row'[k] = row[k]
      BY <2>4 DEF DeleteRelease, TypeInv, InHand, WorksOnRow
    <3> QED BY <1>2, <2>4, <3>1 DEF DeleteRelease, ReleaseLands, TypeInv, TypeOK
  <2> QED BY <1>5, <2>1, <2>2, <2>3, <2>4, HandlerEnters DEF Own, Entered
<1>6. ASSUME pc'["lease"] = "leaseNotify" PROVE vm'[row'["lease"].id] # "live"
  <2>1. ASSUME NEW k \in Keys, LeaseConfirm(k) PROVE vm'[row'["lease"].id] # "live"
    <3>1. /\ snap["lease"][k] # None /\ row'["lease"] = snap["lease"][k] /\ vm' = vm
          /\ pc["lease"] = "leaseJudge" /\ snap["lease"][k].id \notin listed["lease"]
      BY <2>1 DEF LeaseConfirm, ReapedCandidate, TypeInv, TypeOK
    <3> QED BY <3>1 DEF ListingSound
  <2>2. CASE pc["lease"] = "leaseNotify" /\ row'["lease"] = row["lease"]
    BY <1>1, <1>2, <2>2 DEF ListingSound, NoRebirth, TypeInv, InHand
  <2> QED BY <1>6, <2>1, <2>2, NotifyEntered
<1> QED BY <1>4, <1>5, <1>6 DEF ListingSound, Judging

\* Only startup and the surroundings act while the process is down.
LEMMA DownActs ==
    ASSUME DownIsEmpty, ~up, [Next]_vars
    PROVE  New \/ UNCHANGED <<up, inside>>
<1>1. \A a \in Procs : pc[a] = "idle"
  BY DEF DownIsEmpty
<1>2. ~Crash
  BY DEF Crash
<1>3. ASSUME NEW a \in Procs, Verify(a) PROVE FALSE
  BY <1>1, <1>3 DEF Verify, VerifyDue, VerifySnapshot, VerifyNothing, VerifyList,
     VerifyListFails, VerifyApply
<1>4. ASSUME NEW k \in Keys, Create(k) PROVE FALSE
  BY <1>1, <1>4 DEF Create, CreatePod, UpdatePod, RetryCreate, UpdateDue, SyncDue,
     ExpiryDue, NotExpired, ExpiryList, ExpiryListFails, ExpirySettled, ExpiryRefresh,
     ExpiryDrop, AdoptNothing, Displace, Adopt, AdoptSave, AdoptSaved, StrandedFound,
     NoneStranded, StrandedRelease, ClaimGranted, ClaimFails, ClaimAnswerLost, Record,
     CommitBegin, CommitLands, CommitFails, Undo, PushRunning
<1>5. ASSUME NEW k \in Keys, Delete(k) \/ HandlerReleaseFails(k) PROVE FALSE
  BY <1>1, <1>5 DEF Delete, DeleteDue, ForgetPod, DeletePod, Authorize, PreserveClaim,
     DeleteRelease, DeleteWithdraw, DeleteSave, DeleteSaved, HandlerReleaseFails
<1>6. ~LeaseWatch
  BY <1>1 DEF LeaseWatch, LeaseSnapshot, LeaseList, LeaseListFails, LeaseNotify, LeaseEnd,
     LeaseRefresh, ReapedCandidate, LeaseConfirm, LeaseSuperseded
<1>7. ~OwnerRecheck
  BY <1>1 DEF OwnerRecheck, RecheckSnapshot, DrainSnapshot, DrainEnd,
     RecheckSaveBegin, RecheckSaveEnd, RecheckNotDue, OwnerVerdict, RecheckKeeps,
     RecheckReleases, WithdrawDone, WithdrawForRelease, WithdrawRefused, DrainRelease,
     DrainReleaseFails
<1>8. CASE Environment
  BY <1>8 DEF Environment, PodBound, PodTerminating, PodRemoved, PodAdopted,
     OwnerEnds, SandboxGone, Tick
<1>9. CASE UNCHANGED vars
  BY <1>9 DEF vars
<1> QED BY <1>2, <1>3, <1>4, <1>5, <1>6, <1>7, <1>8, <1>9 DEF Next, Handler

\* The process goes down by a crash alone.
LEMMA StaysUp ==
    ASSUME up, [Next]_vars
    PROVE  up' \/ Crash
<1>1. ASSUME NEW a \in Procs, Verify(a) PROVE up'
  BY <1>1 DEF Verify, VerifySnapshot, VerifyNothing, VerifyList, VerifyListFails,
     VerifyApply
<1>2. ASSUME NEW k \in Keys, Create(k) PROVE up'
  BY <1>2 DEF Create, CreatePod, UpdatePod, RetryCreate, ExpiryDue, NotExpired,
     ExpiryList, ExpiryListFails, ExpirySettled, ExpiryRefresh, ExpiryDrop, AdoptNothing,
     Displace, Adopt, AdoptSave, AdoptSaved, StrandedFound, NoneStranded, StrandedRelease,
     ClaimGranted, ClaimFails, ClaimAnswerLost, Record, CommitBegin, CommitLands, CommitFails,
     Undo, PushRunning
<1>3. ASSUME NEW k \in Keys, Delete(k) \/ HandlerReleaseFails(k) PROVE up'
  BY <1>3 DEF Delete, ForgetPod, DeletePod, Authorize, PreserveClaim, DeleteRelease,
     DeleteWithdraw, DeleteSave, DeleteSaved, HandlerReleaseFails
<1>4. CASE LeaseWatch
  BY <1>4 DEF LeaseWatch, LeaseSnapshot, LeaseList, LeaseListFails, LeaseNotify,
     LeaseEnd, LeaseRefresh, LeaseConfirm, LeaseSuperseded
<1>5. CASE OwnerRecheck
  BY <1>5 DEF OwnerRecheck, RecheckSnapshot, DrainSnapshot, DrainEnd, RecheckSaveBegin,
     RecheckSaveEnd, RecheckNotDue, RecheckKeeps, RecheckReleases, WithdrawDone,
     WithdrawForRelease, WithdrawRefused, DrainRelease, DrainReleaseFails
<1>6. CASE Environment
  BY <1>6 DEF Environment, PodBound, PodTerminating, PodRemoved, PodAdopted, OwnerEnds,
     SandboxGone, Tick
<1>7. CASE New \/ UNCHANGED vars
  BY <1>7 DEF New, vars
<1> QED BY <1>1, <1>2, <1>3, <1>4, <1>5, <1>6, <1>7 DEF Next, Handler

\* A process that is down stays empty until New returns.
LEMMA DownStep ==
    ASSUME DownIsEmpty, [Next]_vars
    PROVE  DownIsEmpty'
<1>1. CASE Crash
  BY <1>1 DEF Crash, DownIsEmpty
<1>2. CASE New
  BY <1>2 DEF New, DownIsEmpty
<1>3. CASE ~up /\ UNCHANGED <<up, inside>>
  BY <1>3 DEF DownIsEmpty
<1>4. CASE up'
  BY <1>4 DEF DownIsEmpty
<1> QED BY <1>1, <1>2, <1>3, <1>4, DownActs, StaysUp

\* A row stays with its id.
IdKept(j) == claims[j] # None /\ claims'[j] # None /\ claims'[j].id = claims[j].id

\* A key is tentative from Record on, and its row is then nobody else's.
LEMMA TentativeStep ==
    ASSUME TypeInv, TableInv, [Next]_vars, NEW j \in Keys, j \in tentative'
    PROVE  Record(j) \/ (j \in tentative /\ IdKept(j))
<1>1. j \in tentative => claims[j] # None
  BY DEF TableInv, Markers
<1>2. CASE New \/ Crash
  BY <1>2 DEF New, Crash, TableInv, DownIsEmpty
<1>3. CASE RowFades(j)
  BY <1>1, <1>3 DEF RowFades, IdKept, TableInv, Markers
<1>4. CASE UNCHANGED <<claims, tentative>>
  BY <1>1, <1>4 DEF IdKept
<1>5. CASE Create(j)
  <2>1. CASE ExpiryRefresh(j)
    BY <1>1, <2>1, RefreshFades DEF ExpiryRefresh, ExpirySettled, IdKept
  <2>2. CASE ExpiryDrop(j)
    BY <2>2 DEF ExpiryDrop, ExpirySettled, TableInv, OwnRows, OwnRow
  <2>3. CASE Displace(j) \/ Adopt(j)
    BY <2>3 DEF Displace, Adopt, Settled
  <2>4. CASE StrandedRelease(j) \/ Undo(j) \/ CommitLands(j)
    BY <2>4 DEF StrandedRelease, Undo, CommitLands, WithdrawClaim
  <2> QED BY <1>4, <1>5, <2>1, <2>2, <2>3, <2>4 DEF Create, CreatePod, UpdatePod,
             RetryCreate, ExpiryDue, NotExpired, ExpiryList, ExpiryListFails, AdoptNothing,
             AdoptSave, AdoptSaved, StrandedFound, NoneStranded, ClaimGranted, ClaimFails,
             ClaimAnswerLost, CommitBegin, CommitFails, PushRunning
<1>6. CASE Delete(j)
  <2>1. CASE PreserveClaim(j)
    BY <1>1, <2>1, PreserveFades DEF PreserveClaim, IdKept
  <2>2. CASE DeleteWithdraw(j)
    BY <2>2 DEF DeleteWithdraw, WithdrawClaim
  <2> QED BY <1>4, <1>6, <2>1, <2>2 DEF Delete, ForgetPod, DeletePod, Authorize,
             DeleteRelease, DeleteSave, DeleteSaved
<1>7. CASE HandlerReleaseFails(j)
  BY <1>4, <1>7 DEF HandlerReleaseFails
<1> QED BY <1>2, <1>3, <1>5, <1>6, <1>7, RowElsewhere DEF Handler

\* A key is quarantined by startup alone, and its row stays as long.
LEMMA QuarantineStep ==
    ASSUME TypeInv, TableInv, [Next]_vars, NEW j \in Keys, j \in quarantined'
    PROVE  New \/ (j \in quarantined /\ IdKept(j))
<1>1. j \in quarantined => claims[j] # None
  BY DEF TableInv, Markers
<1>2. CASE Crash
  BY <1>2 DEF Crash
<1>3. CASE RowFades(j)
  BY <1>1, <1>3 DEF RowFades, IdKept, TableInv, Markers
<1>4. CASE UNCHANGED <<claims, quarantined>>
  BY <1>1, <1>4 DEF IdKept
<1>5. CASE Create(j)
  <2>1. CASE ExpiryRefresh(j)
    BY <1>1, <2>1, RefreshFades DEF ExpiryRefresh, ExpirySettled, IdKept
  <2>2. CASE ExpiryDrop(j)
    BY <2>2 DEF ExpiryDrop, ExpirySettled, TableInv, OwnRows, OwnRow, PastVerify
  <2>3. CASE Displace(j) \/ Adopt(j)
    BY <2>3 DEF Displace, Adopt, Settled
  <2>4. CASE StrandedRelease(j) \/ Undo(j)
    BY <2>4 DEF StrandedRelease, Undo, WithdrawClaim
  <2>5. CASE Record(j)
    BY <2>5 DEF Record, TableInv, OwnRows, OwnRow, PastVerify
  <2> QED BY <1>4, <1>5, <2>1, <2>2, <2>3, <2>4, <2>5 DEF Create, CreatePod,
             UpdatePod, RetryCreate, ExpiryDue, NotExpired, ExpiryList, ExpiryListFails,
             AdoptNothing, AdoptSave, AdoptSaved, StrandedFound, NoneStranded, ClaimGranted,
             ClaimFails, ClaimAnswerLost, CommitBegin, CommitLands, CommitFails, PushRunning
<1>6. CASE Delete(j)
  <2>1. CASE PreserveClaim(j)
    BY <1>1, <2>1, PreserveFades DEF PreserveClaim, IdKept
  <2>2. CASE DeleteWithdraw(j)
    BY <2>2 DEF DeleteWithdraw, WithdrawClaim
  <2> QED BY <1>4, <1>6, <2>1, <2>2 DEF Delete, ForgetPod, DeletePod, Authorize,
             DeleteRelease, DeleteSave, DeleteSaved
<1>7. CASE HandlerReleaseFails(j)
  BY <1>4, <1>7 DEF HandlerReleaseFails
<1> QED BY <1>2, <1>3, <1>5, <1>6, <1>7, RowElsewhere DEF Handler
-----------------------------------------------------------------------------
\* Every step keeps what tentative and quarantined say of the rows.
LEMMA MarkersStep ==
    ASSUME TypeInv, IdentityInv, TableInv, [Next]_vars
    PROVE  Markers'
<1>1. ASSUME NEW j \in Keys, Record(j)
      PROVE  /\ claims'[j] = row[j] /\ row[j] # None /\ j \notin quarantined /\ UNCHANGED quarantined
             /\ UNCHANGED snap /\ \A a \in Procs : snap[a][j] # None => snap[a][j].id # row[j].id
  <2>1. claims \in Rows /\ row[j] # None
    BY <1>1 DEF Record, TypeInv, TypeOK, InHand, WorksOnRow
  <2>2. j \notin quarantined
    BY <1>1 DEF Record, TableInv, OwnRows, OwnRow, PastVerify
  <2>3. \A a \in Procs : snap[a][j] # None => snap[a][j].id # row[j].id
    BY <1>1 DEF Record, IdentityInv, FreshIsPrivate, Known
  <2> QED BY <1>1, <2>1, <2>2, <2>3 DEF Record
<1>2. CASE New
  <2>1. /\ tentative' = {} /\ \A a \in Procs, j \in Keys : snap'[a][j] = None
    BY <1>2 DEF New, TableInv, DownIsEmpty
  <2>2. \A j \in quarantined' : claims'[j] # None
    BY <1>2 DEF New, LoadedRows
  <2> QED BY <2>1, <2>2 DEF Markers
<1>3. CASE ~New
  <2>1. \A j \in tentative' \cup quarantined' : claims'[j] # None
    <3>1. tentative' \cup quarantined' \subseteq Keys
      BY TypeStep DEF TypeInv, TypeOK
    <3> QED BY <1>1, <1>3, <3>1, TentativeStep, QuarantineStep DEF IdKept
  <2>2. tentative' \cap quarantined' = {}
    <3>1. tentative' \subseteq Keys
      BY TypeStep DEF TypeInv, TypeOK
    <3> QED BY <1>1, <1>3, <3>1, TentativeStep, QuarantineStep DEF TableInv, Markers
  <2>3. ASSUME NEW a \in Procs, NEW j \in Keys,
               snap'[a][j] # None, Holds(j, snap[a][j].id)', j \in tentative'
        PROVE  FALSE
    <3>1. CASE Record(j)
      BY <1>1, <2>3, <3>1 DEF Holds
    <3>2. CASE j \in tentative /\ IdKept(j)
      BY <2>3, <3>2, CopyStep DEF Holds, IdKept, TableInv, Markers, Settled
    <3> QED BY <2>3, <3>1, <3>2, TentativeStep
  <2>4. ASSUME NEW j \in Keys, snap'["recheck"][j] # None, j \in quarantined' PROVE FALSE
    <3>1. "recheck" \in Procs
      OBVIOUS
    <3> QED BY <1>3, <2>4, <3>1, CopyStep, QuarantineStep DEF TableInv, Markers, Settled
  <2> QED BY <2>1, <2>2, <2>3, <2>4 DEF Markers, Holds
<1> QED BY <1>2, <1>3

\* Every step keeps what a handler assumes of the row at its own key, the steps of
\* the loops included.
LEMMA OwnRowsStep ==
    ASSUME TypeInv, IdentityInv, TableInv, [Next]_vars
    PROVE  OwnRows'
<1> SUFFICES ASSUME NEW j \in Keys PROVE OwnRow(j)'
  BY DEF OwnRows
<1>o. OwnRow(j)
  BY DEF TableInv, OwnRows
<1>t. /\ pc \in [Procs -> WorkerPCs \cup LoopPCs] /\ row \in [Procs -> Claim \cup {None}]
      /\ snap \in [Procs -> Rows] /\ claims \in Rows /\ j \in Procs
  BY DEF TypeInv, TypeOK
<1>q. j \in quarantined => claims[j] # None
  BY DEF TableInv, Markers
<1>0. CASE pc'[j] \in {"idle", "done", "verify", "deleteSave", "deleteSaving"}
  BY <1>0 DEF OwnRow, WorksOnRow, PastVerify
<1>1. CASE ~Own(j)
  <2>1. LocalKept(j) /\ RowFades(j)
    BY <1>1, Elsewhere, RowElsewhere DEF Own
  <2>2. j \in quarantined' => IdKept(j)
    BY <1>1, QuarantineStep DEF Own
  <2>3. j \in tentative => j \in tentative' /\ IdKept(j)
    BY <1>1, <2>1, TentativeStep DEF Own, Handler, Create, RowFades
  <2> QED BY <1>o, <2>1, <2>2, <2>3 DEF OwnRow, LocalKept, RowFades, IdKept, Holds
<1>2. CASE New \/ Crash
  BY <1>0, <1>2 DEF New, Crash, TableInv, DownIsEmpty
<1>3. CASE Verify(j)
  <2>1. CASE VerifySnapshot(j)
    BY <1>t, <1>o, <1>q, <2>1 DEF VerifySnapshot, Goto, QuarantinedRows, OwnRow, Holds,
       WorksOnRow, PastVerify
  <2>2. CASE VerifyNothing(j)
    <3>1. j \notin quarantined
      BY <1>q, <2>2 DEF VerifyNothing, QuarantinedRows
    <3> QED BY <1>t, <2>2, <3>1 DEF VerifyNothing, Goto, AfterVerify, OwnRow, WorksOnRow
  <2>3. CASE VerifyList(j)
    BY <1>t, <1>o, <2>3 DEF VerifyList, Goto, OwnRow, Holds, WorksOnRow, PastVerify
  <2>4. CASE VerifyListFails(j)
    BY <1>t, <1>0, <2>4 DEF VerifyListFails, Return, Goto
  <2>5. CASE VerifyApply(j)
    <3>1. j \notin quarantined'
      BY <1>o, <2>5 DEF VerifyApply, Goto, AfterVerify, Judged, OwnRow
    <3>2. pc'[j] = "expiry"
      BY <1>t, <2>5 DEF VerifyApply, Goto, AfterVerify
    <3> QED BY <3>1, <3>2 DEF OwnRow, WorksOnRow
  <2> QED BY <1>3, <2>1, <2>2, <2>3, <2>4, <2>5 DEF Verify
<1>4. CASE Create(j)
  <2> USE <1>o DEF OwnRow, Holds, WorksOnRow, PastVerify
  <2>1. ASSUME NEW p \in Pods, CreatePod(j, p) \/ RetryCreate(j, p) PROVE OwnRow(j)'
    BY <1>t, <2>1 DEF CreatePod, RetryCreate, EnterCreate, Goto
  <2>2. ASSUME NEW p \in Pods, UpdatePod(j, p) PROVE OwnRow(j)'
    BY <2>2 DEF UpdatePod
  <2>3. CASE ExpiryRefresh(j)
    BY <1>t, <2>3, RefreshFades DEF ExpiryRefresh, ExpirySettled, Goto
  <2>4. CASE ExpiryDue(j)
    BY <1>t, <2>4 DEF ExpiryDue, Goto, PastDeadline, Settled
  <2>5. CASE NotExpired(j)
    BY <1>t, <2>5 DEF NotExpired, Goto
  <2>6. CASE ExpiryList(j)
    BY <1>t, <2>6 DEF ExpiryList, Goto
  <2>7. CASE ExpiryDrop(j)
    BY <1>t, <2>7 DEF ExpiryDrop, ExpirySettled, Goto, DropClaim
  <2>8. CASE AdoptNothing(j)
    BY <1>t, <2>8 DEF AdoptNothing, Goto, Settled
  <2>9. CASE Displace(j)
    BY <1>t, <2>9 DEF Displace, Goto
  <2>10. CASE Adopt(j)
    BY <1>t, <2>10 DEF Adopt, Goto
  <2>11. CASE AdoptSave(j)
    BY <1>t, <2>11 DEF AdoptSave, Goto
  <2>12. CASE AdoptSaved(j)
    BY <1>t, <2>12 DEF AdoptSaved, Goto
  <2>13. CASE StrandedFound(j)
    BY <1>t, <2>13 DEF StrandedFound, Goto, Stranded
  <2>14. CASE NoneStranded(j)
    BY <1>t, <2>14 DEF NoneStranded, Goto, Stranded
  <2>15. CASE StrandedRelease(j)
    BY <1>t, <2>15 DEF StrandedRelease, Goto, WithdrawClaim, DropClaim
  <2>16. CASE ClaimGranted(j)
    BY <1>t, <2>16 DEF ClaimGranted, Goto
  <2>17. CASE Record(j)
    BY <1>t, <2>17 DEF Record, Goto
  <2>18. CASE CommitBegin(j)
    BY <1>t, <2>18 DEF CommitBegin, Goto
  <2>19. CASE CommitLands(j)
    BY <1>t, <2>19 DEF CommitLands, Goto
  <2>20. CASE CommitFails(j)
    BY <1>t, <2>20 DEF CommitFails, Goto
  <2>21. CASE ExpiryListFails(j) \/ ClaimFails(j) \/ ClaimAnswerLost(j) \/ Undo(j) \/ PushRunning(j)
    BY <1>t, <1>0, <2>21 DEF ExpiryListFails, ClaimFails, ClaimAnswerLost, Undo,
       PushRunning, Return, Goto
  <2> QED BY <1>4, <2>1, <2>2, <2>3,
     <2>4, <2>5, <2>6, <2>7, <2>8, <2>9, <2>10, <2>11, <2>12, <2>13, <2>14, <2>15, <2>16, <2>17,
     <2>18, <2>19, <2>20, <2>21 DEF Create
<1>5. CASE Delete(j)
  <2> USE <1>o DEF OwnRow, Holds, WorksOnRow, PastVerify
  <2>1. ASSUME NEW pod \in PodObject, ForgetPod(j, pod) PROVE OwnRow(j)'
    BY <2>1 DEF ForgetPod
  <2>2. ASSUME NEW pod \in PodObject, DeletePod(j, pod) PROVE OwnRow(j)'
    BY <1>t, <2>2 DEF DeletePod, Goto
  <2>3. CASE Authorize(j)
    <3>1. /\ pc[j] = "authorize" /\ UNCHANGED <<claims, row>>
          /\ pc'[j] = "release" \/ pc'[j] = "preserve"
      BY <1>t, <2>3 DEF Authorize, Goto
    <3> QED BY <3>1
  <2>4. CASE DeleteRelease(j)
    BY <1>t, <2>4 DEF DeleteRelease, Goto
  <2>5. CASE PreserveClaim(j) \/ DeleteWithdraw(j) \/ DeleteSave(j) \/ DeleteSaved(j)
    BY <1>t, <1>0, <2>5 DEF PreserveClaim, DeleteWithdraw, DeleteSave, DeleteSaved, Return, Goto
  <2> QED BY <1>5, <2>1, <2>2, <2>3, <2>4, <2>5 DEF Delete
<1>6. CASE HandlerReleaseFails(j)
  BY <1>t, <1>0, <1>6 DEF HandlerReleaseFails, Return, Goto
<1> QED BY <1>1, <1>2, <1>3, <1>4, <1>5, <1>6 DEF Own, Handler

\* A row comes to count by a commit that landed, or at startup.
LEMMA SettledRowStep ==
    ASSUME TypeInv, TableInv, [Next]_vars, NEW j \in Keys, j \notin tentative', claims'[j] # None
    PROVE  \/ New
           \/ CommitLands(j) /\ UNCHANGED claims
           \/ j \notin tentative /\ IdKept(j)
<1>o. OwnRow(j) /\ claims \in Rows
  BY DEF TableInv, OwnRows, TypeInv, TypeOK
<1>1. CASE Crash
  BY <1>1 DEF Crash
<1>2. CASE RowFades(j)
  BY <1>2 DEF RowFades, IdKept
<1>3. CASE UNCHANGED <<claims, tentative>>
  BY <1>3 DEF IdKept
<1>4. CASE Create(j)
  <2>1. CASE ExpiryRefresh(j)
    BY <2>1, RefreshFades DEF ExpiryRefresh, ExpirySettled, IdKept
  <2>2. CASE ExpiryDrop(j)
    BY <1>o, <2>2 DEF ExpiryDrop, ExpirySettled, DropClaim, IdKept
  <2>3. CASE Displace(j)
    BY <1>o, <2>3 DEF Displace
  <2>4. CASE Adopt(j)
    <3>1. claims[j] \in Claim /\ claims'[j] = Adopted(claims[j], arg[j])
      BY <1>o, <2>4 DEF Adopt
    <3> QED BY <2>4, <3>1, ClaimKeepsId DEF Adopt, Settled, IdKept
  <2>5. CASE StrandedRelease(j) \/ Undo(j)
    BY <1>o, <2>5 DEF StrandedRelease, Undo, WithdrawClaim, DropClaim, Holds, OwnRow,
       WorksOnRow
  <2>6. CASE Record(j)
    BY <2>6 DEF Record
  <2>7. CASE CommitLands(j)
    BY <2>7 DEF CommitLands
  <2> QED BY <1>3, <1>4, <2>1, <2>2, <2>3, <2>4, <2>5, <2>6, <2>7 DEF Create,
             CreatePod, UpdatePod, RetryCreate, ExpiryDue, NotExpired, ExpiryList,
             ExpiryListFails, AdoptNothing, AdoptSave, AdoptSaved, StrandedFound, NoneStranded,
             ClaimGranted, ClaimFails, ClaimAnswerLost, CommitBegin, CommitFails, PushRunning
<1>5. CASE Delete(j)
  <2>1. CASE PreserveClaim(j)
    BY <2>1, PreserveFades DEF PreserveClaim, IdKept
  <2>2. CASE DeleteWithdraw(j)
    BY <1>o, <2>2 DEF DeleteWithdraw, WithdrawClaim, DropClaim, Holds, OwnRow, WorksOnRow
  <2> QED BY <1>3, <1>5, <2>1, <2>2 DEF Delete, ForgetPod, DeletePod, Authorize,
             DeleteRelease, DeleteSave, DeleteSaved
<1>6. CASE HandlerReleaseFails(j)
  BY <1>3, <1>6 DEF HandlerReleaseFails
<1> QED BY <1>1, <1>2, <1>4, <1>5, <1>6, RowElsewhere DEF Handler

\* So does a credential; one that is queued counted before.
LEMMA Settling ==
    ASSUME TypeInv, TableInv, [Next]_vars, NEW v \in VMs, InSettledMemory(v)'
    PROVE  \/ New
           \/ \E k \in Keys : CommitLands(k) /\ Holds(k, v)
           \/ InSettledMemory(v)
<1>1. CASE v \in releasing'
  <2>1. ASSUME NEW k \in Keys, Holds(k, v), Displace(k) \/ WithdrawForRelease(k)
        PROVE  k \notin tentative
    <3>1. CASE Displace(k)
      BY <3>1 DEF Displace, Settled
    <3>2. CASE WithdrawForRelease(k)
      <4>1. snap["recheck"][k] # None /\ Holds(k, snap["recheck"][k].id) /\ "recheck" \in Procs
        BY <3>2 DEF WithdrawForRelease, WithdrawDone, Withdrawable, TypeInv, InHand
      <4> QED BY <4>1 DEF TableInv, Markers
    <3> QED BY <2>1, <3>1, <3>2
  <2> QED BY <1>1, <2>1, QueueStep DEF Queued, InSettledMemory
<1>2. ASSUME NEW k \in Keys, k \notin tentative', Holds(k, v)'
      PROVE  New \/ (CommitLands(k) /\ Holds(k, v)) \/ InSettledMemory(v)
  BY <1>2, SettledRowStep DEF Holds, IdKept, InSettledMemory
<1> QED BY <1>1, <1>2 DEF InSettledMemory

\* A commit that lands puts its own row into the file.
LEMMA CommitLanded ==
    ASSUME TypeInv, TableInv, NEW k \in Keys, CommitLands(k), NEW v \in VMs, Holds(k, v)
    PROVE  InTable(v, buf)
BY DEF CommitLands, TableInv, OwnRows, OwnRow, WorksOnRow, WriteInFlight, Holds,
   InTable

\* Every step keeps the credentials that count on disk: a row starts to count only
\* with its own rename, and a rename replaces the file by a table with all of them.
LEMMA CredentialsStep ==
    ASSUME TypeInv, TableInv, [Next]_vars
    PROVE  CredentialsDurable'
<1>1. \A v \in VMs : InSettledMemory(v) => InTable(v, disk) /\ (saveMu # None => InTable(v, buf))
  BY DEF TableInv, CredentialsDurable, WriteInFlight, InSettledMemory, Holds
<1>2. /\ \A k \in Keys : claims'[k] # None => claims'[k].id \in VMs
      /\ releasing' \subseteq VMs
  BY TypeStep, IdsAfter
<1>3. CASE New
  BY <1>3 DEF New, CredentialsDurable, InTable
<1>4. ASSUME ~New, NEW v \in VMs, InSettledMemory(v)' PROVE InTable(v, disk)'
  <2>1. ASSUME NEW k \in Keys, CommitLands(k), Holds(k, v) PROVE InTable(v, disk)'
    <3>1. disk' = buf
      BY <2>1 DEF CommitLands, EndWrite
    <3> QED BY <2>1, <3>1, CommitLanded DEF InTable
  <2>2. CASE InSettledMemory(v)
    <3>1. UNCHANGED disk \/ (saveMu # None /\ disk' = buf)
      BY <1>4, WriterSteps DEF FileStep
    <3> QED BY <1>1, <2>2, <3>1 DEF InTable
  <2> QED BY <1>4, <2>1, <2>2, Settling
<1>5. CASE ~New
  BY <1>2, <1>4, <1>5 DEF CredentialsDurable, InSettledMemory, Holds
<1> QED BY <1>3, <1>5

\* Every step keeps the bytes in flight complete: a row that starts to count while
\* another goroutine writes would have to be in them, and saveMu excludes it.
LEMMA WriteStep ==
    ASSUME TypeInv, TableInv, [Next]_vars
    PROVE  WriteInFlight'
<1>1. \A v \in VMs : InSettledMemory(v) /\ saveMu # None => InTable(v, buf)
  BY DEF TableInv, WriteInFlight, InSettledMemory, Holds
<1>2. /\ \A k \in Keys : claims'[k] # None => claims'[k].id \in VMs
      /\ releasing' \subseteq VMs
  BY TypeStep, IdsAfter
<1>3. ASSUME NEW j \in Keys, pc'[j] = "committing"
      PROVE  saveMu' = j /\ buf'.claims[j] # None /\ buf'.claims[j].id = row'[j].id
  <2>1. CASE CommitBegin(j)
    <3>1. claims[j] # None /\ claims[j].id = row[j].id
      BY <2>1 DEF CommitBegin, TableInv, Markers, OwnRows, OwnRow, WorksOnRow
    <3> QED BY <2>1, <3>1 DEF CommitBegin, BeginWrite, Durable
  <2>2. CASE ~Own(j)
    <3>1. pc[j] = "committing" /\ row'[j] = row[j]
      BY <1>3, <2>2, Elsewhere DEF LocalKept
    <3>2. saveMu = j /\ buf.claims[j] # None /\ buf.claims[j].id = row[j].id /\ j # None
      BY <3>1, NoneAssumption DEF TableInv, WriteInFlight
    <3>3. saveMu' = j
      BY <2>2, <3>2, LockStep
    <3>4. buf' = buf
      BY <3>2, <3>3, WriterSteps DEF BufStep, WriteTaken
    <3> QED BY <3>1, <3>2, <3>3, <3>4
  <2>3. CASE New \/ Crash
    BY <1>3, <2>3 DEF New, Crash, TableInv, DownIsEmpty
  <2> QED BY <1>3, <2>1, <2>2, <2>3, CommitEntered DEF Own
<1>4. ASSUME saveMu' # None, NEW v \in VMs, InSettledMemory(v)' PROVE InTable(v, buf)'
  <2>1. CASE saveMu' = saveMu /\ buf' = buf
    <3>1. ~New
      BY <1>4, <2>1 DEF New, TableInv, DownIsEmpty
    <3>2. \A k \in Keys : ~CommitLands(k)
      BY <1>4 DEF CommitLands, EndWrite
    <3> QED BY <1>1, <1>4, <2>1, <3>1, <3>2, Settling DEF InTable
  <2>2. ASSUME NEW c \in Keys \cup {None}, WriteTaken(c) PROVE InTable(v, buf)'
    BY <1>4, <2>2 DEF WriteTaken, Durable, InSettledMemory, Holds, InTable
  <2> QED BY <1>4, <2>1, <2>2, WriterSteps DEF BufStep
<1> QED BY <1>2, <1>3, <1>4 DEF WriteInFlight, InSettledMemory, Holds

\* The invariant holds before the first start.
LEMMA InitTable == Init => TableInv
<1> SUFFICES ASSUME Init PROVE TableInv
  OBVIOUS
<1>1. Markers
  BY DEF Init, Markers, Holds
<1>2. OwnRows
  BY DEF Init, OwnRows, OwnRow, WorksOnRow, PastVerify
<1>3. WriteInFlight
  BY DEF Init, WriteInFlight
<1>4. CredentialsDurable /\ DownIsEmpty
  BY DEF Init, CredentialsDurable, DownIsEmpty
<1> QED BY <1>1, <1>2, <1>3, <1>4 DEF TableInv

\* Every step keeps the invariant.
LEMMA TableStep ==
    ASSUME TypeInv, IdentityInv, TableInv, [Next]_vars
    PROVE  TableInv'
BY MarkersStep, OwnRowsStep, WriteStep, CredentialsStep, DownStep DEF TableInv

\* Release credentials survive restarts: whatever crashes and failed writes happen,
\* every row that is not tentative and every queued release is in the state file
\* (commitClaim, persist and write, provider.go).
THEOREM Durability == Spec => []CredentialsDurable
<1> DEFINE Inv == TypeInv /\ IdentityInv /\ TableInv
<1>1. Init => Inv
  BY InitType, InitIdentity, InitTable
<1>2. Inv /\ [Next]_vars => Inv'
  BY TypeStep, IdentityStep, TableStep
<1>3. Inv => CredentialsDurable
  BY DEF TableInv
<1> QED BY <1>1, <1>2, <1>3, PTL DEF Spec
-----------------------------------------------------------------------------
(* No path drops the credential of a sandbox that lives. *)

\* A row of a live sandbox stays at its key, settled if it was, or joins the queue.
RowStays(j, v) ==
    v \in releasing' \/ (Holds(j, v)' /\ (j \in tentative' => j \in tentative))

\* CreatePod and UpdatePod keep the row of a sandbox that lives.
LEMMA CreateKeepsRow ==
    ASSUME TypeInv, TableInv, ListingSound, NEW j \in Keys, NEW v \in VMs, Create(j),
           Holds(j, v), vm'[v] = "live"
    PROVE  RowStays(j, v)
<1>o. OwnRow(j) /\ claims \in Rows /\ vm \in [VMs -> {"free", "live", "released", "gone"}]
  BY DEF TableInv, OwnRows, TypeInv, TypeOK
<1>0. CASE UNCHANGED <<claims, tentative>>
  BY <1>0 DEF RowStays, Holds
<1>1. CASE ExpiryRefresh(j)
  BY <1>1, RefreshFades DEF ExpiryRefresh, ExpirySettled, RowStays, Holds
<1>2. CASE ExpiryDrop(j)
  <2>1. row[j].id = v /\ vm[v] # "live" /\ vm' = vm
    BY <1>o, <1>2 DEF ExpiryDrop, ExpirySettled, ListingSound, OwnRow, WorksOnRow, Holds
  <2> QED BY <2>1
<1>3. CASE Displace(j)
  BY <1>3 DEF Displace, RowStays, Holds
<1>4. CASE Adopt(j)
  <2>1. claims[j] \in Claim /\ claims'[j] = Adopted(claims[j], arg[j])
    BY <1>o, <1>4 DEF Adopt
  <2>2. arg[j] \in PodObject
    BY <1>4 DEF Adopt, TypeInv, TypeOK, InHand, ServesPod, PastVerify
  <2>3. Adopted(claims[j], arg[j]) \in Claim /\ Adopted(claims[j], arg[j]).id = claims[j].id
    BY <2>1, <2>2, ClaimKeepsId, ClaimExcept
  <2> QED BY <1>4, <2>1, <2>3, NoneAssumption DEF Adopt, RowStays, Holds
<1>5. CASE StrandedRelease(j) \/ Undo(j)
  <2>1. row[j].id = v /\ ReleaseLands(row[j].id)
    BY <1>o, <1>5 DEF StrandedRelease, Undo, OwnRow, WorksOnRow, Holds
  <2> QED BY <1>o, <2>1 DEF ReleaseLands
<1>6. CASE Record(j)
  BY <1>o, <1>6 DEF Record, OwnRow, Holds
<1>7. CASE CommitLands(j)
  BY <1>7 DEF CommitLands, RowStays, Holds
<1> QED BY <1>0, <1>1, <1>2, <1>3, <1>4, <1>5, <1>6, <1>7 DEF Create, CreatePod,
           UpdatePod, RetryCreate, ExpiryDue, NotExpired, ExpiryList, ExpiryListFails,
           AdoptNothing, AdoptSave, AdoptSaved, StrandedFound, NoneStranded, ClaimGranted,
           ClaimFails, ClaimAnswerLost, CommitBegin, CommitFails, PushRunning

\* So does DeletePod.
LEMMA DeleteKeepsRow ==
    ASSUME TypeInv, TableInv, ListingSound, NEW j \in Keys, NEW v \in VMs,
           Delete(j) \/ HandlerReleaseFails(j), Holds(j, v), vm'[v] = "live"
    PROVE  RowStays(j, v)
<1>o. OwnRow(j)
  BY DEF TableInv, OwnRows
<1>0. CASE UNCHANGED <<claims, tentative>>
  BY <1>0 DEF RowStays, Holds
<1>1. CASE PreserveClaim(j)
  BY <1>1, PreserveFades DEF PreserveClaim, RowStays, Holds
<1>2. CASE DeleteWithdraw(j)
  <2>1. row[j].id = v /\ vm[v] # "live" /\ vm' = vm
    BY <1>o, <1>2 DEF DeleteWithdraw, ListingSound, OwnRow, WorksOnRow, Holds
  <2> QED BY <2>1
<1> QED BY <1>0, <1>1, <1>2 DEF Delete, ForgetPod, DeletePod, Authorize,
           DeleteRelease, DeleteSave, DeleteSaved, HandlerReleaseFails

\* So do the verification, the lease watch and the re-check.
LEMMA LoopsKeepRow ==
    ASSUME TypeInv, ListingSound, NEW j \in Keys, NEW v \in VMs, Background,
           Holds(j, v), vm'[v] = "live"
    PROVE  RowStays(j, v)
<1>c. claims \in Rows
  BY DEF TypeInv, TypeOK
<1>0. CASE UNCHANGED <<claims, tentative>>
  BY <1>0 DEF RowStays, Holds
<1>1. ASSUME NEW a \in Procs, Verify(a) PROVE RowStays(j, v)
  <2>1. CASE VerifyApply(a)
    <3>1. vm' = vm /\ tentative' = tentative /\ claims[j] \in Claim /\ claims[j].id = v
      BY <1>c, <2>1 DEF VerifyApply, Holds
    <3>2. j \in Judged(a) => v \in listed[a]
      BY <2>1, <3>1 DEF VerifyApply, Judged, Holds, ListingSound
    <3>3. claims'[j] = claims[j] \/ \E d \in Deadlines : claims'[j] = Vouched(claims[j], d)
      BY <2>1, <3>1, <3>2 DEF VerifyApply
    <3>4. \A d \in Deadlines : Vouched(claims[j], d) \in Claim /\ Vouched(claims[j], d).id = v
      BY <3>1, ClaimKeepsId, ClaimExcept
    <3> QED BY <3>1, <3>3, <3>4, NoneAssumption DEF RowStays, Holds
  <2> QED BY <1>0, <1>1, <2>1 DEF Verify, VerifySnapshot, VerifyNothing, VerifyList,
             VerifyListFails
<1>2. CASE LeaseWatch
  <2>1. ASSUME NEW k \in Keys, LeaseRefresh(k) PROVE RowStays(j, v)
    BY <2>1, RefreshFades DEF LeaseRefresh, RowStays, Holds
  <2> QED BY <1>0, <1>2, <2>1 DEF LeaseWatch, LeaseSnapshot, LeaseList,
             LeaseListFails, LeaseNotify, LeaseEnd, LeaseConfirm, LeaseSuperseded
<1>3. CASE OwnerRecheck
  <2>1. ASSUME NEW k \in Keys, WithdrawForRelease(k) PROVE RowStays(j, v)
    BY <1>c, <2>1 DEF WithdrawForRelease, WithdrawDone, Withdrawable, RowStays, Holds
  <2> QED BY <1>0, <1>3, <2>1 DEF OwnerRecheck, RecheckSnapshot, DrainSnapshot,
             DrainEnd, RecheckSaveBegin, RecheckSaveEnd, RecheckNotDue, RecheckKeeps,
             RecheckReleases, WithdrawDone, WithdrawRefused, DrainRelease, DrainReleaseFails
<1>4. CASE Environment \/ UNCHANGED vars
  BY <1>0, <1>4 DEF Environment, PodBound, PodTerminating, PodRemoved, PodAdopted,
     OwnerEnds, SandboxGone, Tick, vars
<1> QED BY <1>1, <1>2, <1>3, <1>4 DEF Background

\* A row whose sandbox stays live is not dropped: it stays at its key, or joins the queue.
LEMMA RowKeepsLive ==
    ASSUME TypeInv, TableInv, ListingSound, [Next]_vars, ~New, ~Crash,
           NEW j \in Keys, NEW v \in VMs, Holds(j, v), vm'[v] = "live"
    PROVE  RowStays(j, v)
<1>1. ASSUME NEW k \in Keys, k # j, Handler(k) PROVE RowStays(j, v)
  <2>1. RowKept(j)
    BY <1>1, CreateElsewhere, DeleteElsewhere DEF Handler
  <2> QED BY <2>1 DEF RowKept, RowStays, Holds
<1>2. CASE Handler(j)
  BY <1>2, CreateKeepsRow, DeleteKeepsRow DEF Handler
<1>3. CASE Background
  BY <1>3, LoopsKeepRow
<1> QED BY <1>1, <1>2, <1>3 DEF Next, Background

\* The credential of a sandbox that stays live stays in memory, settled if it was.
LEMMA MemoryKeepsLive ==
    ASSUME TypeInv, TableInv, ListingSound, [Next]_vars, ~New, ~Crash,
           NEW v \in VMs, vm'[v] = "live"
    PROVE  /\ InTable(v, Memory) => InTable(v, Memory)'
           /\ InSettledMemory(v) => InSettledMemory(v)'
<1>1. v \in releasing => v \in releasing'
  BY QueueKeepsLive
<1>2. \A k \in Keys : Holds(k, v) => RowStays(k, v)
  BY RowKeepsLive
<1>3. InTable(v, Memory) <=> v \in releasing \/ \E k \in Keys : Holds(k, v)
  BY DEF InTable, Memory, Holds
<1>4. InTable(v, Memory)' <=> v \in releasing' \/ \E k \in Keys : Holds(k, v)'
  BY DEF InTable, Memory, Holds
<1> QED BY <1>1, <1>2, <1>3, <1>4 DEF RowStays, InSettledMemory

\* A live sandbox that is known was live before.
LEMMA KnownWasLive ==
    ASSUME TypeInv, IdentityInv, [Next]_vars, NEW v \in VMs, Known(v, None), vm'[v] = "live"
    PROVE  vm[v] = "live"
BY Rebirth DEF NoRebirth, IdentityInv, AllIssued

\* Startup loses no live sandbox of the file.
LEMMA LoadsLive ==
    ASSUME TypeInv, New, NEW v \in VMs, vm[v] = "live", InTable(v, disk)
    PROVE  InTable(v, disk)' /\ InTable(v, Memory)'
<1>1. disk' = [claims |-> claims', releasing |-> releasing'] /\ releasing' = disk.releasing
  BY DEF New
<1>2. ASSUME NEW k \in Keys, disk.claims[k] # None, disk.claims[k].id = v
      PROVE  claims'[k] # None /\ claims'[k].id = v
  <2>1. PICK canList \in BOOLEAN, d \in [Keys -> Deadlines] : claims' = LoadedRows(canList, d)
    BY DEF New
  <2>2. claims'[k] = disk.claims[k] \/ claims'[k] = Vouched(disk.claims[k], d[k])
    BY <1>2, <2>1 DEF LoadedRows, Live
  <2>3. disk.claims[k] \in Claim /\ d[k] \in Deadlines
    BY <1>2 DEF TypeInv, TypeOK
  <2> QED BY <1>2, <2>2, <2>3, ClaimKeepsId, ClaimExcept, NoneAssumption
<1>3. v \in releasing' \/ \E k \in Keys : claims'[k] # None /\ claims'[k].id = v
  BY <1>1, <1>2 DEF InTable
<1> QED BY <1>1, <1>3 DEF InTable, Memory

\* The credential of a sandbox that stays live stays in the file.
LEMMA DiskKeepsLive ==
    ASSUME TypeInv, IdentityInv, LiveKept, [Next]_vars, NEW v \in VMs,
           InTable(v, disk), vm'[v] = "live"
    PROVE  vm[v] = "live" /\ InTable(v, disk)'
<1>1. vm[v] = "live"
  BY KnownWasLive DEF Known
<1>2. CASE UNCHANGED disk
  BY <1>1, <1>2 DEF InTable
<1>3. CASE New
  BY <1>1, <1>3, LoadsLive
<1>4. CASE saveMu # None /\ disk' = buf
  BY <1>1, <1>4 DEF LiveKept, Live, InTable
<1> QED BY <1>2, <1>3, <1>4, WriterSteps DEF FileStep

\* A running provider still holds every live sandbox it has not lost.
LEMMA ForgottenStep ==
    ASSUME TypeInv, IdentityInv, TableInv, ListingSound, LiveKept, NoLiveSandboxForgotten,
    [Next]_vars
    PROVE  NoLiveSandboxForgotten'
<1> SUFFICES ASSUME up', NEW v \in VMs, vm'[v] = "live", v \notin lost'
             PROVE  InTable(v, Memory)' \/ \E k \in Keys : pc'[k] = "record" /\ row'[k].id = v
  BY DEF NoLiveSandboxForgotten, Live
<1>1. v \notin lost /\ ~Crash
  <2>1. lost \subseteq lost'
    BY OutwardStep DEF Outward, Inward, Crash, LeaseNotify, ClaimGranted,
       ClaimAnswerLost, PushRunning, Ends
  <2> QED BY <2>1 DEF Crash
<1>2. CASE New
  <2>1. vm[v] = "live" /\ InTable(v, disk)
    BY <1>1, <1>2 DEF New, LiveKept, Live
  <2> QED BY <1>2, <2>1, LoadsLive
<1>3. CASE vm[v] # "live"
  <2>1. PICK k \in Keys : ClaimGranted(k) /\ row'[k].id = v
    BY <1>3, Granting
  <2> QED BY <2>1 DEF ClaimGranted, Goto, TypeInv, TypeOK
<1>4. CASE ~New /\ vm[v] = "live"
  <2>1. up
    BY <1>4, DownActs DEF TableInv
  <2>2. CASE InTable(v, Memory)
    BY <1>1, <1>4, <2>2, MemoryKeepsLive
  <2>3. ASSUME NEW k \in Keys, pc[k] = "record", row[k].id = v
        PROVE  InTable(v, Memory)' \/ (pc'[k] = "record" /\ row'[k].id = v)
    <3>1. CASE Record(k)
      <4>1. claims'[k] = row[k] /\ row[k] # None
        BY <2>3, <3>1 DEF Record, TypeInv, TypeOK, InHand, WorksOnRow
      <4> QED BY <2>3, <4>1 DEF InTable, Memory
    <3>2. CASE ~Own(k)
      BY <2>3, <3>2, Elsewhere DEF LocalKept
    <3> QED BY <1>1, <1>4, <2>3, <3>1, <3>2, HandlerLeaves DEF Own
  <2> QED BY <1>1, <1>4, <2>1, <2>2, <2>3 DEF NoLiveSandboxForgotten, Live
<1> QED BY <1>2, <1>3, <1>4

\* While a handler is inside its commit, the write is its own.
LEMMA CommitterWrites ==
    ASSUME TypeInv, TableInv, [Next]_vars, ~New, ~Crash, NEW k \in Keys, pc[k] = "committing"
    PROVE  \/ CommitLands(k)
           \/ CommitFails(k)
           \/ pc'[k] = "committing" /\ saveMu' # None
<1>1. saveMu = k /\ k # None
  BY NoneAssumption DEF TableInv, WriteInFlight
<1>2. CASE ~Own(k)
  BY <1>1, <1>2, LockStep, Elsewhere DEF LocalKept
<1> QED BY <1>2, HandlerLeaves DEF Own

\* The file written next, for a live sandbox: what is in it is in memory too.
LEMMA WrittenLive ==
    ASSUME TypeInv, IdentityInv, TableInv, ListingSound, LiveKept, [Next]_vars,
           saveMu # None, ~Crash, NEW v \in VMs, vm'[v] = "live", InTable(v, buf)
    PROVE  \/ InSettledMemory(v)'
           \/ \E k \in Keys : CommitFails(k)
           \/ saveMu' # None /\ \E k \in Keys : pc'[k] = "committing" /\ Holds(k, v)'
<1>1. vm[v] = "live"
  BY KnownWasLive DEF Known
<1>2. ~New
  BY DEF New, TableInv, DownIsEmpty
<1>3. CASE InSettledMemory(v)
  BY <1>2, <1>3, MemoryKeepsLive
<1>4. ASSUME NEW k \in Keys, pc[k] = "committing", Holds(k, v)
      PROVE  \/ InSettledMemory(v)' \/ CommitFails(k)
             \/ saveMu' # None /\ pc'[k] = "committing" /\ Holds(k, v)'
  <2>1. CASE CommitLands(k)
    BY <1>4, <2>1 DEF CommitLands, InSettledMemory, Holds
  <2>2. v \in releasing' \/ Holds(k, v)'
    BY <1>2, <1>4, RowKeepsLive DEF RowStays
  <2> QED BY <1>2, <1>4, <2>1, <2>2, CommitterWrites DEF InSettledMemory
<1> QED BY <1>1, <1>3, <1>4 DEF LiveKept, Live

\* Every step keeps a live sandbox of the file in memory and in the next file.
LEMMA KeptStep ==
    ASSUME TypeInv, IdentityInv, TableInv, ListingSound, LiveKept, [Next]_vars,
           TypeInv', TableInv'
    PROVE  LiveKept'
<1>1. ASSUME up', NEW v \in VMs, vm'[v] = "live", InTable(v, disk)' PROVE InSettledMemory(v)'
  <2>1. CASE New
    BY <1>1, <2>1 DEF New, TableInv, DownIsEmpty, InTable, InSettledMemory, Holds
  <2>2. CASE ~New /\ InTable(v, disk)
    <3>1. vm[v] = "live" /\ up /\ ~Crash
      BY <1>1, <2>2, DiskKeepsLive, DownActs DEF Crash, TableInv
    <3> QED BY <1>1, <2>2, <3>1, MemoryKeepsLive DEF LiveKept, Live
  <2>3. CASE ~New /\ ~InTable(v, disk)
    <3>1. saveMu # None /\ saveMu' = None /\ disk' = buf
      BY <1>1, <2>3, WriterSteps DEF FileStep, InTable
    <3>2. \A k \in Keys : ~CommitFails(k)
      BY <1>1, <2>3 DEF CommitFails, EndWrite, InTable
    <3> QED BY <1>1, <3>1, <3>2, WrittenLive DEF Crash, InTable
  <2> QED BY <2>1, <2>2, <2>3
<1>2. ASSUME saveMu' # None, NEW v \in VMs, vm'[v] = "live"
      PROVE  /\ InTable(v, disk)' => InTable(v, buf)'
             /\ InTable(v, buf)' => \/ InSettledMemory(v)'
                                    \/ \E k \in Keys : pc'[k] = "committing" /\ Holds(k, v)'
  <2>1. up' /\ ~New /\ ~Crash
    BY <1>2 DEF New, Crash, TableInv, DownIsEmpty
  <2>2. CASE saveMu' = saveMu /\ buf' = buf
    <3>1. disk' = disk
      BY <1>2, <2>1, WriterSteps DEF FileStep
    <3>2. InTable(v, disk) => InTable(v, buf)
      BY <1>2, <2>2, DiskKeepsLive DEF LiveKept, Live
    <3>3. \A k \in Keys : ~CommitFails(k)
      BY <1>2 DEF CommitFails, EndWrite
    <3>4. InTable(v, buf) => \/ InSettledMemory(v)'
                            \/ \E k \in Keys : pc'[k] = "committing" /\ Holds(k, v)'
      BY <1>2, <2>1, <2>2, <3>3, WrittenLive
    <3> QED BY <2>2, <3>1, <3>2, <3>4 DEF InTable
  <2>3. ASSUME NEW c \in Keys \cup {None}, WriteTaken(c)
        PROVE  /\ InSettledMemory(v)' => InTable(v, buf)'
               /\ InTable(v, buf)' => \/ InSettledMemory(v)'
                                      \/ \E k \in Keys : pc'[k] = "committing" /\ Holds(k, v)'
    <3>1. c # None => pc'[c] = "committing"
      BY <2>3 DEF WriteTaken, CommitBegin, Goto, TypeInv, TypeOK
    <3>2. InSettledMemory(v)' => InTable(v, buf)'
      BY <2>3 DEF WriteTaken, Durable, InSettledMemory, Holds, InTable
    <3>3. ASSUME NEW k \in Keys, buf'.claims[k] # None, buf'.claims[k].id = v
          PROVE  Holds(k, v)' /\ (k \notin tentative' \/ pc'[k] = "committing")
      BY <2>3, <3>1, <3>3, NoneAssumption DEF WriteTaken, Durable, Holds
    <3>4. buf'.releasing = releasing'
      BY <2>3 DEF WriteTaken, Durable
    <3> QED BY <3>2, <3>3, <3>4 DEF InTable, InSettledMemory
  <2> QED BY <1>1, <1>2, <2>1, <2>2, <2>3, WriterSteps DEF BufStep
<1>3. ASSUME ~up', NEW v \in VMs, vm'[v] = "live" PROVE v \in lost' \/ InTable(v, disk)'
  <2>1. CASE Crash
    BY <1>3, <2>1 DEF Crash, Live, InTable
  <2>2. CASE ~Crash
    <3>1. ~up /\ ~New
      BY <1>3, <2>2, StaysUp DEF New
    <3>2. UNCHANGED <<lost, disk, pc>>
      BY <3>1, DownActs DEF TableInv
    <3>3. \A k \in Keys : pc[k] = "idle"
      BY <3>1 DEF TableInv, DownIsEmpty
    <3>4. vm[v] = "live"
      BY <1>3, <3>3, Granting DEF ClaimGranted, ClaimAnswerLost
    <3> QED BY <3>1, <3>2, <3>4 DEF LiveKept, Live, InTable
  <2> QED BY <2>1, <2>2
<1>4. ASSUME NEW j \in Keys, pc'[j] \in {"adoptSave", "adoptSaving", "push"},
             NEW v \in VMs, row'[j].id = v, vm'[v] = "live"
      PROVE  InTable(v, disk)'
  <2>0. row \in [Procs -> Claim \cup {None}] /\ claims \in Rows
    BY DEF TypeInv, TypeOK
  <2>1. CASE Adopt(j)
    <3>1. claims[j] \in Claim /\ row'[j] = Adopted(claims[j], arg[j]) /\ disk' = disk
      BY <2>0, <2>1 DEF Adopt
    <3>2. claims[j].id = v /\ InTable(claims[j].id, disk)
      BY <1>4, <2>1, <3>1, ClaimKeepsId DEF Adopt, Settled, TableInv,
         CredentialsDurable
    <3> QED BY <3>1, <3>2 DEF InTable
  <2>2. CASE CommitLands(j)
    <3>1. disk' = buf /\ row' = row /\ buf.claims[j] # None /\ buf.claims[j].id = row[j].id
      BY <2>2 DEF CommitLands, EndWrite, TableInv, WriteInFlight
    <3> QED BY <1>4, <3>1 DEF InTable
  <2>3. CASE row[j].id = v /\ pc[j] \in {"adoptSave", "adoptSaving", "push"}
    <3>1. vm[v] # "free"
      BY <2>3, IssuedInHand DEF TypeInv, InHand, WorksOnRow
    <3>2. vm[v] = "live"
      BY <1>4, <3>1, Rebirth DEF NoRebirth
    <3>3. InTable(v, disk)
      BY <2>3, <3>2 DEF LiveKept
    <3> QED BY <1>4, <3>3, DiskKeepsLive
  <2>4. CASE AdoptSave(j) \/ AdoptSaved(j)
    BY <1>4, <2>3, <2>4 DEF AdoptSave, AdoptSaved
  <2>5. CASE ~Own(j)
    BY <1>4, <2>3, <2>5, Elsewhere DEF LocalKept
  <2>6. CASE New \/ Crash
    BY <1>4, <2>6 DEF New, Crash, TableInv, DownIsEmpty
  <2>7. Handler(j) \/ Verify(j) => Entered(j)
    BY HandlerEnters
  <2> QED BY <1>4, <2>1, <2>2, <2>4, <2>5, <2>6, <2>7 DEF Own, Entered
<1>5. ASSUME NEW j \in Keys, pc'[j] \in {"adoptSave", "adoptSaving", "push"},
             vm'[row'[j].id] = "live"
      PROVE  InTable(row[j].id, disk)'
  <2>1. row'[j].id \in VMs
    BY <1>5, ClaimId DEF TypeInv, TypeOK, InHand, WorksOnRow
  <2> QED BY <1>4, <1>5, <2>1
<1> QED BY <1>1, <1>2, <1>3, <1>5 DEF LiveKept, Live
-----------------------------------------------------------------------------
\* What the pods were told stays true of the node and of the file.
StatusTrue == StatusNamed /\ RunningIsRecoverable /\ FailedOnlyWhenGone

\* Every step keeps what the pods were told true.
LEMMA StatusTrueStep ==
    ASSUME TypeInv, IdentityInv, ListingSound, LiveKept, StatusTrue, [Next]_vars
    PROVE  StatusTrue'
<1>1. ASSUME NEW p \in Pods, status'[p] = status[p], status[p].phase # "none"
      PROVE  /\ status[p].id # None
             /\ status[p].phase = "Running" /\ vm'[status[p].id] = "live"
                  => InTable(status[p].id, disk')
             /\ status[p].phase = "Failed" => vm'[status[p].id] # "live"
  <2>1. status[p].id \in VMs /\ status[p].id # None /\ vm[status[p].id] # "free"
    BY <1>1, StatusIds DEF StatusTrue, StatusNamed, IdentityInv, AllIssued
  <2> DEFINE v == status[p].id
  <2>2. vm'[v] = "live" => vm[v] = "live"
    BY <2>1, Rebirth DEF NoRebirth
  <2>3. status[p].phase = "Running" /\ vm[v] = "live" => InTable(v, disk)
    BY DEF StatusTrue, RunningIsRecoverable
  <2>4. ASSUME NEW w \in VMs, InTable(w, disk), vm'[w] = "live" PROVE InTable(w, disk')
    BY <2>4, DiskKeepsLive DEF InTable
  <2> QED BY <2>1, <2>2, <2>3, <2>4 DEF StatusTrue, FailedOnlyWhenGone
<1>2. ASSUME NEW p \in Pods, status'[p] # status[p]
      PROVE  /\ status'[p].id # None
             /\ status'[p].phase = "Running" /\ vm'[status'[p].id] = "live"
                  => InTable(status'[p].id, disk')
             /\ status'[p].phase = "Failed" => vm'[status'[p].id] # "live"
  <2>1. ASSUME NEW k \in Keys, PushRunning(k)
        PROVE  row[k].id # None /\ UNCHANGED <<vm, disk>>
               /\ (vm[row[k].id] = "live" => InTable(row[k].id, disk))
    BY <2>1, IdsBefore, NoneAssumption
       DEF PushRunning, TypeInv, InHand, WorksOnRow, LiveKept
  <2>2. ASSUME LeaseNotify PROVE row["lease"].id # None /\ vm'[row["lease"].id] # "live"
    BY <2>2, IdsBefore, NoneAssumption DEF LeaseNotify, TypeInv, InHand, ListingSound
  <2>3. CASE LeaseNotify /\ status'[p] = [phase |-> "Failed", id |-> row["lease"].id]
    BY <2>2, <2>3
  <2>4. ASSUME NEW k \in Keys, PushRunning(k), status'[p] = [phase |-> "Running",
  id |-> row[k].id]
        PROVE  status'[p].id # None /\ status'[p].phase = "Running"
               /\ (vm'[status'[p].id] = "live" => InTable(status'[p].id, disk'))
    <3>1. status'[p].id = row[k].id /\ status'[p].phase = "Running" /\ vm' = vm /\ disk' = disk
      BY <2>1, <2>4
    <3> QED BY <2>1, <2>4, <3>1
  <2> QED BY <1>2, <2>3, <2>4, Telling
<1>3. ASSUME NEW p \in Pods
      PROVE  /\ status'[p].phase # "none" => status'[p].id # None
             /\ status'[p].phase = "Running" /\ vm'[status'[p].id] = "live"
                  => InTable(status'[p].id, disk')
             /\ status'[p].phase = "Failed" => vm'[status'[p].id] # "live"
  BY <1>1, <1>2
<1> QED BY <1>3 DEF StatusTrue, StatusNamed, RunningIsRecoverable, FailedOnlyWhenGone,
           InTable

\* A row is the one that was there, a fresh one, or one of the file.
LEMMA RowOrigin ==
    ASSUME TypeInv, TableInv, [Next]_vars, NEW j \in Keys, claims'[j] # None
    PROVE  New \/ Record(j) \/ IdKept(j)
BY TentativeStep, SettledRowStep DEF CommitLands, IdKept

\* No step gives a sandbox a second place in the table.
LEMMA MemoryNamedOnce ==
    ASSUME TypeInv, IdentityInv, TableInv, NamedOnce, [Next]_vars, ~New
    PROVE  Distinct(Memory)'
<1>1. \A k \in Keys : claims'[k] # None => Record(k) \/ IdKept(k)
  BY RowOrigin
<1>2. ASSUME NEW k \in Keys, Record(k)
      PROVE  /\ claims'[k] = row[k] /\ row[k].id \notin releasing /\ releasing' = releasing
             /\ \A j \in Keys : claims[j] # None => claims[j].id # row[k].id
             /\ \A j \in Keys : j # k => claims'[j] = claims[j]
  <2>1. ~Known(row[k].id, k)
    BY <1>2 DEF Record, IdentityInv, FreshIsPrivate
  <2>2. ~InTable(row[k].id, Memory)
    BY <2>1 DEF Known
  <2> QED BY <1>2, <2>2 DEF InTable, Memory, Record, TypeInv, TypeOK
<1>3. Distinct(Memory)
  BY DEF NamedOnce
<1>4. ASSUME NEW j \in Keys, NEW k \in Keys, claims'[j] # None, claims'[k] # None, j # k
      PROVE  claims'[j].id # claims'[k].id
  <2>1. claims[j] # None /\ claims[k] # None => claims[j].id # claims[k].id
    BY <1>3, <1>4 DEF Distinct, Memory
  <2> QED BY <1>1, <1>2, <1>4, <2>1 DEF IdKept
<1>5. ASSUME NEW k \in Keys, claims'[k] # None, claims'[k].id \in releasing' PROVE FALSE
  <2>1. claims'[k].id \in VMs
    BY <1>5, TypeStep, IdsAfter
  <2> DEFINE v == claims'[k].id
  <2>2. ~Record(k) /\ Holds(k, v)
    BY <1>1, <1>2, <1>5 DEF IdKept, Holds
  <2>3. v \notin releasing
    BY <1>3, <2>2 DEF Distinct, Memory, Holds
  <2>4. PICK j \in Keys : Holds(j, v) /\ (Displace(j) \/ WithdrawForRelease(j))
    BY <1>5, <2>1, <2>3, QueueStep DEF Queued
  <2>5. claims'[j] = None
    BY <2>4 DEF Displace, WithdrawForRelease, TypeInv, TypeOK
  <2> QED BY <1>3, <1>5, <2>2, <2>4, <2>5 DEF Distinct, Memory, Holds
<1> QED BY <1>4, <1>5 DEF Distinct, Memory

\* Nor one in the file, or in the file being written.
LEMMA NamedOnceStep ==
    ASSUME TypeInv, IdentityInv, TableInv, NamedOnce, [Next]_vars
    PROVE  NamedOnce'
<1>0. Distinct(Memory) /\ Distinct(disk) /\ (saveMu # None => Distinct(buf))
  BY DEF NamedOnce
<1>1. CASE New
  <2>1. /\ disk' = Memory' /\ releasing' = disk.releasing /\ saveMu' = None
        /\ \A k \in Keys : claims'[k] # None =>
              disk.claims[k] # None /\ claims'[k].id = disk.claims[k].id
    BY <1>1, LoadedIds DEF New, Memory, TableInv, DownIsEmpty
  <2>2. Distinct(Memory)'
    BY <1>0, <2>1 DEF Distinct, Memory
  <2> QED BY <2>1, <2>2 DEF NamedOnce, Distinct
<1>2. CASE ~New
  <2>1. Distinct(Memory)'
    BY <1>2, MemoryNamedOnce
  <2>2. Distinct(disk)'
    BY <1>0, <1>2, WriterSteps DEF FileStep, Distinct
  <2>3. ASSUME NEW c, WriteTaken(c) PROVE Distinct(buf)'
    BY <1>0, <2>3 DEF WriteTaken, Durable, Distinct, Memory
  <2>4. saveMu' # None => Distinct(buf)'
    BY <1>0, <2>3, WriterSteps DEF BufStep, Distinct
  <2> QED BY <2>1, <2>2, <2>4 DEF NamedOnce
<1> QED BY <1>1, <1>2

\* What a running provider, its file and the node have to do with each other.
SafetyInv ==
    /\ ListingSound /\ LiveKept /\ NoLiveSandboxForgotten /\ StatusTrue
    /\ LostForgotten /\ NamedOnce
FullInv == TypeInv /\ IdentityInv /\ TableInv /\ SafetyInv

\* The initial states satisfy the invariant.
LEMMA InitSafety == Init => SafetyInv
<1> SUFFICES ASSUME Init PROVE SafetyInv
  OBVIOUS
<1>1. ListingSound
  BY DEF Init, ListingSound
<1>2. LiveKept
  <2>1. ASSUME NEW v \in VMs, vm[v] = "live" PROVE InTable(v, disk)
    BY <2>1 DEF Init, LegacyVMs, InTable
  <2> QED BY <2>1 DEF Init, LiveKept, Live
<1>3. NoLiveSandboxForgotten /\ LostForgotten
  BY DEF Init, NoLiveSandboxForgotten, LostForgotten
<1>4. StatusTrue
  BY DEF Init, NotPushed, StatusTrue, StatusNamed, RunningIsRecoverable, FailedOnlyWhenGone
<1>5. NamedOnce
  BY LegacyAssumption DEF Init, NamedOnce, Distinct, Memory
<1> QED BY <1>1, <1>2, <1>3, <1>4, <1>5 DEF SafetyInv

\* Every step preserves the invariant.
LEMMA FullStep ==
    ASSUME FullInv, [Next]_vars
    PROVE  FullInv'
<1>1. TypeInv' /\ IdentityInv' /\ TableInv'
  BY TypeStep, IdentityStep, TableStep DEF FullInv
<1>2. ListingSound' /\ NoLiveSandboxForgotten' /\ StatusTrue' /\ LostForgotten' /\ NamedOnce'
  BY ListingStep, ForgottenStep, StatusTrueStep, LostStep, NamedOnceStep DEF FullInv, SafetyInv
<1>3. LiveKept'
  BY <1>1, KeptStep DEF FullInv, SafetyInv
<1> QED BY <1>1, <1>2, <1>3 DEF FullInv, SafetyInv

\* The invariant the runs check holds at every moment, for any constants: the table,
\* the goroutines' locals, the write in flight, the file and the node agree.
THEOREM Invariance == Spec => []IInv
<1>1. Init => FullInv
  BY InitType, InitIdentity, InitTable, InitSafety DEF FullInv
<1>2. FullInv /\ [Next]_vars => FullInv'
  BY FullStep
<1>3. FullInv => IInv
  BY DEF FullInv, TypeInv, IdentityInv, TableInv, SafetyInv, StatusTrue, IInv
<1> QED BY <1>1, <1>2, <1>3, PTL DEF Spec

\* Whatever crashes, failed writes and lost answers happen, a sandbox some pod was told
\* Running on can be torn down while it lives (CreatePod, commitClaim).
THEOREM Recoverable == Spec => []RunningIsRecoverable
<1>1. IInv => RunningIsRecoverable
  BY DEF IInv
<1> QED BY <1>1, Invariance, PTL

\* A running provider holds the credential of every live sandbox no crash and no lost
\* answer took (VerifyClaimsAgainstNode, settleExpiredClaim, withdrawClaim).
THEOREM NothingForgotten == Spec => []NoLiveSandboxForgotten
<1>1. IInv => NoLiveSandboxForgotten
  BY DEF IInv
<1> QED BY <1>1, Invariance, PTL

\* Failed is published only for a sandbox the node no longer has (publishExpiredLeases).
THEOREM FailedIsGone == Spec => []FailedOnlyWhenGone
<1>1. IInv => FailedOnlyWhenGone
  BY DEF IInv
<1> QED BY <1>1, Invariance, PTL

\* One sandbox has one holder, a key or the release queue (adoptExistingClaim,
\* withdrawForRelease).
THEOREM HeldOnce == Spec => []OneHolder
<1>1. IInv => OneHolder
  BY DEF IInv, NamedOnce, Distinct, Memory, OneHolder
<1> QED BY <1>1, Invariance, PTL

\* A step changes the custody of exactly the sandboxes it is about.
LEMMA Becoming ==
    ASSUME NEW S, NEW stage,
           \A v \in VMs : CustodyOf(v)' = IF v \in S THEN stage ELSE CustodyOf(v)
    PROVE  C!Becomes(S, stage)
BY DEF C!Becomes

\* Custody is a matter of the node, the lost sandboxes and the file.
LEMMA SameCustody ==
    ASSUME NEW v \in VMs, vm'[v] = vm[v], v \in lost' <=> v \in lost,
           vm[v] = "live" => (InTable(v, disk)' <=> InTable(v, disk))
    PROVE  CustodyOf(v)' = CustodyOf(v)
BY DEF CustodyOf

\* Initially the sandboxes of an older build's file are kept, the others free.
LEMMA InitCustody == Init => C!Init
<1> SUFFICES ASSUME Init PROVE C!Init
  OBVIOUS
<1>1. ASSUME NEW v \in VMs PROVE CustodyOf(v) \in {"free", "kept"}
  BY DEF Init, LegacyVMs, InTable, CustodyOf
<1> QED BY <1>1 DEF Init, C!Init

\* A write that lands keeps the sandbox being committed, and changes no other's custody.
LEMMA WriteCustody ==
    ASSUME FullInv, [Next]_vars, Inward
    PROVE  C!Next \/ UNCHANGED C!vars
<1>1. ASSUME \A v \in VMs : vm[v] = "live" /\ InTable(v, disk)' => InTable(v, disk)
      PROVE  UNCHANGED C!vars
  <2>1. \A v \in VMs : vm[v] = "live" /\ InTable(v, disk) => InTable(v, disk)'
    BY DiskKeepsLive DEF Inward, FullInv, SafetyInv
  <2>2. \A v \in VMs : CustodyOf(v)' = CustodyOf(v)
    BY <1>1, <2>1, SameCustody DEF Inward
  <2> QED BY <2>2 DEF C!vars, Inward
<1>2. CASE UNCHANGED disk
  BY <1>1, <1>2 DEF InTable
<1>3. CASE New
  <2>1. \A v \in VMs : InTable(v, disk)' => InTable(v, disk)
    BY <1>3, LoadedIds DEF New, InTable, FullInv
  <2> QED BY <1>1, <2>1
<1>4. CASE saveMu # None /\ disk' = buf
  <2>1. ASSUME NEW v \in VMs, vm[v] = "live", InTable(v, buf), ~InTable(v, disk)
        PROVE  \E k \in Keys : saveMu = k /\ Holds(k, v)
    <3>1. ~InSettledMemory(v)
      BY <2>1 DEF FullInv, TableInv, CredentialsDurable, InSettledMemory, Holds
    <3>2. PICK k \in Keys : pc[k] = "committing" /\ Holds(k, v)
      BY <1>4, <2>1, <3>1 DEF FullInv, SafetyInv, LiveKept, Live
    <3> QED BY <3>2 DEF FullInv, TableInv, WriteInFlight
  <2>2. CASE \E v \in VMs : vm[v] = "live" /\ InTable(v, buf) /\ ~InTable(v, disk)
    <3>1. PICK v \in VMs : vm[v] = "live" /\ InTable(v, buf) /\ ~InTable(v, disk)
      BY <2>2
    <3>2. \A w \in VMs \ {v} : vm[w] = "live" /\ InTable(w, buf) => InTable(w, disk)
      BY <2>1, <3>1 DEF Holds
    <3>3. \A w \in VMs \ {v} : CustodyOf(w)' = CustodyOf(w)
      <4>1. ASSUME NEW w \in VMs \ {v}, vm[w] = "live" PROVE InTable(w, disk)' <=> InTable(w,
      disk)
        BY <1>4, <3>2, <4>1, DiskKeepsLive DEF Inward, FullInv, SafetyInv, InTable
      <4> QED BY <4>1, SameCustody DEF Inward
    <3>4. v \notin lost
      BY <3>1 DEF FullInv, SafetyInv, LostForgotten, Known
    <3>5. CustodyOf(v) = "granted" /\ CustodyOf(v)' = "kept"
      BY <1>4, <3>1, <3>4 DEF CustodyOf, Inward, InTable
    <3>6. C!Becomes({v}, "kept")
      BY <3>3, <3>5, Becoming
    <3>7. C!Keep(v)
      BY <3>5, <3>6 DEF C!Keep, Inward
    <3> QED BY <3>7 DEF C!Next
  <2>3. CASE ~\E v \in VMs : vm[v] = "live" /\ InTable(v, buf) /\ ~InTable(v, disk)
    BY <1>1, <1>4, <2>3 DEF InTable
  <2> QED BY <2>2, <2>3
<1> QED BY <1>2, <1>3, <1>4, WriterSteps DEF FileStep, FullInv

\* A crash loses what was granted and not committed.
LEMMA CrashCustody ==
    ASSUME FullInv, Crash
    PROVE  C!Next
<1> DEFINE S == {v \in VMs : vm[v] = "live" /\ v \notin lost /\ ~InTable(v, disk)}
<1>1. ASSUME NEW v \in VMs PROVE CustodyOf(v)' = IF v \in S THEN "lost" ELSE CustodyOf(v)
  <2>1. UNCHANGED <<vm, disk>> /\ (v \in lost' <=> v \in lost \/ (vm[v] = "live" /\ ~InTable(v,
  disk)))
    BY DEF Crash, Live
  <2>2. InTable(v, disk)' <=> InTable(v, disk)
    BY <2>1 DEF InTable
  <2> QED BY <2>1, <2>2 DEF CustodyOf
<1>2. \A v \in S : CustodyOf(v) = "granted"
  BY DEF CustodyOf
<1>3. C!Becomes(S, "lost")
  BY <1>1, Becoming
<1>4. C!Lose(S)
  BY <1>2, <1>3 DEF C!Lose, Crash
<1> QED BY <1>4 DEF C!Next

\* A claim is granted, or missed when its answer is lost.
LEMMA ClaimCustody ==
    ASSUME FullInv, NEW k \in Keys, ClaimGranted(k) \/ ClaimAnswerLost(k)
    PROVE  C!Next
<1>1. PICK v \in VMs : /\ vm[v] = "free" /\ vm' = [vm EXCEPT ![v] = "live"]
                       /\ \/ ClaimGranted(k) /\ lost' = lost
                          \/ ClaimAnswerLost(k) /\ lost' = lost \cup {v}
  BY DEF ClaimGranted, ClaimAnswerLost
<1>2. v \notin lost /\ ~InTable(v, disk)
  BY <1>1 DEF FullInv, SafetyInv, LostForgotten, IdentityInv, AllIssued, Known
<1>3. disk' = disk /\ status' = status /\ \A w \in VMs : InTable(w, disk)' <=> InTable(w, disk)
  BY DEF ClaimGranted, ClaimAnswerLost, InTable
<1>4. \A w \in VMs \ {v} : CustodyOf(w)' = CustodyOf(w)
  <2>1. ASSUME NEW w \in VMs \ {v} PROVE vm'[w] = vm[w] /\ (w \in lost' <=> w \in lost)
    BY <1>1 DEF FullInv, TypeInv, TypeOK
  <2> QED BY <1>3, <2>1, SameCustody
<1>5. vm'[v] = "live" /\ CustodyOf(v) = "free"
  BY <1>1 DEF CustodyOf, FullInv, TypeInv, TypeOK
<1>6. CASE lost' = lost
  <2>1. CustodyOf(v)' = "granted"
    BY <1>2, <1>3, <1>5, <1>6 DEF CustodyOf
  <2>2. C!Becomes({v}, "granted")
    BY <1>4, <2>1, Becoming
  <2>3. C!Grant(v)
    BY <1>3, <1>5, <2>2 DEF C!Grant
  <2> QED BY <2>3 DEF C!Next
<1>7. CASE lost' = lost \cup {v}
  <2>1. CustodyOf(v)' = "lost"
    BY <1>5, <1>7 DEF CustodyOf
  <2>2. C!Becomes({v}, "lost")
    BY <1>4, <2>1, Becoming
  <2>3. C!Miss(v)
    BY <1>3, <1>5, <2>2 DEF C!Miss
  <2> QED BY <2>3 DEF C!Next
<1> QED BY <1>1, <1>6, <1>7

\* A release that lands, and a sandbox the node ends, end it.
LEMMA EndCustody ==
    ASSUME FullInv, NEW v \in VMs, Ends(v)
    PROVE  C!Next
<1>1. vm'[v] \in {"released", "gone"} /\ \A w \in VMs \ {v} : vm'[w] = vm[w]
  BY DEF Ends, FullInv, TypeInv, TypeOK
<1>2. \A w \in VMs \ {v} : CustodyOf(w)' = CustodyOf(w)
  BY <1>1, SameCustody DEF Ends, InTable
<1>3. CustodyOf(v) \in {"granted", "kept", "lost"} /\ CustodyOf(v)' = "ended"
  BY <1>1 DEF Ends, CustodyOf
<1>4. C!Becomes({v}, "ended")
  BY <1>2, <1>3, Becoming
<1>5. C!End(v)
  BY <1>3, <1>4 DEF C!End, Ends
<1> QED BY <1>5 DEF C!Next

\* A pod is told Running on what is kept or ended meanwhile, Failed on what has ended.
LEMMA PushCustody ==
    ASSUME FullInv, LeaseNotify \/ \E k \in Keys : PushRunning(k)
    PROVE  C!Next \/ UNCHANGED C!vars
<1>1. UNCHANGED <<vm, lost, disk>>
  BY DEF LeaseNotify, PushRunning
<1>2. \A v \in VMs : CustodyOf(v)' = CustodyOf(v)
  BY <1>1, SameCustody DEF InTable
<1>3. \A a \in Procs : row[a] # None =>
          row[a].id \in VMs /\ vm[row[a].id] # "free" /\ row[a].id \notin lost
  <2>1. ASSUME NEW a \in Procs, row[a] # None PROVE row[a].id \notin lost
    BY <2>1, NoneAssumption, ProcsAssumption DEF FullInv, SafetyInv, LostForgotten,
       Known
  <2> QED BY <2>1, IssuedInHand DEF FullInv
<1>4. ASSUME NEW p \in Pods, NEW phase, NEW v \in VMs, Pushed(p, phase, v)
      PROVE  UNCHANGED status \/
             (status[p].phase # "Failed" /\ status' = [status EXCEPT ![p] = [phase |-> phase,
             id |-> v]])
  BY <1>4 DEF Pushed, FullInv, TypeInv, TypeOK
<1>5. CASE UNCHANGED status
  BY <1>2, <1>5 DEF C!vars
<1>6. ASSUME NEW k \in Keys, PushRunning(k), ~UNCHANGED status PROVE C!Next
  <2>1. arg[k].uid \in Pods /\ row[k] # None
    BY <1>6, PodOwner DEF PushRunning, FullInv, TypeInv, TypeOK, InHand, ServesPod,
       PastVerify, WorksOnRow
  <2>2. CustodyOf(row[k].id) \in {"kept", "ended"}
    BY <1>3, <1>6, <2>1 DEF CustodyOf, PushRunning, FullInv, SafetyInv, LiveKept
  <2>3. C!Announce(arg[k].uid, row[k].id)
    BY <1>2, <1>3, <1>4, <1>6, <2>1, <2>2 DEF PushRunning, C!Announce, C!Tell
  <2> QED BY <1>3, <2>1, <2>3 DEF C!Next
<1>7. ASSUME LeaseNotify, ~UNCHANGED status PROVE C!Next
  <2>1. arg["lease"].uid \in Pods /\ row["lease"] # None
    BY <1>7, PodOwner DEF LeaseNotify, FullInv, TypeInv, TypeOK, InHand
  <2>2. CustodyOf(row["lease"].id) = "ended"
    BY <1>3, <1>7, <2>1 DEF CustodyOf, LeaseNotify, FullInv, SafetyInv, ListingSound
  <2>3. C!Retire(arg["lease"].uid, row["lease"].id)
    BY <1>2, <1>3, <1>4, <1>7, <2>1, <2>2 DEF LeaseNotify, C!Retire, C!Tell
  <2> QED BY <1>3, <2>1, <2>3 DEF C!Next
<1> QED BY <1>5, <1>6, <1>7

\* The provider implements Custody, for any constants: a sandbox whose credential reached
\* the state file is never lost, only an uncommitted one is, and what a pod is told is
\* true of its sandbox (CreatePod, commitClaim, write, New, publishExpiredLeases).
THEOREM Refinement == Spec => ImplementsCustody
<1>1. Init => C!Init /\ FullInv
  BY InitCustody, InitType, InitIdentity, InitTable, InitSafety DEF FullInv
<1>2. FullInv /\ [Next]_vars => FullInv'
  BY FullStep
<1>3. FullInv /\ [Next]_vars => [C!Next]_C!vars
  <2> SUFFICES ASSUME FullInv, [Next]_vars PROVE [C!Next]_C!vars
    OBVIOUS
  <2>1. Outward
    BY OutwardStep DEF FullInv
  <2> QED BY <2>1, WriteCustody, CrashCustody, ClaimCustody, EndCustody, PushCustody DEF Outward
<1> QED BY <1>1, <1>2, <1>3, PTL DEF Spec, ImplementsCustody, C!Spec
=============================================================================
