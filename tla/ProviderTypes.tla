--------------------------- MODULE ProviderTypes ----------------------------
(*****************************************************************************)
(* Type correctness of Provider, for every value of the constants; where the *)
(* steps of a handler come from; and what a step may do to the node, to what *)
(* the pods are told, to the release queue and to the locals of somebody     *)
(* else.                                                                     *)
(*****************************************************************************)
EXTENDS ProviderInvariant, TLAPS

\* First-order and set reasoning first, then SMT.
USE ZenonT(5), SMTT(30), ZenonT(40)
USE DEF Rows, NoRows, Table, EmptyTable, Procs, Loops
USE DEF tableVars, fileVars, localVars, recheckVars, kubeVars, outside, beyond, inside

\* Types, and locals set where they are used.
TypeInv == TypeOK /\ InHand

\* Changing the lease end or the owner of a row leaves a row.
LEMMA ClaimExcept ==
    ASSUME NEW c \in Claim
    PROVE  /\ \A d \in Deadlines : [c EXCEPT !.deadline = d] \in Claim
           /\ \A o \in Owners \cup {None} : [c EXCEPT !.owner = o] \in Claim
           /\ \A d \in Deadlines : Vouched(c, d) \in Claim
           /\ \A pod \in PodObject : Adopted(c, pod) \in Claim
BY DEF Claim, PodObject, Vouched, Adopted, AuthorityOf

\* A row names a sandbox.
LEMMA ClaimId == \A c \in Claim : c.id \in VMs
BY DEF Claim

\* A pod object names its generation and its controller, if any.
LEMMA PodOwner == \A pod \in PodObject : pod.owner \in Owners \cup {None} /\ pod.uid \in Pods
BY DEF PodObject

\* The row CreatePod builds for a fresh sandbox is a row.
LEMMA FreshType ==
    \A v \in VMs, pod \in PodObject, d \in Deadlines : FreshClaim(v, pod, d) \in Claim
BY DEF Claim, PodObject, FreshClaim, AuthorityOf

\* The rows the goroutines copy are rows.
LEMMA RowsType ==
    ASSUME TypeInv
    PROVE  /\ QuarantinedRows \in Rows
           /\ LeaseCandidates \in Rows
           /\ Preserved \in Rows
           /\ \A k : Durable(k) \in Table
BY DEF TypeInv, TypeOK, QuarantinedRows, LeaseCandidates, Preserved, Durable

\* A write that ends leaves a table on disk, and none in flight.
LEMMA WriteType ==
    ASSUME TypeInv, NEW a, NEW landed \in BOOLEAN, EndWrite(a, landed)
    PROVE  disk' \in Table /\ buf' \in Table /\ saveMu' \in Procs \cup {None}
BY DEF TypeInv, TypeOK, EndWrite

\* A release, whatever its answer, leaves every sandbox in one of its states.
LEMMA ReleaseType ==
    ASSUME TypeInv, NEW v, ReleaseLands(v) \/ ReleaseErrs(v)
    PROVE  vm' \in [VMs -> {"free", "live", "released", "gone"}]
<1>1. CASE ReleaseLands(v)
  BY <1>1 DEF TypeInv, TypeOK, ReleaseLands
<1>2. CASE UNCHANGED vm
  BY <1>2 DEF TypeInv, TypeOK
<1> QED BY <1>1, <1>2 DEF ReleaseErrs

\* A pushed status is one a pod may have.
LEMMA PushType ==
    ASSUME TypeInv, NEW p, NEW phase \in {"Running", "Failed"}, NEW v \in VMs,
           Pushed(p, phase, v)
    PROVE  status' \in [Pods -> [phase: {"none", "Running", "Failed"}, id: VMs \cup {None}]]
BY DEF TypeInv, TypeOK, Pushed

\* The types hold before the daemon first starts.
LEMMA InitType == Init => TypeInv
<1> SUFFICES ASSUME Init PROVE TypeInv
  OBVIOUS
<1>1. /\ up \in BOOLEAN /\ pods \in [Keys -> PodObject \cup {None}] /\ claims \in Rows
      /\ tentative \subseteq Keys /\ quarantined \subseteq Keys /\ releasing \subseteq VMs
  BY DEF Init
<1>2. disk \in Table /\ buf \in Table /\ saveMu \in Procs \cup {None}
  BY LegacyAssumption DEF Init
<1>3. /\ pc \in [Procs -> WorkerPCs \cup LoopPCs] /\ arg \in [Procs -> PodObject \cup {None}]
      /\ row \in [Procs -> Claim \cup {None}] /\ snap \in [Procs -> Rows]
      /\ listed \in [Procs -> SUBSET VMs]
  BY DEF Init, WorkerPCs, LoopPCs
<1>4. seen \subseteq Keys /\ asking \in Keys \cup {None} /\ queue \subseteq VMs /\ dirty \in BOOLEAN
  BY DEF Init
<1>5. /\ vm \in [VMs -> {"free", "live", "released", "gone"}] /\ now \in Nat
      /\ kube \in [Pods -> {"absent", "bound", "terminating", "removed"}]
      /\ controller \in [Pods -> Owners \cup {None}]
      /\ ownerState \in [Owners -> OwnerStates]
      /\ status \in [Pods -> [phase: {"none", "Running", "Failed"}, id: VMs \cup {None}]]
      /\ lost \subseteq VMs
  BY ConstantsAssumption DEF Init, NotPushed, OwnerStates
<1>6. InHand
  BY DEF Init, InHand, ServesPod, PastVerify, WorksOnRow
<1> QED BY <1>1, <1>2, <1>3, <1>4, <1>5, <1>6 DEF TypeInv, TypeOK

\* VerifyClaimsAgainstNode keeps the types, whoever runs it.
LEMMA VerifyType ==
    ASSUME TypeInv, NEW a \in Procs, Verify(a)
    PROVE  TypeInv'
<1>rows. /\ QuarantinedRows \in Rows /\ LeaseCandidates \in Rows /\ Preserved \in Rows
         /\ \A x : Durable(x) \in Table
  BY RowsType
<1> USE DEF TypeInv, TypeOK, InHand, ServesPod, PastVerify, WorksOnRow, WorkerPCs, LoopPCs
<1>1. CASE VerifySnapshot(a)
  BY <1>1, <1>rows DEF VerifySnapshot, Goto, VerifyDue
<1>2. CASE VerifyNothing(a)
  BY <1>2 DEF VerifyNothing, Goto, VerifyDue, AfterVerify
<1>3. CASE VerifyList(a)
  BY <1>3 DEF VerifyList, Goto, Live
<1>4. CASE VerifyListFails(a)
  BY <1>4 DEF VerifyListFails, Return, Goto
<1>5. CASE VerifyApply(a)
  <2>1. TypeOK'
    BY <1>5, ClaimExcept DEF VerifyApply, Goto, AfterVerify, Judged, Holds
  <2>2. InHand'
    BY <1>5, ProcsAssumption DEF VerifyApply, Goto, AfterVerify, Judged, Holds
  <2> HIDE DEF TypeOK, InHand
  <2> QED BY <2>1, <2>2
<1> HIDE DEF TypeInv, TypeOK, InHand, ServesPod, PastVerify, WorksOnRow, WorkerPCs, LoopPCs
<1> QED BY <1>1, <1>2, <1>3, <1>4, <1>5 DEF Verify

\* A start (New) and a crash keep the types.
LEMMA ProcessType ==
    ASSUME TypeInv, New \/ Crash
    PROVE  TypeInv'
<1> USE DEF TypeInv, TypeOK, InHand, ServesPod, PastVerify, WorksOnRow, WorkerPCs, LoopPCs
<1>1. CASE New
  BY <1>1, ClaimExcept DEF New, LoadedRows
<1>2. CASE Crash
  BY <1>2 DEF Crash, Live
<1> HIDE DEF TypeInv, TypeOK, InHand, ServesPod, PastVerify, WorksOnRow, WorkerPCs, LoopPCs
<1> QED BY <1>1, <1>2

\* Every step of CreatePod and UpdatePod keeps the types.
LEMMA CreateType ==
    ASSUME TypeInv, NEW k \in Keys, Create(k)
    PROVE  TypeInv'
<1>rows. /\ QuarantinedRows \in Rows /\ LeaseCandidates \in Rows /\ Preserved \in Rows
         /\ \A x : Durable(x) \in Table
  BY RowsType
<1>write. \A x : \A landed \in BOOLEAN : EndWrite(x, landed)
            => disk' \in Table /\ buf' \in Table /\ saveMu' \in Procs \cup {None}
  BY WriteType
<1>push. \A p : \A v \in VMs, phase \in {"Running", "Failed"} : Pushed(p, phase, v)
           => status' \in [Pods -> [phase: {"none", "Running", "Failed"}, id: VMs \cup {None}]]
  BY PushType
<1>release. \A v : ReleaseLands(v) \/ ReleaseErrs(v)
              => vm' \in [VMs -> {"free", "live", "released", "gone"}]
  BY ReleaseType
<1> USE DEF TypeInv, TypeOK, InHand, ServesPod, PastVerify, WorksOnRow, WorkerPCs, LoopPCs
<1>0. \A p \in Pods : PodInKube(p) \in PodObject
  BY DEF PodInKube, PodObject
<1>1. ASSUME NEW p \in Pods, CreatePod(k, p) PROVE TypeInv'
  <2>1. TypeOK'
    BY <1>1, <1>0 DEF CreatePod, EnterCreate, Goto
  <2>2. InHand'
    BY <1>1, <1>0, NoneAssumption, ProcsAssumption
       DEF CreatePod, EnterCreate, Goto
  <2> HIDE DEF TypeOK, InHand
  <2> QED BY <2>1, <2>2
<1>2. ASSUME NEW p \in Pods, UpdatePod(k, p) PROVE TypeInv'
  BY <1>2, <1>0 DEF UpdatePod
<1>3. ASSUME NEW p \in Pods, RetryCreate(k, p) PROVE TypeInv'
  <2>1. TypeOK'
    BY <1>3, <1>0 DEF RetryCreate, EnterCreate, Goto
  <2>2. InHand'
    BY <1>3, <1>0, NoneAssumption, ProcsAssumption
       DEF RetryCreate, EnterCreate, Goto
  <2> HIDE DEF TypeOK, InHand
  <2> QED BY <2>1, <2>2
<1>4. CASE ExpiryDue(k)
  BY <1>4 DEF ExpiryDue, Goto, PastDeadline
<1>5. CASE NotExpired(k)
  BY <1>5 DEF NotExpired, Goto
<1>6. CASE ExpiryList(k)
  BY <1>6 DEF ExpiryList, Goto, Live
<1>7. CASE ExpiryListFails(k)
  BY <1>7 DEF ExpiryListFails, Return, Goto
<1>8. CASE ExpiryRefresh(k)
  <2>1. PICK d \in Deadlines : RefreshDeadline(k, row[k].id, d)
    BY <1>8 DEF ExpiryRefresh
  <2>2. claims' \in Rows
    BY <2>1, ClaimExcept DEF RefreshDeadline, Holds
  <2> QED BY <1>8, <2>2 DEF ExpiryRefresh, ExpirySettled, Goto
<1>9. CASE ExpiryDrop(k)
  BY <1>9 DEF ExpiryDrop, Goto, ExpirySettled, DropClaim, Holds
<1>10. CASE AdoptNothing(k)
  BY <1>10 DEF AdoptNothing, Goto
<1>11. CASE Displace(k)
  BY <1>11, ClaimId DEF Displace, Goto
<1>12. CASE Adopt(k)
  <2>1. TypeOK'
    BY <1>12, ClaimExcept DEF Adopt, Goto
  <2>2. InHand'
    BY <1>12, ClaimExcept, NoneAssumption, ProcsAssumption DEF Adopt, Goto
  <2> HIDE DEF TypeOK, InHand
  <2> QED BY <2>1, <2>2
<1>13. CASE AdoptSave(k)
  BY <1>13, <1>rows DEF AdoptSave, Goto, BeginWrite
<1>14. CASE AdoptSaved(k)
  BY <1>14, <1>write DEF AdoptSaved, Goto
<1>15. CASE StrandedFound(k)
  BY <1>15 DEF StrandedFound, Goto, Stranded
<1>16. CASE NoneStranded(k)
  BY <1>16 DEF NoneStranded, Goto
<1>17. CASE StrandedRelease(k)
  BY <1>17, <1>release DEF StrandedRelease, Goto, WithdrawClaim, DropClaim, Holds
<1>18. CASE ClaimGranted(k)
  <2>1. TypeOK'
    BY <1>18, FreshType DEF ClaimGranted, Goto
  <2>2. InHand'
    BY <1>18, FreshType, NoneAssumption, ProcsAssumption DEF ClaimGranted, Goto
  <2> HIDE DEF TypeOK, InHand
  <2> QED BY <2>1, <2>2
<1>19. CASE ClaimFails(k)
  BY <1>19 DEF ClaimFails, Return, Goto
<1>20. CASE ClaimAnswerLost(k)
  BY <1>20 DEF ClaimAnswerLost, Return, Goto
<1>21. CASE Record(k)
  BY <1>21 DEF Record, Goto
<1>22. CASE CommitBegin(k)
  BY <1>22, <1>rows DEF CommitBegin, Goto, BeginWrite
<1>23. CASE CommitLands(k)
  BY <1>23, <1>write DEF CommitLands, Goto
<1>24. CASE CommitFails(k)
  BY <1>24, <1>write DEF CommitFails, Goto
<1>25. CASE Undo(k)
  <2>1. TypeOK'
    BY <1>25, <1>release DEF Undo, Return, Goto, WithdrawClaim, DropClaim, Holds
  <2>2. InHand'
    BY <1>25 DEF Undo, Return, Goto, WithdrawClaim, DropClaim, Holds
  <2> HIDE DEF TypeOK, InHand
  <2> QED BY <2>1, <2>2
<1>26. CASE PushRunning(k)
  <2>1. row[k] # None
    BY <1>26 DEF PushRunning, WorksOnRow
  <2>2. status' \in [Pods -> [phase: {"none", "Running", "Failed"}, id: VMs \cup {None}]]
    BY <1>26, <2>1, ClaimId, <1>push DEF PushRunning
  <2> QED BY <1>26, <2>2 DEF PushRunning, Return, Goto
<1> HIDE DEF TypeInv, TypeOK, InHand, ServesPod, PastVerify, WorksOnRow, WorkerPCs, LoopPCs
<1> QED BY <1>1, <1>2, <1>3, <1>4, <1>5, <1>6, <1>7, <1>8, <1>9, <1>10, <1>11, <1>12, <1>13,
           <1>14, <1>15, <1>16, <1>17, <1>18, <1>19, <1>20, <1>21, <1>22, <1>23, <1>24, <1>25,
           <1>26 DEF Create

\* Every step of DeletePod keeps the types.
LEMMA DeleteType ==
    ASSUME TypeInv, NEW k \in Keys, Delete(k)
    PROVE  TypeInv'
<1>rows. /\ QuarantinedRows \in Rows /\ LeaseCandidates \in Rows /\ Preserved \in Rows
         /\ \A x : Durable(x) \in Table
  BY RowsType
<1>write. \A x : \A landed \in BOOLEAN : EndWrite(x, landed)
            => disk' \in Table /\ buf' \in Table /\ saveMu' \in Procs \cup {None}
  BY WriteType
<1>release. \A v : ReleaseLands(v) \/ ReleaseErrs(v)
              => vm' \in [VMs -> {"free", "live", "released", "gone"}]
  BY ReleaseType
<1> USE DEF TypeInv, TypeOK, InHand, ServesPod, PastVerify, WorksOnRow, WorkerPCs, LoopPCs
<1>1. ASSUME NEW pod \in PodObject, ForgetPod(k, pod) PROVE TypeInv'
  BY <1>1 DEF ForgetPod
<1>2. ASSUME NEW pod \in PodObject, DeletePod(k, pod) PROVE TypeInv'
  <2>1. TypeOK'
    BY <1>2 DEF DeletePod, Goto
  <2>2. InHand'
    BY <1>2, NoneAssumption, ProcsAssumption DEF DeletePod, Goto
  <2> HIDE DEF TypeOK, InHand
  <2> QED BY <2>1, <2>2
<1>3. CASE Authorize(k)
  BY <1>3 DEF Authorize, Goto
<1>4. CASE PreserveClaim(k)
  <2>1. arg[k].owner \in Owners \cup {None}
    BY <1>4, PodOwner DEF PreserveClaim
  <2>2. CASE Holds(k, row[k].id)
    <3>1. [claims[k] EXCEPT !.owner = arg[k].owner] \in Claim
      BY <2>1, <2>2, ClaimExcept DEF Holds
    <3>2. claims' = [claims EXCEPT ![k] = [claims[k] EXCEPT !.owner = arg[k].owner]]
      BY <1>4, <2>2 DEF PreserveClaim
    <3> QED BY <1>4, <3>1, <3>2 DEF PreserveClaim, Goto
  <2>3. CASE ~Holds(k, row[k].id)
    BY <1>4, <2>3 DEF PreserveClaim, Goto
  <2> HIDE DEF TypeInv, TypeOK, InHand
  <2> QED BY <2>2, <2>3
<1>5. CASE DeleteRelease(k)
  BY <1>5, <1>release DEF DeleteRelease, Goto
<1>6. CASE DeleteWithdraw(k)
  BY <1>6 DEF DeleteWithdraw, Goto, WithdrawClaim, DropClaim, Holds
<1>7. CASE DeleteSave(k)
  BY <1>7, <1>rows DEF DeleteSave, Goto, BeginWrite
<1>8. CASE DeleteSaved(k)
  BY <1>8, <1>write DEF DeleteSaved, Return, Goto
<1> HIDE DEF TypeInv, TypeOK, InHand, ServesPod, PastVerify, WorksOnRow, WorkerPCs, LoopPCs
<1> QED BY <1>1, <1>2, <1>3, <1>4, <1>5, <1>6, <1>7, <1>8 DEF Delete

\* Every step of a handler keeps the types, a failed release included.
LEMMA HandlerType ==
    ASSUME TypeInv, NEW k \in Keys, Handler(k)
    PROVE  TypeInv'
<1>release. \A v : ReleaseLands(v) \/ ReleaseErrs(v)
              => vm' \in [VMs -> {"free", "live", "released", "gone"}]
  BY ReleaseType
<1>1. CASE Create(k)
  BY <1>1, CreateType
<1>2. CASE Delete(k)
  BY <1>2, DeleteType
<1>3. CASE HandlerReleaseFails(k)
  <2> USE DEF TypeInv, TypeOK, InHand, ServesPod, PastVerify, WorksOnRow, WorkerPCs, LoopPCs
  <2> QED BY <1>3, <1>release DEF HandlerReleaseFails, Return, Goto
<1> QED BY <1>1, <1>2, <1>3 DEF Handler

\* The only ways into the places of a handler that the listings and the file justify.
Entered(j) ==
    /\ pc'[j] = "expiryApply" => ExpiryList(j)
    /\ pc'[j] = "withdraw" => DeleteRelease(j)
    /\ pc'[j] = "adoptSave" => Adopt(j)
    /\ pc'[j] = "adoptSaving" => AdoptSave(j)
    /\ pc'[j] = "push" => AdoptSaved(j) \/ CommitLands(j)
    /\ pc'[j] = "record" => ClaimGranted(j)
    /\ pc'[j] = "committing" => CommitBegin(j)

\* Every step of a handler enters those places in these ways only.
LEMMA HandlerEnters ==
    ASSUME TypeInv, NEW j \in Keys, Handler(j) \/ Verify(j)
    PROVE  Entered(j)
<1>p. pc \in [Procs -> WorkerPCs \cup LoopPCs] /\ j \in Procs
  BY DEF TypeInv, TypeOK
<1>1. CASE Verify(j)
  BY <1>p, <1>1 DEF Verify, VerifySnapshot, VerifyNothing, VerifyList, VerifyListFails,
     VerifyApply, AfterVerify, Goto, Return, Entered
<1>2. CASE \E p \in Pods : CreatePod(j, p) \/ UpdatePod(j, p) \/ RetryCreate(j, p)
  BY <1>p, <1>2 DEF CreatePod, UpdatePod, RetryCreate, EnterCreate, UpdateDue,
     SyncDue, Goto, Entered
<1>3. CASE ExpiryList(j) \/ DeleteRelease(j)
  BY <1>p, <1>3 DEF ExpiryList, DeleteRelease, Goto, Entered
<1>4. CASE Adopt(j) \/ AdoptSave(j) \/ AdoptSaved(j) \/ CommitLands(j)
  BY <1>p, <1>4 DEF Adopt, AdoptSave, AdoptSaved, CommitLands, Goto, Entered
<1>5. CASE \/ ExpiryDue(j) \/ NotExpired(j) \/ ExpiryListFails(j) \/ ExpiryRefresh(j)
           \/ ExpiryDrop(j) \/ AdoptNothing(j) \/ Displace(j)
  BY <1>p, <1>5 DEF ExpiryDue, NotExpired, ExpiryListFails, ExpirySettled,
     ExpiryRefresh, ExpiryDrop, AdoptNothing, Displace, Goto, Return, Entered
<1>6. CASE \/ StrandedFound(j) \/ NoneStranded(j) \/ StrandedRelease(j)
           \/ ClaimGranted(j) \/ ClaimFails(j) \/ ClaimAnswerLost(j)
  BY <1>p, <1>6 DEF StrandedFound, NoneStranded, StrandedRelease, ClaimGranted, ClaimFails,
     ClaimAnswerLost, Goto, Return, Entered
<1>7. CASE Record(j) \/ CommitBegin(j) \/ CommitFails(j) \/ Undo(j) \/ PushRunning(j)
  BY <1>p, <1>7 DEF Record, CommitBegin, CommitFails, Undo, PushRunning, Goto, Return,
     Entered
<1>8. CASE \E pod \in PodObject : ForgetPod(j, pod) \/ DeletePod(j, pod)
  BY <1>p, <1>8 DEF ForgetPod, DeletePod, DeleteDue, Goto, Entered
<1>9. CASE \/ Authorize(j) \/ PreserveClaim(j) \/ DeleteWithdraw(j) \/ DeleteSave(j)
           \/ DeleteSaved(j) \/ HandlerReleaseFails(j)
  BY <1>p, <1>9 DEF Authorize, PreserveClaim, DeleteWithdraw, DeleteSave, DeleteSaved,
     HandlerReleaseFails, Goto, Return, Entered
<1> QED BY <1>1, <1>2, <1>3, <1>4, <1>5, <1>6, <1>7, <1>8, <1>9 DEF Handler, Create, Delete

\* A handler gets to "committing" by CommitBegin.
LEMMA CommitEntered ==
    ASSUME TypeInv, NEW j \in Keys, Handler(j) \/ Verify(j), pc'[j] = "committing"
    PROVE  CommitBegin(j)
BY HandlerEnters DEF Entered

\* A handler with a fresh row records it, and one inside its commit ends the write.
LEMMA HandlerLeaves ==
    ASSUME TypeInv, NEW k \in Keys, Handler(k) \/ Verify(k), pc[k] \in {"record", "committing"}
    PROVE  \/ pc[k] = "record" /\ Record(k)
           \/ pc[k] = "committing" /\ (CommitLands(k) \/ CommitFails(k))
<1>1. CASE Verify(k)
  BY <1>1 DEF Verify, VerifySnapshot, VerifyNothing, VerifyDue, VerifyList,
     VerifyListFails, VerifyApply
<1>2. CASE Create(k)
  BY <1>2 DEF Create, CreatePod, UpdatePod, RetryCreate, UpdateDue, SyncDue,
     ExpiryDue, NotExpired, ExpiryList, ExpiryListFails, ExpirySettled, ExpiryRefresh,
     ExpiryDrop, AdoptNothing, Displace, Adopt, AdoptSave, AdoptSaved, StrandedFound,
     NoneStranded, StrandedRelease, ClaimGranted, ClaimFails, ClaimAnswerLost, Record,
     CommitBegin, CommitLands, CommitFails, Undo, PushRunning
<1>3. CASE Delete(k) \/ HandlerReleaseFails(k)
  BY <1>3 DEF Delete, ForgetPod, DeletePod, DeleteDue, Authorize, PreserveClaim,
     DeleteRelease, DeleteWithdraw, DeleteSave, DeleteSaved, HandlerReleaseFails
<1> QED BY <1>1, <1>2, <1>3 DEF Handler

\* Whatever happens to a row, its id stays.
LEMMA ClaimKeepsId ==
    ASSUME NEW c \in Claim
    PROVE  /\ \A d : [c EXCEPT !.deadline = d].id = c.id
           /\ \A o : [c EXCEPT !.owner = o].id = c.id
           /\ \A d : Vouched(c, d).id = c.id
           /\ \A pod : Adopted(c, pod).id = c.id
BY DEF Claim, Vouched, Adopted

\* A step of somebody else leaves the locals of handler j alone ...
LocalKept(j) ==
    /\ pc'[j] = pc[j] /\ arg'[j] = arg[j] /\ row'[j] = row[j]
    /\ snap'[j] = snap[j] /\ listed'[j] = listed[j]

\* ... and the row at its key.
RowKept(j) ==
    /\ claims'[j] = claims[j]
    /\ j \in tentative' <=> j \in tentative
    /\ j \in quarantined' <=> j \in quarantined

\* The steps of handler j, and those of the whole process.
Own(j) == Handler(j) \/ Verify(j) \/ New \/ Crash

\* A step of CreatePod at one key leaves the handler and the row of another alone.
LEMMA CreateElsewhere ==
    ASSUME TypeInv, NEW j \in Keys, NEW k \in Keys, k # j, Create(k)
    PROVE  LocalKept(j) /\ RowKept(j)
<1>p. /\ pc \in [Procs -> WorkerPCs \cup LoopPCs] /\ arg \in [Procs -> PodObject \cup {None}]
      /\ row \in [Procs -> Claim \cup {None}] /\ snap \in [Procs -> Rows]
      /\ listed \in [Procs -> SUBSET VMs] /\ claims \in Rows
  BY DEF TypeInv, TypeOK
<1> USE DEF LocalKept, RowKept, Goto, Return, Holds
<1>1. CASE \E p \in Pods : CreatePod(k, p) \/ UpdatePod(k, p) \/ RetryCreate(k, p)
  BY <1>p, <1>1 DEF CreatePod, UpdatePod, RetryCreate, EnterCreate
<1>2. CASE \/ ExpiryDue(k) \/ NotExpired(k) \/ ExpiryList(k) \/ ExpiryListFails(k)
           \/ ExpiryRefresh(k) \/ ExpiryDrop(k)
  BY <1>p, <1>2 DEF ExpiryDue, NotExpired, ExpiryList, ExpiryListFails, ExpirySettled,
     ExpiryRefresh, ExpiryDrop, RefreshDeadline, DropClaim
<1>3. CASE \/ AdoptNothing(k) \/ Displace(k) \/ Adopt(k) \/ AdoptSave(k) \/ AdoptSaved(k)
  BY <1>p, <1>3 DEF AdoptNothing, Displace, Adopt, AdoptSave, AdoptSaved
<1>4. CASE \/ StrandedFound(k) \/ NoneStranded(k) \/ StrandedRelease(k)
           \/ ClaimGranted(k) \/ ClaimFails(k) \/ ClaimAnswerLost(k)
  BY <1>p, <1>4 DEF StrandedFound, NoneStranded, StrandedRelease, ClaimGranted, ClaimFails,
     ClaimAnswerLost, WithdrawClaim, DropClaim
<1>5. CASE Record(k) \/ CommitBegin(k) \/ CommitLands(k) \/ CommitFails(k) \/ PushRunning(k)
  BY <1>p, <1>5 DEF Record, CommitBegin, CommitLands, CommitFails, PushRunning
<1>6. CASE Undo(k)
  BY <1>p, <1>6 DEF Undo, WithdrawClaim, DropClaim
<1> QED BY <1>1, <1>2, <1>3, <1>4, <1>5, <1>6 DEF Create

\* So does a step of DeletePod, or a failed release.
LEMMA DeleteElsewhere ==
    ASSUME TypeInv, NEW j \in Keys, NEW k \in Keys, k # j, Delete(k) \/ HandlerReleaseFails(k)
    PROVE  LocalKept(j) /\ RowKept(j)
<1>p. /\ pc \in [Procs -> WorkerPCs \cup LoopPCs] /\ arg \in [Procs -> PodObject \cup {None}]
      /\ row \in [Procs -> Claim \cup {None}] /\ snap \in [Procs -> Rows]
      /\ listed \in [Procs -> SUBSET VMs] /\ claims \in Rows
  BY DEF TypeInv, TypeOK
<1> USE DEF LocalKept, RowKept, Goto, Return, Holds
<1>1. CASE \E pod \in PodObject : ForgetPod(k, pod) \/ DeletePod(k, pod)
  BY <1>p, <1>1 DEF ForgetPod, DeletePod
<1>2. CASE Authorize(k) \/ PreserveClaim(k) \/ DeleteRelease(k) \/ DeleteWithdraw(k)
  BY <1>p, <1>2
     DEF Authorize, PreserveClaim, DeleteRelease, DeleteWithdraw, WithdrawClaim,
     DropClaim
<1>3. CASE DeleteSave(k) \/ DeleteSaved(k) \/ HandlerReleaseFails(k)
  BY <1>p, <1>3 DEF DeleteSave, DeleteSaved, HandlerReleaseFails
<1> QED BY <1>1, <1>2, <1>3 DEF Delete
-----------------------------------------------------------------------------
\* publishExpiredLeases keeps the types.
LEMMA LeaseType ==
    ASSUME TypeInv, LeaseWatch
    PROVE  TypeInv'
<1>rows. /\ QuarantinedRows \in Rows /\ LeaseCandidates \in Rows /\ Preserved \in Rows
         /\ \A x : Durable(x) \in Table
  BY RowsType
<1>push. \A p : \A v \in VMs, phase \in {"Running", "Failed"} : Pushed(p, phase, v)
           => status' \in [Pods -> [phase: {"none", "Running", "Failed"}, id: VMs \cup {None}]]
  BY PushType
<1> USE DEF TypeInv, TypeOK, InHand, ServesPod, PastVerify, WorksOnRow, WorkerPCs, LoopPCs
<1>1. CASE LeaseSnapshot
  BY <1>1, <1>rows DEF LeaseSnapshot, Goto
<1>2. CASE LeaseList
  BY <1>2 DEF LeaseList, Goto, Live
<1>3. CASE LeaseListFails
  BY <1>3 DEF LeaseListFails, Return, Goto
<1>4. CASE LeaseNotify
  <2>1. row["lease"] # None
    BY <1>4 DEF LeaseNotify
  <2>2. status' \in [Pods -> [phase: {"none", "Running", "Failed"}, id: VMs \cup {None}]]
    BY <1>4, <2>1, ClaimId, <1>push DEF LeaseNotify
  <2> QED BY <1>4, <2>2 DEF LeaseNotify, Goto
<1>5. CASE LeaseEnd
  BY <1>5 DEF LeaseEnd, Return, Goto
<1>6. ASSUME NEW k \in Keys, LeaseRefresh(k) PROVE TypeInv'
  BY <1>6, ClaimExcept DEF LeaseRefresh, RefreshDeadline, DropCandidate, Holds
<1>7. ASSUME NEW k \in Keys, LeaseConfirm(k) PROVE TypeInv'
  <2>1. TypeOK'
    BY <1>7
       DEF LeaseConfirm, DropCandidate, StillCandidate, ReapedCandidate, Holds, Goto
  <2>2. InHand'
    BY <1>7, ProcsAssumption
       DEF LeaseConfirm, DropCandidate, StillCandidate, ReapedCandidate,
       Holds, Goto
  <2> HIDE DEF TypeOK, InHand
  <2> QED BY <2>1, <2>2
<1>8. ASSUME NEW k \in Keys, LeaseSuperseded(k) PROVE TypeInv'
  BY <1>8 DEF LeaseSuperseded, DropCandidate, ReapedCandidate
<1> HIDE DEF TypeInv, TypeOK, InHand, ServesPod, PastVerify, WorksOnRow, WorkerPCs, LoopPCs
<1> QED BY <1>1, <1>2, <1>3, <1>4, <1>5, <1>6, <1>7, <1>8 DEF LeaseWatch

\* recheckOwners and drainReleases keep the types.
LEMMA RecheckType ==
    ASSUME TypeInv, OwnerRecheck
    PROVE  TypeInv'
<1>rows. /\ QuarantinedRows \in Rows /\ LeaseCandidates \in Rows /\ Preserved \in Rows
         /\ \A x : Durable(x) \in Table
  BY RowsType
<1>write. \A x : \A landed \in BOOLEAN : EndWrite(x, landed)
            => disk' \in Table /\ buf' \in Table /\ saveMu' \in Procs \cup {None}
  BY WriteType
<1>release. \A v : ReleaseLands(v) \/ ReleaseErrs(v)
              => vm' \in [VMs -> {"free", "live", "released", "gone"}]
  BY ReleaseType
<1> USE DEF TypeInv, TypeOK, InHand, ServesPod, PastVerify, WorksOnRow, WorkerPCs, LoopPCs
<1>1. CASE RecheckSnapshot
  BY <1>1, <1>rows DEF RecheckSnapshot, Goto
<1>2. CASE DrainSnapshot
  BY <1>2 DEF DrainSnapshot, Goto
<1>3. CASE DrainEnd
  BY <1>3 DEF DrainEnd, Goto
<1>4. CASE RecheckSaveBegin
  BY <1>4, <1>rows DEF RecheckSaveBegin, Goto, BeginWrite
<1>5. CASE RecheckSaveEnd
  <2>1. disk' \in Table /\ buf' \in Table /\ saveMu' \in Procs \cup {None}
    BY <1>5, <1>write DEF RecheckSaveEnd
  <2> QED BY <1>5, <2>1 DEF RecheckSaveEnd, Goto
<1>6. ASSUME NEW k \in Keys, RecheckNotDue(k) PROVE TypeInv'
  BY <1>6 DEF RecheckNotDue, DropCandidate
<1>7. ASSUME NEW k \in Keys, RecheckKeeps(k) PROVE TypeInv'
  BY <1>7 DEF RecheckKeeps, OwnerVerdict, DropCandidate
<1>8. ASSUME NEW k \in Keys, RecheckReleases(k) PROVE TypeInv'
  BY <1>8, NoneAssumption DEF RecheckReleases, OwnerVerdict, Goto
<1>9. ASSUME NEW k \in Keys, WithdrawForRelease(k) PROVE TypeInv'
  <2>1. TypeOK'
    BY <1>9, ClaimId DEF WithdrawForRelease, WithdrawDone, DropCandidate, Goto
  <2>2. InHand'
    BY <1>9, ProcsAssumption DEF WithdrawForRelease, WithdrawDone, DropCandidate, Goto
  <2> HIDE DEF TypeOK, InHand
  <2> QED BY <2>1, <2>2
<1>10. ASSUME NEW k \in Keys, WithdrawRefused(k) PROVE TypeInv'
  BY <1>10 DEF WithdrawRefused, WithdrawDone, DropCandidate, Goto
<1>11. ASSUME NEW v \in VMs, DrainRelease(v) PROVE TypeInv'
  BY <1>11, <1>release DEF DrainRelease
<1>12. ASSUME NEW v \in VMs, DrainReleaseFails(v) PROVE TypeInv'
  BY <1>12, <1>release DEF DrainReleaseFails
<1> HIDE DEF TypeInv, TypeOK, InHand, ServesPod, PastVerify, WorksOnRow, WorkerPCs, LoopPCs
<1> QED BY <1>1, <1>2, <1>3, <1>4, <1>5, <1>6, <1>7, <1>8, <1>9, <1>10, <1>11,
           <1>12 DEF OwnerRecheck

\* What happens around the provider keeps the types.
LEMMA EnvironmentType ==
    ASSUME TypeInv, Environment
    PROVE  TypeInv'
<1> USE DEF TypeInv, TypeOK, InHand, ServesPod, PastVerify, WorksOnRow, WorkerPCs, LoopPCs
<1>1. ASSUME NEW p \in Pods, PodBound(p) PROVE TypeInv'
  BY <1>1 DEF PodBound
<1>2. ASSUME NEW p \in Pods, PodTerminating(p) PROVE TypeInv'
  BY <1>2 DEF PodTerminating
<1>3. ASSUME NEW p \in Pods, PodRemoved(p) PROVE TypeInv'
  BY <1>3 DEF PodRemoved
<1>4. ASSUME NEW p \in Pods, NEW o \in Adopters, PodAdopted(p, o) PROVE TypeInv'
  BY <1>4, ConstantsAssumption DEF PodAdopted
<1>5. ASSUME NEW o \in Owners, OwnerEnds(o) PROVE TypeInv'
  BY <1>5, ConstantsAssumption DEF OwnerEnds
<1>6. ASSUME NEW v \in VMs, SandboxGone(v) PROVE TypeInv'
  BY <1>6 DEF SandboxGone
<1>7. CASE Tick
  BY <1>7 DEF Tick
<1> HIDE DEF TypeInv, TypeOK, InHand, ServesPod, PastVerify, WorksOnRow, WorkerPCs, LoopPCs
<1> QED BY <1>1, <1>2, <1>3, <1>4, <1>5, <1>6, <1>7 DEF Environment

\* Every step keeps the types.
LEMMA TypeStep ==
    ASSUME TypeInv, [Next]_vars
    PROVE  TypeInv'
<1>1. CASE UNCHANGED vars
  BY <1>1 DEF vars, TypeInv, TypeOK, InHand
<1>2. CASE Next
  BY <1>2, ProcessType, VerifyType, HandlerType, LeaseType, RecheckType, EnvironmentType
     DEF Next
<1> QED BY <1>1, <1>2

\* What the types say of the ids a step leaves behind.
LEMMA IdsAfter ==
    ASSUME TypeInv'
    PROVE  /\ \A k \in Keys : claims'[k] # None => claims'[k].id \in VMs
           /\ releasing' \subseteq VMs
           /\ \A k \in Keys : pc'[k] = "record" => row'[k].id \in VMs
BY ClaimId DEF TypeInv, TypeOK, InHand, WorksOnRow

\* What they say of the ids in hand.
LEMMA IdsBefore ==
    ASSUME TypeInv
    PROVE  \A a \in Procs : row[a] # None => row[a].id \in VMs
BY ClaimId DEF TypeInv, TypeOK

\* The types hold at every moment, for any constants: the shape of Provider
\* (provider.go) and of the goroutines' locals.
THEOREM TypeCorrect == Spec => []TypeOK
<1>1. TypeInv /\ [Next]_vars => TypeInv'
  BY TypeStep
<1>2. TypeInv => TypeOK
  BY DEF TypeInv
<1> QED BY <1>1, <1>2, InitType, PTL DEF Spec

\* The lease watch is about to publish the row it has confirmed.
LEMMA NotifyEntered ==
    ASSUME TypeInv, [Next]_vars, pc'["lease"] = "leaseNotify"
    PROVE  \/ \E k \in Keys : LeaseConfirm(k)
           \/ /\ pc["lease"] = "leaseNotify"
              /\ row'["lease"] = row["lease"] /\ arg'["lease"] = arg["lease"]
<1> DEFINE Stays == /\ pc["lease"] = "leaseNotify"
                    /\ row'["lease"] = row["lease"] /\ arg'["lease"] = arg["lease"]
<1>p. /\ pc \in [Procs -> WorkerPCs \cup LoopPCs] /\ row \in [Procs -> Claim \cup {None}]
      /\ arg \in [Procs -> PodObject \cup {None}]
      /\ "lease" \in Procs /\ "lease" \notin Keys
  BY ProcsAssumption DEF TypeInv, TypeOK
<1>1. CASE New \/ Crash \/ Environment \/ UNCHANGED vars
  BY <1>1 DEF New, Crash, Environment, PodBound, PodTerminating, PodRemoved, PodAdopted,
     OwnerEnds, SandboxGone, Tick, vars
<1>2. ASSUME NEW a \in Procs, Verify(a) PROVE Stays
  BY <1>p, <1>2 DEF Verify, VerifySnapshot, VerifyNothing, VerifyList, VerifyListFails,
     VerifyApply, AfterVerify, Goto, Return
<1>3. ASSUME NEW k \in Keys, Create(k) PROVE Stays
  BY <1>p, <1>3 DEF Create, CreatePod, UpdatePod, RetryCreate, EnterCreate,
     ExpiryDue, NotExpired, ExpiryList, ExpiryListFails, ExpirySettled, ExpiryRefresh,
     ExpiryDrop, AdoptNothing, Displace, Adopt, AdoptSave, AdoptSaved, StrandedFound,
     NoneStranded, StrandedRelease, ClaimGranted, ClaimFails, ClaimAnswerLost, Record,
     CommitBegin, CommitLands, CommitFails, Undo, PushRunning, Goto, Return
<1>4. ASSUME NEW k \in Keys, Delete(k) \/ HandlerReleaseFails(k) PROVE Stays
  BY <1>p, <1>4 DEF Delete, ForgetPod, DeletePod, Authorize, PreserveClaim,
     DeleteRelease, DeleteWithdraw, DeleteSave, DeleteSaved, HandlerReleaseFails, Goto, Return
<1>5. CASE LeaseWatch
  BY <1>p, <1>5 DEF LeaseWatch, LeaseSnapshot, LeaseList, LeaseListFails, LeaseNotify,
     LeaseEnd, LeaseRefresh, LeaseSuperseded, Goto, Return
<1>6. CASE OwnerRecheck
  BY <1>p, <1>6 DEF OwnerRecheck, RecheckSnapshot, DrainSnapshot, DrainEnd,
     RecheckSaveBegin, RecheckSaveEnd, RecheckNotDue, RecheckKeeps, RecheckReleases,
     WithdrawDone, WithdrawForRelease, WithdrawRefused, DrainRelease, DrainReleaseFails, Goto
<1> QED BY <1>1, <1>2, <1>3, <1>4, <1>5, <1>6 DEF Next, Handler

\* What a step does to the node, the pods' status and the lost sandboxes: nothing, a
\* crash, a claim, a push, or the end of one sandbox.
Inward == UNCHANGED <<vm, lost, status>>
Ends(v) ==
    /\ vm[v] = "live" /\ UNCHANGED <<disk, lost, status>>
    /\ \E s \in {"released", "gone"} : vm' = [vm EXCEPT ![v] = s]
Outward ==
    \/ Inward \/ Crash \/ LeaseNotify
    \/ \E k \in Keys : ClaimGranted(k) \/ ClaimAnswerLost(k) \/ PushRunning(k)
    \/ \E v \in VMs : Ends(v)

\* Every step is one of these.
LEMMA OutwardStep ==
    ASSUME TypeInv, [Next]_vars
    PROVE  Outward
<1>t. /\ vm \in [VMs -> {"free", "live", "released", "gone"}]
      /\ queue \subseteq VMs
      /\ \A k \in Keys : pc[k] \in {"strandedRelease", "undo", "release"} => row[k].id \in VMs
  BY ClaimId DEF TypeInv, TypeOK, InHand, WorksOnRow
<1>1. ASSUME NEW v \in VMs, ReleaseLands(v) \/ ReleaseErrs(v), UNCHANGED <<disk, lost, status>>
      PROVE  Outward
  <2>1. CASE ReleaseLands(v) /\ vm[v] = "live"
    BY <1>1, <2>1 DEF ReleaseLands, Outward, Ends
  <2>2. CASE UNCHANGED vm \/ (ReleaseLands(v) /\ vm[v] # "live")
    BY <1>t, <1>1, <2>2 DEF ReleaseLands, Outward, Inward
  <2> QED BY <1>1, <2>1, <2>2 DEF ReleaseErrs
<1>2. ASSUME NEW k \in Keys, Create(k) PROVE Outward
  <2>1. CASE StrandedRelease(k) \/ Undo(k)
    BY <1>t, <1>1, <2>1 DEF StrandedRelease, Undo
  <2> QED BY <1>2, <2>1 DEF Outward, Inward, Create, CreatePod, UpdatePod,
             RetryCreate, ExpiryDue, NotExpired, ExpiryList, ExpiryListFails, ExpirySettled,
             ExpiryRefresh, ExpiryDrop, AdoptNothing, Displace, Adopt, AdoptSave, AdoptSaved,
             StrandedFound, NoneStranded, ClaimFails, Record, CommitBegin, CommitLands,
             CommitFails
<1>3. ASSUME NEW k \in Keys, Delete(k) \/ HandlerReleaseFails(k) PROVE Outward
  <2>1. CASE DeleteRelease(k) \/ HandlerReleaseFails(k)
    BY <1>t, <1>1, <2>1 DEF DeleteRelease, HandlerReleaseFails
  <2> QED BY <1>3, <2>1 DEF Outward, Inward, Delete, ForgetPod, DeletePod, Authorize,
             PreserveClaim, DeleteWithdraw, DeleteSave, DeleteSaved
<1>4. ASSUME NEW a \in Procs, Verify(a) PROVE Outward
  BY <1>4 DEF Outward, Inward, Verify, VerifySnapshot, VerifyNothing, VerifyList,
     VerifyListFails, VerifyApply
<1>5. CASE LeaseWatch
  BY <1>5 DEF Outward, Inward, LeaseWatch, LeaseSnapshot, LeaseList,
     LeaseListFails, LeaseEnd, LeaseRefresh, LeaseConfirm, LeaseSuperseded
<1>6. CASE OwnerRecheck
  <2>1. ASSUME NEW v \in VMs, DrainRelease(v) \/ DrainReleaseFails(v) PROVE Outward
    BY <1>1, <2>1 DEF DrainRelease, DrainReleaseFails
  <2> QED BY <1>6, <2>1 DEF Outward, Inward, OwnerRecheck, RecheckSnapshot,
             DrainSnapshot, DrainEnd, RecheckSaveBegin, RecheckSaveEnd, RecheckNotDue,
             RecheckKeeps, RecheckReleases, WithdrawDone, WithdrawForRelease, WithdrawRefused
<1>7. CASE Environment
  <2>1. ASSUME NEW v \in VMs, SandboxGone(v) PROVE Outward
    BY <2>1 DEF SandboxGone, Outward, Ends
  <2> QED BY <1>7, <2>1 DEF Outward, Inward, Environment, PodBound, PodTerminating,
             PodRemoved, PodAdopted, OwnerEnds, Tick
<1>8. CASE New \/ UNCHANGED vars
  BY <1>8 DEF New, vars, Outward, Inward
<1> QED BY <1>2, <1>3, <1>4, <1>5, <1>6, <1>7, <1>8 DEF Next, Handler, Outward

\* A sandbox comes to life by a grant whose answer arrives, or is lost.
LEMMA Granting ==
    ASSUME TypeInv, [Next]_vars, NEW v \in VMs, vm'[v] = "live", vm[v] # "live"
    PROVE  /\ vm[v] = "free"
           /\ \E k \in Keys : \/ ClaimGranted(k) /\ row'[k].id = v
                              \/ ClaimAnswerLost(k) /\ v \in lost'
<1>t. vm \in [VMs -> {"free", "live", "released", "gone"}] /\ row \in [Procs -> Claim \cup {None}]
  BY DEF TypeInv, TypeOK
<1>1. ASSUME NEW k \in Keys, ClaimGranted(k) PROVE vm[v] = "free" /\ row'[k].id = v
  BY <1>t, <1>1 DEF ClaimGranted, FreshClaim
<1>2. ASSUME NEW k \in Keys, ClaimAnswerLost(k) PROVE vm[v] = "free" /\ v \in lost'
  BY <1>t, <1>2 DEF ClaimAnswerLost
<1>3. ~Inward /\ ~Crash /\ ~LeaseNotify /\ \A k \in Keys : ~PushRunning(k)
  BY DEF Inward, Crash, LeaseNotify, PushRunning
<1>4. \A w \in VMs : ~Ends(w)
  BY <1>t DEF Ends
<1>5. PICK k \in Keys : ClaimGranted(k) \/ ClaimAnswerLost(k)
  BY <1>3, <1>4, OutwardStep DEF Outward
<1> QED BY <1>1, <1>2, <1>5

\* A pod is told Running by CreatePod and Failed by the lease watch.
LEMMA Telling ==
    ASSUME TypeInv, [Next]_vars, NEW p \in Pods, status'[p] # status[p]
    PROVE  \/ \E k \in Keys : /\ PushRunning(k)
                              /\ status'[p] = [phase |-> "Running", id |-> row[k].id]
           \/ LeaseNotify /\ status'[p] = [phase |-> "Failed", id |-> row["lease"].id]
<1>1. ASSUME NEW k \in Keys, PushRunning(k)
      PROVE  status'[p] = [phase |-> "Running", id |-> row[k].id]
  BY <1>1 DEF PushRunning, Pushed, TypeInv, TypeOK
<1>2. ASSUME LeaseNotify PROVE status'[p] = [phase |-> "Failed", id |-> row["lease"].id]
  BY <1>2 DEF LeaseNotify, Pushed, TypeInv, TypeOK
<1>3. ~Inward /\ ~Crash /\ \A k \in Keys : ~ClaimGranted(k) /\ ~ClaimAnswerLost(k)
  BY DEF Inward, Crash, ClaimGranted, ClaimAnswerLost
<1>4. \A v \in VMs : ~Ends(v)
  BY DEF Ends
<1> QED BY <1>1, <1>2, <1>3, <1>4, OutwardStep DEF Outward

\* A sandbox once issued is never issued again, and does not come back to life.
NoRebirth ==
    \A v \in VMs : vm[v] # "free" => vm'[v] # "free" /\ (vm'[v] = "live" => vm[v] = "live")

\* sandboxd never takes an issued id back.
LEMMA Rebirth ==
    ASSUME TypeInv, [Next]_vars
    PROVE  NoRebirth
<1>t. vm \in [VMs -> {"free", "live", "released", "gone"}]
  BY DEF TypeInv, TypeOK
<1>1. CASE Inward \/ Crash \/ LeaseNotify \/ \E k \in Keys : PushRunning(k)
  BY <1>1 DEF NoRebirth, Inward, Crash, LeaseNotify, PushRunning
<1>2. ASSUME NEW k \in Keys, ClaimGranted(k) \/ ClaimAnswerLost(k) PROVE NoRebirth
  BY <1>t, <1>2 DEF NoRebirth, ClaimGranted, ClaimAnswerLost
<1>3. ASSUME NEW v \in VMs, Ends(v) PROVE NoRebirth
  BY <1>t, <1>3 DEF NoRebirth, Ends
<1> QED BY <1>1, <1>2, <1>3, OutwardStep DEF Outward

\* A pushed status names the sandbox v.
StatusOf(v) ==
    \A p \in Pods : status'[p].id = status[p].id \/ status'[p].id = v

\* A status is pushed for the row a goroutine has in hand, or not at all.
LEMMA StatusStep ==
    ASSUME TypeInv, [Next]_vars
    PROVE  \/ UNCHANGED status
           \/ \E a \in Procs : row[a] # None /\ StatusOf(row[a].id)
<1>1. ASSUME NEW k \in Keys, PushRunning(k) PROVE row[k] # None /\ StatusOf(row[k].id)
  BY <1>1 DEF PushRunning, Pushed, StatusOf, TypeInv, TypeOK, InHand, WorksOnRow
<1>2. CASE LeaseNotify
  BY <1>2 DEF LeaseNotify, Pushed, StatusOf, TypeInv, TypeOK, InHand
<1> QED BY <1>1, <1>2, OutwardStep DEF Outward, Inward, Crash, ClaimGranted,
           ClaimAnswerLost, Ends

\* A status names a sandbox or nothing.
LEMMA StatusIds ==
    ASSUME TypeInv
    PROVE  \A p \in Pods : status[p].id \in VMs \cup {None}
BY DEF TypeInv, TypeOK

\* A sandbox joins the release queue from a settled row only.
Queued(v) == \E k \in Keys : Holds(k, v) /\ (Displace(k) \/ WithdrawForRelease(k))

\* The queue changes at startup and in a crash, by a row that joins it and by a release.
QueueChange ==
    \/ UNCHANGED releasing \/ New \/ Crash
    \/ \E k \in Keys : Displace(k) \/ WithdrawForRelease(k)
    \/ \E v \in VMs : DrainRelease(v)

\* No other step touches the queue.
LEMMA QueueChanges ==
    ASSUME [Next]_vars
    PROVE  QueueChange
<1>1. ASSUME NEW a \in Procs, Verify(a) PROVE UNCHANGED releasing
  BY <1>1 DEF Verify, VerifySnapshot, VerifyNothing, VerifyList, VerifyListFails,
     VerifyApply
<1>2. ASSUME NEW k \in Keys, Create(k) PROVE UNCHANGED releasing \/ Displace(k)
  BY <1>2 DEF Create, CreatePod, UpdatePod, RetryCreate, ExpiryDue, NotExpired,
     ExpiryList, ExpiryListFails, ExpirySettled, ExpiryRefresh, ExpiryDrop, AdoptNothing,
     Adopt, AdoptSave, AdoptSaved, StrandedFound, NoneStranded, StrandedRelease, ClaimGranted,
     ClaimFails, ClaimAnswerLost, Record, CommitBegin, CommitLands, CommitFails, Undo,
     PushRunning
<1>3. ASSUME NEW k \in Keys, Delete(k) \/ HandlerReleaseFails(k) PROVE UNCHANGED releasing
  BY <1>3 DEF Delete, ForgetPod, DeletePod, Authorize, PreserveClaim, DeleteRelease,
     DeleteWithdraw, DeleteSave, DeleteSaved, HandlerReleaseFails
<1>4. ASSUME LeaseWatch PROVE UNCHANGED releasing
  BY <1>4 DEF LeaseWatch, LeaseSnapshot, LeaseList, LeaseListFails, LeaseNotify,
     LeaseEnd, LeaseRefresh, LeaseConfirm, LeaseSuperseded
<1>5. CASE OwnerRecheck
  BY <1>5 DEF QueueChange, OwnerRecheck, RecheckSnapshot, DrainSnapshot, DrainEnd,
     RecheckSaveBegin, RecheckSaveEnd, RecheckNotDue, RecheckKeeps, RecheckReleases,
     WithdrawDone, WithdrawRefused, DrainReleaseFails
<1>6. ASSUME Environment \/ UNCHANGED vars PROVE UNCHANGED releasing
  BY <1>6 DEF Environment, PodBound, PodTerminating, PodRemoved, PodAdopted, OwnerEnds,
     SandboxGone, Tick, vars
<1> QED BY <1>1, <1>2, <1>3, <1>4, <1>5, <1>6 DEF Next, Handler, QueueChange

\* A sandbox joins the release queue from a row at some key, or from the file.
LEMMA QueueStep ==
    ASSUME TypeInv, [Next]_vars, NEW v \in VMs, v \in releasing'
    PROVE  v \in releasing \/ New \/ Queued(v)
<1>1. ASSUME NEW k \in Keys, Displace(k) PROVE v \in releasing \/ Queued(v)
  BY <1>1 DEF Displace, Queued, Holds
<1>2. ASSUME NEW k \in Keys, WithdrawForRelease(k) PROVE v \in releasing \/ Queued(v)
  BY <1>2 DEF WithdrawForRelease, Withdrawable, Queued, Holds
<1>3. ASSUME NEW w \in VMs, DrainRelease(w) PROVE v \in releasing
  BY <1>3 DEF DrainRelease
<1> QED BY <1>1, <1>2, <1>3, QueueChanges DEF QueueChange, Crash

\* A queued sandbox leaves the queue only by its release.
LEMMA QueueKeepsLive ==
    ASSUME TypeInv, [Next]_vars, ~New, ~Crash, NEW v \in releasing, vm'[v] = "live"
    PROVE  v \in releasing'
<1>t. vm \in [VMs -> {"free", "live", "released", "gone"}] /\ v \in VMs
  BY DEF TypeInv, TypeOK
<1>1. ASSUME NEW w \in VMs, DrainRelease(w) PROVE v \in releasing'
  BY <1>t, <1>1 DEF DrainRelease, ReleaseLands
<1> QED BY <1>1, QueueChanges DEF QueueChange, Displace, WithdrawForRelease

\* The loops and the surroundings leave a handler's own locals alone.
LEMMA LoopsElsewhere ==
    ASSUME TypeInv, NEW j \in Keys,
           \/ \E a \in Procs : a # j /\ Verify(a)
           \/ LeaseWatch \/ OwnerRecheck \/ Environment \/ UNCHANGED vars
    PROVE  LocalKept(j)
<1>p. /\ pc \in [Procs -> WorkerPCs \cup LoopPCs] /\ arg \in [Procs -> PodObject \cup {None}]
      /\ row \in [Procs -> Claim \cup {None}] /\ snap \in [Procs -> Rows]
      /\ listed \in [Procs -> SUBSET VMs] /\ j \notin Loops
  BY ProcsAssumption DEF TypeInv, TypeOK
<1> USE DEF LocalKept, Goto, Return
<1>1. ASSUME NEW a \in Procs, a # j, Verify(a) PROVE LocalKept(j)
  BY <1>p, <1>1 DEF Verify, VerifySnapshot, VerifyNothing, VerifyList,
     VerifyListFails, VerifyApply
<1>2. CASE LeaseWatch
  BY <1>p, <1>2 DEF LeaseWatch, LeaseSnapshot, LeaseList, LeaseListFails,
     LeaseNotify, LeaseEnd, LeaseRefresh, LeaseConfirm, LeaseSuperseded, DropCandidate
<1>3. CASE OwnerRecheck
  BY <1>p, <1>3 DEF OwnerRecheck, RecheckSnapshot, DrainSnapshot, DrainEnd,
     RecheckSaveBegin, RecheckSaveEnd, RecheckNotDue, RecheckKeeps, RecheckReleases,
     WithdrawDone, WithdrawForRelease, WithdrawRefused, DrainRelease, DrainReleaseFails,
     DropCandidate
<1>4. CASE Environment
  BY <1>4 DEF Environment, PodBound, PodTerminating, PodRemoved, PodAdopted, OwnerEnds,
     SandboxGone, Tick
<1>5. CASE UNCHANGED vars
  BY <1>5 DEF vars
<1> QED BY <1>1, <1>2, <1>3, <1>4, <1>5

\* Only its own steps, a start and a crash change where a handler is and what it holds.
LEMMA Elsewhere ==
    ASSUME TypeInv, [Next]_vars, NEW j \in Keys, ~Own(j)
    PROVE  LocalKept(j)
BY CreateElsewhere, DeleteElsewhere, LoopsElsewhere DEF Next, Handler, Own

\* A handler reaches "record" by a grant, and then waits with its row in hand.
LEMMA RecordEntered ==
    ASSUME TypeInv, [Next]_vars, NEW j \in Keys, pc'[j] = "record"
    PROVE  ClaimGranted(j) \/ (pc[j] = "record" /\ row'[j] = row[j])
<1>1. CASE ~Own(j)
  BY <1>1, Elsewhere DEF LocalKept
<1>2. CASE Handler(j) \/ Verify(j)
  BY <1>2, HandlerEnters DEF Entered
<1>3. CASE New \/ Crash
  BY <1>3 DEF New, Crash
<1> QED BY <1>1, <1>2, <1>3 DEF Own

\* Nobody but the handler that took saveMu lets it go.
LEMMA LockStep ==
    ASSUME TypeInv, [Next]_vars, NEW j \in Keys, saveMu = j, ~Own(j)
    PROVE  saveMu' = j
<1>0. /\ \A a \in Procs, c \in Keys \cup {None} : ~BeginWrite(a, c)
      /\ \A a \in Procs, landed \in BOOLEAN : EndWrite(a, landed) => a = j
      /\ "recheck" # j /\ "recheck" \in Procs
  BY ProcsAssumption, NoneAssumption DEF BeginWrite, EndWrite
<1>1. ASSUME NEW a \in Procs, Verify(a) PROVE saveMu' = j
  BY <1>1 DEF Verify, VerifySnapshot, VerifyNothing, VerifyList, VerifyListFails, VerifyApply
<1>2. ASSUME NEW k \in Keys, k # j, Create(k) PROVE saveMu' = j
  BY <1>0, <1>2 DEF Create, CreatePod, UpdatePod, RetryCreate, ExpiryDue,
     NotExpired, ExpiryList, ExpiryListFails, ExpirySettled, ExpiryRefresh, ExpiryDrop,
     AdoptNothing, Displace, Adopt, AdoptSave, AdoptSaved, StrandedFound, NoneStranded,
     StrandedRelease, ClaimGranted, ClaimFails, ClaimAnswerLost, Record, CommitBegin,
     CommitLands, CommitFails, Undo, PushRunning
<1>3. ASSUME NEW k \in Keys, k # j, Delete(k) \/ HandlerReleaseFails(k) PROVE saveMu' = j
  BY <1>0, <1>3 DEF Delete, ForgetPod, DeletePod, Authorize, PreserveClaim,
     DeleteRelease, DeleteWithdraw, DeleteSave, DeleteSaved, HandlerReleaseFails
<1>4. CASE LeaseWatch
  BY <1>4 DEF LeaseWatch, LeaseSnapshot, LeaseList, LeaseListFails, LeaseNotify,
     LeaseEnd, LeaseRefresh, LeaseConfirm, LeaseSuperseded
<1>5. CASE OwnerRecheck
  BY <1>0, <1>5 DEF OwnerRecheck, RecheckSnapshot, DrainSnapshot, DrainEnd,
     RecheckSaveBegin, RecheckSaveEnd, RecheckNotDue, RecheckKeeps, RecheckReleases,
     WithdrawDone, WithdrawForRelease, WithdrawRefused, DrainRelease, DrainReleaseFails
<1>6. CASE Environment
  BY <1>6 DEF Environment, PodBound, PodTerminating, PodRemoved, PodAdopted, OwnerEnds,
     SandboxGone, Tick
<1>7. CASE UNCHANGED vars
  BY <1>7 DEF vars
<1> QED BY <1>1, <1>2, <1>3, <1>4, <1>5, <1>6, <1>7 DEF Next, Handler, Own
=============================================================================
