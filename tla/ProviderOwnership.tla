------------------------- MODULE ProviderOwnership --------------------------
(*****************************************************************************)
(* Whose sandbox it is: the rows the provider holds answer to their pod or   *)
(* to its controller, no sandbox passes from one party to another, and none  *)
(* is given up while its owner lives.  Proved for every value of the         *)
(* constants with which DeletePod is called for the pod that holds the row   *)
(* and the table of an older build is honest.  What DeletePod keeps to when  *)
(* it is called for any pod is proved for every value of the constants.      *)
(*****************************************************************************)
EXTENDS ProviderTracking

\* First-order and set reasoning first, then SMT.
USE ZenonT(5), SMTT(30), ZenonT(40)
USE DEF Rows, NoRows, Table, EmptyTable, Procs, Loops
USE DEF tableVars, fileVars, localVars, recheckVars, kubeVars, outside, beyond, inside

\* Two rows of one sandbox that tell the same of whose it is.
SameParty(c, d) ==
    c.id = d.id /\ c.podUID = d.podUID /\ c.authority = d.authority /\ c.owner = d.owner

\* Neither a refreshed nor a backfilled deadline changes whose row it is.
LEMMA DeadlineKeepsParty ==
    ASSUME NEW c \in Claim
    PROVE  /\ SameParty(c, c)
           /\ \A d : SameParty([c EXCEPT !.deadline = d], c)
           /\ \A d : SameParty(Vouched(c, d), c)
BY DEF SameParty, Vouched, Claim

\* The row at key j: kept up to its deadline, loaded, recorded, adopted or preserved.
RowAsWas(j) == claims[j] # None /\ SameParty(claims'[j], claims[j])

\* refreshDeadline leaves every row with its party.
LEMMA RefreshKeepsParty ==
    ASSUME TypeInv, NEW j \in Keys, NEW k \in Keys, NEW v, NEW d, RefreshDeadline(k, v, d),
           claims'[j] # None
    PROVE  RowAsWas(j)
<1>t. claims \in Rows
  BY DEF TypeInv, TypeOK
<1>1. claims[j] # None /\ (claims'[j] = claims[j] \/ claims'[j] = [claims[j] EXCEPT !.deadline = d])
  BY <1>t DEF RefreshDeadline, Holds
<1> QED BY <1>t, <1>1, DeadlineKeepsParty DEF RowAsWas

\* A withdrawn or a dropped row leaves the others alone.
LEMMA DropKeepsParty ==
    ASSUME TypeInv, NEW j \in Keys, NEW k \in Keys,
           claims' = claims \/ claims' = [claims EXCEPT ![k] = None], claims'[j] # None
    PROVE  RowAsWas(j)
<1>t. claims \in Rows
  BY DEF TypeInv, TypeOK
<1>1. claims[j] # None /\ claims'[j] = claims[j]
  BY <1>t
<1> QED BY <1>t, <1>1, DeadlineKeepsParty DEF RowAsWas

\* Every step that leaves a row at key j is one of these.
LEMMA ClaimsStep ==
    ASSUME TypeInv, [Next]_vars, NEW j \in Keys, claims'[j] # None
    PROVE  New \/ Record(j) \/ Adopt(j) \/ PreserveClaim(j) \/ RowAsWas(j)
<1>t. claims \in Rows
  BY DEF TypeInv, TypeOK
<1>0. ASSUME claims'[j] = claims[j] PROVE RowAsWas(j)
  BY <1>t, <1>0, DeadlineKeepsParty DEF RowAsWas
<1>1. ASSUME NEW a \in Procs, Verify(a) PROVE RowAsWas(j)
  <2>1. CASE VerifyApply(a)
    <3>1. PICK d \in [Keys -> Deadlines] :
             claims'[j] = IF j \notin Judged(a) THEN claims[j]
                          ELSE IF claims[j].id \in listed[a] THEN Vouched(claims[j], d[j])
                          ELSE None
      BY <2>1 DEF VerifyApply
    <3>2. claims[j] # None
      BY <3>1 DEF Judged, Holds
    <3> QED BY <1>t, <3>1, <3>2, DeadlineKeepsParty DEF RowAsWas
  <2> QED BY <1>0, <1>1, <2>1 DEF Verify, VerifySnapshot, VerifyNothing, VerifyList,
             VerifyListFails
<1>2. ASSUME NEW k \in Keys, Create(k) PROVE Record(j) \/ Adopt(j) \/ RowAsWas(j)
  <2>1. CASE ExpiryRefresh(k)
    BY <2>1, RefreshKeepsParty DEF ExpiryRefresh
  <2>2. CASE ExpiryDrop(k) \/ Displace(k) \/ StrandedRelease(k) \/ Undo(k)
    BY <2>2, DropKeepsParty DEF ExpiryDrop, Displace, StrandedRelease, Undo, WithdrawClaim,
       DropClaim
  <2>3. CASE Adopt(k) \/ Record(k)
    BY <1>t, <1>0, <2>3 DEF Adopt, Record
  <2> QED BY <1>0, <1>2, <2>1, <2>2, <2>3 DEF Create, CreatePod, UpdatePod, RetryCreate,
             ExpiryDue, NotExpired, ExpiryList, ExpiryListFails, AdoptNothing, AdoptSave,
             AdoptSaved, StrandedFound, NoneStranded, ClaimGranted, ClaimFails,
             ClaimAnswerLost, CommitBegin, CommitLands, CommitFails, PushRunning
<1>3. ASSUME NEW k \in Keys, Delete(k) \/ HandlerReleaseFails(k)
      PROVE  PreserveClaim(j) \/ RowAsWas(j)
  <2>1. CASE DeleteWithdraw(k)
    BY <2>1, DropKeepsParty DEF DeleteWithdraw, WithdrawClaim, DropClaim
  <2>2. CASE PreserveClaim(k)
    BY <1>t, <1>0, <2>2 DEF PreserveClaim
  <2> QED BY <1>0, <1>3, <2>1, <2>2 DEF Delete, ForgetPod, DeletePod, Authorize,
             DeleteRelease, DeleteSave, DeleteSaved, HandlerReleaseFails
<1>4. CASE LeaseWatch
  <2>1. ASSUME NEW k \in Keys, LeaseRefresh(k) PROVE RowAsWas(j)
    BY <2>1, RefreshKeepsParty DEF LeaseRefresh
  <2> QED BY <1>0, <1>4, <2>1 DEF LeaseWatch, LeaseSnapshot, LeaseList, LeaseListFails,
             LeaseNotify, LeaseEnd, LeaseConfirm, LeaseSuperseded
<1>5. CASE OwnerRecheck
  <2>1. ASSUME NEW k \in Keys, WithdrawForRelease(k) PROVE RowAsWas(j)
    BY <2>1, DropKeepsParty DEF WithdrawForRelease
  <2> QED BY <1>0, <1>5, <2>1 DEF OwnerRecheck, RecheckSnapshot, DrainSnapshot, DrainEnd,
             RecheckSaveBegin, RecheckSaveEnd, RecheckNotDue, RecheckKeeps, RecheckReleases,
             WithdrawRefused, DrainRelease, DrainReleaseFails
<1>6. CASE Environment \/ UNCHANGED vars
  BY <1>0, <1>6 DEF Environment, PodBound, PodTerminating, PodRemoved, PodAdopted, OwnerEnds,
     SandboxGone, Tick, vars
<1>7. CASE Crash
  BY <1>7 DEF Crash
<1> QED BY <1>1, <1>2, <1>3, <1>4, <1>5, <1>6, <1>7 DEF Next, Handler

\* The bytes of a write are those in flight, none, or a snapshot of the table.
LEMMA BytesStep ==
    ASSUME [Next]_vars
    PROVE  buf' = buf \/ buf' = EmptyTable \/ \E c : buf' = Durable(c)
<1> DEFINE Goal == buf' = buf \/ buf' = EmptyTable \/ \E c : buf' = Durable(c)
<1>1. ASSUME NEW a, NEW c, BeginWrite(a, c) PROVE Goal
  BY <1>1 DEF BeginWrite
<1>2. ASSUME NEW a, NEW landed, EndWrite(a, landed) PROVE Goal
  BY <1>2 DEF EndWrite
<1>3. ASSUME buf' = buf PROVE Goal
  BY <1>3
<1> SUFFICES Goal
  OBVIOUS
<1> HIDE DEF Goal
<1>4. CASE Crash
  BY <1>4 DEF Crash, Goal
<1>5. ASSUME NEW k \in Keys, Create(k) PROVE Goal
  <2>1. CASE AdoptSave(k) \/ CommitBegin(k)
    BY <1>1, <2>1 DEF AdoptSave, CommitBegin
  <2>2. CASE AdoptSaved(k) \/ CommitLands(k) \/ CommitFails(k)
    BY <1>2, <2>2 DEF AdoptSaved, CommitLands, CommitFails
  <2> QED BY <1>3, <1>5, <2>1, <2>2 DEF Create, CreatePod, UpdatePod, RetryCreate,
             ExpiryDue, NotExpired, ExpiryList, ExpiryListFails, ExpirySettled, ExpiryRefresh,
             ExpiryDrop, AdoptNothing, Displace, Adopt, StrandedFound, NoneStranded,
             StrandedRelease, ClaimGranted, ClaimFails, ClaimAnswerLost, Record, Undo,
             PushRunning
<1>6. ASSUME NEW k \in Keys, Delete(k) \/ HandlerReleaseFails(k) PROVE Goal
  BY <1>1, <1>2, <1>3, <1>6 DEF Delete, ForgetPod, DeletePod, Authorize, PreserveClaim,
     DeleteRelease, DeleteWithdraw, DeleteSave, DeleteSaved, HandlerReleaseFails
<1>7. CASE OwnerRecheck
  <2>1. CASE RecheckSaveBegin \/ RecheckSaveEnd
    BY <1>1, <1>2, <2>1 DEF RecheckSaveBegin, RecheckSaveEnd
  <2> QED BY <1>3, <1>7, <2>1 DEF OwnerRecheck, RecheckSnapshot, DrainSnapshot, DrainEnd,
             RecheckNotDue, RecheckKeeps, RecheckReleases, WithdrawDone, WithdrawForRelease,
             WithdrawRefused, DrainRelease, DrainReleaseFails
<1>8. CASE \/ LeaseWatch \/ New \/ Environment \/ UNCHANGED vars \/ \E a \in Procs : Verify(a)
  BY <1>3, <1>8 DEF LeaseWatch, LeaseSnapshot, LeaseList, LeaseListFails, LeaseNotify,
     LeaseEnd, LeaseRefresh, LeaseConfirm, LeaseSuperseded, New, Environment, PodBound,
     PodTerminating, PodRemoved, PodAdopted, OwnerEnds, SandboxGone, Tick, vars,
     Verify, VerifySnapshot, VerifyNothing, VerifyList, VerifyListFails, VerifyApply
<1> QED BY <1>4, <1>5, <1>6, <1>7, <1>8 DEF Next, Handler

\* A row comes into a goroutine's hands from the table, from a copy, or with a fresh claim.
LEMMA HandStep ==
    ASSUME TypeInv, [Next]_vars, NEW a \in Procs, row'[a] # None
    PROVE  \/ row'[a] = row[a]
           \/ \E k \in Keys : row'[a] = claims[k] \/ row'[a] = snap["lease"][k]
           \/ a \in Keys /\ ClaimGranted(a)
           \/ a \in Keys /\ Adopt(a) /\ row'[a] = claims'[a]
<1>t. /\ row \in [Procs -> Claim \cup {None}] /\ "lease" \in Procs /\ "lease" \notin Keys
      /\ Keys \subseteq Procs
  BY ProcsAssumption DEF TypeInv, TypeOK
<1> DEFINE Goal == \/ row'[a] = row[a]
                   \/ \E k \in Keys : row'[a] = claims[k] \/ row'[a] = snap["lease"][k]
                   \/ a \in Keys /\ ClaimGranted(a)
                   \/ a \in Keys /\ Adopt(a) /\ row'[a] = claims'[a]
<1>0. ASSUME row'[a] = row[a] PROVE Goal
  BY <1>0
<1>1. ASSUME NEW b \in Procs, row' = [row EXCEPT ![b] = None] PROVE Goal
  BY <1>t, <1>1
<1>2. ASSUME NEW b \in Procs, NEW k \in Keys, row' = [row EXCEPT ![b] = claims[k]] PROVE Goal
  BY <1>t, <1>2
<1>3. ASSUME NEW k \in Keys, Adopt(k) PROVE Goal
  <2>1. row' = [row EXCEPT ![k] = claims'[k]]
    BY <1>3 DEF Adopt
  <2> QED BY <1>t, <1>3, <2>1
<1>4. ASSUME NEW k \in Keys, ClaimGranted(k) PROVE Goal
  <2>1. a # k => row'[a] = row[a]
    BY <1>t, <1>4 DEF ClaimGranted
  <2> QED BY <1>4, <2>1
<1>5. ASSUME NEW k \in Keys, LeaseConfirm(k) PROVE Goal
  BY <1>t, <1>5 DEF LeaseConfirm
<1> SUFFICES Goal
  OBVIOUS
<1> HIDE DEF Goal
<1>6. CASE Crash
  BY <1>6 DEF Crash
<1>7. ASSUME NEW b \in Procs, Verify(b) PROVE Goal
  BY <1>0, <1>1, <1>7 DEF Verify, VerifySnapshot, VerifyNothing, VerifyList,
     VerifyListFails, VerifyApply, Return
<1>8. ASSUME NEW k \in Keys, Create(k) PROVE Goal
  <2>1. CASE \/ ExpiryListFails(k) \/ ExpiryRefresh(k) \/ ExpiryDrop(k) \/ StrandedRelease(k)
             \/ ClaimFails(k) \/ ClaimAnswerLost(k) \/ Undo(k) \/ PushRunning(k)
    BY <1>t, <1>1, <2>1 DEF ExpiryListFails, ExpiryRefresh, ExpiryDrop, ExpirySettled,
       StrandedRelease, ClaimFails, ClaimAnswerLost, Undo, PushRunning, Return
  <2>2. CASE ExpiryDue(k) \/ StrandedFound(k)
    BY <1>t, <1>2, <2>2 DEF ExpiryDue, StrandedFound
  <2> QED BY <1>0, <1>3, <1>4, <1>8, <2>1, <2>2 DEF Create, CreatePod, UpdatePod,
             RetryCreate, NotExpired, ExpiryList, AdoptNothing, Displace, AdoptSave,
             AdoptSaved, NoneStranded, Record, CommitBegin, CommitLands, CommitFails
<1>9. ASSUME NEW k \in Keys, Delete(k) \/ HandlerReleaseFails(k) PROVE Goal
  BY <1>t, <1>0, <1>1, <1>2, <1>9 DEF Delete, ForgetPod, DeletePod, Authorize, PreserveClaim,
     DeleteRelease, DeleteWithdraw, DeleteSave, DeleteSaved, HandlerReleaseFails, Return
<1>10. CASE LeaseWatch
  <2>1. CASE LeaseListFails \/ LeaseNotify \/ LeaseEnd
    BY <1>t, <1>1, <2>1 DEF LeaseListFails, LeaseNotify, LeaseEnd, Return
  <2> QED BY <1>0, <1>5, <1>10, <2>1 DEF LeaseWatch, LeaseSnapshot, LeaseList, LeaseRefresh,
             LeaseSuperseded
<1>11. CASE OwnerRecheck
  BY <1>0, <1>11 DEF OwnerRecheck, RecheckSnapshot, DrainSnapshot, DrainEnd,
     RecheckSaveBegin, RecheckSaveEnd, RecheckNotDue, RecheckKeeps, RecheckReleases,
     WithdrawDone, WithdrawForRelease, WithdrawRefused, DrainRelease, DrainReleaseFails
<1>12. CASE New \/ Environment \/ UNCHANGED vars
  BY <1>0, <1>12 DEF New, Environment, PodBound, PodTerminating, PodRemoved, PodAdopted,
     OwnerEnds, SandboxGone, Tick, vars
<1> QED BY <1>6, <1>7, <1>8, <1>9, <1>10, <1>11, <1>12 DEF Next, Handler

\* A row that was there, up to its deadline, and a row a step makes.
WasHeld(c) == \E d \in RowsHeld : SameParty(c, d)
Preserves(c, pod) == [c EXCEPT !.owner = pod.owner]
Made(c) ==
    \E k \in Keys :
        \/ ClaimGranted(k) /\ c = row'[k]
        \/ Adopt(k) /\ c = Adopted(claims[k], arg[k])
        \/ PreserveClaim(k) /\ claims[k] # None /\ c = Preserves(claims[k], arg[k])

\* What holds a row.
LEMMA Holding ==
    ASSUME TypeInv
    PROVE  /\ RowsHeld \subseteq Claim
           /\ \A k \in Keys : claims[k] # None => claims[k] \in RowsHeld
           /\ \A k \in Keys : disk.claims[k] # None => disk.claims[k] \in RowsHeld
           /\ \A k \in Keys : buf.claims[k] # None => buf.claims[k] \in RowsHeld
           /\ \A a \in Procs : row[a] # None => row[a] \in RowsHeld
           /\ \A a \in Procs, k \in Keys : snap[a][k] # None => snap[a][k] \in RowsHeld
           /\ \A c \in RowsHeld : WasHeld(c)
<1>1. RowsHeld \subseteq Claim
  BY DEF RowsHeld, TypeInv, TypeOK
<1>2. \A c \in RowsHeld : WasHeld(c)
  BY <1>1, DeadlineKeepsParty DEF WasHeld
<1> QED BY <1>1, <1>2 DEF RowsHeld

\* The row at a key after a step.
LEMMA TableRow ==
    ASSUME TypeInv, TypeInv', [Next]_vars, NEW j \in Keys, claims'[j] # None
    PROVE  WasHeld(claims'[j]) \/ Made(claims'[j])
<1>t. /\ claims \in Rows /\ disk \in Table /\ row \in [Procs -> Claim \cup {None}] /\ j \in Procs
  BY DEF TypeInv, TypeOK
<1>1. CASE New
  <2>1. PICK d \in [Keys -> Deadlines], canList \in BOOLEAN : claims' = LoadedRows(canList, d)
    BY <1>1 DEF New
  <2>2. disk.claims[j] # None
        /\ (claims'[j] = disk.claims[j] \/ claims'[j] = Vouched(disk.claims[j], d[j]))
    BY <2>1 DEF LoadedRows
  <2> QED BY <1>t, <2>2, Holding, DeadlineKeepsParty DEF WasHeld
<1>2. CASE Record(j)
  <2>1. claims'[j] = row[j]
    BY <1>t, <1>2 DEF Record
  <2> QED BY <1>t, <2>1, Holding
<1>3. CASE Adopt(j)
  <2>1. claims'[j] = Adopted(claims[j], arg[j])
    BY <1>t, <1>3 DEF Adopt
  <2> QED BY <1>3, <2>1 DEF Made
<1>4. CASE PreserveClaim(j)
  <2>1. claims[j] # None
    BY <1>t, <1>4 DEF PreserveClaim, Holds
  <2>2. claims'[j] = claims[j] \/ claims'[j] = Preserves(claims[j], arg[j])
    BY <1>t, <1>4 DEF PreserveClaim, Preserves
  <2> QED BY <1>4, <2>1, <2>2, Holding DEF Made
<1>5. CASE RowAsWas(j)
  BY <1>5, Holding DEF RowAsWas, WasHeld
<1> QED BY <1>1, <1>2, <1>3, <1>4, <1>5, ClaimsStep

\* Every row the provider has after a step was there before, or is the one the step made.
LEMMA RowsStep ==
    ASSUME TypeInv, [Next]_vars, NEW c \in RowsHeld'
    PROVE  WasHeld(c) \/ Made(c)
<1>t. TypeInv'
  BY TypeStep
<1>1. ASSUME NEW j \in Keys, c = claims'[j] PROVE WasHeld(c) \/ Made(c)
  BY <1>t, <1>1, TableRow DEF RowsHeld
<1>n. c # None
  BY DEF RowsHeld
<1>2. ASSUME NEW j \in Keys, c = disk'.claims[j] PROVE WasHeld(c) \/ Made(c)
  <2>1. CASE New
    <3>1. disk'.claims[j] = claims'[j]
      BY <2>1 DEF New
    <3> QED BY <1>1, <1>2, <3>1
  <2> QED BY <1>n, <1>2, <2>1, WriterSteps, Holding DEF FileStep
<1>3. ASSUME NEW j \in Keys, c = buf'.claims[j] PROVE WasHeld(c) \/ Made(c)
  <2>1. buf'.claims[j] = buf.claims[j] \/ buf'.claims[j] = None \/ buf'.claims[j] = claims[j]
    BY BytesStep DEF Durable
  <2> QED BY <1>n, <1>3, <2>1, Holding
<1>4. ASSUME NEW a \in Procs, c = row'[a] PROVE WasHeld(c) \/ Made(c)
  <2>1. CASE a \in Keys /\ Adopt(a) /\ row'[a] = claims'[a]
    BY <1>1, <1>4, <2>1
  <2>2. CASE a \in Keys /\ ClaimGranted(a)
    BY <1>4, <2>2 DEF Made
  <2> QED BY <1>n, <1>4, <2>1, <2>2, HandStep, Holding
<1>5. ASSUME NEW a \in Procs, NEW j \in Keys, c = snap'[a][j] PROVE WasHeld(c) \/ Made(c)
  BY <1>n, <1>5, CopyStep, Holding
<1> QED BY <1>1, <1>2, <1>3, <1>4, <1>5 DEF RowsHeld

\* A controller, once there, stays, a pod on its way out gets none, and an owner that has
\* ended stays so.
OwnersForward ==
    /\ \A p \in Pods : controller[p] # None \/ kube[p] # "bound" => controller'[p] = controller[p]
    /\ \A o \in Owners : ownerState[o] # "alive" => ownerState'[o] # "alive"

\* The surroundings see to it.
LEMMA OwnersStep ==
    ASSUME TypeInv, [Next]_vars
    PROVE  OwnersForward
<1>t. controller \in [Pods -> Owners \cup {None}] /\ ownerState \in [Owners -> OwnerStates]
  BY DEF TypeInv, TypeOK
<1>0. CASE UNCHANGED <<controller, ownerState>>
  BY <1>0 DEF OwnersForward
<1>1. ASSUME NEW p \in Pods, NEW o \in Adopters, PodAdopted(p, o) PROVE OwnersForward
  BY <1>t, <1>1 DEF PodAdopted, OwnersForward
<1>2. ASSUME NEW o \in Owners, OwnerEnds(o) PROVE OwnersForward
  BY <1>t, <1>2, ConstantsAssumption DEF OwnerEnds, OwnersForward
<1>3. CASE Environment
  BY <1>0, <1>1, <1>2, <1>3 DEF Environment, PodBound, PodTerminating, PodRemoved,
     SandboxGone, Tick
<1> QED BY <1>0, <1>3, KubeElsewhere

\* A row's party, by the fields that tell it.
LEMMA PartyOfRow ==
    ASSUME TypeInv, NEW c \in Claim
    PROVE  /\ AnswersTo(c) \in Pods \cup Owners \cup {None} /\ c.podUID \in Pods /\ c.id \in VMs
           /\ controller[c.podUID] \in Owners \cup {None}
           /\ c.owner \in Owners \cup {None}
BY DEF Claim, AnswersTo, TypeInv, TypeOK

\* The party of a pod: itself, or its controller.
LEMMA PartyOfPod ==
    ASSUME TypeInv, NEW p \in Pods
    PROVE  /\ controller[p] = None => PartyOf(p) = p
           /\ controller[p] # None => PartyOf(p) = controller[p] /\ controller[p] \in Owners
BY DEF PartyOf, PodInKube, AuthorityOf, TypeInv, TypeOK

\* Pods of one party stay pods of one party: a bare pod is a party of its own, and an owner
\* does not change.
LEMMA PartyStep ==
    ASSUME TypeInv, [Next]_vars, NEW p \in Pods, NEW q \in Pods, PartyOf(p) = PartyOf(q)
    PROVE  PartyOf(p)' = PartyOf(q)'
<1>1. CASE controller[p] = None \/ controller[q] = None
  <2>1. p = q
    BY <1>1, PartyOfPod, UIDAssumption
  <2> QED BY <2>1
<1>2. CASE controller[p] # None /\ controller[q] # None
  <2>1. controller'[p] = controller[p] /\ controller'[q] = controller[q]
    BY <1>2, OwnersStep DEF OwnersForward
  <2>2. controller[p] = controller[q]
    BY <1>2, PartyOfPod
  <2> QED BY <1>2, <2>1, <2>2 DEF PartyOf, PodInKube, AuthorityOf
<1> QED BY <1>1, <1>2

\* Honesty outlasts an adoption of the pod by a controller.
LEMMA HonestStays ==
    ASSUME TypeInv, [Next]_vars
    PROVE  /\ \A c, d \in Claim : SameParty(c, d) /\ HonestRow(d) => HonestRow(c)'
           /\ \A pod \in PodObject : HonestPod(pod) => HonestPod(pod)'
<1>o. OwnersForward
  BY OwnersStep
<1>1. ASSUME NEW c \in Claim, NEW d \in Claim, SameParty(c, d), HonestRow(d) PROVE HonestRow(c)'
  <2>1. /\ AnswersTo(c) = AnswersTo(d) /\ c.podUID = d.podUID /\ c.id = d.id /\ d.podUID \in Pods
    BY <1>1, PartyOfRow DEF SameParty, AnswersTo
  <2> QED BY <1>o, <1>1, <2>1 DEF HonestRow, OwnersForward
<1>2. ASSUME NEW pod \in PodObject, HonestPod(pod) PROVE HonestPod(pod)'
  BY <1>o, <1>2, PodOwner DEF HonestPod, OwnersForward
<1> QED BY <1>1, <1>2

\* What a row made for an honest pod answers to.
LEMMA RowOfPod ==
    ASSUME TypeInv, NEW pod \in PodObject, HonestPod(pod), NEW c \in Claim,
           c.podUID = pod.uid, AnswersTo(c) = AuthorityOf(pod)
    PROVE  HonestRow(c) /\ OwnerInHand(c, pod) /\ AnswersTo(c) # None
<1>1. pod.uid \in Pods /\ pod.owner \in Owners \cup {None}
  BY PodOwner
<1>2. CASE pod.owner = None
  BY <1>1, <1>2, UIDAssumption, NoneAssumption DEF HonestRow, OwnerInHand, AuthorityOf
<1>3. CASE pod.owner # None
  BY <1>1, <1>3 DEF HonestRow, OwnerInHand, AuthorityOf, HonestPod
<1> QED BY <1>2, <1>3

\* A pod that may adopt an honest row is of the row's party.
LEMMA AdoptsOwn ==
    ASSUME TypeInv, NEW pod \in PodObject, HonestPod(pod), NEW c \in Claim, HonestRow(c),
           AdoptableBy(c, pod), AnswersTo(c) # None
    PROVE  /\ PartyOf(pod.uid) = PartyOf(c.podUID)
           /\ pod.uid = c.podUID \/ controller[pod.uid] = controller[c.podUID]
<1>1. /\ pod.uid \in Pods /\ pod.owner \in Owners \cup {None} /\ c.podUID \in Pods
      /\ controller[c.podUID] \in Owners \cup {None}
  BY PodOwner, PartyOfRow
<1>2. CASE c.podUID = pod.uid
  BY <1>2
<1>3. CASE c.podUID # pod.uid
  <2>1. AnswersTo(c) = AuthorityOf(pod)
    BY <1>3 DEF AdoptableBy
  <2>2. pod.owner # None
    BY <1>1, <1>3, <2>1, UIDAssumption, NoneAssumption DEF AuthorityOf, HonestRow
  <2>3. AnswersTo(c) = pod.owner /\ AnswersTo(c) = controller[c.podUID]
    BY <1>1, <2>1, <2>2, UIDAssumption DEF AuthorityOf, HonestRow
  <2>4. controller[pod.uid] = pod.owner
    BY <2>2 DEF HonestPod
  <2> QED BY <1>1, <2>2, <2>3, <2>4, PartyOfPod
<1> QED BY <1>2, <1>3

\* A pod object comes into a goroutine's hands from the apiserver or from GetPod's copy.
LEMMA ArgStep ==
    ASSUME TypeInv, [Next]_vars, NEW a \in Procs, arg'[a] # None
    PROVE  \/ arg'[a] = arg[a]
           \/ \E p \in Pods : arg'[a] = PodInKube(p)
           \/ \E k \in Keys : arg'[a] = pods[k]
<1>t. arg \in [Procs -> PodObject \cup {None}] /\ "lease" \in Procs /\ Keys \subseteq Procs
  BY DEF TypeInv, TypeOK
<1> DEFINE Goal == \/ arg'[a] = arg[a]
                   \/ \E p \in Pods : arg'[a] = PodInKube(p)
                   \/ \E k \in Keys : arg'[a] = pods[k]
<1>0. ASSUME arg'[a] = arg[a] PROVE Goal
  BY <1>0
<1>1. ASSUME NEW b \in Procs, arg' = [arg EXCEPT ![b] = None] PROVE Goal
  BY <1>t, <1>1
<1>2. ASSUME NEW b \in Procs, NEW p \in Pods, arg' = [arg EXCEPT ![b] = PodInKube(p)] PROVE Goal
  BY <1>t, <1>2
<1>3. ASSUME NEW b \in Procs, NEW k \in Keys, arg' = [arg EXCEPT ![b] = pods[k]] PROVE Goal
  BY <1>t, <1>3
<1> SUFFICES Goal
  OBVIOUS
<1> HIDE DEF Goal
<1>4. CASE Crash
  BY <1>4 DEF Crash
<1>5. ASSUME NEW b \in Procs, Verify(b) PROVE Goal
  BY <1>0, <1>1, <1>5 DEF Verify, VerifySnapshot, VerifyNothing, VerifyList,
     VerifyListFails, VerifyApply, Return
<1>6. ASSUME NEW k \in Keys, Create(k) PROVE Goal
  <2>1. CASE \/ ExpiryListFails(k) \/ ClaimFails(k) \/ ClaimAnswerLost(k) \/ Undo(k)
             \/ PushRunning(k)
    BY <1>t, <1>1, <2>1 DEF ExpiryListFails, ClaimFails, ClaimAnswerLost, Undo, PushRunning,
       Return
  <2>2. ASSUME NEW p \in Pods, CreatePod(k, p) \/ RetryCreate(k, p) PROVE Goal
    BY <1>t, <1>2, <2>2 DEF CreatePod, RetryCreate, EnterCreate
  <2> QED BY <1>0, <1>6, <2>1, <2>2 DEF Create, UpdatePod, ExpiryDue, NotExpired, ExpiryList,
             ExpirySettled, ExpiryRefresh, ExpiryDrop, AdoptNothing, Displace, Adopt,
             AdoptSave, AdoptSaved, StrandedFound, NoneStranded, StrandedRelease,
             ClaimGranted, Record, CommitBegin, CommitLands, CommitFails
<1>7. ASSUME NEW k \in Keys, Delete(k) \/ HandlerReleaseFails(k) PROVE Goal
  <2>1. ASSUME NEW pod \in PodObject, DeletePod(k, pod) PROVE Goal
    <3>1. (pod = PodInKube(pod.uid) /\ pod.uid \in Pods) \/ pod = pods[k]
      BY <2>1, PodOwner DEF DeletePod, DeleteDue
    <3>2. arg' = [arg EXCEPT ![k] = pod] /\ k \in Procs
      BY <2>1, <1>t DEF DeletePod
    <3> QED BY <1>2, <1>3, <3>1, <3>2
  <2>2. CASE DeleteSaved(k) \/ HandlerReleaseFails(k)
    BY <1>t, <1>1, <2>2 DEF DeleteSaved, HandlerReleaseFails, Return
  <2> QED BY <1>0, <1>7, <2>1, <2>2 DEF Delete, ForgetPod, Authorize, PreserveClaim,
             DeleteRelease, DeleteWithdraw, DeleteSave
<1>8. CASE LeaseWatch
  <2>1. CASE LeaseListFails \/ LeaseNotify \/ LeaseEnd
    BY <1>t, <1>1, <2>1 DEF LeaseListFails, LeaseNotify, LeaseEnd, Return
  <2>2. ASSUME NEW k \in Keys, LeaseConfirm(k) PROVE Goal
    BY <1>t, <1>3, <2>2 DEF LeaseConfirm
  <2> QED BY <1>0, <1>8, <2>1, <2>2 DEF LeaseWatch, LeaseSnapshot, LeaseList, LeaseRefresh,
             LeaseSuperseded
<1>9. CASE OwnerRecheck
  BY <1>0, <1>9 DEF OwnerRecheck, RecheckSnapshot, DrainSnapshot, DrainEnd,
     RecheckSaveBegin, RecheckSaveEnd, RecheckNotDue, RecheckKeeps, RecheckReleases,
     WithdrawDone, WithdrawForRelease, WithdrawRefused, DrainRelease, DrainReleaseFails
<1>10. CASE New \/ Environment \/ UNCHANGED vars
  BY <1>0, <1>10 DEF New, Environment, PodBound, PodTerminating, PodRemoved, PodAdopted,
     OwnerEnds, SandboxGone, Tick, vars
<1> QED BY <1>4, <1>5, <1>6, <1>7, <1>8, <1>9, <1>10 DEF Next, Handler

\* The row a step makes is honest; it names a fresh sandbox, or one of its own party.
SameOwners(c) ==
    \E d \in RowsHeld :
        d.id = c.id /\ (c.id \notin LegacyVMs => PartyOf(c.podUID) = PartyOf(d.podUID))

\* The row of a grant, an adoption or a preserve.
LEMMA MadeHonest ==
    ASSUME TypeInv, AllHonest, DeletesOwn, NEW c \in Claim, Made(c)
    PROVE  /\ HonestRow(c)
           /\ SameOwners(c) \/ \E k \in Keys : ClaimGranted(k) /\ c = row'[k]
<1>t. /\ claims \in Rows /\ row \in [Procs -> Claim \cup {None}]
      /\ arg \in [Procs -> PodObject \cup {None}]
      /\ \A k \in Keys : pc[k] \in ServesPod => arg[k] \in PodObject /\ HonestPod(arg[k])
  BY DEF TypeInv, TypeOK, InHand, AllHonest
<1>1. ASSUME NEW k \in Keys, ClaimGranted(k), c = row'[k] PROVE HonestRow(c)
  <2>1. arg[k] \in PodObject /\ HonestPod(arg[k])
    BY <1>t, <1>1 DEF ClaimGranted, ServesPod, PastVerify
  <2>2. PICK v \in VMs, d \in Deadlines : c = FreshClaim(v, arg[k], d)
    BY <1>t, <1>1 DEF ClaimGranted
  <2>3. c.podUID = arg[k].uid /\ AnswersTo(c) = AuthorityOf(arg[k])
    BY <2>2 DEF FreshClaim, AnswersTo
  <2> QED BY <2>1, <2>3, RowOfPod
<1>2. ASSUME NEW k \in Keys, Adopt(k), c = Adopted(claims[k], arg[k])
      PROVE  HonestRow(c) /\ SameOwners(c)
  <2>1. arg[k] \in PodObject /\ HonestPod(arg[k])
    BY <1>t, <1>2 DEF Adopt, ServesPod, PastVerify
  <2>2. claims[k] \in RowsHeld /\ claims[k] \in Claim /\ HonestRow(claims[k])
    BY <1>t, <1>2, Holding DEF Adopt, AllHonest
  <2>3. /\ c.podUID = arg[k].uid /\ AnswersTo(c) = AuthorityOf(arg[k])
        /\ c.id = claims[k].id
    BY <1>2, <2>2 DEF Adopted, AnswersTo, Claim
  <2>4. HonestRow(c)
    BY <2>1, <2>3, RowOfPod
  <2>5. c.id \notin LegacyVMs => PartyOf(c.podUID) = PartyOf(claims[k].podUID)
    BY <1>2, <2>1, <2>2, <2>3, AdoptsOwn DEF Adopt, HonestRow
  <2> QED BY <2>2, <2>3, <2>4, <2>5 DEF SameOwners
<1>3. ASSUME NEW k \in Keys, PreserveClaim(k), claims[k] # None, c = Preserves(claims[k], arg[k])
      PROVE  HonestRow(c) /\ SameOwners(c)
  <2>1. arg[k] \in PodObject /\ HonestPod(arg[k]) /\ arg[k].owner # None
    BY <1>t, <1>3 DEF PreserveClaim, ServesPod, DeletesOwn
  <2>2. claims[k] \in RowsHeld /\ claims[k] \in Claim /\ claims[k].podUID = arg[k].uid
    BY <1>t, <1>3, Holding DEF PreserveClaim, DeletesOwn, Deleting
  <2>3. c.podUID = arg[k].uid /\ AnswersTo(c) = arg[k].owner /\ c.id = claims[k].id
    BY <1>3, <2>1, <2>2 DEF Preserves, AnswersTo, Claim
  <2>4. HonestRow(c)
    BY <2>1, <2>3 DEF HonestRow, HonestPod
  <2> QED BY <2>2, <2>3, <2>4 DEF SameOwners
<1> QED BY <1>1, <1>2, <1>3 DEF Made

\* Every pod object stays honest.
LEMMA PodsHonestStep ==
    ASSUME TypeInv, PodsInPlace, PodsHonest, [Next]_vars
    PROVE  PodsHonest'
<1>t. /\ TypeInv' /\ pods \in [Keys -> PodObject \cup {None}]
      /\ arg \in [Procs -> PodObject \cup {None}] /\ Keys \subseteq Procs
  BY TypeStep DEF TypeInv, TypeOK
<1>0. ASSUME NEW p \in Pods PROVE HonestPod(PodInKube(p))
  BY <1>0 DEF HonestPod, PodInKube
<1>2. ASSUME NEW k \in Keys, pods'[k] # None PROVE HonestPod(pods[k])'
  <2>1. pods'[k] \in PodObject
    BY <1>t, <1>2 DEF TypeInv, TypeOK
  <2>2. HonestPod(pods'[k])
    <3>1. CASE pods'[k] = pods[k]
      BY <1>2, <3>1 DEF PodsHonest
    <3>2. CASE PodTaken(k)
      BY <1>t, <1>2, <3>2 DEF PodTaken, PodsHonest
    <3>3. CASE PodRenewed(k)
      BY <1>t, <1>0, <3>3, PodOwner DEF PodRenewed
    <3> QED BY <1>2, <3>1, <3>2, <3>3, PodsStep DEF PodForgotten, Crash
  <2> QED BY <2>1, <2>2, HonestStays DEF HonestPod
<1>3. ASSUME NEW a \in Procs, arg'[a] # None PROVE HonestPod(arg[a])'
  <2>1. arg'[a] \in PodObject
    BY <1>t, <1>3 DEF TypeInv, TypeOK
  <2>2. HonestPod(arg'[a])
    BY <1>0, <1>3, ArgStep DEF PodsHonest
  <2> QED BY <2>1, <2>2, HonestStays DEF HonestPod
<1> QED BY <1>2, <1>3 DEF PodsHonest

\* Every row and every pod object stays honest.
LEMMA HonestStep ==
    ASSUME TypeInv, PodsInPlace, AllHonest, DeletesOwn, [Next]_vars
    PROVE  AllHonest'
<1>p. TypeInv'
  BY TypeStep
<1>q. RowsHeld' \subseteq Claim
  BY <1>p DEF RowsHeld, TypeInv, TypeOK
<1>1. ASSUME NEW c \in RowsHeld' PROVE HonestRow(c)'
  <2>1. c \in Claim /\ RowsHeld \subseteq Claim
    BY <1>q, Holding
  <2>2. ASSUME WasHeld(c) PROVE HonestRow(c)'
    BY <2>1, <2>2, HonestStays DEF WasHeld, AllHonest
  <2>3. ASSUME Made(c) PROVE HonestRow(c)'
    BY <2>1, <2>3, MadeHonest, HonestStays, DeadlineKeepsParty
  <2> QED BY <2>2, <2>3, RowsStep
<1>2. PodsHonest'
  BY PodsHonestStep DEF AllHonest, PodsHonest
<1> QED BY <1>1, <1>2 DEF AllHonest, PodsHonest

\* What the provider knows of a sandbox that was not issued: nothing.
LEMMA FreeIsUnattached ==
    ASSUME TypeInv, IdentityInv, NEW v \in VMs, vm[v] = "free"
    PROVE  Attached(v) = {}
<1>1. ASSUME NEW c \in RowsHeld, c.id = v PROVE FALSE
  BY <1>1, ProcsAssumption DEF RowsHeld, IdentityInv, AllIssued, Known, InTable, Memory
<1>2. ASSUME NEW p \in Pods, status[p].id = v PROVE FALSE
  BY <1>2, NoneAssumption DEF IdentityInv, AllIssued
<1> QED BY <1>1, <1>2 DEF Attached

\* A pod comes to be attached to a sandbox next to one of its party, or by the grant.
LEMMA AttachedStep ==
    ASSUME TypeInv, AllHonest, HandsOwn, DeletesOwn, [Next]_vars,
           NEW v \in VMs \ LegacyVMs, NEW p \in Attached(v)'
    PROVE  /\ p \in Pods
           /\ \/ \E q \in Attached(v) : PartyOf(p) = PartyOf(q)
              \/ \E k \in Keys : ClaimGranted(k) /\ row'[k].id = v /\ p = row'[k].podUID
<1>t. TypeInv' /\ RowsHeld' \subseteq Claim
  BY TypeStep DEF RowsHeld, TypeInv, TypeOK
<1>1. ASSUME NEW c \in RowsHeld', c.id = v, p = c.podUID
      PROVE  \/ \E q \in Attached(v) : PartyOf(p) = PartyOf(q)
             \/ \E k \in Keys : ClaimGranted(k) /\ row'[k].id = v /\ p = row'[k].podUID
  <2>1. CASE WasHeld(c)
    BY <1>1, <2>1 DEF WasHeld, SameParty, Attached
  <2>2. CASE Made(c)
    BY <1>t, <1>1, <2>2, MadeHonest DEF SameOwners, Attached
  <2> QED BY <2>1, <2>2, RowsStep
<1>2. ASSUME p \in Pods, status'[p].phase = "Running", status'[p].id = v PROVE p \in Attached(v)
  <2>1. CASE status'[p] = status[p]
    BY <1>2, <2>1 DEF Attached
  <2>2. CASE status'[p] # status[p]
    <3>0. \A w : [phase |-> "Failed", id |-> w].phase # "Running"
      OBVIOUS
    <3>1. PICK k \in Keys : /\ PushRunning(k) /\ p = arg[k].uid
                            /\ status'[p] = [phase |-> "Running", id |-> row[k].id]
      BY <1>2, <2>2, <3>0, ToldStep
    <3>3. row[k].id = v
      BY <1>2, <3>1
    <3>2. row[k] \in RowsHeld /\ row[k].podUID = p
      BY <3>1, Holding DEF PushRunning, HandsOwn, Announcing, TypeInv, InHand, WorksOnRow
    <3> QED BY <1>2, <3>2, <3>3 DEF Attached
  <2> QED BY <2>1, <2>2
<1>3. p \in Pods
  BY <1>t DEF Attached, Claim
<1> QED BY <1>1, <1>2, <1>3 DEF Attached

\* No step attaches a sandbox to two parties.
LEMMA OnePartyStep ==
    ASSUME TypeInv, IdentityInv, AllHonest, OneParty, HandsOwn, DeletesOwn, [Next]_vars
    PROVE  OneParty'
<1> SUFFICES ASSUME NEW v \in VMs \ LegacyVMs, NEW p \in Attached(v)', NEW q \in Attached(v)'
             PROVE  PartyOf(p)' = PartyOf(q)'
  BY DEF OneParty
<1>p. p \in Pods /\ q \in Pods
  BY AttachedStep
<1>1. CASE vm[v] = "free"
  <2>1. PICK j \in Keys : ClaimGranted(j) /\ p = row'[j].podUID
    BY <1>1, FreeIsUnattached, AttachedStep
  <2>2. PICK k \in Keys : ClaimGranted(k) /\ q = row'[k].podUID
    BY <1>1, FreeIsUnattached, AttachedStep
  <2>3. pc \in [Procs -> WorkerPCs \cup LoopPCs]
    BY DEF TypeInv, TypeOK
  <2>4. j = k
    BY <2>1, <2>2, <2>3 DEF ClaimGranted, Goto
  <2> QED BY <2>1, <2>2, <2>4
<1>2. CASE vm[v] # "free"
  <2>1. ASSUME NEW k \in Keys, ClaimGranted(k) PROVE row'[k].id # v
    BY <1>2, <2>1, GrantKnowledge
  <2>2. PICK x \in Attached(v) : PartyOf(p) = PartyOf(x)
    BY <2>1, AttachedStep
  <2>3. PICK y \in Attached(v) : PartyOf(q) = PartyOf(y)
    BY <2>1, AttachedStep
  <2>4. PartyOf(p) = PartyOf(q)
    BY <2>2, <2>3 DEF OneParty
  <2> QED BY <1>p, <2>4, PartyStep
<1> QED BY <1>1, <1>2

\* Where CreatePod holds the row it claimed or adopted.
HandingOver == Announcing \cup {"record", "commit", "committing"}

\* It gets there by a grant or an adoption, and then keeps the row and the pod.
LEMMA HandsEntered ==
    ASSUME TypeInv, [Next]_vars, NEW j \in Keys, pc'[j] \in HandingOver
    PROVE  \/ ClaimGranted(j) \/ Adopt(j)
           \/ pc[j] \in HandingOver /\ row'[j] = row[j] /\ arg'[j] = arg[j]
<1>p. pc \in [Procs -> WorkerPCs \cup LoopPCs] /\ j \in Procs /\ j \notin Loops
  BY ProcsAssumption DEF TypeInv, TypeOK
<1> USE DEF HandingOver, Announcing
<1>1. CASE ~Own(j)
  BY <1>1, Elsewhere DEF LocalKept
<1>2. CASE Verify(j)
  BY <1>p, <1>2 DEF Verify, VerifySnapshot, VerifyNothing, VerifyList, VerifyListFails,
     VerifyApply, VerifyDue, AfterVerify, Goto, Return
<1>3. CASE New \/ Crash
  BY <1>3 DEF New, Crash
<1>4. CASE Create(j)
  <2>1. CASE \E p \in Pods : CreatePod(j, p) \/ UpdatePod(j, p) \/ RetryCreate(j, p)
    BY <1>p, <2>1 DEF CreatePod, UpdatePod, RetryCreate, EnterCreate, UpdateDue, SyncDue, Goto
  <2>2. CASE \/ ExpiryDue(j) \/ NotExpired(j) \/ ExpiryList(j) \/ ExpiryListFails(j)
             \/ ExpiryRefresh(j) \/ ExpiryDrop(j) \/ AdoptNothing(j) \/ Displace(j)
    BY <1>p, <2>2 DEF ExpiryDue, NotExpired, ExpiryList, ExpiryListFails, ExpirySettled,
       ExpiryRefresh, ExpiryDrop, AdoptNothing, Displace, Goto, Return
  <2>3. CASE AdoptSave(j) \/ AdoptSaved(j) \/ Record(j) \/ CommitBegin(j) \/ CommitLands(j)
    BY <1>p, <2>3 DEF AdoptSave, AdoptSaved, Record, CommitBegin, CommitLands, Goto
  <2>4. CASE \/ StrandedFound(j) \/ NoneStranded(j) \/ StrandedRelease(j)
             \/ ClaimFails(j) \/ ClaimAnswerLost(j) \/ CommitFails(j) \/ Undo(j)
             \/ PushRunning(j)
    BY <1>p, <2>4 DEF StrandedFound, NoneStranded, StrandedRelease, ClaimFails,
       ClaimAnswerLost, CommitFails, Undo, PushRunning, Goto, Return
  <2> QED BY <1>4, <2>1, <2>2, <2>3, <2>4 DEF Create
<1>5. CASE Delete(j) \/ HandlerReleaseFails(j)
  BY <1>p, <1>5 DEF Delete, ForgetPod, DeletePod, DeleteDue, Authorize, PreserveClaim,
     DeleteRelease, DeleteWithdraw, DeleteSave, DeleteSaved, HandlerReleaseFails, Goto, Return
<1> QED BY <1>1, <1>2, <1>3, <1>4, <1>5 DEF Own, Handler

\* The row a pod adopts, and the one it is granted, are its own.
LEMMA AdoptedIsOwn ==
    ASSUME TypeInv, AllHonest, NEW k \in Keys, Adopt(k) \/ ClaimGranted(k)
    PROVE  /\ arg'[k] = arg[k] /\ row'[k].podUID = arg[k].uid /\ OwnerInHand(row'[k], arg[k])
           /\ Adopt(k) => row'[k] = claims'[k] /\ AnswersTo(claims'[k]) # None
<1>r. /\ claims \in Rows /\ row \in [Procs -> Claim \cup {None}] /\ k \in Procs
      /\ arg[k] \in PodObject /\ HonestPod(arg[k])
  BY DEF TypeInv, TypeOK, InHand, AllHonest, Adopt, ClaimGranted, ServesPod, PastVerify
<1>1. ASSUME NEW c \in Claim, c.podUID = arg[k].uid, AnswersTo(c) = AuthorityOf(arg[k])
      PROVE  OwnerInHand(c, arg[k]) /\ AnswersTo(c) # None
  BY <1>r, <1>1, RowOfPod
<1>2. CASE ClaimGranted(k)
  <2>1. PICK v \in VMs, d \in Deadlines : row'[k] = FreshClaim(v, arg[k], d)
    BY <1>r, <1>2 DEF ClaimGranted
  <2>2. /\ row'[k] \in Claim
        /\ row'[k].podUID = arg[k].uid /\ AnswersTo(row'[k]) = AuthorityOf(arg[k])
    BY <1>r, <2>1, FreshType DEF FreshClaim, AnswersTo
  <2> QED BY <1>1, <1>2, <2>2 DEF ClaimGranted, Adopt
<1>3. CASE Adopt(k)
  <2>1. row'[k] = claims'[k] /\ claims'[k] = Adopted(claims[k], arg[k]) /\ claims[k] \in Claim
    BY <1>r, <1>3 DEF Adopt
  <2>2. /\ claims'[k] \in Claim
        /\ claims'[k].podUID = arg[k].uid /\ AnswersTo(claims'[k]) = AuthorityOf(arg[k])
    BY <1>r, <2>1, PodOwner DEF Adopted, AnswersTo, AuthorityOf, Claim
  <2> QED BY <1>1, <1>3, <2>1, <2>2 DEF Adopt
<1> QED BY <1>2, <1>3

\* CreatePod announces a row of the pod it serves.
LEMMA HandsStep ==
    ASSUME TypeInv, AllHonest, HandsOwn, [Next]_vars
    PROVE  HandsOwn'
<1> SUFFICES ASSUME NEW k \in Keys, pc'[k] \in HandingOver
             PROVE  row'[k].podUID = arg'[k].uid /\ OwnerInHand(row'[k], arg'[k])
  BY DEF HandsOwn, HandingOver, OwnerInHand
<1>1. CASE ClaimGranted(k) \/ Adopt(k)
  BY <1>1, AdoptedIsOwn
<1>2. CASE pc[k] \in HandingOver /\ row'[k] = row[k] /\ arg'[k] = arg[k]
  BY <1>2 DEF HandsOwn, HandingOver
<1> QED BY <1>1, <1>2, HandsEntered

\* DeletePod is entered for a pod, asks its owner, and acts on the verdict.
DeletesOn(j) ==
    /\ pc[j] \in Deleting /\ arg'[j] = arg[j]
    /\ pc'[j] = "preserve" => pc[j] = "preserve" \/ Authorize(j)
    /\ pc'[j] \in {"release", "withdraw"} => pc[j] \in {"release", "withdraw"} \/ Authorize(j)

\* There is no other way into the middle of DeletePod.
LEMMA DeletingStep ==
    ASSUME TypeInv, [Next]_vars, NEW j \in Keys, pc'[j] \in Deleting
    PROVE  \/ DeletesOn(j)
           \/ \E pod \in PodObject : DeletePod(j, pod) /\ arg'[j] = pod /\ pc'[j] = "authorize"
<1>p. /\ pc \in [Procs -> WorkerPCs \cup LoopPCs] /\ arg \in [Procs -> PodObject \cup {None}]
      /\ j \in Procs /\ j \notin Loops
  BY ProcsAssumption DEF TypeInv, TypeOK
<1> USE DEF DeletesOn, Deleting
<1>1. CASE ~Own(j)
  BY <1>1, Elsewhere DEF LocalKept
<1>2. CASE Verify(j)
  BY <1>p, <1>2 DEF Verify, VerifySnapshot, VerifyNothing, VerifyList, VerifyListFails,
     VerifyApply, VerifyDue, AfterVerify, Goto, Return
<1>3. CASE New \/ Crash
  BY <1>3 DEF New, Crash
<1>4. CASE Create(j)
  <2>1. pc'[j] \notin Deleting \/ (pc'[j] = pc[j] /\ arg'[j] = arg[j])
    BY <1>p, <1>4 DEF Create, CreatePod, UpdatePod, RetryCreate, EnterCreate, ExpiryDue,
       NotExpired, ExpiryList, ExpiryListFails, ExpirySettled, ExpiryRefresh, ExpiryDrop,
       AdoptNothing, Displace, Adopt, AdoptSave, AdoptSaved, StrandedFound, NoneStranded,
       StrandedRelease, ClaimGranted, ClaimFails, ClaimAnswerLost, Record, CommitBegin,
       CommitLands, CommitFails, Undo, PushRunning, Goto, Return
  <2> QED BY <2>1
<1>5. CASE Delete(j) \/ HandlerReleaseFails(j)
  <2>1. ASSUME NEW pod \in PodObject, DeletePod(j, pod)
        PROVE  arg'[j] = pod /\ pc'[j] = "authorize"
    BY <1>p, <2>1 DEF DeletePod, Goto
  <2>2. CASE \E pod \in PodObject : ForgetPod(j, pod)
    BY <2>2 DEF ForgetPod
  <2>3. CASE Authorize(j) \/ DeleteRelease(j)
    BY <1>p, <2>3 DEF Authorize, DeleteRelease, Goto
  <2>4. CASE \/ PreserveClaim(j) \/ DeleteWithdraw(j) \/ DeleteSave(j) \/ DeleteSaved(j)
             \/ HandlerReleaseFails(j)
    BY <1>p, <2>4 DEF PreserveClaim, DeleteWithdraw, DeleteSave, DeleteSaved,
       HandlerReleaseFails, Goto, Return
  <2> QED BY <1>5, <2>1, <2>2, <2>3, <2>4 DEF Delete
<1> QED BY <1>1, <1>2, <1>3, <1>4, <1>5 DEF Own, Handler

\* The owner an honest row answers to controls its pod.
LEMMA OwnerControls ==
    ASSUME TypeInv, NEW c \in Claim, HonestRow(c), AnswersTo(c) \in Owners
    PROVE  controller[c.podUID] = AnswersTo(c) /\ OwnerInHand(c, PodInKube(c.podUID))
BY PartyOfRow, UIDAssumption, NoneAssumption DEF HonestRow, OwnerInHand, PodInKube

\* A row that keeps its party keeps the owner in hand.
LEMMA OwnerStaysInHand ==
    ASSUME NEW k \in Keys, RowAsWas(k), NEW pod, OwnerInHand(claims[k], pod)
    PROVE  OwnerInHand(claims'[k], pod) /\ claims'[k].podUID = claims[k].podUID
BY DEF RowAsWas, SameParty, OwnerInHand, AnswersTo

\* What destroyAuthorized says of an owner that was asked.
LEMMA Verdict ==
    ASSUME NEW o \in Owners, NEW answer \in OwnerAnswers(o), DestroyAuthorized(o, answer)
    PROVE  ownerState[o] # "alive"
BY NoneAssumption DEF OwnerAnswers, DestroyAuthorized

\* A release is on its way only when the owner of the deleted pod has ended.
LEMMA VerdictStep ==
    ASSUME TypeInv, [Next]_vars, NEW k \in Keys, pc'[k] \in {"release", "withdraw"},
           arg'[k].owner # None,
           pc[k] \in {"release", "withdraw"} /\ arg[k].owner # None
             => ownerState[arg[k].owner] # "alive"
    PROVE  ownerState'[arg'[k].owner] # "alive"
<1>t. /\ pc \in [Procs -> WorkerPCs \cup LoopPCs] /\ k \in Procs
      /\ arg \in [Procs -> PodObject \cup {None}]
  BY DEF TypeInv, TypeOK
<1>1. DeletesOn(k)
  BY DeletingStep DEF Deleting
<1>2. arg[k].owner \in Owners /\ arg'[k] = arg[k]
  <2>1. arg[k] \in PodObject /\ arg'[k] = arg[k]
    BY <1>t, <1>1 DEF DeletesOn, Deleting, TypeInv, InHand, ServesPod
  <2> QED BY <2>1, PodOwner
<1>3. ownerState[arg[k].owner] # "alive"
  <2>1. CASE Authorize(k)
    <3>1. PICK answer \in OwnerAnswers(arg[k].owner) :
             pc'[k] = IF DestroyAuthorized(arg[k].owner, answer) THEN "release" ELSE "preserve"
      BY <1>t, <1>2, <2>1, NoneAssumption DEF Authorize, Goto
    <3> QED BY <1>2, <3>1, Verdict
  <2> QED BY <1>1, <1>2, <2>1, NoneAssumption DEF DeletesOn
<1> QED BY <1>2, <1>3, OwnersStep DEF OwnersForward

\* DeletePod stays with the row of its pod, and the row of a tracked pod with its owner.
LEMMA DeletesStep ==
    ASSUME TypeInv, TableInv, PodsInPlace, AllHonest, HandsOwn, DeletesOwn, [Next]_vars,
           ~ForeignDeletes
    PROVE  DeletesOwn'
<1>t. /\ claims \in Rows /\ pods \in [Keys -> PodObject \cup {None}] /\ Keys \subseteq Procs
      /\ arg \in [Procs -> PodObject \cup {None}] /\ pc \in [Procs -> WorkerPCs \cup LoopPCs]
      /\ \A k \in Keys : claims[k] # None => HonestRow(claims[k])
  BY Holding DEF TypeInv, TypeOK, AllHonest
<1>1. ASSUME NEW k \in Keys, pc'[k] \in Deleting, claims'[k] # None
      PROVE  claims'[k].podUID = arg'[k].uid /\ OwnerInHand(claims'[k], arg'[k])
  <2>1. CASE DeletesOn(k)
    <3>1. ~New /\ ~Record(k) /\ ~Adopt(k) /\ ~PreserveClaim(k)
      BY <1>t, <1>1, <2>1 DEF DeletesOn, Deleting, New, Record, Adopt, PreserveClaim, Goto,
         TableInv, DownIsEmpty
    <3>2. RowAsWas(k)
      BY <1>1, <3>1, ClaimsStep
    <3> QED BY <2>1, <3>2, OwnerStaysInHand DEF DeletesOn, DeletesOwn, RowAsWas
  <2>2. ASSUME NEW pod \in PodObject, DeletePod(k, pod), arg'[k] = pod
        PROVE  claims'[k].podUID = arg'[k].uid /\ OwnerInHand(claims'[k], arg'[k])
    <3>1. claims' = claims /\ claims[k] # None /\ claims[k].podUID = pod.uid /\ claims[k] \in Claim
      BY <1>t, <2>2 DEF DeletePod, DeleteDue
    <3>2. CASE pods[k] = pod
      BY <2>2, <3>1, <3>2, NoneAssumption DEF DeletesOwn
    <3>3. CASE pod = PodInKube(pod.uid)
      <4>1. CASE AnswersTo(claims[k]) \in Owners
        BY <1>t, <2>2, <3>1, <3>3, <4>1, OwnerControls
      <4> QED BY <2>2, <3>1, <4>1 DEF OwnerInHand
    <3> QED BY <2>2, <3>2, <3>3 DEF DeletePod, DeleteDue
  <2> QED BY <1>1, <2>1, <2>2, DeletingStep
<1>2. ASSUME NEW k \in Keys, pods'[k] # None, claims'[k] # None, claims'[k].podUID = pods'[k].uid
      PROVE  OwnerInHand(claims'[k], pods'[k])
  <2>1. CASE Record(k)
    <3>1. claims'[k] = row[k] /\ pods'[k] = arg[k]
      BY <1>t, <2>1 DEF Record
    <3> QED BY <2>1, <3>1 DEF Record, HandsOwn
  <2>2. CASE Adopt(k)
    <3>1. pods'[k] = arg[k]
      BY <1>t, <2>2 DEF Adopt
    <3> QED BY <2>2, <3>1, AdoptedIsOwn
  <2>3. CASE New \/ PreserveClaim(k)
    BY <1>t, <1>2, <2>3 DEF New, PreserveClaim, PodsInPlace
  <2>4. CASE RowAsWas(k)
    <3>1. CASE pods'[k] = pods[k]
      BY <1>2, <2>4, <3>1, OwnerStaysInHand DEF DeletesOwn, RowAsWas, SameParty
    <3>2. CASE PodRenewed(k)
      <4>1. claims'[k] = claims[k] /\ pods'[k] = PodInKube(claims[k].podUID)
        BY <1>2, <3>2 DEF PodRenewed
      <4>2. CASE AnswersTo(claims[k]) \in Owners
        BY <1>t, <1>2, <4>1, <4>2, OwnerControls
      <4> QED BY <4>1, <4>2 DEF OwnerInHand
    <3> QED BY <1>2, <2>1, <2>2, <3>1, <3>2, PodsStep DEF PodForgotten, PodTaken, Crash
  <2> QED BY <1>2, <2>1, <2>2, <2>3, <2>4, ClaimsStep
<1>3. ASSUME NEW k \in Keys, pc'[k] = "preserve" PROVE arg'[k].owner # None
  <2>1. DeletesOn(k)
    BY <1>3, DeletingStep DEF Deleting
  <2>2. CASE Authorize(k)
    BY <1>t, <1>3, <2>1, <2>2 DEF Authorize, DestroyAuthorized, Goto, DeletesOn
  <2> QED BY <1>3, <2>1, <2>2 DEF DeletesOn, DeletesOwn
<1>4. ASSUME NEW k \in Keys, pc'[k] \in {"release", "withdraw"}, arg'[k].owner # None
      PROVE  ownerState'[arg'[k].owner] # "alive"
  BY <1>4, VerdictStep DEF DeletesOwn
<1> QED BY <1>1, <1>2, <1>3, <1>4 DEF DeletesOwn, OwnerInHand

\* The re-check copies rows at the start of a tick only.
LEMMA RecheckCopies ==
    ASSUME TypeInv, [Next]_vars, NEW k \in Keys, snap'["recheck"][k] # None
    PROVE  snap'["recheck"][k] = snap["recheck"][k] \/ RecheckSnapshot
<1>s. snap \in [Procs -> Rows] /\ "recheck" \in Procs /\ "recheck" \notin Keys
  BY ProcsAssumption DEF TypeInv, TypeOK
<1> DEFINE Same == snap'["recheck"][k] = snap["recheck"][k]
<1>0. ASSUME UNCHANGED snap PROVE Same
  BY <1>0
<1>1. ASSUME NEW b \in Procs, NEW r, b # "recheck", snap' = [snap EXCEPT ![b] = r] PROVE Same
  BY <1>1, <1>s
<1>2. ASSUME NEW b \in Procs, NEW j \in Keys, DropCandidate(b, j) PROVE Same
  BY <1>2, <1>s DEF DropCandidate
<1> HIDE DEF Same
<1>3. ASSUME NEW b \in Procs, Verify(b) PROVE Same
  <2>1. CASE VerifySnapshot(b)
    BY <1>s, <1>1, <2>1 DEF VerifySnapshot, VerifyDue
  <2>2. CASE VerifyListFails(b) \/ VerifyApply(b)
    BY <1>s, <2>2 DEF VerifyListFails, VerifyApply, Return, Same
  <2> QED BY <1>0, <1>3, <2>1, <2>2 DEF Verify, VerifyNothing, VerifyList
<1>4. ASSUME NEW j \in Keys, Create(j) PROVE Same
  <2>0. j \in Procs /\ j # "recheck"
    BY <1>s
  <2>1. CASE \/ ExpiryListFails(j) \/ ClaimFails(j) \/ ClaimAnswerLost(j) \/ Undo(j)
             \/ PushRunning(j)
    BY <1>1, <2>0, <2>1 DEF ExpiryListFails, ClaimFails, ClaimAnswerLost, Undo, PushRunning,
       Return
  <2> QED BY <1>0, <1>4, <2>1 DEF Create, CreatePod, UpdatePod, RetryCreate,
             ExpiryDue, NotExpired, ExpiryList, ExpirySettled, ExpiryRefresh, ExpiryDrop,
             AdoptNothing, Displace, Adopt, AdoptSave, AdoptSaved, StrandedFound, NoneStranded,
             StrandedRelease, ClaimGranted, Record, CommitBegin, CommitLands, CommitFails
<1>5. ASSUME NEW j \in Keys, Delete(j) \/ HandlerReleaseFails(j) PROVE Same
  <2>0. j \in Procs /\ j # "recheck"
    BY <1>s
  <2>1. CASE DeleteSaved(j) \/ HandlerReleaseFails(j)
    BY <1>1, <2>0, <2>1 DEF DeleteSaved, HandlerReleaseFails, Return
  <2> QED BY <1>0, <1>5, <2>1 DEF Delete, ForgetPod, DeletePod, Authorize, PreserveClaim,
             DeleteRelease, DeleteWithdraw, DeleteSave
<1>6. ASSUME LeaseWatch PROVE Same
  <2>0. "lease" \in Procs
    OBVIOUS
  <2>1. CASE LeaseSnapshot \/ LeaseListFails \/ LeaseEnd
    BY <1>1, <2>0, <2>1 DEF LeaseSnapshot, LeaseListFails, LeaseEnd, Return
  <2>2. ASSUME NEW j \in Keys, LeaseRefresh(j) \/ LeaseConfirm(j) \/ LeaseSuperseded(j)
        PROVE  Same
    BY <1>2, <2>0, <2>2 DEF LeaseRefresh, LeaseConfirm, LeaseSuperseded
  <2> QED BY <1>0, <1>6, <2>1, <2>2 DEF LeaseWatch, LeaseList, LeaseNotify
<1>7. ASSUME OwnerRecheck, ~RecheckSnapshot PROVE Same
  <2>2. ASSUME NEW j \in Keys, RecheckNotDue(j) \/ RecheckKeeps(j) \/ WithdrawForRelease(j)
                               \/ WithdrawRefused(j)
        PROVE  Same
    BY <1>s, <1>2, <2>2 DEF RecheckNotDue, RecheckKeeps, WithdrawForRelease, WithdrawRefused,
       WithdrawDone
  <2> QED BY <1>0, <1>7, <2>2 DEF OwnerRecheck, DrainSnapshot, DrainEnd, RecheckSaveBegin,
             RecheckSaveEnd, RecheckReleases, DrainRelease, DrainReleaseFails
<1>8. ASSUME New \/ Environment \/ UNCHANGED vars PROVE Same
  BY <1>0, <1>8 DEF New, Environment, PodBound, PodTerminating, PodRemoved, PodAdopted,
     OwnerEnds, SandboxGone, Tick, vars
<1>9. ~Crash
  BY DEF Crash
<1> QED BY <1>3, <1>4, <1>5, <1>6, <1>7, <1>8, <1>9 DEF Next, Handler, Same

\* The re-check is about to withdraw a row because it was just told to, or still.
LEMMA WithdrawEntered ==
    ASSUME TypeInv, [Next]_vars, pc'["recheck"] = "recheckWithdraw"
    PROVE  \/ \E k \in Keys : RecheckReleases(k)
           \/ pc["recheck"] = "recheckWithdraw" /\ asking' = asking
<1>p. /\ pc \in [Procs -> WorkerPCs \cup LoopPCs] /\ "recheck" \in Procs /\ "recheck" \notin Keys
  BY ProcsAssumption DEF TypeInv, TypeOK
<1> DEFINE Stays == pc["recheck"] = "recheckWithdraw" /\ asking' = asking
<1>1. CASE New \/ Crash \/ Environment \/ UNCHANGED vars
  BY <1>1 DEF New, Crash, Environment, PodBound, PodTerminating, PodRemoved, PodAdopted,
     OwnerEnds, SandboxGone, Tick, vars
<1>2. ASSUME NEW a \in Procs, Verify(a) PROVE Stays
  BY <1>p, <1>2 DEF Verify, VerifySnapshot, VerifyNothing, VerifyList, VerifyListFails,
     VerifyApply, AfterVerify, Goto, Return
<1>3. ASSUME NEW k \in Keys, Create(k) PROVE Stays
  BY <1>p, <1>3 DEF Create, CreatePod, UpdatePod, RetryCreate, EnterCreate,
     ExpiryDue, NotExpired, ExpiryList, ExpiryListFails, ExpirySettled, ExpiryRefresh,
     ExpiryDrop, AdoptNothing, Displace, Adopt, AdoptSave, AdoptSaved, StrandedFound,
     NoneStranded, StrandedRelease, ClaimGranted, ClaimFails, ClaimAnswerLost, Record,
     CommitBegin, CommitLands, CommitFails, Undo, PushRunning, Goto, Return
<1>4. ASSUME NEW k \in Keys, Delete(k) \/ HandlerReleaseFails(k) PROVE Stays
  BY <1>p, <1>4 DEF Delete, ForgetPod, DeletePod, Authorize, PreserveClaim,
     DeleteRelease, DeleteWithdraw, DeleteSave, DeleteSaved, HandlerReleaseFails, Goto, Return
<1>5. CASE LeaseWatch
  BY <1>p, <1>5 DEF LeaseWatch, LeaseSnapshot, LeaseList, LeaseListFails, LeaseNotify,
     LeaseEnd, LeaseRefresh, LeaseConfirm, LeaseSuperseded, Goto, Return
<1>6. CASE OwnerRecheck
  BY <1>p, <1>6 DEF OwnerRecheck, RecheckSnapshot, DrainSnapshot, DrainEnd,
     RecheckSaveBegin, RecheckSaveEnd, RecheckNotDue, RecheckKeeps,
     WithdrawDone, WithdrawForRelease, WithdrawRefused, DrainRelease, DrainReleaseFails, Goto
<1> QED BY <1>1, <1>2, <1>3, <1>4, <1>5, <1>6 DEF Next, Handler

\* The row at a key the re-check asks about stays with the owner it asks about, whoever
\* adopts or preserves it meanwhile.
LEMMA AsksStep ==
    ASSUME TypeInv, IdentityInv, TableInv, AllHonest, DeletesOwn, AsksOwner, [Next]_vars
    PROVE  AsksOwner'
<1>t. /\ claims \in Rows /\ snap \in [Procs -> Rows] /\ "recheck" \in Procs /\ Keys \subseteq Procs
      /\ \A k \in Keys : claims[k] # None => HonestRow(claims[k])
      /\ row \in [Procs -> Claim \cup {None}] /\ arg \in [Procs -> PodObject \cup {None}]
  BY Holding DEF TypeInv, TypeOK, AllHonest
<1>o. OwnersForward
  BY OwnersStep
<1>1. ASSUME NEW k \in Keys, snap'["recheck"][k] # None
      PROVE  /\ snap'["recheck"][k].owner # None
             /\ Holds(k, snap["recheck"][k].id)' =>
                   /\ controller'[claims'[k].podUID] = snap'["recheck"][k].owner
                   /\ AnswersTo(claims'[k]) # None
  <2>1. CASE RecheckSnapshot
    <3>1. /\ snap'["recheck"][k] = claims[k] /\ claims[k] \in Claim /\ claims[k].owner # None
          /\ claims'[k] = claims[k] /\ HonestRow(claims[k]) /\ controller' = controller
      BY <1>t, <1>1, <2>1 DEF RecheckSnapshot, Preserved
    <3>2. AnswersTo(claims[k]) = claims[k].owner /\ claims[k].owner \in Owners
      BY <3>1 DEF AnswersTo, Claim
    <3>3. controller[claims[k].podUID] = claims[k].owner
      BY <3>1, <3>2, OwnerControls
    <3> QED BY <3>1, <3>2, <3>3
  <2>2. CASE snap'["recheck"][k] = snap["recheck"][k]
    <3> DEFINE s == snap["recheck"][k]
    <3>1. s # None /\ s \in Claim /\ s.owner # None /\ s.owner \in Owners
      BY <1>t, <1>1, <2>2 DEF AsksOwner, Claim
    <3>2. ASSUME claims'[k] # None, claims'[k].id = s.id
          PROVE  controller'[claims'[k].podUID] = s.owner /\ AnswersTo(claims'[k]) # None
      <4>0. ASSUME NEW c \in Claim, controller[c.podUID] = s.owner
            PROVE  controller'[c.podUID] = s.owner
        BY <1>o, <3>1, <4>0, PartyOfRow DEF OwnersForward
      <4>h. ASSUME claims[k] # None, claims[k].id = s.id
            PROVE  /\ controller[claims[k].podUID] = s.owner /\ AnswersTo(claims[k]) # None
                   /\ claims[k] \in Claim /\ HonestRow(claims[k])
        BY <1>t, <3>1, <4>h DEF AsksOwner, Holds
      <4>1. CASE New
        BY <1>t, <3>1, <4>1 DEF New, TableInv, DownIsEmpty
      <4>2. CASE Record(k)
        <5>1. row[k].id = s.id /\ pc[k] = "record"
          BY <1>t, <3>2, <4>2 DEF Record
        <5> QED BY <1>t, <3>1, <5>1 DEF IdentityInv, FreshIsPrivate, Known
      <4>3. CASE Adopt(k)
        <5>1. claims[k] # None /\ claims'[k] = Adopted(claims[k], arg[k]) /\ claims[k] \in Claim
          BY <1>t, <4>3 DEF Adopt
        <5>2. claims[k].id = s.id
          BY <3>2, <5>1 DEF Adopted, Claim
        <5>3. /\ arg[k] \in PodObject /\ HonestPod(arg[k]) /\ AdoptableBy(claims[k], arg[k])
          BY <1>t, <4>3 DEF Adopt, TypeInv, InHand, ServesPod, PastVerify, AllHonest
        <5>4. arg[k].uid = claims[k].podUID \/ controller[arg[k].uid] = controller[claims[k].podUID]
          BY <4>h, <5>1, <5>2, <5>3, AdoptsOwn
        <5>5. controller'[arg[k].uid] = s.owner
          BY <1>o, <3>1, <4>h, <5>1, <5>2, <5>3, <5>4, PodOwner DEF OwnersForward
        <5>6. claims'[k].podUID = arg[k].uid
          BY <5>1 DEF Adopted, Claim
        <5> QED BY <4>3, <5>5, <5>6, AdoptedIsOwn
      <4>4. CASE PreserveClaim(k)
        <5>1. claims[k] # None /\ claims[k] \in Claim
          BY <1>t, <3>2, <4>4 DEF PreserveClaim, Holds
        <5>2. /\ arg[k].owner # None
              /\ claims'[k] = claims[k] \/ claims'[k] = [claims[k] EXCEPT !.owner = arg[k].owner]
          BY <1>t, <4>4 DEF PreserveClaim, DeletesOwn
        <5>3. claims[k].id = s.id /\ claims'[k].podUID = claims[k].podUID
          BY <3>2, <5>1, <5>2 DEF Claim
        <5>4. AnswersTo(claims'[k]) # None
          BY <4>h, <5>1, <5>2, <5>3 DEF AnswersTo, Claim
        <5> QED BY <4>0, <4>h, <5>1, <5>3, <5>4
      <4>5. CASE RowAsWas(k)
        <5>1. /\ claims[k] # None /\ claims[k].id = s.id /\ claims'[k].podUID = claims[k].podUID
              /\ AnswersTo(claims'[k]) = AnswersTo(claims[k])
          BY <3>2, <4>5 DEF RowAsWas, SameParty, AnswersTo
        <5> QED BY <4>0, <4>h, <5>1
      <4> QED BY <3>2, <4>1, <4>2, <4>3, <4>4, <4>5, ClaimsStep
    <3> QED BY <2>2, <3>1, <3>2 DEF Holds
  <2> QED BY <1>1, <2>1, <2>2, RecheckCopies
<1>2. ASSUME pc'["recheck"] = "recheckWithdraw"
      PROVE  ownerState'[snap'["recheck"][asking'].owner] # "alive"
  <2>0. asking' \in Keys /\ snap'["recheck"][asking'] # None
    BY <1>2, TypeStep DEF TypeInv, TypeOK, InHand
  <2>1. ~RecheckSnapshot
    BY <1>2 DEF RecheckSnapshot, Goto, TypeInv, TypeOK
  <2>2. snap'["recheck"][asking'] = snap["recheck"][asking']
    BY <2>0, <2>1, RecheckCopies
  <2>3. snap["recheck"][asking'].owner \in Owners
    BY <1>t, <2>0, <2>2 DEF AsksOwner, Claim
  <2>4. ownerState[snap["recheck"][asking'].owner] # "alive"
    <3>1. ASSUME NEW k \in Keys, RecheckReleases(k)
          PROVE  ownerState[snap["recheck"][asking'].owner] # "alive"
      <4>1. asking' = k /\ OwnerVerdict(k, TRUE)
        BY <3>1 DEF RecheckReleases
      <4> QED BY <2>3, <4>1, Verdict DEF OwnerVerdict
    <3> QED BY <1>2, <3>1, WithdrawEntered DEF AsksOwner
  <2> QED BY <1>o, <2>2, <2>3, <2>4 DEF OwnersForward
<1> QED BY <1>1, <1>2 DEF AsksOwner

\* The table of an older build is honest: each row answers to its pod, to the pod's owner
\* or to nobody.
LegacyHonest ==
    \A k \in Keys : LegacyClaims[k] # None =>
        AnswersTo(LegacyClaims[k])
            \in {LegacyClaims[k].podUID, OwnerOf[LegacyClaims[k].podUID], None}

\* Before the first start only the rows of an older build's file are there.
LEMMA InitOwners ==
    ASSUME LegacyHonest, Init
    PROVE  OwnersInv
<1>1. \A c \in RowsHeld : \E k \in Keys : c = LegacyClaims[k] /\ LegacyClaims[k] # None
  BY DEF Init, RowsHeld
<1>2. AllHonest
  BY <1>1 DEF Init, AllHonest, HonestRow, LegacyHonest, LegacyVMs
<1>3. \A v \in VMs \ LegacyVMs : Attached(v) = {}
  BY <1>1 DEF Init, Attached, LegacyVMs, NotPushed
<1>4. OneParty
  BY <1>3 DEF OneParty
<1>5. HandsOwn /\ DeletesOwn /\ AsksOwner
  BY DEF Init, HandsOwn, DeletesOwn, AsksOwner, Announcing, Deleting
<1> QED BY <1>2, <1>4, <1>5 DEF OwnersInv

\* Every step of the provider keeps all of it.
LEMMA OwnersInvStep ==
    ASSUME ~ForeignDeletes, FullInv, TrackedInv, OwnersInv, [Next]_vars
    PROVE  OwnersInv'
BY HonestStep, OnePartyStep, HandsStep, DeletesStep, AsksStep
   DEF FullInv, TrackedInv, OwnersInv

\* Whose sandbox it is stays settled in every reachable state, when DeletePod is called for
\* the pod that holds the row and the older build's table is honest.
THEOREM Ownership ==
    ASSUME ~ForeignDeletes, LegacyHonest
    PROVE  Spec => [](FullInv /\ TrackedInv /\ OwnersInv)
<1>1. Init => FullInv /\ TrackedInv /\ OwnersInv
  BY InitType, InitIdentity, InitTable, InitSafety, InitTracked, InitOwners DEF FullInv
<1>2. FullInv /\ TrackedInv /\ OwnersInv /\ [Next]_vars => (FullInv /\ TrackedInv /\ OwnersInv)'
  <2>1. ASSUME FullInv, TrackedInv, OwnersInv, [Next]_vars PROVE FullInv' /\ TrackedInv' /\ OwnersInv'
    BY <2>1, FullStep, TrackedStep, OwnersInvStep DEF FullInv
  <2> QED BY <2>1
<1> QED BY <1>1, <1>2, PTL DEF Spec

\* Two pods told Running on one sandbox answer to the same authority (adoptableBy): the
\* sandbox of one party is never handed to another.
THEOREM NoHandoff ==
    ASSUME ~ForeignDeletes, LegacyHonest
    PROVE  Spec => []NoHandoffAcrossOwners
<1>1. FullInv /\ OwnersInv => NoHandoffAcrossOwners
  <2> SUFFICES ASSUME FullInv, OwnersInv, NEW p \in Pods, NEW q \in Pods,
                      status[p].phase = "Running", status[q].phase = "Running",
                      status[p].id = status[q].id, status[p].id \notin LegacyVMs
               PROVE  PartyOf(p) = PartyOf(q)
    BY DEF NoHandoffAcrossOwners, PartyOf
  <2>1. status[p].id \in VMs
    BY StatusIds DEF FullInv, SafetyInv, StatusTrue, StatusNamed
  <2>2. p \in Attached(status[p].id) /\ q \in Attached(status[p].id)
    BY DEF Attached
  <2> QED BY <2>1, <2>2 DEF OwnersInv, OneParty
<1> QED BY <1>1, Ownership, PTL

\* A sandbox joins the release queue when its owner has ended, or when a pod of another
\* authority takes its key (adoptExistingClaim, withdrawForRelease); a re-check that asked
\* about an older row never gives away one whose owner lives.
THEOREM Queuing ==
    ASSUME ~ForeignDeletes, LegacyHonest
    PROVE  Spec => QueuedForCause
<1>1. FullInv /\ OwnersInv /\ [Next]_vars =>
        [\A k \in Keys :
            claims[k] # None /\ claims[k].id \in releasing' \ releasing
            => \/ ~OwnerAlive(claims[k])
               \/ pc[k] = "adopt" /\ AuthorityOf(arg[k]) # AnswersTo(claims[k])]_vars
  <2> SUFFICES ASSUME FullInv, OwnersInv, [Next]_vars, NEW k \in Keys, claims[k] # None,
                      claims[k].id \in releasing' \ releasing, OwnerAlive(claims[k])
               PROVE  pc[k] = "adopt" /\ AuthorityOf(arg[k]) # AnswersTo(claims[k])
    OBVIOUS
  <2>1. claims[k] \in Claim /\ claims[k].id \in VMs /\ TypeInv
    BY ClaimId DEF FullInv, TypeInv, TypeOK
  <2>2. ~New
    BY DEF New, FullInv, TableInv, DownIsEmpty
  <2>3. PICK j \in Keys : Holds(j, claims[k].id) /\ (Displace(j) \/ WithdrawForRelease(j))
    BY <2>1, <2>2, QueueStep DEF Queued
  <2>4. j = k
    BY <2>3 DEF Holds, FullInv, SafetyInv, NamedOnce, Distinct, Memory
  <2>5. CASE Displace(k)
    BY <2>5 DEF Displace, AdoptableBy
  <2>6. CASE WithdrawForRelease(k)
    <3>1. /\ Holds(k, snap["recheck"][k].id) /\ pc["recheck"] = "recheckWithdraw" /\ asking = k
      BY <2>6 DEF WithdrawForRelease, WithdrawDone, Withdrawable
    <3>2. snap["recheck"][k] # None /\ ownerState[snap["recheck"][k].owner] # "alive"
      BY <2>1, <3>1 DEF TypeInv, InHand, OwnersInv, AsksOwner
    <3>3. controller[claims[k].podUID] = snap["recheck"][k].owner
      BY <3>1, <3>2 DEF OwnersInv, AsksOwner
    <3>4. HonestRow(claims[k]) /\ AnswersTo(claims[k]) \in Owners
      BY <2>1, Holding DEF OwnersInv, AllHonest, OwnerAlive
    <3>5. controller[claims[k].podUID] = AnswersTo(claims[k])
      BY <2>1, <3>4, OwnerControls
    <3> QED BY <3>2, <3>3, <3>5 DEF OwnerAlive
  <2> QED BY <2>3, <2>4, <2>5, <2>6
<1> QED BY <1>1, Ownership, PTL DEF QueuedForCause, Spec
-----------------------------------------------------------------------------
(* Every delete, of whatever pod. *)

\* A fresh claim and an adopted row are made for the pod CreatePod serves.
LEMMA HandsMade ==
    ASSUME TypeInv, NEW k \in Keys, Adopt(k) \/ ClaimGranted(k)
    PROVE  /\ arg'[k] = arg[k] /\ MadeFor(row'[k], arg[k])
           /\ Adopt(k) => row'[k] = claims'[k]
<1>r. /\ claims \in Rows /\ row \in [Procs -> Claim \cup {None}] /\ k \in Procs
      /\ arg[k] \in PodObject
  BY DEF TypeInv, TypeOK, InHand, Adopt, ClaimGranted, ServesPod, PastVerify
<1>1. ASSUME NEW c, c.podUID = arg[k].uid, c.owner = None, c.authority = AuthorityOf(arg[k])
      PROVE  MadeFor(c, arg[k])
  BY <1>r, <1>1, PodOwner, UIDAssumption, NoneAssumption DEF MadeFor, AuthorityOf
<1>2. CASE ClaimGranted(k)
  <2>1. PICK v \in VMs, d \in Deadlines : row'[k] = FreshClaim(v, arg[k], d)
    BY <1>r, <1>2 DEF ClaimGranted
  <2>2. /\ row'[k].podUID = arg[k].uid /\ row'[k].owner = None
        /\ row'[k].authority = AuthorityOf(arg[k])
    BY <2>1 DEF FreshClaim
  <2> QED BY <1>1, <1>2, <2>2 DEF ClaimGranted, Adopt
<1>3. CASE Adopt(k)
  <2>1. row'[k] = claims'[k] /\ claims'[k] = Adopted(claims[k], arg[k]) /\ claims[k] \in Claim
    BY <1>r, <1>3 DEF Adopt
  <2>2. /\ row'[k].podUID = arg[k].uid /\ row'[k].owner = None
        /\ row'[k].authority = AuthorityOf(arg[k])
    BY <2>1 DEF Adopted, Claim
  <2> QED BY <1>1, <1>3, <2>1, <2>2 DEF Adopt
<1> QED BY <1>2, <1>3

\* The row of a tracked pod stays the one that was made for it (CreatePod, UpdatePod).
LEMMA TrackedRowStep ==
    ASSUME TypeInv, TableInv, PodsInPlace, DeletesInv, [Next]_vars, NEW k \in Keys,
           pods'[k] # None, claims'[k] # None
    PROVE  MadeFor(claims'[k], pods'[k])
<1>t. /\ claims \in Rows /\ pods \in [Keys -> PodObject \cup {None}] /\ k \in Procs
      /\ row \in [Procs -> Claim \cup {None}]
  BY DEF TypeInv, TypeOK
<1>1. CASE Record(k)
  <2>1. claims'[k] = row[k] /\ pods'[k] = arg[k] /\ pc[k] = "record"
    BY <1>t, <1>1 DEF Record
  <2> QED BY <2>1 DEF DeletesInv
<1>2. CASE Adopt(k)
  <2>1. pods'[k] = arg[k]
    BY <1>t, <1>2 DEF Adopt
  <2> QED BY <1>2, <2>1, HandsMade
<1>3. CASE New \/ PreserveClaim(k)
  BY <1>t, <1>3 DEF New, PreserveClaim, PodsInPlace
<1>4. CASE RowAsWas(k)
  <2>1. CASE pods'[k] = pods[k]
    BY <1>4, <2>1 DEF DeletesInv, RowAsWas, SameParty, MadeFor
  <2>2. CASE PodRenewed(k)
    <3>1. /\ claims'[k] = claims[k] /\ pods'[k] = PodInKube(pods[k].uid)
          /\ MadeFor(claims[k], pods[k]) /\ HonestPod(pods[k])
      BY <1>4, <2>2 DEF PodRenewed, RowAsWas, DeletesInv, PodsHonest
    <3>2. pods'[k].uid = pods[k].uid /\ pods'[k].owner = controller[pods[k].uid]
      BY <3>1 DEF PodInKube
    <3>3. claims[k].authority \in Owners => controller[pods[k].uid] = claims[k].authority
      BY <3>1, NoneAssumption DEF MadeFor, HonestPod
    <3>4. /\ claims'[k] = claims[k] /\ claims[k].podUID = pods[k].uid
          /\ claims[k].owner = None
      BY <3>1 DEF MadeFor
    <3> QED BY <3>2, <3>3, <3>4 DEF MadeFor
  <2>3. CASE PodTaken(k)
    BY <1>1, <1>2, <2>3 DEF PodTaken
  <2>4. ~Crash /\ ~PodForgotten(k)
    BY DEF Crash, PodForgotten
  <2> QED BY <2>1, <2>2, <2>3, <2>4, PodsStep
<1> QED BY <1>1, <1>2, <1>3, <1>4, ClaimsStep

\* A delete in progress knows the controller its pod's row names, however it was called.
LEMMA ControllerStep ==
    ASSUME TypeInv, TableInv, PodsInPlace, DeletesInv, [Next]_vars, NEW k \in Keys,
           pc'[k] \in Deleting, claims'[k] # None
    PROVE  KnowsController(claims[k], arg[k])'
<1>t. /\ claims \in Rows /\ pods \in [Keys -> PodObject \cup {None}] /\ k \in Procs
      /\ controller \in [Pods -> Owners \cup {None}] /\ pc \in [Procs -> WorkerPCs \cup LoopPCs]
      /\ arg \in [Procs -> PodObject \cup {None}]
  BY DEF TypeInv, TypeOK
<1>1. CASE DeletesOn(k)
  <2>1. ~New /\ ~Record(k) /\ ~Adopt(k) /\ ~PreserveClaim(k)
    BY <1>t, <1>1 DEF DeletesOn, Deleting, New, Record, Adopt, PreserveClaim, Goto,
       TableInv, DownIsEmpty
  <2>2. RowAsWas(k)
    BY <2>1, ClaimsStep
  <2>3. arg[k] \in PodObject /\ arg'[k] = arg[k]
    BY <1>t, <1>1 DEF DeletesOn, Deleting, TypeInv, InHand, ServesPod
  <2>4. controller'[arg[k].uid] = controller[arg[k].uid]
    <3>1. kube[arg[k].uid] # "bound"
      BY <1>1 DEF DeletesOn, PodsInPlace
    <3> QED BY <2>3, <3>1, PodOwner, OwnersStep DEF OwnersForward
  <2>5. KnowsController(claims[k], arg[k])
    BY <1>1, <2>2 DEF DeletesInv, DeletesOn, RowAsWas
  <2> QED BY <2>2, <2>3, <2>4, <2>5 DEF KnowsController, RowAsWas, SameParty
<1>2. ASSUME NEW pod \in PodObject, DeletePod(k, pod), arg'[k] = pod
      PROVE  KnowsController(claims[k], arg[k])'
  <2>1. claims' = claims /\ controller' = controller /\ claims[k] # None /\ pod.uid \in Pods
    BY <1>2, PodOwner DEF DeletePod
  <2>2. CASE pods[k] = pod
    <3>1. MadeFor(claims[k], pod)
      BY <2>1, <2>2, <1>2, NoneAssumption DEF DeletesInv
    <3> QED BY <1>t, <1>2, <2>1, <3>1 DEF MadeFor, KnowsController
  <2>3. CASE pod = PodInKube(pod.uid)
    <3>1. pod.owner = controller[pod.uid]
      BY <2>3 DEF PodInKube
    <3> QED BY <1>2, <2>1, <3>1 DEF KnowsController
  <2> QED BY <1>2, <2>2, <2>3 DEF DeletePod, DeleteDue
<1> QED BY <1>1, <1>2, DeletingStep

\* Every step of the provider keeps what deletes keep to.
LEMMA DeletesInvStep ==
    ASSUME FullInv, TrackedInv, DeletesInv, [Next]_vars
    PROVE  DeletesInv'
<1>1. TypeInv /\ TableInv /\ PodsInPlace
  BY DEF FullInv, TrackedInv
<1>2. PodsHonest'
  BY <1>1, PodsHonestStep DEF DeletesInv
<1>3. ASSUME NEW k \in Keys, pods'[k] # None, claims'[k] # None PROVE MadeFor(claims'[k], pods'[k])
  BY <1>1, <1>3, TrackedRowStep
<1>4. ASSUME NEW k \in Keys, pc'[k] \in HandingOver PROVE MadeFor(row'[k], arg'[k])
  <2>1. CASE ClaimGranted(k) \/ Adopt(k)
    BY <1>1, <2>1, HandsMade
  <2>2. CASE pc[k] \in HandingOver /\ row'[k] = row[k] /\ arg'[k] = arg[k]
    BY <2>2 DEF DeletesInv, HandingOver
  <2> QED BY <1>1, <1>4, <2>1, <2>2, HandsEntered
<1>5. ASSUME NEW k \in Keys, pc'[k] \in Deleting, claims'[k] # None
      PROVE  KnowsController(claims[k], arg[k])'
  BY <1>1, <1>5, ControllerStep
<1>6. ASSUME NEW k \in Keys, pc'[k] \in {"release", "withdraw"}, arg'[k].owner # None
      PROVE  ownerState'[arg'[k].owner] # "alive"
  BY <1>1, <1>6, VerdictStep DEF DeletesInv
<1> QED BY <1>2, <1>3, <1>4, <1>5, <1>6 DEF DeletesInv, HandingOver, MadeFor

\* What deletes keep to holds in every reachable state, whatever pod a delete is for, with
\* any faults, crashes and older tables.
THEOREM Deletes == Spec => [](FullInv /\ TrackedInv /\ DeletesInv)
<1>1. Init => FullInv /\ TrackedInv /\ DeletesInv
  <2>1. ASSUME Init PROVE DeletesInv
    BY <2>1 DEF Init, DeletesInv, PodsHonest, Announcing, Deleting
  <2> QED BY <2>1, InitType, InitIdentity, InitTable, InitSafety, InitTracked DEF FullInv
<1>2. FullInv /\ TrackedInv /\ DeletesInv /\ [Next]_vars => (FullInv /\ TrackedInv /\ DeletesInv)'
  <2>1. ASSUME FullInv, TrackedInv, DeletesInv, [Next]_vars PROVE FullInv' /\ TrackedInv' /\ DeletesInv'
    BY <2>1, FullStep, TrackedStep, DeletesInvStep DEF FullInv
  <2> QED BY <2>1
<1> QED BY <1>1, <1>2, PTL DEF Spec

\* DeletePod destroys a sandbox only when the owner it asked about has ended and no other
\* pod is tracked at the key, and it asks the controller on record when the row is its
\* pod's (podUIDIsCurrent, destroyAuthorized): for every delete, that of a pod which does
\* not hold the row included.
THEOREM DeleteSpares == Spec => DeleteSparesItsOwner
<1>1. TrackedInv /\ DeletesInv =>
        [\A k \in Keys :
            /\ pc[k] = "release" /\ claims[k] # None
            /\ vm[claims[k].id] = "live" /\ vm'[claims[k].id] = "released"
            => /\ pods[k] # None => pods[k].uid = arg[k].uid
               /\ arg[k].owner # None => ownerState[arg[k].owner] # "alive"
               /\ claims[k].podUID = arg[k].uid => ~OwnControllerAlive(claims[k])]_vars
  <2> SUFFICES ASSUME TrackedInv, DeletesInv, NEW k \in Keys, pc[k] = "release", claims[k] # None
               PROVE  /\ pods[k] # None => pods[k].uid = arg[k].uid
                      /\ arg[k].owner # None => ownerState[arg[k].owner] # "alive"
                      /\ claims[k].podUID = arg[k].uid => ~OwnControllerAlive(claims[k])
    OBVIOUS
  <2>1. pods[k] # None => pods[k].uid = arg[k].uid
    BY DEF TrackedInv, PodsInPlace, Deleting
  <2>2. /\ KnowsController(claims[k], arg[k])
        /\ arg[k].owner # None => ownerState[arg[k].owner] # "alive"
    BY DEF DeletesInv, Deleting
  <2> QED BY <2>1, <2>2 DEF KnowsController, OwnControllerAlive
<1> QED BY <1>1, Deletes, PTL DEF DeleteSparesItsOwner
=============================================================================
