---------------------------- MODULE ClaimsTable ----------------------------
(***************************************************************************)
(* provider/provider.go: the claims table, its state file, startup, and    *)
(* the verification of loaded rows against the node's listing.             *)
(***************************************************************************)
EXTENDS ProviderState

\* Mutation of Expired: a lease lasts through its deadline.
ExpiredAfter(c) == c.deadline # 0 /\ now > c.deadline

Expired(c) == c.deadline # 0 /\ now >= c.deadline

AuthorityOf(pod) == IF pod.owner = None THEN pod.uid ELSE pod.owner

\* The preserve-time owner, when recorded, takes the authority's place.
AnswersTo(c) == IF c.owner # None THEN c.owner ELSE c.authority

\* Mutation of AdoptableBy: any same-name pod adopts.
AdoptableByAnyone(c, pod) == TRUE

AdoptableBy(c, pod) ==
    \/ AnswersTo(c) = None
    \/ c.podUID = pod.uid
    \/ AnswersTo(c) = AuthorityOf(pod)

Settled(k) == k \notin tentative /\ k \notin quarantined

\* claims[k] is still the row with this id.
Holds(k, id) == claims[k] # None /\ claims[k].id = id

\* sandboxd's index: every sandbox it holds.
Live == {v \in VMs : vm[v] = "live"}

\* Does a table (in memory or on disk) hold the credential of v?
InTable(v, t) ==
    \/ v \in t.releasing
    \/ \E k \in Keys : t.claims[k] # None /\ t.claims[k].id = v

Memory == [claims |-> claims, releasing |-> releasing]
-----------------------------------------------------------------------------
(* Control of a goroutine. *)

Goto(a, label) == pc' = [pc EXCEPT ![a] = label]

\* A handler returns, or a loop's tick ends: its locals are out of scope.
Return(a) ==
    /\ Goto(a, "idle")
    /\ arg' = [arg EXCEPT ![a] = None]
    /\ row' = [row EXCEPT ![a] = None]
    /\ snap' = [snap EXCEPT ![a] = NoRows]
    /\ listed' = [listed EXCEPT ![a] = {}]
-----------------------------------------------------------------------------
(* dropClaim, refreshDeadline and withdrawClaim, each one locked step. *)

DropClaim(k, id) ==
    claims' = IF Holds(k, id) THEN [claims EXCEPT ![k] = None] ELSE claims

\* Mutation of RefreshDeadline: the listing's lease end is taken for a time left.
RefreshRelative(k, id, d) ==
    claims' = IF Holds(k, id) THEN [claims EXCEPT ![k].deadline = now + d] ELSE claims

RefreshDeadline(k, id, d) ==
    claims' = IF Holds(k, id) THEN [claims EXCEPT ![k].deadline = d] ELSE claims

\* Mutation of WithdrawClaim: the markers are not cleared.
WithdrawKeepsMarkers(k, id) ==
    /\ DropClaim(k, id)
    /\ pods' = IF Holds(k, id) THEN [pods EXCEPT ![k] = None] ELSE pods
    /\ UNCHANGED <<tentative, quarantined>>

\* Mutation of WithdrawClaim: the pod stays tracked.
WithdrawKeepsPod(k, id) ==
    /\ DropClaim(k, id)
    /\ tentative' = tentative \ {k}
    /\ quarantined' = quarantined \ {k}
    /\ UNCHANGED pods

WithdrawClaim(k, id) ==
    /\ DropClaim(k, id)
    /\ pods' = IF Holds(k, id) THEN [pods EXCEPT ![k] = None] ELSE pods
    /\ tentative' = tentative \ {k}
    /\ quarantined' = quarantined \ {k}
-----------------------------------------------------------------------------
(* write: the snapshot under mu and the rename, both inside saveMu.  Any   *)
(* of MkdirAll, WriteFile and Rename may fail; the old file then stands.   *)

\* Mutation of Durable: a commit writes the settled rows only.
DurableSkipsTentative(committing) ==
    [claims |-> [k \in Keys |-> IF k \notin tentative THEN claims[k] ELSE None],
     releasing |-> releasing]

\* The rows write marshals: the durable ones plus the one being committed.
Durable(committing) ==
    [claims |-> [k \in Keys |-> IF k \notin tentative \/ k = committing
                                THEN claims[k] ELSE None],
     releasing |-> releasing]

BeginWrite(a, committing) ==
    /\ saveMu = None
    /\ saveMu' = a
    /\ buf' = Durable(committing)
    /\ UNCHANGED disk

\* Mutation of EndWrite: a write that fails returns with saveMu held.
EndWriteLeaksLock(a, landed) ==
    /\ landed \/ "write" \in Faults
    /\ saveMu = a
    /\ saveMu' = IF landed THEN None ELSE a
    /\ disk' = IF landed THEN buf ELSE disk
    /\ buf' = EmptyTable

EndWrite(a, landed) ==
    /\ landed \/ "write" \in Faults
    /\ saveMu = a
    /\ saveMu' = None
    /\ disk' = IF landed THEN buf ELSE disk
    /\ buf' = EmptyTable
-----------------------------------------------------------------------------
(* VerifyClaimsAgainstNode, run by CreatePod's handler at "verify" and by  *)
(* the verification loop at "idle".                                        *)

QuarantinedRows == [k \in Keys |-> IF k \in quarantined THEN claims[k] ELSE None]

\* Where a caller goes on once the call returned true.
AfterVerify(a, stillQuarantined) ==
    IF a \in Keys THEN "expiry"
    ELSE IF stillQuarantined = {} THEN "done" ELSE "idle"

VerifyDue(a) ==
    up /\ IF a \in Keys THEN pc[a] = "verify"
          ELSE a = "verify" /\ a \in ActiveLoops /\ pc[a] = "idle"

VerifySnapshot(a) ==
    /\ VerifyDue(a)
    /\ QuarantinedRows # NoRows
    /\ snap' = [snap EXCEPT ![a] = QuarantinedRows]
    /\ Goto(a, "verifyList")
    /\ UNCHANGED <<up, tableVars, fileVars, arg, row, listed, recheckVars, vm, now,
                   kubeVars, lost>>

\* Nothing to settle: the call returns true without a listing.
VerifyNothing(a) ==
    /\ VerifyDue(a)
    /\ QuarantinedRows = NoRows
    /\ Goto(a, AfterVerify(a, quarantined))
    /\ UNCHANGED <<up, tableVars, fileVars, localVars, recheckVars, vm, now, kubeVars,
                   lost>>

VerifyList(a) ==
    /\ pc[a] = "verifyList"
    /\ Goto(a, "verifyApply")
    /\ listed' = [listed EXCEPT ![a] = Live]
    /\ UNCHANGED <<up, tableVars, fileVars, arg, row, snap, recheckVars, vm, now,
                   kubeVars, lost>>

\* Mutation of VerifyListFails: the loop gives up.
VerifyGivesUp(a) ==
    /\ "list" \in Faults
    /\ pc[a] = "verifyList"
    /\ Goto(a, IF a \in Keys THEN "idle" ELSE "done")
    /\ snap' = [snap EXCEPT ![a] = NoRows]
    /\ UNCHANGED <<up, tableVars, fileVars, arg, row, listed, recheckVars, vm, now,
                   kubeVars, lost>>

\* A failed listing is not an empty list: the create fails, the loop ticks on.
VerifyListFails(a) ==
    /\ "list" \in Faults
    /\ pc[a] = "verifyList"
    /\ Return(a)
    /\ UNCHANGED <<up, tableVars, fileVars, recheckVars, vm, now, kubeVars, lost>>

\* Mutation of Judged: the row at the key is judged, whichever it is by now.
JudgedByKey(a) == {k \in Keys : snap[a][k] # None /\ claims[k] # None}

\* Rows of the snapshot still in the table: the only ones the listing judges.
Judged(a) == {k \in Keys : snap[a][k] # None /\ Holds(k, snap[a][k].id)}

\* Backfill of a row that has no deadline from the listing's.
Vouched(c, d) == IF c.deadline = 0 THEN [c EXCEPT !.deadline = d] ELSE c

VerifyApply(a) ==
    /\ pc[a] = "verifyApply"
    /\ \E d \in [Keys -> Deadlines] :
          claims' = [k \in Keys |->
              IF k \notin Judged(a) THEN claims[k]
              ELSE IF claims[k].id \in listed[a] THEN Vouched(claims[k], d[k])
              ELSE None]
    /\ quarantined' = quarantined \ Judged(a)
    /\ Goto(a, AfterVerify(a, quarantined'))
    /\ snap' = [snap EXCEPT ![a] = NoRows]
    /\ listed' = [listed EXCEPT ![a] = {}]
    /\ UNCHANGED <<up, pods, tentative, releasing, fileVars, arg, row, recheckVars,
                   vm, now, kubeVars, lost>>
-----------------------------------------------------------------------------
(* The life of the process.  Nothing else runs until New returns, so New   *)
(* is one step; a New that cannot persist returns an error and the process *)
(* exits with the file as it was, which is no step at all.                 *)

\* Mutation of LoadedRows: a failed listing is read as an empty one.
LoadedRowsFailedIsEmpty(canList, d) ==
    [k \in Keys |->
        IF disk.claims[k] # None /\ canList /\ disk.claims[k].id \in Live
        THEN Vouched(disk.claims[k], d[k]) ELSE None]

\* Rows New keeps: with a listing the vouched ones, without it all of them.
LoadedRows(canList, d) ==
    [k \in Keys |->
        IF disk.claims[k] = None \/ ~canList THEN disk.claims[k]
        ELSE IF disk.claims[k].id \in Live THEN Vouched(disk.claims[k], d[k])
        ELSE None]

New ==
    /\ ~up
    /\ up' = TRUE
    /\ \E canList \in BOOLEAN, d \in [Keys -> Deadlines] :
          /\ canList \/ "list" \in Faults
          /\ claims' = LoadedRows(canList, d)
          /\ quarantined' = IF canList THEN {}
                            ELSE {k \in Keys : disk.claims[k] # None}
    /\ releasing' = disk.releasing
    /\ disk' = [claims |-> claims', releasing |-> disk.releasing]
    /\ UNCHANGED <<pods, tentative, saveMu, buf, pc, localVars, recheckVars, vm,
                   now, kubeVars, lost>>

\* The process dies or is restarted: everything but the file is gone.
Crash ==
    /\ up /\ "crash" \in Faults
    /\ up' = FALSE
    /\ pods' = NoRows
    /\ claims' = NoRows
    /\ tentative' = {}
    /\ quarantined' = {}
    /\ releasing' = {}
    /\ saveMu' = None
    /\ buf' = EmptyTable
    /\ pc' = [a \in Procs |-> "idle"]
    /\ arg' = [a \in Procs |-> None]
    /\ row' = [a \in Procs |-> None]
    /\ snap' = [a \in Procs |-> NoRows]
    /\ listed' = [a \in Procs |-> {}]
    /\ seen' = {}
    /\ asking' = None
    /\ queue' = {}
    /\ dirty' = FALSE
    /\ lost' = lost \cup {v \in Live : ~InTable(v, disk)}
    /\ UNCHANGED <<disk, vm, now, kubeVars>>
=============================================================================
