------------------------- MODULE ProviderInvariant -------------------------
(***************************************************************************)
(* The inductive invariant behind the safety properties of Provider: what  *)
(* the goroutines' locals, the table, the file being written and the node  *)
(* have to do with each other between any two steps.                       *)
(***************************************************************************)
EXTENDS Provider

\* The credential of v is in memory at a key whose row counts as durable.
InSettledMemory(v) == v \in releasing \/ \E k \in Keys : k \notin tentative /\ Holds(k, v)

\* Where a handler of CreatePod is past the quarantine check.
PastVerify == {"expiry", "expiryList", "expiryApply", "adopt", "adoptSave", "adoptSaving",
               "stranded", "strandedRelease", "claim", "record", "commit", "committing",
               "undo", "push"}

\* Where a handler serves a pod object, and where it works on a row.
ServesPod == PastVerify \cup {"verify", "verifyList", "verifyApply", "authorize", "preserve",
                              "release", "withdraw"}
WorksOnRow == {"expiryList", "expiryApply", "adoptSave", "adoptSaving", "strandedRelease",
               "record", "commit", "committing", "undo", "push", "authorize", "preserve",
               "release", "withdraw"}

\* Locals are set where they are used.
InHand ==
    /\ \A k \in Keys : pc[k] \in ServesPod => arg[k] # None
    /\ \A k \in Keys : pc[k] \in WorksOnRow => row[k] # None
    /\ pc["lease"] = "leaseNotify" => arg["lease"] # None /\ row["lease"] # None
    /\ pc["recheck"] = "recheckWithdraw" => asking # None /\ snap["recheck"][asking] # None

\* Somebody other than process x knows the id v: a table in memory, on disk or
\* being written, a copied row, or a row in hand.
Known(v, x) ==
    \/ InTable(v, Memory) \/ InTable(v, disk) \/ InTable(v, buf)
    \/ \E a \in Procs, k \in Keys : snap[a][k] # None /\ snap[a][k].id = v
    \/ \E a \in Procs : a # x /\ row[a] # None /\ row[a].id = v

\* Every id the provider knows was issued by sandboxd.
AllIssued ==
    /\ \A v \in VMs : Known(v, None) => vm[v] # "free"
    /\ \A p \in Pods : status[p].id # None => vm[status[p].id] # "free"

\* A sandbox just granted is known to nobody but the handler about to record it.
FreshIsPrivate == \A k \in Keys : pc[k] = "record" => ~Known(row[k].id, k)

\* What the marker sets say of the rows.
Markers ==
    /\ \A k \in tentative \cup quarantined : claims[k] # None
    /\ tentative \cap quarantined = {}
    /\ \A a \in Procs, k \in Keys :
          snap[a][k] # None /\ Holds(k, snap[a][k].id) => k \notin tentative
    /\ \A k \in Keys : snap["recheck"][k] # None => k \notin quarantined

\* What a handler may assume of the row at its own key, whatever the others did.
OwnRow(k) ==
    /\ pc[k] \in WorksOnRow \ {"record"} /\ claims[k] # None => claims[k].id = row[k].id
    /\ pc[k] \in PastVerify => k \notin quarantined
    /\ pc[k] \in {"verifyList", "verifyApply"} /\ k \in quarantined
         => snap[k][k] # None /\ Holds(k, snap[k][k].id)
    /\ pc[k] \in {"expiryList", "expiryApply"} => k \notin tentative
    /\ pc[k] = "stranded" /\ claims[k] # None => k \in tentative
    /\ pc[k] \in {"claim", "record"} => claims[k] = None
    /\ pc[k] \in {"commit", "committing", "undo"} => k \in tentative
OwnRows == \A k \in Keys : OwnRow(k)

\* The file being written holds every credential that counts, the one being
\* committed included; nobody else writes meanwhile.
WriteInFlight ==
    /\ \A k \in Keys : pc[k] = "committing" =>
          /\ saveMu = k
          /\ buf.claims[k] # None /\ buf.claims[k].id = row[k].id
    /\ saveMu # None =>
          /\ \A k \in Keys : claims[k] # None /\ k \notin tentative => InTable(claims[k].id, buf)
          /\ \A v \in releasing : InTable(v, buf)

\* A row found missing from a listing has no live sandbox, then or later.
ListingSound ==
    /\ \A a \in Procs, k \in Keys :
          /\ pc[a] \in {"verifyApply", "leaseJudge", "leaseNotify"}
          /\ snap[a][k] # None /\ snap[a][k].id \notin listed[a]
          => vm[snap[a][k].id] # "live"
    /\ \A k \in Keys : pc[k] = "expiryApply" /\ row[k].id \notin listed[k]
                         => vm[row[k].id] # "live"
    /\ pc["lease"] = "leaseNotify" => vm[row["lease"].id] # "live"
    /\ \A k \in Keys : pc[k] = "withdraw" => vm[row[k].id] # "live"

\* A live sandbox on disk is in memory, and in the file being written.
LiveKept ==
    /\ up => \A v \in Live : InTable(v, disk) => InSettledMemory(v)
    /\ saveMu # None => \A v \in Live :
          /\ InTable(v, disk) => InTable(v, buf)
          /\ InTable(v, buf) => \/ InSettledMemory(v)
                                \/ \E k \in Keys : pc[k] = "committing" /\ Holds(k, v)
    /\ ~up => \A v \in Live : v \in lost \/ InTable(v, disk)
    /\ \A k \in Keys : pc[k] \in {"adoptSave", "adoptSaving", "push"} /\ vm[row[k].id] = "live"
                         => InTable(row[k].id, disk)

\* No table, in memory, on disk or being written, names a sandbox twice.
Distinct(t) ==
    /\ \A j, k \in Keys : t.claims[j] # None /\ t.claims[k] # None /\ j # k
                            => t.claims[j].id # t.claims[k].id
    /\ \A k \in Keys : t.claims[k] # None => t.claims[k].id \notin t.releasing
NamedOnce == Distinct(Memory) /\ Distinct(disk) /\ (saveMu # None => Distinct(buf))

\* A lost sandbox is known to nobody any more, and a status that was pushed names one.
LostForgotten == \A v \in lost : vm[v] # "free" /\ ~Known(v, None)
StatusNamed == \A p \in Pods : status[p].phase # "none" => status[p].id # None

\* A process that is down has no goroutines and no table.
DownIsEmpty == ~up => /\ pc = [a \in Procs |-> "idle"]
                      /\ snap = [a \in Procs |-> NoRows] /\ claims = NoRows
                      /\ releasing = {} /\ tentative = {} /\ quarantined = {}
                      /\ saveMu = None /\ buf = EmptyTable

IInv ==
    /\ TypeOK /\ InHand /\ AllIssued /\ FreshIsPrivate /\ Markers /\ OwnRows /\ WriteInFlight
    /\ ListingSound /\ LiveKept /\ NamedOnce /\ LostForgotten /\ StatusNamed /\ DownIsEmpty
    /\ CredentialsDurable /\ RunningIsRecoverable /\ NoLiveSandboxForgotten
    /\ FailedOnlyWhenGone
-----------------------------------------------------------------------------
(* What the pods the provider tracks have to do with its rows. *)

\* Where CreatePod has no row to show for its pod yet, and where it has.
Creating == {"verify", "verifyList", "verifyApply", "expiry", "expiryList", "expiryApply",
             "adopt", "stranded", "strandedRelease", "claim", "record", "commit",
             "committing", "undo"}
Announcing == {"adoptSave", "adoptSaving", "push"}
Deleting == {"authorize", "preserve", "release", "withdraw"}

\* Key k is tracked for pod p.
Tracks(k, p) == pods[k] # None /\ pods[k].uid = p

\* A tracked pod and a pod being served live at the key, and were bound once; a pod
\* being deleted is on its way out of the apiserver and nobody else is tracked.
PodsInPlace ==
    /\ ~up => pods = NoRows
    /\ \A k \in Keys : pods[k] # None => KeyOf[pods[k].uid] = k /\ kube[pods[k].uid] # "absent"
    /\ \A k \in Keys : pc[k] \in ServesPod => KeyOf[arg[k].uid] = k /\ kube[arg[k].uid] # "absent"
    /\ \A k \in Keys : pc[k] \in Deleting =>
          /\ kube[arg[k].uid] # "bound"
          /\ pods[k] # None => pods[k].uid = arg[k].uid
    /\ \A p \in Pods : status[p].phase # "none" => kube[p] # "absent"

\* CreatePod serves a pod that is not tracked, or one with a stranded claim; it tracks
\* the pod it has recorded a row for.
CreatesUntracked ==
    /\ \A k \in Keys : pc[k] \in Creating /\ pods[k] # None => k \in tentative
    /\ \A k \in Keys : pc[k] \in Announcing => k \notin tentative
    /\ \A k \in Keys : pc[k] \in Announcing \cup {"commit", "committing"} => Tracks(k, arg[k].uid)

\* Failed was told, or is about to be, of sandbox v to pod p: p does not get another one.
Doomed(p, v) ==
    LET k == KeyOf[p] IN
    /\ pc[k] \in Creating => arg[k].uid # p
    /\ Tracks(k, p) => k \notin tentative /\ (claims[k] # None => claims[k].id = v)
    /\ ~Tracks(k, p) => kube[p] \in {"terminating", "removed"} \/ status[p].phase = "Failed"

\* A tracked pod whose row counts was told of that row's sandbox.
ToldOfRow ==
    \A k \in Keys :
        /\ pods[k] # None /\ claims[k] # None /\ k \notin tentative
        /\ pc[k] \notin Announcing
        => status[pods[k].uid].phase # "none" /\ status[pods[k].uid].id = claims[k].id

\* The provider and the pods agree on who holds what: a tracked pod was told of the row at
\* its key (CreatePod's push, UpdatePod), and a pod told Failed, or about to be, gets no
\* other sandbox (publishExpiredLeases).
TrackedInv ==
    /\ PodsInPlace /\ CreatesUntracked /\ ToldOfRow
    /\ pc["lease"] = "leaseNotify" => Doomed(arg["lease"].uid, row["lease"].id)
    /\ \A p \in Pods : status[p].phase = "Failed" => Doomed(p, status[p].id)
-----------------------------------------------------------------------------
(* Why a sandbox stays with the pod that runs on it. *)

\* A live sandbox a handler works on is still at its key, or in the release queue; one
\* it is about to announce is at its key.
InHandKept ==
    \A k \in Keys : pc[k] \in WorksOnRow \ {"record"} /\ vm[row[k].id] = "live" =>
        \/ Holds(k, row[k].id)
        \/ row[k].id \in releasing /\ pc[k] \notin Announcing \cup {"commit", "committing"}

\* drainReleases works on queued releases only.
DrainsQueued == queue \subseteq releasing /\ (~up => queue = {})

\* The live sandbox of a bound pod that was told Running is at the key, which is tracked
\* for that pod.
BoundIsTracked ==
    \A p \in Pods :
        kube[p] = "bound" /\ status[p].phase = "Running" /\ vm[status[p].id] = "live" =>
            /\ Tracks(KeyOf[p], p) /\ Holds(KeyOf[p], status[p].id)
            /\ KeyOf[p] \notin tentative

\* The sandbox a bound pod runs on is out of reach of every release: clearStrandedClaim's,
\* undoUnpersistedClaim's, DeletePod's, and that of the re-check and its queue.
BoundInv == InHandKept /\ DrainsQueued /\ BoundIsTracked
-----------------------------------------------------------------------------
(* Whose sandbox it is. *)

PartyOf(p) == AuthorityOf(PodInKube(p))

\* A row answers to its pod or to the controller of its pod, an old one to nobody.
HonestRow(c) ==
    /\ AnswersTo(c) \in {c.podUID, controller[c.podUID], None}
    /\ AnswersTo(c) = None => c.id \in LegacyVMs

\* A pod object names the controller of its pod, or was read before there was one.
HonestPod(pod) == pod.owner # None => controller[pod.uid] = pod.owner

\* The rows the provider has: in the table, the file, the bytes in flight, in hand, and
\* copied.
RowsHeld ==
    ({claims[k] : k \in Keys} \cup {disk.claims[k] : k \in Keys} \cup {buf.claims[k] : k \in Keys}
     \cup {row[a] : a \in Procs} \cup {snap[a][k] : a \in Procs, k \in Keys}) \ {None}

\* Every row and every pod object the provider has is honest.
AllHonest ==
    /\ \A c \in RowsHeld : HonestRow(c)
    /\ \A k \in Keys : pods[k] # None => HonestPod(pods[k])
    /\ \A a \in Procs : arg[a] # None => HonestPod(arg[a])

\* The pods that have to do with sandbox v: those told they run on it, and those a row
\* names.
Attached(v) ==
    {p \in Pods : status[p].phase = "Running" /\ status[p].id = v}
    \cup {c.podUID : c \in {d \in RowsHeld : d.id = v}}

\* They are of one party, save for a sandbox an older build's row names.
OneParty ==
    \A v \in VMs \ LegacyVMs : \A p, q \in Attached(v) : PartyOf(p) = PartyOf(q)

\* A pod object that has the owner its row answers to.
OwnerInHand(c, pod) == AnswersTo(c) \in Owners => pod.owner = AnswersTo(c)

\* A row CreatePod has claimed or adopted is of the pod it serves.
HandsOwn ==
    \A k \in Keys : pc[k] \in Announcing \cup {"record", "commit", "committing"} =>
        row[k].podUID = arg[k].uid /\ OwnerInHand(row[k], arg[k])

\* A row in DeletePod's hands is of the pod it serves, and its owner was asked; so is the
\* row of a tracked pod.
DeletesOwn ==
    /\ \A k \in Keys : pc[k] \in Deleting /\ claims[k] # None
         => claims[k].podUID = arg[k].uid /\ OwnerInHand(claims[k], arg[k])
    /\ \A k \in Keys : /\ pods[k] # None /\ claims[k] # None
                       /\ claims[k].podUID = pods[k].uid
                       => OwnerInHand(claims[k], pods[k])
    /\ \A k \in Keys : pc[k] = "preserve" => arg[k].owner # None
    /\ \A k \in Keys : pc[k] \in {"release", "withdraw"} /\ arg[k].owner # None
         => ownerState[arg[k].owner] # "alive"

\* While the re-check asks about a copied row, the row at the key stays with the owner it
\* asks about.
AsksOwner ==
    /\ \A k \in Keys : snap["recheck"][k] # None =>
          /\ snap["recheck"][k].owner # None
          /\ Holds(k, snap["recheck"][k].id)
               => /\ controller[claims[k].podUID] = snap["recheck"][k].owner
                  /\ AnswersTo(claims[k]) # None
    /\ pc["recheck"] = "recheckWithdraw"
         => ownerState[snap["recheck"][asking].owner] # "alive"

\* Whose sandbox it is, is settled by adoptableBy and destroyAuthorized, and stays so
\* while verdicts, copies and writes are on their way.
OwnersInv == AllHonest /\ OneParty /\ HandsOwn /\ DeletesOwn /\ AsksOwner
-----------------------------------------------------------------------------
(* What every delete keeps to, of whatever pod. *)

\* Every pod object the provider has is honest.
PodsHonest ==
    /\ \A k \in Keys : pods[k] # None => HonestPod(pods[k])
    /\ \A a \in Procs : arg[a] # None => HonestPod(arg[a])

\* Row c was made for this pod object, or for an earlier read of the pod: no owner was
\* recorded by a delete since, and the one it was claimed under is the object's.
MadeFor(c, pod) ==
    /\ c.podUID = pod.uid /\ c.owner = None
    /\ c.authority \in Owners => pod.owner = c.authority

\* If the row is the pod's and names its controller, so does the pod object.
KnowsController(c, pod) ==
    /\ c.podUID = pod.uid /\ controller[pod.uid] # None
    /\ controller[pod.uid] \in {c.authority, c.owner}
    => pod.owner = controller[pod.uid]

\* The row of a tracked pod, and one CreatePod has claimed or adopted, was made for it;
\* DeletePod asks the controller its pod's row names, and acts on the verdict.
DeletesInv ==
    /\ PodsHonest
    /\ \A k \in Keys : pods[k] # None /\ claims[k] # None => MadeFor(claims[k], pods[k])
    /\ \A k \in Keys : pc[k] \in Announcing \cup {"record", "commit", "committing"} =>
          MadeFor(row[k], arg[k])
    /\ \A k \in Keys : pc[k] \in Deleting /\ claims[k] # None => KnowsController(claims[k], arg[k])
    /\ \A k \in Keys : pc[k] \in {"release", "withdraw"} /\ arg[k].owner # None
         => ownerState[arg[k].owner] # "alive"
-----------------------------------------------------------------------------
(* Why a restart leaves a bound pod its sandbox. *)

\* A table has sandbox v at key k.
HasAt(t, k, v) == t.claims[k] # None /\ t.claims[k].id = v

\* The file, and the one being written, have a row that counts at the very key it is at.
RowsInPlace ==
    \A k \in Keys : claims[k] # None /\ k \notin tentative =>
        /\ HasAt(disk, k, claims[k].id)
        /\ saveMu # None => HasAt(buf, k, claims[k].id)

\* One pod at a time is bound under a name.
OneBound ==
    \A p, q \in Pods : kube[p] = "bound" /\ kube[q] = "bound" /\ KeyOf[p] = KeyOf[q] => p = q

\* clearStrandedClaim has a tentative row in hand.
StrandsTentative == \A k \in Keys : pc[k] = "strandedRelease" /\ claims[k] # None => k \in tentative

\* Where no bare pod is adopted, rows and pod objects name the party of their pod.
ExactRow(c) == c.id \notin LegacyVMs => AnswersTo(c) = PartyOf(c.podUID)
ExactPod(pod) == pod.owner = controller[pod.uid]
Exact ==
    /\ \A c \in RowsHeld : ExactRow(c)
    /\ \A k \in Keys : pods[k] # None => ExactPod(pods[k])
    /\ \A k \in Keys : arg[k] # None => ExactPod(arg[k])

\* Pod p is bound and runs on a live sandbox.
RunsOnLive(p) == kube[p] = "bound" /\ status[p].phase = "Running" /\ vm[status[p].id] = "live"

\* ... and its owner, if any, has not ended; an older build's sandbox may be anybody's.
Spared(p) ==
    /\ RunsOnLive(p) /\ status[p].id \notin LegacyVMs
    /\ controller[p] = None \/ ownerState[controller[p]] = "alive"

\* Nobody else is at the key of pod p: it is the pod being tracked, or created.
AloneAt(k, p) ==
    /\ pods[k] # None => pods[k].uid = p
    /\ pc[k] \in Creating \cup Announcing => arg[k].uid = p

\* The sandbox of a pod to be spared is at the pod's key, in memory and in the file, whichever
\* generation of the pod the row names.
SparedAtKey ==
    \A p \in Pods : Spared(p) =>
        LET k == KeyOf[p] IN
        /\ HasAt(disk, k, status[p].id) /\ AloneAt(k, p)
        /\ up => Holds(k, status[p].id) /\ k \notin tentative

SparedInv == RowsInPlace /\ OneBound /\ StrandsTentative /\ Exact /\ SparedAtKey

\* A table has v at key k as the sandbox of pod p, with nothing to re-check.
OwnAt(t, k, p, v) ==
    HasAt(t, k, v) /\ t.claims[k].podUID = p /\ t.claims[k].owner = None

\* What CreatePod has claimed or adopted is its pod's, in the table, in the bytes it writes
\* and, when it is announced, in the file.
AnnouncesOwn(k) ==
    LET OwnIn(t) == OwnAt(t, k, arg[k].uid, row[k].id) IN
    /\ pc[k] = "record" => row[k].podUID = arg[k].uid /\ row[k].owner = None
    /\ pc[k] \in {"adoptSaving", "committing"} => saveMu = k
    /\ claims[k] # None =>
          /\ pc[k] \in Announcing \cup {"commit", "committing"} => OwnIn(Memory)
          /\ pc[k] \in {"adoptSaving", "committing"} => OwnIn(buf)
          /\ pc[k] = "push" => OwnIn(disk) /\ (saveMu # None => OwnIn(buf))

\* Where every write succeeds, the sandbox of a bound pod is at the pod's key under the
\* pod's own name, in memory, in the file and in the one being written; the re-check has no
\* copy of the row that a restart would make it act on.
OwnAtKey ==
    \A p \in Pods : RunsOnLive(p) =>
        LET k == KeyOf[p]
            v == status[p].id IN
        /\ OwnAt(disk, k, p, v) /\ AloneAt(k, p) /\ pc[k] \notin Deleting
        /\ saveMu # None => OwnAt(buf, k, p, v)
        /\ up => OwnAt(Memory, k, p, v) /\ k \notin tentative
        /\ pods[k] = None /\ snap["recheck"][k] # None => snap["recheck"][k].id # v

OwnInv == OneBound /\ StrandsTentative /\ (\A k \in Keys : AnnouncesOwn(k)) /\ OwnAtKey
=============================================================================
