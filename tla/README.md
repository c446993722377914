# TLA+ model of the vk-sandbox provider

vk-sandbox is a virtual-kubelet provider: it backs each Pod bound to a virtual
node by a microVM that the node-local daemon sandboxd hands out. This directory
models that provider and the inventory publisher beside it, checks them with TLC
on small instances, and proves the safety properties with TLAPS for every
instance.

## The system and its parts

| Part | Source | Here |
|---|---|---|
| Claims table, its markers, the state file, startup, verification | `provider/provider.go` | `ProviderState`, `ClaimsTable` |
| `CreatePod`, `UpdatePod` | `provider/create.go` | `PodLifecycle` |
| `DeletePod`, delete authorization | `provider/delete.go`, `provider/ownership.go` | `PodLifecycle` |
| Owner re-check and release queue | `provider/recheck.go` | `BackgroundLoops` |
| Lease watch, verification loop | `provider/orphan.go` | `BackgroundLoops`, `ClaimsTable` |
| Orphan scan | `provider/orphan.go` | `OrphanScan`, composed with `Provider` |
| Status reads | `provider/status.go` | `PodStatus` in `PodLifecycle`; `GetPod` is in the guards of the handlers |
| Inventory publisher | `inventory/` | `Inventory` |
| Daemon wiring | `main.go` | which loops run, and that they start before the node registers; the rest is configuration |
| Unserved kubelet surfaces, event filter, certificate, version | `provider/unsupported.go`, `events.go`, `selfsigned.go`, `version/` | stateless, not modelled |
| virtual-kubelet, apiserver, sandboxd | outside the repository | from how the provider uses them: `Surroundings` and the operators marked external |

How they interact: virtual-kubelet calls a lifecycle handler per pod key, one at
a time for a key and concurrently for different keys. The handlers and three
loops share one table (`pods`, `claims`, `tentative`, `quarantined`,
`releasing`) under the mutex `mu`, and one state file whose snapshot and rename
happen under `saveMu`. Between two locked sections they call sandboxd (claim,
release, list) or the apiserver (read an owner), and act on the answer later.
The orphan scan reads the same table and the node's listing and changes neither.
The publisher reads the provider's claim addresses and sandboxd's listing and
applies one object per tick, owned by the node's Node.

## Modules

- `ProviderState`: constants with their assumptions, variables, the type
  invariant `TypeOK`.
- `ClaimsTable`: the table's helpers, the write path (`BeginWrite`, `EndWrite`),
  `VerifyClaimsAgainstNode`, `New`, `Crash`.
- `PodLifecycle`: the handlers. Process `k` is the handler at key `k`; `pc[k]`
  says how far it is.
- `BackgroundLoops`: processes `"lease"` and `"recheck"`; the verification loop is
  process `"verify"` of `ClaimsTable`.
- `Surroundings`: pods are bound, marked, removed; owners end; the reaper; the
  clock.
- `Provider`: `Init`, `Next`, `Spec`, and the safety properties.
- `Progress`: fairness and the liveness properties.
- `ProviderInvariant`: the inductive invariants. `IInv` is about rows, copies, the
  file and the node; `TrackedInv` about tracked pods and what they were told;
  `BoundInv` about the sandbox of a bound pod while nothing crashes; `OwnersInv`
  about whose it is; `DeletesInv` about what any delete keeps to; `SparedInv` and `OwnInv` about what a restart finds of it, with
  and without failing writes.
- `Custody`: the promise, without handlers, loops, file or crashes: a sandbox is
  free, granted, kept, lost or ended, and only a kept or ended one is announced.
- `ProviderCustody`: the refinement mapping, `ImplementsCustody`.
- `OrphanScan`: the audit scan as one more goroutine next to `Provider`, on a node
  where other parties hold sandboxes too.
- `Inventory`: `Publish` call by call, the process, the Node, the cache it is read
  through, the garbage collector.
- `MCProvider`, `MCOrphanScan`, `MCInventory` and the `.cfg` files: the instances
  TLC checks.
- `ProviderTypes`, `ProviderEffects`, `ProviderSafety`, `ProviderTracking`,
  `ProviderOwnership`, `ProviderRestart`: the proofs about `Provider`, each extending
  the one before.
- `NodeProofs`: how many sandboxes the provider leaves on the node, and what
  `OrphanScan` makes of those it finds there, on top of `ProviderSafety`;
  `InventoryProofs`: the proofs about `Inventory`.

Granularity. A section under `mu` is one step. A call to sandboxd or the
apiserver is a step, and its answer sits in `row`, `snap` or `listed` until the
step that uses it. A write of the state file is two steps, the snapshot and the
rename, with `saveMu` held between them. Steps are merged only where nobody can
look in between: the rename of `commitClaim` and the clearing of the marker
(`saveMu` is held, the marker is read by others only to decide what a write
contains), a release and the withdrawal of a tentative row, a release and the
removal from the queue, and all of `New`, which returns before anything else
runs.

Data. A claim row keeps the id (the token travels with it), the pod, the
authority, the preserve-time owner and the lease end. Annotations are usable or
not (`BadRuntime`, `BadSpec`). The release queue is a set of ids. An owner is
read as alive, deleting, expired, replaced, gone, as an error or as an ambiguous
404; a nil dynamic client and an unresolvable resource answer like an error. The
backoff of the re-check is "asked before, perhaps not due". `lost` records live
sandboxes whose token a crash or a lost answer took: no code could get it back.
In `Inventory` the provider and sandboxd are two sets, `held` and `live`, that
change at any moment, and an inventory is its owner, its rows and the rows with
an address. In `OrphanScan` a verdict is a value per id; log lines are left out.
Definitions under the comment `Mutation of X` are faulty variants of `X`; no run
uses them as they stand, they show that a property can fail.

virtual-kubelet (external): it creates a bound pod `GetPod` does not know and
updates one it knows, until the pod is `Failed`; it deletes a pod marked for
deletion, and the copy the provider still tracks when the apiserver has none
left; it drops a status pushed for a pod that is already `Failed`. With the fault
`"late"` a delete may also arrive after its pod was removed and another
generation was bound, the case `podUIDIsCurrent` is written for. The constant
`ForeignDeletes` says whether a delete may reach a key whose row another pod
holds; nothing in the code rules it out, and a finding is about it.

## Runs

Bounds: one or two keys; up to three pod generations, so that a pod, its
replacement and a stranger meet at one key; one or two owners; two or three
sandboxes, so that a replacement and a leftover coexist; a clock of at most two
ticks, so that a lease ends, is extended and ends again. `ActiveLoops` and
`Faults` select which loops and which faults a run has: with all of them the
state space of two pods is out of reach, so each question gets the loops and
faults that bear on it, and `Inductive` takes all of them with one pod.
Sandbox ids are symmetric, except where a legacy table names one and in the
liveness runs. `CHECK_DEADLOCK FALSE` throughout: the system may come to rest,
with every pod gone.

| Run | Checks | Hazard it is about |
|---|---|---|
| `Durability` | `CredentialsDurable`, `RunningIsRecoverable`, `OneHolder`, `NoLiveSandboxForgotten`, `PolledAgreesWithPushed`, `RunningPodIsWatched` | crashes, two writers; failing writes, claims, releases and undos; lost answers |
| `Ownership` | `NoHandoffAcrossOwners`, `QueuedForCause`, `BoundPodKeepsSandbox`, `BoundInv`, `OwnersInv`, `OwnInv` | verdicts used after the table moved on |
| `Restart` | `NoLiveSandboxForgotten`, `OneSandboxPerKey`, `SparedInv`, `RunningIsVouchedFor`, `BoundReleasedForCause` | restart with an unlistable node, two verifiers; writes that fail before a crash, and a re-check that runs before the pods are back |
| `Lease` | `TypeOK`, `FailedOnlyWhenGone`, `FailedPodHoldsNothing`, `TrackedInv`, `BoundPodKeepsSandbox`, `DeleteSparesItsOwner` | key changes hands behind a listing, deletes that arrive late or meet another pod's row |
| `Inductive` | `IInv`, `RunningIsRecoverable`, `ImplementsCustody` | everything at once, one pod, over the table of an older build |
| `Progress` | `HandlersReturn`, `QuarantineLifts`, `QueueDrains`, `CommittedRowsEnd` | lock kept by a write that fails, loop that stops early, release that is never retried, row nobody asks about |
| `Expiry` | `ExpiryPublished` | watch that meets failing listings; lease at the instant of its deadline |
| `Scan` | `OneHolder`, `UnboundIsStray`, `FalseAlarmsClear`, `StraysReported` | displaced row in the queue while its file copy is at the key, crash in between; listing older than the table it is compared with; strays nobody would notice |
| `Inventory` | `TypeOK`, `NoUnownedOnceSeen`, `NodeTakesInventory`, `NodeOwnsInventory`, `ViewConverges` | Node deleted behind a read, restarts, failing calls |

`Ownership`, `Restart` and `Scan` run with `ForeignDeletes = FALSE`; the others do
not restrict deletes, except the liveness runs. `Lease` reaches deletes that release
another pod's row, by a bare pod and by a pod of an owner that has ended, and checks
what `DeletePod` keeps to even then (`DeleteSparesItsOwner`); that it may take the
sandbox of a live owner this way is the finding `DeleteOfAnotherPod`. `Progress` has
failing writes, so a handler that leaves `saveMu` locked on its error path would keep
the next writer waiting; `CommittedRowsEnd` leaves out stranded claims, which the
finding `StrandedPreserved` is about. `Restart` has two pods of one owner
at one key and one ending of the owner: a create of the second pod fails on its
spec, so a preserved row stays for the re-check, and a failed write before a crash
brings an older row back. `Ownership` has the four endings and no faults; what
crashes add to `BoundPodKeepsSandbox` there is a theorem (`RestartKeeps`). `Scan` has two pods of two owners at
one key, so that a sandbox is displaced into the release queue while a scan
compares; its loops are off, which keeps the queue full. `Inventory` has two
generations of the Node and two starts, so that a restart meets the inventory of
an earlier process and of an earlier Node.

Three runs expect a violation; each states what a comment or a document says and
the code does not do.

- `DeleteOfAnotherPod`: the delete of a pod that never claimed releases the
  sandbox of a live owner, because `DeletePod` authorizes with the deleted pod's
  controller and not with the row's. The other half of it: such a delete,
  preserved, overwrites the row's recorded owner, and the next pod of that owner
  adopts a stranger's sandbox. That is why `NoHandoffAcrossOwners` is checked with
  `ForeignDeletes = FALSE`; with `TRUE`, pods of two owners at one key and a claim
  that fails (`Faults = {"claim"}`), it does not hold.
- `LateVerification`: a verification drops a row that another verification
  settled and a create adopted meanwhile; the pod stays Running and unwatched.
- `StrandedPreserved`: a tentative claim that a delete preserved is not asked
  about when its owner ends.

Two things the models show that are no run of their own. `podUIDIsCurrent`
accepts the tracked UID only, so an update of the next generation is refused too
until the delete of the previous one is seen, although its comment speaks of
previous generations. And `owners` sets `nodeSeen` when the Node is read, not
when an owned inventory is applied: if the Node is deleted after the read and the
applies in between fail, an unowned inventory published before stays; this is why
`NodeTakesInventory` speaks of what the Node owned.

Fairness (`Progress`). Weak fairness of a started handler: virtual-kubelet's
workers run it and every call it makes has a timeout. Weak fairness of each
loop: `runTicker` fires until the process ends. Strong fairness of a successful
listing, a successful release and a verdict of the apiserver that is due: a
party asked at every tick answers properly now and then. Crashes are left out of
these two runs: a process that keeps dying gets nothing done. `Scan` has crashes,
and weak fairness of the scan's ticker and of a restart; `StraysReported` is about
a process that stays up in the end. `Inventory` has weak fairness of the publisher
(`PublishPeriodically` loops until the process ends), of the cache and of the
collector, and strong fairness of each call's success, since a failed tick is
repeated; its properties are about a process that stays up.

## Proofs

The constants are arbitrary sets and functions under the assumptions of
`ProviderState`: `KeyOf`, `OwnerOf` and a legacy table are well typed, `None` is
none of the values, pod and owner UIDs differ, and a legacy table names a
sandbox once. `Inventory` assumes that its bounds are natural numbers. Theorems
with further hypotheses state them.

- `ProviderTypes!TypeCorrect`: `Spec => []TypeOK`. `TypeOK` alone is not
  inductive, a handler could use a local that was never set; `TypeInv` adds
  `InHand`.
- `ProviderSafety!Durability`: `Spec => []CredentialsDurable`, the release
  credential of every row that counts is in the state file at every moment.
- `ProviderSafety!Invariance`: `Spec => []IInv`, and from it `Recoverable`
  (`RunningIsRecoverable`), `NothingForgotten` (`NoLiveSandboxForgotten`),
  `FailedIsGone` (`FailedOnlyWhenGone`) and `HeldOnce` (`OneHolder`).
- `ProviderSafety!Refinement`: `Spec => ImplementsCustody`.
- `ProviderTracking!Tracking`: `Spec => [](FullInv /\ TrackedInv)`, and from it
  `PolledIsPushed` (`PolledAgreesWithPushed`), `FailedHoldsNothing`
  (`FailedPodHoldsNothing`) and `VouchedFor` (`RunningIsVouchedFor`).
- `ProviderTracking!Bound`: `Spec => [](FullInv /\ TrackedInv /\ BoundInv)`, and from
  it `BoundKept` (`BoundPodKeepsSandbox`), if `"crash"` is not among the faults.
- `ProviderTracking!Watched`: `Spec => []RunningPodIsWatched`, if `"list"` is not
  among the faults; all others, crashes included.
- `ProviderOwnership!Ownership`: `Spec => [](FullInv /\ TrackedInv /\ OwnersInv)`,
  and from it `NoHandoff` (`NoHandoffAcrossOwners`) and `Queuing`
  (`QueuedForCause`), if `ForeignDeletes` is false and `LegacyHonest`; all faults,
  crashes included.
- `ProviderOwnership!Deletes`: `Spec => [](FullInv /\ TrackedInv /\ DeletesInv)`, and
  from it `DeleteSpares` (`DeleteSparesItsOwner`); no further hypothesis, so for the
  delete of any pod, whoever holds the row.
- `ProviderRestart!Sparing`: `Spec => []SparedInv`, and from it `ReleasedForCause`
  (`BoundReleasedForCause`), under the hypotheses of `Ownership` and if no owner
  adopts bare pods (`Adopters = {}`); all faults, crashes included.
- `ProviderRestart!Owning`: `Spec => []OwnInv`, and from it `RestartKeeps`
  (`BoundPodKeepsSandbox`), if `"write"` is not among the faults and `ForeignDeletes`
  is false; all other faults, crashes included.
- `NodeProofs!SandboxesBounded`: `Spec => []OneSandboxPerKey`, if `Keys` is finite.
- `NodeProofs!ReportsStrays`: `ScanSpec => UnboundIsStray`.
- `InventoryProofs!TypeCorrect`: `Spec => []TypeOK` of the publisher, which says that
  an address is published with its row only; `OwnedOnceSeen`
  (`NoUnownedOnceSeen`).

The argument for `Durability`. A row counts when its key is not tentative. It
starts to count in `CommitLands`, and then the file has just become the
snapshot in flight; so the snapshot must hold the row (`WriteInFlight`). The
file is replaced only by that snapshot, so the snapshot must hold every row that
counts, also those that started to count after it was taken; there are none,
since counting starts under `saveMu` (`WriteInFlight` again, with `OwnRows` for
where a handler is while its key is tentative). The other way to count is to
take over a tentative key: a tentative marker is cleared by `WithdrawClaim`,
which then has to have removed the row; it does, because the row at the key is
the one the handler holds (`OwnRows`), which in turn needs that the loops only
drop rows they copied (`Markers`) and that a granted id is fresh
(`AllIssued`, `FreshIsPrivate`).

The argument for the rest. A row is dropped on three grounds: a listing lacked
it, its sandbox was released, or it goes on in the release queue. A listing that
lacks an id stays right about it, because sandboxd does not issue an id twice and
a sandbox does not come back (`ListingSound`, from `Rebirth`); so no step drops
the row of a sandbox that lives afterwards (`RowKeepsLive`, `QueueKeepsLive`). The file loses a row only by a rename, and the snapshot renamed
holds every live row the file has (`LiveKept`, with `CommitterWrites` for the row
being committed). `NoLiveSandboxForgotten` follows for a process that is up; for
one that starts, the file has everything that is not lost (`LiveKept` again) and
`New` drops only what a listing lacked. `RunningIsRecoverable` and
`FailedOnlyWhenGone` say the same of the ids the pods were told (`StatusTrue`).
`OneHolder` needs that the file and the bytes in flight name a sandbox once too,
since a restart makes the file the table (`NamedOnce`).

The refinement. The node says whether a sandbox is free, lives or has ended, and
`disk` whether a live one is kept; `lost` is the one history variable. A rename
keeps what it kept (`WriteCustody`, from `LiveKept`) and may keep one granted
sandbox more, since there is one commit at a time; a crash loses only what was
granted (`CrashCustody`, from `CredentialsDurable` and `NoLiveSandboxForgotten`);
a push announces a kept or ended sandbox and retires an ended one
(`PushCustody`). Everything else is a stutter (`SameCustody`).

Tracking. `PolledAgreesWithPushed` compares a read with a push, two steps that
share nothing but the table. A row that counts at the key of a tracked pod either
was announced to that pod or is about to be (`ToldOfRow`); to keep that, a create
must not meet a tracked pod unless its claim is stranded (`CreatesUntracked`), and
a delete must not leave somebody else tracked (`PodsInPlace`). What the lease watch
does between its last look and the publication of Failed is in `Doomed`: from the
moment it decides, the pod gets no other sandbox, whichever handler runs before
the push.

Bound pods. `BoundPodKeepsSandbox` is about every release there is. The live
sandbox of a bound pod told Running is at its key, which tracks that pod
(`BoundIsTracked`); a handler's release is of the row in its hands, which is at its
key too (`InHandKept`), and that handler then serves another pod, which
`PodsInPlace` excludes; the re-check drains only what is in the queue
(`DrainsQueued`), and a sandbox is not at a key and in the queue (`NamedOnce`).

Watching. The lease watch sees a pod only through its row, so a tracked pod told
Running must have one. Whoever drops a row drops the pod too, or finds none
tracked (`withdrawClaim`, the create handler's own drops, `withdrawForRelease`, the
lease watch), except `VerifyClaimsAgainstNode`, which drops rows and leaves pods. Where listings succeed
no row is quarantined, so no verification has anything to judge (`WatchedInv`). With
failing listings the property does not hold: that is the finding
`LateVerification`.

Restarts. With crashes `BoundPodKeepsSandbox` does not hold in general: the write
after an adoption may fail, which the code only logs; a crash then brings back the
row as it was preserved, owner recorded and pod untracked, and when that owner ends
before the pod is created again the re-check releases the sandbox of a bound pod.
Two theorems bound this from both sides.

`RestartKeeps`: without failing writes it cannot happen. What `CreatePod` announces
is its own pod's in the table, in the bytes it waits for and then in the file
(`AnnouncesOwn`); every later write copies it from the table at that key, since the
key is not tentative (`OwnBytes`); so a restart brings back a row that names the
pod and has no owner to ask about, which `recheckOwners` passes over, and
which only that pod adopts (`OwnAtKey`). A copy the re-check took before the
adoption is harmless while the pod is tracked (`withdrawForRelease`), and a crash
takes the copies with it. `DeletePod` acts on the pod the row names, which is not
bound. With `ForeignDeletes = TRUE` that last step fails: after a restart no pod is
tracked, `podUIDIsCurrent` accepts every delete, and TLC finds the late delete of an
earlier generation releasing the sandbox.

`ReleasedForCause`: with failing writes it happens for a cause only. The row that
comes back may name an earlier generation and an owner; but the sandbox is of one
party (`OneParty`), so the owner it names is the bound pod's own (`Exact`), and the
re-check takes it only when that owner has ended; a row of a bare pod has none to
ask about. That the sandbox is at the pod's key at all, in memory and in the file,
is `SparedAtKey`: a row that counts is at its own key in the file and in every write
in flight (`RowsInPlace`), and nobody else is created or tracked under the name of a
bound pod (`AloneAt`, from `OneBound`). `Adopters = {}` is needed: a bare pod that an
owner adopts after its row was preserved or written is known under two authorities;
with one adopting owner, failing writes and crashes TLC finds the property violated.
The exception for `LegacyVMs` is there because an older build's row may answer to
nobody, and then any pod adopts it.

How many. A live sandbox that is neither queued nor lost is at a key, or in the
hands of the handler that was granted it, whose key has no row yet
(`NoLiveSandboxForgotten`, `OwnRows`); so there is an injection into the keys
(`KeyOfSandbox`), and `OneSandboxPerKey` follows by counting.

Ownership. A row answers to its pod or that pod's controller (`AllHonest`), and all
who have to do with a sandbox are of one party (`OneParty`): a row passes on only by
adoption, `adoptableBy` compares the authorities, and an adoption by an owner
changes the authority of a bare pod everywhere at once, since `PartyOf` reads
`controller`. Old copies matter, as a crash makes the file the table and a verdict
is applied to what was copied; so `RowsHeld` ranges over the table, the file, the
bytes in flight, the rows in hand and the copies. A row that is
preserved must record its own pod's controller (`DeletesOwn`), and the row the
re-check withdraws must still have the owner it asked about (`AsksOwner`, for
`QueuedForCause`). `ForeignDeletes` has to be false: with `TRUE`, pods
of two owners at one key and failing claims, TLC finds both violated, and
`DeleteSparesLiveOwners` too, always through the delete of a pod that holds nothing (the finding
`DeleteOfAnotherPod`). `LegacyHonest` says of an older build's table what the code
keeps of its own: a row answers to its pod, its pod's controller, or nobody.

Deletes. `DeleteSparesItsOwner` says what is left for any delete. `podUIDIsCurrent`
keeps it off the row of a pod that is tracked, unless that is the pod deleted
(`PodsInPlace`); the verdict in hand is about the controller in the deleted pod's
object, and an owner that has ended stays so. When the row is the deleted pod's, that
object must name the controller the row has on record (`KnowsController`). An object
read from the apiserver does, since a pod on its way out is adopted by nobody. The
copy the provider tracks may be older than the pod's adoption, but the row of a
tracked pod was made for that copy or an earlier one, and no delete has recorded an
owner in it since (`MadeFor`): so it names no other controller. The property speaks of
a controller on record for this reason: a bare pod that is adopted, and deleted by the
copy taken before, is released without asking.

The scan. A behaviour of the scan next to the provider is a behaviour of the
provider (`ScanRefines`), so `NoLiveSandboxForgotten` holds at every comparison: a
live sandbox the table lacks is lost or being recorded. The age of the listing does
not enter. The publisher. A tick that began after the Node was seen has an owner
in its hands (`SeenIsOwned`), and `nodeSeen` falls only with the process, which takes
the tick with it.

Layout. `ProviderTypes` also states where a handler's steps come from and what a
step does outside the process (`OutwardStep`). `ProviderEffects` states what one
step can do to a row, a copied row, the file and the bytes in flight, and that no
step but a grant and a record makes an id known where it was not. The invariants
are proved from these lemmas instead of action by action.

Only model-checked: all liveness (`Progress`, `Expiry`, `FalseAlarmsClear`,
`StraysReported`, and of `Inventory` `NodeTakesInventory`, `NodeOwnsInventory`,
`ViewConverges`), which is outside this prover's reach together with `ENABLED`. Every
safety property of a passing run is also a theorem, with hypotheses that the run's
instance meets.

## Not modelled

- The delays of the re-check's backoff: a key asked before may or may not be due,
  so the model tells that a preserved row is asked about, not when. The backoff of
  a key that was adopted and preserved again between two ticks is such a matter.
- `ownerGVR` and its plural rules: what matters to the callers is whether the
  guess is right, and a wrong one is the ambiguous 404.
- The fields of a status (`runningStatus`, `expiredStatus`) and of an inventory
  entry, and `GetPods`, which copies: formatting without control.
- `main.go` beyond the loops it starts: flags, clients, TLS, rate limiters and
  node capacity are configuration handed to libraries.
- `selfsigned.go`, `events.go`, `version/`, `provider/unsupported.go`: a
  certificate, a filter on the kind of event, constants and constant errors; they
  share no state with the rest.
- A provider built without a lister, or with an empty state path: `main.go` passes
  both, only tests leave them out.
- Disk corruption, and writes to the state file by anybody else.
