--------------------------- MODULE ProviderState ---------------------------
(***************************************************************************)
(* The state of the vk-sandbox provider (provider/provider.go), of the     *)
(* goroutines that work on it, and of what surrounds it: the node's        *)
(* sandboxd, the state file and the Kubernetes objects it reads.           *)
(*                                                                         *)
(* A goroutine is a process with a program counter.  A section under the   *)
(* provider's mutex mu is one step; a call to sandboxd or to the apiserver *)
(* is a step of its own, whose answer sits in a local variable until the   *)
(* step that uses it.                                                      *)
(***************************************************************************)
EXTENDS Naturals

CONSTANTS
    Keys,           \* pod keys "namespace/name"
    Pods,           \* pod generations, i.e. pod UIDs
    Owners,         \* UIDs of the Sandbox objects that control pods
    VMs,            \* sandbox ids: sandboxd never issues one twice
    None,           \* absence: a nil pointer, a missing map entry
    Deadlines,      \* lease ends; 0 is the zero time, "none known"
    MaxNow,         \* bound on the clock
    KeyOf,          \* the key each pod generation lives at
    OwnerOf,        \* the controller each pod is born with, or None (a bare pod)
    Endings,        \* the ways an owner may end
    Adopters,       \* the owners that may become the controller of a bare pod
    BadRuntime,     \* pods whose runtime annotation names another runtime
    BadSpec,        \* pods without a template or with an invalid ttl-seconds
    LegacyClaims,   \* the table an older build left in the state file
    ActiveLoops,    \* the background goroutines that run
    Faults,         \* what may go wrong outside the provider
    ForeignDeletes  \* may DeletePod reach a key whose row another pod holds?

\* Claim, provider.go: the token travels with the id; the address and the
\* start time play no part in the protocol.
Claim == [id: VMs, podUID: Pods, authority: Pods \cup Owners \cup {None},
          owner: Owners \cup {None}, deadline: Deadlines]

\* What the provider sees of a Pod object: its UID and its controller.
PodObject == [uid: Pods, owner: Owners \cup {None}]

Rows == [Keys -> Claim \cup {None}]
NoRows == [k \in Keys |-> None]

\* stateFile, provider.go: only the credential of a queued release matters.
Table == [claims: Rows, releasing: SUBSET VMs]
EmptyTable == [claims |-> NoRows, releasing |-> {}]

\* The background goroutines main.go starts, and the one handler per key.
Loops == {"verify", "lease", "recheck"}
Procs == Keys \cup Loops

\* The process dies, a listing, a state-file write, a claim or a release fails,
\* an answer is lost, the node loses a sandbox on its own.
FaultKinds == {"crash", "list", "write", "claim", "release", "answer", "reap", "late"}

\* What a Sandbox owner looks like to destroyAuthorized.
OwnerStates == {"alive", "deleting", "expired", "replaced", "gone"}

ASSUME ConstantsAssumption ==
    /\ KeyOf \in [Pods -> Keys]
    /\ OwnerOf \in [Pods -> Owners \cup {None}]
    /\ Endings \subseteq OwnerStates \ {"alive"}
    /\ Adopters \subseteq Owners
    /\ BadRuntime \subseteq Pods
    /\ BadSpec \subseteq Pods
    /\ MaxNow \in Nat
    /\ Deadlines \subseteq Nat
    /\ 0 \in Deadlines
    /\ ActiveLoops \subseteq Loops
    /\ Faults \subseteq FaultKinds
    /\ ForeignDeletes \in BOOLEAN

ASSUME NoneAssumption ==
    None \notin Keys \cup Pods \cup Owners \cup VMs \cup Claim \cup PodObject

ASSUME UIDAssumption == Pods \cap Owners = {}

\* A table an older build wrote: well formed, one row per sandbox.
ASSUME LegacyAssumption ==
    /\ LegacyClaims \in Rows
    /\ \A j, k \in Keys :
          LegacyClaims[j] # None /\ LegacyClaims[k] # None /\ j # k
            => LegacyClaims[j].id # LegacyClaims[k].id

ASSUME ProcsAssumption == Keys \cap Loops = {} /\ None \notin Procs

VARIABLES
    \* Provider, provider.go
    up,           \* the process runs and New has returned
    pods,         \* key -> last accepted pod object
    claims,       \* key -> claim row
    tentative,    \* keys whose claim is not on disk yet
    quarantined,  \* loaded keys no listing has vouched for
    releasing,    \* sandboxes withdrawn from their key, release still owed
    \* the state file and the writer inside saveMu
    disk, saveMu, buf,
    \* goroutine locals
    pc,           \* where each goroutine is
    arg,          \* the pod object a handler serves or a watch is about to publish
    row,          \* the claim row it holds in hand
    snap,         \* rows copied under the lock before a listing or a query
    listed,       \* ids in the last listing it received
    \* recheckOwners and drainReleases
    seen,         \* keys with a backoff entry (ownerRechecks)
    asking,       \* the key whose verdict came back release
    queue,        \* drainReleases' copy of releasing
    dirty,        \* changed || released
    \* the surroundings
    vm,           \* sandboxd: state of every sandbox id
    now,          \* the wall clock
    kube,         \* the apiserver's pods
    controller,   \* pod -> its controller reference
    ownerState,   \* the apiserver's Sandbox owners
    status,       \* pod -> the last status pushed for it
    \* history
    lost          \* live sandboxes whose credential a crash or a lost answer took

tableVars == <<pods, claims, tentative, quarantined, releasing>>
fileVars == <<disk, saveMu, buf>>
localVars == <<arg, row, snap, listed>>
recheckVars == <<seen, asking, queue, dirty>>
kubeVars == <<kube, controller, ownerState, status>>
vars == <<up, tableVars, fileVars, pc, localVars, recheckVars, vm, now,
          kubeVars, lost>>

WorkerPCs == {"idle", "verify", "verifyList", "verifyApply", "expiry", "expiryList",
              "expiryApply", "adopt", "adoptSave", "adoptSaving", "stranded",
              "strandedRelease", "claim", "record", "commit", "committing", "undo",
              "push", "authorize", "preserve", "release", "withdraw",
              "deleteSave", "deleteSaving"}
LoopPCs == {"idle", "done", "verifyList", "verifyApply", "leaseList", "leaseJudge",
            "leaseNotify", "ask", "recheckWithdraw", "drain", "save", "saving"}

NotPushed == [phase |-> "none", id |-> None]

\* Every variable stays in its type: the shape of Provider and of its surroundings.
TypeOK ==
    /\ up \in BOOLEAN
    /\ pods \in [Keys -> PodObject \cup {None}]
    /\ claims \in Rows
    /\ tentative \subseteq Keys
    /\ quarantined \subseteq Keys
    /\ releasing \subseteq VMs
    /\ disk \in Table
    /\ saveMu \in Procs \cup {None}
    /\ buf \in Table
    /\ pc \in [Procs -> WorkerPCs \cup LoopPCs]
    /\ arg \in [Procs -> PodObject \cup {None}]
    /\ row \in [Procs -> Claim \cup {None}]
    /\ snap \in [Procs -> Rows]
    /\ listed \in [Procs -> SUBSET VMs]
    /\ seen \subseteq Keys
    /\ asking \in Keys \cup {None}
    /\ queue \subseteq VMs
    /\ dirty \in BOOLEAN
    /\ vm \in [VMs -> {"free", "live", "released", "gone"}]
    /\ now \in Nat
    /\ kube \in [Pods -> {"absent", "bound", "terminating", "removed"}]
    /\ controller \in [Pods -> Owners \cup {None}]
    /\ ownerState \in [Owners -> OwnerStates]
    /\ status \in [Pods -> [phase: {"none", "Running", "Failed"}, id: VMs \cup {None}]]
    /\ lost \subseteq VMs
=============================================================================
