----------------------------- MODULE Inventory -----------------------------
(***************************************************************************)
(* inventory/publisher.go: the goroutine that publishes this node's        *)
(* NodeInventory, against a Node object that is registered, deleted and    *)
(* read through a cache, the garbage collector that ends what a deleted    *)
(* Node owned, and a provider and a sandboxd that go on meanwhile.         *)
(***************************************************************************)
EXTENDS Naturals

CONSTANTS
    Sandboxes,   \* sandbox ids
    MaxNodes,    \* bound on the generations (UIDs) of the Node object
    MaxStarts    \* bound on the starts of the process

ASSUME BoundsAssumption == MaxNodes \in Nat /\ MaxStarts \in Nat

VARIABLES
    \* the process
    up,          \* it runs
    starts,      \* how often it was started
    registered,  \* the virtual node has registered itself (once per start)
    \* Publisher
    nodeSeen,    \* this process has read its Node
    pc,          \* where Publish is
    owner,       \* the owner reference in hand: a Node's UID, 0 for none
    entries,     \* the rows of the listing
    addressed,   \* the ones the claims table has an address for
    \* the surroundings
    node,        \* UID of the Node, 0 when there is none
    nodes,       \* UIDs given out
    cached,      \* the Node a read at ResourceVersion "0" returns
    inv,         \* the NodeInventory
    live,        \* sandboxd's index
    held         \* the sandboxes at a key of the claims table, with an address

locals == <<owner, entries, addressed>>
process == <<up, starts, registered>>
world == <<node, nodes, cached>>
vars == <<process, nodeSeen, pc, locals, world, inv, live, held>>

UIDs == 0 .. MaxNodes
Object == [exists: BOOLEAN, owner: UIDs, entries: SUBSET Sandboxes, addressed: SUBSET Sandboxes]
NoObject == [exists |-> FALSE, owner |-> 0, entries |-> {}, addressed |-> {}]

\* Every variable stays in its type, and an address is published for a listed row only
\* (LiveSandboxes decorates the listing's rows).
TypeOK ==
    /\ up \in BOOLEAN /\ starts \in 0 .. MaxStarts /\ registered \in BOOLEAN
    /\ nodeSeen \in BOOLEAN
    /\ pc \in {"idle", "list", "addresses", "info", "apply"}
    /\ owner \in UIDs /\ entries \subseteq Sandboxes /\ addressed \subseteq entries
    /\ node \in UIDs /\ nodes \in UIDs /\ cached \in UIDs
    /\ inv \in Object /\ inv.addressed \subseteq inv.entries
    /\ live \subseteq Sandboxes /\ held \subseteq Sandboxes

Init ==
    /\ up = FALSE /\ starts = 0 /\ registered = FALSE
    /\ nodeSeen = FALSE /\ pc = "idle"
    /\ owner = 0 /\ entries = {} /\ addressed = {}
    /\ node = 0 /\ nodes = 0 /\ cached = 0
    /\ inv = NoObject
    /\ live = {} /\ held = {}
-----------------------------------------------------------------------------
(* Publish, one tick of PublishPeriodically. *)

\* owners: the Node as it was read...
OwnersNode ==
    /\ cached # 0
    /\ nodeSeen' = TRUE
    /\ owner' = cached

\* Mutation of OwnersNone: a Node that is not found owns nothing, seen or not.
OwnersNoneAlways ==
    /\ cached = 0
    /\ owner' = 0
    /\ UNCHANGED nodeSeen

\* Mutation of OwnersNone: the last Node known goes on owning what is published.
OwnersLastKnown ==
    /\ cached = 0
    /\ owner' = IF nodeSeen THEN nodes ELSE 0
    /\ UNCHANGED nodeSeen

\* ... or none, before it registers.  A Node not found once it was seen, and a
\* read that fails, end the tick with nothing changed, which is no step at all.
OwnersNone ==
    /\ cached = 0 /\ ~nodeSeen
    /\ owner' = 0
    /\ UNCHANGED nodeSeen

Owners ==
    /\ up /\ pc = "idle"
    /\ OwnersNode \/ OwnersNone
    /\ pc' = "list"
    /\ UNCHANGED <<process, entries, addressed, world, inv, live, held>>

\* Mutation of ListSandboxes: the claims table is taken for the index.
ListClaims ==
    /\ pc = "list"
    /\ entries' = held
    /\ pc' = "addresses"
    /\ UNCHANGED <<process, nodeSeen, owner, addressed, world, inv, live, held>>

\* LiveSandboxes: the index first...
ListSandboxes ==
    /\ pc = "list"
    /\ entries' = live
    /\ pc' = "addresses"
    /\ UNCHANGED <<process, nodeSeen, owner, addressed, world, inv, live, held>>

\* The ids the claims table has an address for.
ClaimAddresses == held

\* Mutation of JoinAddresses: every known address is published.
JoinAllAddresses ==
    /\ pc = "addresses"
    /\ addressed' = ClaimAddresses
    /\ pc' = "info"
    /\ UNCHANGED <<process, nodeSeen, owner, entries, world, inv, live, held>>

\* ... then the provider's ClaimAddresses, whatever it has become by then.
JoinAddresses ==
    /\ pc = "addresses"
    /\ addressed' = entries \cap ClaimAddresses
    /\ pc' = "info"
    /\ UNCHANGED <<process, nodeSeen, owner, entries, world, inv, live, held>>

\* NodeInfo: the address and the warm capacity.
NodeInfo ==
    /\ pc = "info"
    /\ pc' = "apply"
    /\ UNCHANGED <<process, nodeSeen, locals, world, inv, live, held>>

\* The tick is over: its locals are out of scope.
TickEnds ==
    /\ pc' = "idle"
    /\ owner' = 0 /\ entries' = {} /\ addressed' = {}
    /\ UNCHANGED <<process, nodeSeen, world, live, held>>

\* The server-side apply creates or replaces the object, its owner included.
Apply ==
    /\ pc = "apply"
    /\ inv' = [exists |-> TRUE, owner |-> owner, entries |-> entries, addressed |-> addressed]
    /\ TickEnds

\* Mutation of PublishFails: the publisher gives up.
PublishGivesUp ==
    /\ pc \in {"list", "info", "apply"}
    /\ pc' = "done"
    /\ UNCHANGED <<process, nodeSeen, locals, world, inv, live, held>>

\* Any call of the tick fails: nothing is applied until the next one.
PublishFails ==
    /\ pc \in {"list", "info", "apply"}
    /\ TickEnds
    /\ UNCHANGED inv
-----------------------------------------------------------------------------
(* The process, the Node, the garbage collector and the sandboxes. *)

Start ==
    /\ ~up /\ starts < MaxStarts
    /\ up' = TRUE
    /\ starts' = starts + 1
    /\ UNCHANGED <<registered, nodeSeen, pc, locals, world, inv, live, held>>

\* A restart: nodeSeen is not remembered.
Stop ==
    /\ up
    /\ up' = FALSE
    /\ registered' = FALSE
    /\ nodeSeen' = FALSE
    /\ pc' = "idle"
    /\ owner' = 0 /\ entries' = {} /\ addressed' = {}
    /\ UNCHANGED <<starts, world, inv, live, held>>

\* The virtual node registers, once per start: it creates its Node or takes the one
\* it finds.
Register ==
    /\ up /\ ~registered
    /\ node # 0 \/ nodes < MaxNodes
    /\ registered' = TRUE
    /\ nodes' = IF node = 0 THEN nodes + 1 ELSE nodes
    /\ node' = IF node = 0 THEN nodes' ELSE node
    /\ UNCHANGED <<up, starts, nodeSeen, pc, locals, cached, inv, live, held>>

NodeDeleted ==
    /\ node # 0
    /\ node' = 0
    /\ UNCHANGED <<process, nodeSeen, pc, locals, nodes, cached, inv, live, held>>

\* The apiserver's cache catches up.
CacheSync ==
    /\ cached # node
    /\ cached' = node
    /\ UNCHANGED <<process, nodeSeen, pc, locals, node, nodes, inv, live, held>>

\* An object whose owner is gone is collected.
Collect ==
    /\ inv.exists /\ inv.owner # 0 /\ inv.owner # node
    /\ inv' = NoObject
    /\ UNCHANGED <<process, nodeSeen, pc, locals, world, live, held>>

\* Sandboxes come and go, claimed here or by others; rows outlive them for a while.
SandboxesChange ==
    /\ \E s \in Sandboxes :
          \/ live' = live \cup {s} /\ held' \in {held, held \cup {s}}
          \/ live' = live \ {s} /\ UNCHANGED held
          \/ held' = held \ {s} /\ UNCHANGED live
    /\ UNCHANGED <<process, nodeSeen, pc, locals, world, inv>>

Publish == Owners \/ ListSandboxes \/ JoinAddresses \/ NodeInfo \/ Apply

Next ==
    \/ Publish \/ PublishFails
    \/ Start \/ Stop \/ Register \/ NodeDeleted \/ CacheSync \/ Collect \/ SandboxesChange

\* The ticker fires again and again, a call that is made again and again succeeds now
\* and then, the cache catches up and the collector runs.
Fairness ==
    /\ WF_vars(Publish)
    /\ SF_vars(ListSandboxes) /\ SF_vars(NodeInfo) /\ SF_vars(Apply)
    /\ WF_vars(CacheSync) /\ WF_vars(Collect)

Spec == Init /\ [][Next]_vars /\ Fairness
-----------------------------------------------------------------------------
\* Once this process has seen its Node it never publishes an inventory nobody owns, so
\* a collected one is not brought back unowned (owners).
NoUnownedOnceSeen ==
    [][inv' # inv /\ inv'.exists /\ nodeSeen => inv'.owner # 0]_vars

\* When the Node is gone for good, so is every inventory it owned, the one a tick in
\* flight or a stale read still applies included ("deleting the Node garbage-collects
\* its NodeInventory").
NodeTakesInventory ==
    <>[](node = 0 /\ up /\ nodeSeen) => <>[](inv.owner = 0)

\* A Node that stays comes to own the inventory, whatever was published before it
\* registered, by an earlier process or under an earlier Node.
NodeOwnsInventory == <>[](node # 0 /\ up) => <>[](inv.exists /\ inv.owner = node)

\* What is published converges to the node: a sandbox that stays is in it, one that is
\* gone for good is not.
ViewConverges ==
    \A s \in Sandboxes :
        /\ <>[](node # 0 /\ up /\ s \in live) => <>[](s \in inv.entries)
        /\ <>[](node # 0 /\ up /\ s \notin live) => <>[](s \notin inv.entries)
=============================================================================
