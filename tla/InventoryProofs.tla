-------------------------- MODULE InventoryProofs --------------------------
(***************************************************************************)
(* The safety of the inventory publisher for any sandboxes, any number of  *)
(* Nodes and any number of starts.                                         *)
(***************************************************************************)
EXTENDS Inventory, TLAPS

\* First-order and set reasoning first, then SMT.
USE ZenonT(5), SMTT(30)

\* Where a tick has its owner reference in hand.
InTick == {"list", "addresses", "info", "apply"}

\* A process that has seen its Node publishes under an owner (owners).
SeenIsOwned == nodeSeen /\ pc \in InTick => owner # 0

\* Addresses are joined to the rows of the listing, never before it (LiveSandboxes).
JoinedLast == pc \in {"idle", "list", "addresses"} => addressed = {}

Inv == TypeOK /\ SeenIsOwned /\ JoinedLast

\* Zero is the UID of no Node, and the next UID and the next start are within bounds.
LEMMA Bounds ==
    /\ 0 \in UIDs /\ 0 \in 0 .. MaxStarts
    /\ \A n \in UIDs : n < MaxNodes => n + 1 \in UIDs
    /\ \A n \in 0 .. MaxStarts : n < MaxStarts => n + 1 \in 0 .. MaxStarts
BY BoundsAssumption DEF UIDs

\* Nothing is published before the first start (NewPublisher).
LEMMA InitInv == Init => Inv
<1> SUFFICES ASSUME Init PROVE Inv
  OBVIOUS
<1>1. NoObject \in Object
  BY Bounds DEF NoObject, Object
<1>2. TypeOK
  BY <1>1, Bounds DEF Init, TypeOK, NoObject
<1>3. SeenIsOwned /\ JoinedLast
  BY DEF Init, SeenIsOwned, JoinedLast
<1> QED BY <1>2, <1>3 DEF Inv

\* A tick of the publisher keeps the types and what it knows of its Node (Publish).
LEMMA PublishStep ==
    ASSUME Inv, Publish \/ PublishFails
    PROVE  Inv'
<1> USE DEF Inv, TypeOK, SeenIsOwned, JoinedLast, InTick, process, world, locals
<1>1. CASE Owners
  <2>1. owner' \in UIDs /\ nodeSeen' \in BOOLEAN /\ (nodeSeen' => owner' # 0)
    <3>1. CASE OwnersNode
      BY <3>1 DEF OwnersNode
    <3>2. CASE OwnersNone
      BY <3>2, Bounds DEF OwnersNone
    <3> QED BY <1>1, <3>1, <3>2 DEF Owners
  <2> QED BY <1>1, <2>1 DEF Owners
<1>2. CASE ListSandboxes
  <2>1. addressed' = {}
    BY <1>2 DEF ListSandboxes
  <2> QED BY <1>2, <2>1 DEF ListSandboxes
<1>3. CASE JoinAddresses
  BY <1>3 DEF JoinAddresses, ClaimAddresses
<1>4. CASE NodeInfo
  BY <1>4 DEF NodeInfo
<1>5. CASE Apply
  <2>1. inv' \in Object /\ inv'.addressed \subseteq inv'.entries
    BY <1>5 DEF Apply, Object
  <2> QED BY <1>5, <2>1, Bounds DEF Apply, TickEnds
<1>6. CASE PublishFails
  BY <1>6, Bounds DEF PublishFails, TickEnds
<1> QED BY <1>1, <1>2, <1>3, <1>4, <1>5, <1>6 DEF Publish

\* So does everything around it: restarts, the Node, its cache, the collector.
LEMMA SurroundingsStep ==
    ASSUME Inv,
           \/ Start \/ Stop \/ Register \/ NodeDeleted \/ CacheSync \/ Collect
           \/ SandboxesChange \/ UNCHANGED vars
    PROVE  Inv'
<1> USE DEF Inv, TypeOK, SeenIsOwned, JoinedLast, InTick, process, world, locals
<1>1. CASE Start
  BY <1>1, Bounds DEF Start
<1>2. CASE Stop
  BY <1>2, Bounds DEF Stop
<1>3. CASE Register
  <2>1. nodes' \in UIDs /\ node' \in UIDs
    BY <1>3, Bounds DEF Register
  <2> QED BY <1>3, <2>1 DEF Register
<1>4. CASE NodeDeleted
  BY <1>4, Bounds DEF NodeDeleted
<1>5. CASE CacheSync
  BY <1>5 DEF CacheSync
<1>6. CASE Collect
  <2>1. inv' \in Object /\ inv'.addressed \subseteq inv'.entries
    BY <1>6, Bounds DEF Collect, NoObject, Object
  <2> QED BY <1>6, <2>1 DEF Collect
<1>7. CASE SandboxesChange
  <2>1. live' \subseteq Sandboxes /\ held' \subseteq Sandboxes
    BY <1>7 DEF SandboxesChange
  <2> QED BY <1>7, <2>1 DEF SandboxesChange
<1>8. CASE UNCHANGED vars
  BY <1>8 DEF vars
<1> QED BY <1>1, <1>2, <1>3, <1>4, <1>5, <1>6, <1>7, <1>8

\* The invariant holds at every moment.
LEMMA Invariance == Spec => []Inv
<1>1. Inv /\ [Next]_vars => Inv'
  BY PublishStep, SurroundingsStep DEF Next
<1> QED BY InitInv, <1>1, PTL DEF Spec

\* Every variable stays in its type, and an address is published for a listed row only,
\* for any constants (LiveSandboxes).
THEOREM TypeCorrect == Spec => []TypeOK
<1>1. Inv => TypeOK
  BY DEF Inv
<1> QED BY Invariance, <1>1, PTL

\* Once this process has seen its Node it publishes no inventory nobody owns, however the
\* Node, its cache and the process come and go (owners).
THEOREM OwnedOnceSeen == Spec => NoUnownedOnceSeen
<1>1. Inv /\ [Next]_vars => [inv' # inv /\ inv'.exists /\ nodeSeen => inv'.owner # 0]_vars
  <2> SUFFICES ASSUME Inv, Next, inv' # inv, inv'.exists, nodeSeen
               PROVE  inv'.owner # 0
    OBVIOUS
  <2>1. CASE Apply
    BY <2>1 DEF Apply, Inv, SeenIsOwned, InTick
  <2>2. CASE Collect
    BY <2>2 DEF Collect, NoObject
  <2>3. Apply \/ Collect
    BY DEF Next, Publish, Owners, ListSandboxes, JoinAddresses, NodeInfo, PublishFails, Start,
           Stop, Register, NodeDeleted, CacheSync, SandboxesChange
  <2> QED BY <2>1, <2>2, <2>3
<1> QED BY Invariance, <1>1, PTL DEF Spec, NoUnownedOnceSeen
=============================================================================
