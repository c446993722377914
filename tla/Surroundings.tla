---------------------------- MODULE Surroundings ----------------------------
(***************************************************************************)
(* What happens around the provider: the apiserver's pods and their        *)
(* owners, the node's reaper and archive lifecycle, and the clock.         *)
(***************************************************************************)
EXTENDS BackgroundLoops

\* What the surroundings never touch: the provider itself.
inside == <<up, tableVars, fileVars, pc, localVars, recheckVars, lost>>

\* A pod is bound to the virtual node: names are unique, and a controller that
\* is being torn down makes no pods.
PodBound(p) ==
    /\ kube[p] = "absent"
    /\ Vacant(KeyOf[p])
    /\ OwnerOf[p] # None => ownerState[OwnerOf[p]] = "alive"
    /\ kube' = [kube EXCEPT ![p] = "bound"]
    /\ UNCHANGED <<inside, vm, now, controller, ownerState, status>>

\* A deletion, an eviction.
PodTerminating(p) ==
    /\ kube[p] = "bound"
    /\ kube' = [kube EXCEPT ![p] = "terminating"]
    /\ UNCHANGED <<inside, vm, now, controller, ownerState, status>>

\* The object leaves the apiserver, after its deletion or by force.
PodRemoved(p) ==
    /\ kube[p] \in {"bound", "terminating"}
    /\ kube' = [kube EXCEPT ![p] = "removed"]
    /\ UNCHANGED <<inside, vm, now, controller, ownerState, status>>

\* A live owner becomes the controller of a bare pod.
PodAdopted(p, o) ==
    /\ kube[p] = "bound"
    /\ controller[p] = None
    /\ ownerState[o] = "alive"
    /\ controller' = [controller EXCEPT ![p] = o]
    /\ UNCHANGED <<inside, vm, now, kube, ownerState, status>>

\* An owner is deleted, expires, or its name is taken by a new generation.
OwnerEnds(o) ==
    /\ ownerState[o] = "alive"
    /\ \E s \in Endings : ownerState' = [ownerState EXCEPT ![o] = s]
    /\ UNCHANGED <<inside, vm, now, kube, controller, status>>

\* The node's reaper ends a lease, or somebody else releases the sandbox.
SandboxGone(v) ==
    /\ "reap" \in Faults
    /\ vm[v] = "live"
    /\ vm' = [vm EXCEPT ![v] = "gone"]
    /\ UNCHANGED <<inside, now, kubeVars>>

Tick ==
    /\ now < MaxNow
    /\ now' = now + 1
    /\ UNCHANGED <<inside, vm, kubeVars>>
=============================================================================
