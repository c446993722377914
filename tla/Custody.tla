------------------------------ MODULE Custody ------------------------------
(***************************************************************************)
(* What the provider promises about a sandbox, whatever its handlers,      *)
(* loops, state file and crashes do: who is answerable for it, and what    *)
(* the pods may be told.  A sandbox that is kept is never lost again.      *)
(***************************************************************************)
CONSTANTS VMs, Pods, NotTold

VARIABLES
    custody,  \* sandbox -> who answers for it
    told      \* pod -> the status it was given last

vars == <<custody, told>>

\* Not claimed yet; claimed, its credential only in memory; its credential in the
\* state file; live with no credential left; released or gone.
Stages == {"free", "granted", "kept", "lost", "ended"}

Init ==
    /\ custody \in [VMs -> {"free", "kept"}]
    /\ told = [p \in Pods |-> NotTold]

Becomes(S, stage) == custody' = [v \in VMs |-> IF v \in S THEN stage ELSE custody[v]]

\* CreatePod claims a sandbox, and commits the claim.
Grant(v) == custody[v] = "free" /\ Becomes({v}, "granted") /\ UNCHANGED told
Keep(v) == custody[v] = "granted" /\ Becomes({v}, "kept") /\ UNCHANGED told

\* The answer to a claim is lost, or a crash takes what was not committed.
Miss(v) == custody[v] = "free" /\ Becomes({v}, "lost") /\ UNCHANGED told
Lose(S) == (\A v \in S : custody[v] = "granted") /\ Becomes(S, "lost") /\ UNCHANGED told

\* A sandbox is released, or the node ends it.
End(v) ==
    /\ custody[v] \in {"granted", "kept", "lost"}
    /\ Becomes({v}, "ended")
    /\ UNCHANGED told

\* A pod is told Running on a sandbox that is kept, unless it ended meanwhile, and
\* Failed on one that has ended; Failed is final.
Tell(p, phase, v) ==
    /\ told[p].phase # "Failed"
    /\ told' = [told EXCEPT ![p] = [phase |-> phase, id |-> v]]
    /\ UNCHANGED custody
Announce(p, v) == custody[v] \in {"kept", "ended"} /\ Tell(p, "Running", v)
Retire(p, v) == custody[v] = "ended" /\ Tell(p, "Failed", v)

Next ==
    \/ \E v \in VMs : Grant(v) \/ Keep(v) \/ Miss(v) \/ End(v)
    \/ \E S \in SUBSET VMs : Lose(S)
    \/ \E p \in Pods, v \in VMs : Announce(p, v) \/ Retire(p, v)

Spec == Init /\ [][Next]_vars
=============================================================================
