------------------------------- MODULE Serving -------------------------------
(***************************************************************************)
(* What a rollout promises to the traffic of an environment: the release   *)
(* that serves only ever changes to one that is ready, and it stays ready  *)
(* for as long as it serves.                                               *)
(***************************************************************************)
CONSTANTS Release, None

VARIABLES
    active,  \* the release traffic goes to, None before the first
    ready    \* the releases with a full set of replicas

vars == <<active, ready>>

Init ==
    /\ ready \subseteq Release
    /\ active \in ready \cup {None}

\* Replicas come and go, but not those of the release that serves.
Restaff ==
    /\ ready' \subseteq Release
    /\ active = None \/ active \in ready'
    /\ UNCHANGED active

Switch ==
    /\ active' \in ready
    /\ UNCHANGED ready

Next == Restaff \/ Switch

Spec == Init /\ [][Next]_vars
==============================================================================
