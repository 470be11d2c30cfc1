----------------------------- MODULE MCServices -----------------------------
(***************************************************************************)
(* Parts of the control plane that need no fairness in one run: the grace  *)
(* window of node liveness (Liveness), joins (Join), scale to zero (Wake), *)
(* the image registry (Registry) and the log store (LogStore).  They share *)
(* no state, so a behaviour is about one of them (focus) and the others do *)
(* not move.                                                               *)
(***************************************************************************)
EXTENDS Liveness, Join, Wake, MCRegistry, LogStore

VARIABLE focus

\* Two calls with leader changes, and three with one leader: a node returns while
\* it is removed and another joins.
Joins == INSTANCE Join WITH Call <- {1, 2}
Lead == CHOOSE r \in Replica : TRUE
Rejoins == INSTANCE Join WITH
    Replica <- {Lead}, MaxMoves <- 0, JoinToken <- JoinToken \ SingleUse, SingleUse <- {}

\* Readers next to rotations, and shorter streams with faults.
Streams == INSTANCE LogStore WITH MaxLogFaults <- 0
Faulty == INSTANCE LogStore WITH MaxLines <- MaxLines - 1

servicesVars == <<vars, joinVars, wakeVars, registryVars, logVars, focus>>

\* Where a part may start in several states, it rests in one of them.
ServicesInit ==
    /\ focus \in {"liveness", "joins", "rejoins", "wakes", "registry", "logs", "disk"}
    /\ Init /\ JoinInit /\ WakeInit /\ RegistryInit /\ LogInit
    /\ focus = "joins" \/ joinLeader = Lead

ServicesNext ==
    /\ \/ focus = "liveness" /\ Next /\ UNCHANGED <<joinVars, wakeVars, registryVars, logVars>>
       \/ focus = "joins" /\ Joins!JoinNext /\ UNCHANGED <<vars, wakeVars, registryVars, logVars>>
       \/ focus = "rejoins" /\ Rejoins!JoinNext /\ UNCHANGED <<vars, wakeVars, registryVars, logVars>>
       \/ focus = "wakes" /\ WakeNext /\ UNCHANGED <<vars, joinVars, registryVars, logVars>>
       \/ focus = "registry" /\ RegistryNext /\ UNCHANGED <<vars, joinVars, wakeVars, logVars>>
       \/ focus = "logs" /\ Streams!LogNext /\ UNCHANGED <<vars, joinVars, wakeVars, registryVars>>
       \/ focus = "disk" /\ Faulty!LogNext /\ UNCHANGED <<vars, joinVars, wakeVars, registryVars>>
    /\ UNCHANGED focus

ServicesSpec == ServicesInit /\ [][ServicesNext]_servicesVars

\* The shape of the parts without theorems: a queue of held requests never exceeds
\* its limit, a reference count never falls below zero.
ServicesTypeOK == WakeTypeOK /\ RegistryTypeOK
=============================================================================
