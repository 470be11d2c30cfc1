------------------------------ MODULE MeshPath ------------------------------
(***************************************************************************)
(* How one node reaches one peer of the mesh (mesh/meshsock).  The path    *)
(* manager probes the peer's candidate addresses, lets the endpoint send   *)
(* to an address that answered, keeps it alive with probes, drops it when  *)
(* they go unanswered, and falls back to hole punching and the relay.  Its *)
(* evaluation copies the peer's state, unlocks, and acts on the copy,      *)
(* while the socket reader handles answers.                                *)
(*                                                                         *)
(* Time advances in ticks of ProbeInterval; probes are answered within one *)
(* tick or never.  The peer is not the hub (the hub's path is never        *)
(* managed) and a relay is configured.                                     *)
(***************************************************************************)
EXTENDS Naturals, FiniteSets

CONSTANTS
    Addr,                           \* addresses the peer may have
    KeepaliveInterval, PathMisses,  \* a path is dropped after so many misses
    PunchAfter, PunchCooldown, RelayAfter,
    MaxChanges                      \* bound: changes of network, candidates or socket

NoAddr == "none"

ASSUME MeshPathAssumption ==
    /\ NoAddr \notin Addr
    /\ KeepaliveInterval \in Nat \ {0} /\ PathMisses \in Nat \ {0}
    /\ PunchAfter \in Nat /\ PunchCooldown \in Nat /\ RelayAfter \in Nat /\ MaxChanges \in Nat

Home == [kind |-> "home", addr |-> NoAddr]
Relay == [kind |-> "relay", addr |-> NoAddr]
NoGlance == [verified |-> NoAddr, lastPong |-> 0, misses |-> 0, unverified |-> 0,
             candidates |-> {}, punch |-> 0, relay |-> FALSE, taken |-> FALSE]

VARIABLES
    open,        \* the socket is open and the path manager runs
    reachable,   \* addresses that answer
    changes,
    candidates,  \* addresses worth probing
    verified,    \* verifiedAddr
    lastPong,    \* ticks since the last answer
    misses,      \* keepalives sent since
    unverified,  \* ticks since the peer became unverified
    punch,       \* ticks since the last punch request
    punching,    \* a punch request is with the control plane
    punched,     \* there was one (punchAttempts)
    path,        \* the endpoint's current path
    answers,     \* answers under way
    glance,      \* the evaluation's copy of the peer's state
    due          \* this tick's evaluation has not been made yet

peerBook == <<candidates, verified, lastPong, misses, unverified, punch, punching, punched, path>>
meshVars == <<open, reachable, changes, peerBook, answers, glance, due>>

MeshInit ==
    /\ open = FALSE /\ reachable \in SUBSET Addr /\ changes = 0
    /\ candidates \in SUBSET Addr
    /\ verified = NoAddr /\ lastPong = KeepaliveInterval /\ misses = 0
    /\ unverified = 0 /\ punch = PunchCooldown /\ punching = FALSE /\ punched = FALSE
    /\ path = Home /\ answers = {} /\ glance = NoGlance /\ due = TRUE

Probe(A) == answers' = answers \cup (A \cap (IF open THEN reachable ELSE {}))

(***************************************************************************)
(* The loop                                                                *)
(***************************************************************************)
\* evaluatePeer copies what it needs under the lock.
Glance ==
    /\ open /\ due /\ ~glance.taken
    /\ glance' = [verified |-> verified, lastPong |-> lastPong, misses |-> misses,
                  unverified |-> unverified, candidates |-> candidates, punch |-> punch,
                  relay |-> path.kind = "relay", taken |-> TRUE]
    /\ UNCHANGED <<open, reachable, changes, peerBook, answers, due>>

Evaluated == glance' = NoGlance /\ due' = FALSE /\ UNCHANGED <<open, reachable, changes>>

\* Mutant: a lost path is given up, but stays the verified one.
dropPathKeepsAddr == path' = Home /\ misses' = 0 /\ unverified' = 0 /\ UNCHANGED verified

dropPath == path' = Home /\ misses' = 0 /\ unverified' = 0 /\ verified' = NoAddr

\* An established path: probe it when it has been quiet, drop it after too many misses.
Keepalive ==
    /\ glance.taken /\ glance.verified # NoAddr
    /\ \/ /\ glance.lastPong < KeepaliveInterval
          /\ UNCHANGED <<peerBook, answers>>
       \/ /\ glance.lastPong >= KeepaliveInterval /\ glance.misses >= PathMisses
          /\ dropPath
          /\ UNCHANGED <<candidates, lastPong, punch, punching, punched, answers>>
       \/ /\ glance.lastPong >= KeepaliveInterval /\ glance.misses < PathMisses
          /\ misses' = misses + 1 /\ Probe({glance.verified})
          /\ UNCHANGED <<candidates, verified, lastPong, unverified, punch, punching, punched, path>>
    /\ Evaluated

\* Mutant: the relay is only tried where a punch was.
relayDueAfterPunch == glance.unverified >= RelayAfter /\ punched /\ PunchAfter > RelayAfter

relayDue == glance.unverified >= RelayAfter

\* No path: probe every candidate, then ask for a punch and fall back to the relay.
Escalate ==
    LET wantsPunch == glance.unverified >= PunchAfter /\ glance.punch >= PunchCooldown
    IN  /\ glance.taken /\ glance.verified = NoAddr
        /\ Probe(glance.candidates)
        /\ punch' = IF wantsPunch THEN 0 ELSE punch
        /\ punched' = (punched \/ wantsPunch) /\ punching' = (punching \/ wantsPunch)
        /\ path' = IF ~glance.relay /\ relayDue THEN Relay ELSE path
        /\ UNCHANGED <<candidates, verified, lastPong, misses, unverified>>
        /\ Evaluated

\* The control plane answers a punch request with the peer's endpoints, or refuses:
\* the endpoints become candidates and are probed.
PunchNow(E) ==
    /\ punching /\ punching' = FALSE
    /\ candidates' = candidates \cup E /\ Probe(E)
    /\ UNCHANGED <<open, reachable, changes, verified, lastPong, misses, unverified, punch, punched,
                   path, glance, due>>

(***************************************************************************)
(* The socket reader                                                       *)
(***************************************************************************)
\* A ping from the peer shows an address of its.
HandlePing(a) ==
    /\ open /\ a \in reachable \ candidates
    /\ candidates' = candidates \cup {a}
    /\ UNCHANGED <<open, reachable, changes, verified, lastPong, misses, unverified, punch, punching,
                   punched, path, answers, glance, due>>

\* Mutant: an answer does not reset the misses.
answeredKeepsMisses(a) == verified' = a /\ lastPong' = 0 /\ UNCHANGED misses

answered(a) == verified' = a /\ lastPong' = 0 /\ misses' = 0

\* An answer verifies its address; the endpoint is told when there was none before.
HandlePong(a) ==
    /\ a \in answers /\ answers' = answers \ {a}
    /\ answered(a)
    /\ path' = IF verified # NoAddr THEN path
               ELSE [kind |-> IF punched THEN "punched" ELSE "direct", addr |-> a]
    /\ UNCHANGED <<open, reachable, changes, candidates, unverified, punch, punching, punched, glance, due>>

(***************************************************************************)
(* Around it                                                               *)
(***************************************************************************)
Older(t, cap) == IF t < cap THEN t + 1 ELSE cap

MeshTick ==
    /\ open /\ ~due /\ answers = {}
    /\ due' = TRUE
    /\ lastPong' = Older(lastPong, KeepaliveInterval)
    /\ unverified' = Older(unverified, RelayAfter + PunchAfter)
    /\ punch' = Older(punch, PunchCooldown)
    /\ UNCHANGED <<open, reachable, changes, candidates, verified, misses, punching, punched, path,
                   answers, glance>>

Change == changes < MaxChanges /\ changes' = changes + 1

NetworkChanges(R) ==
    /\ Change /\ R # reachable /\ reachable' = R
    /\ UNCHANGED <<open, peerBook, answers, glance, due>>

\* The control plane sends the peer's candidates anew and kicks the loop.
SetPeers(C) ==
    /\ Change /\ candidates' = C /\ due' = TRUE
    /\ UNCHANGED <<open, reachable, verified, lastPong, misses, unverified, punch, punching, punched,
                   path, answers, glance>>

OpenBind ==
    /\ ~open /\ open' = TRUE
    /\ UNCHANGED <<reachable, changes, peerBook, answers, glance, due>>

CloseBind ==
    /\ Change /\ open /\ open' = FALSE /\ answers' = {}
    /\ UNCHANGED <<reachable, peerBook, glance, due>>

MeshEvaluate == Glance \/ Keepalive \/ Escalate

MeshNext ==
    \/ MeshEvaluate \/ MeshTick \/ OpenBind \/ CloseBind
    \/ \E A \in SUBSET Addr : PunchNow(A) \/ NetworkChanges(A) \/ SetPeers(A)
    \/ \E a \in Addr : HandlePing(a) \/ HandlePong(a)

\* The loop's ticker fires while the bind is open, and answers arrive.
MeshFairness ==
    WF_meshVars(MeshEvaluate) /\ WF_meshVars(MeshTick) /\ WF_meshVars(\E a \in Addr : HandlePong(a))

MeshSpec == MeshInit /\ [][MeshNext]_meshVars /\ MeshFairness

(***************************************************************************)
(* Properties                                                              *)
(***************************************************************************)
\* While the network is stable a verified peer stays verified: answers that arrive
\* between an evaluation's copy and its action do not lead to a drop.
StablePathKept == [][changes = 0 /\ verified # NoAddr => verified' # NoAddr]_meshVars

\* Cut off from every address, the peer ends up on the relay, also when the cut comes
\* while an answer or an evaluation is under way.
RelayFallback == <>[](open /\ reachable = {}) => <>[](path.kind = "relay")

\* As long as a candidate answers, the verified address is again and again one that
\* does, whatever address was verified before and stopped answering.
ReachableVerified ==
    <>[](open /\ candidates \cap reachable # {}) => []<>(verified \in reachable)
=============================================================================
