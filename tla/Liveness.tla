------------------------------- MODULE Liveness -------------------------------
(***************************************************************************)
(* Node liveness (api/liveness.go, livestate, nodehealth) against the      *)
(* operator requests on the same records (api/nodes.go).  Every control    *)
(* node runs a monitor that acts only while it leads the raft group; the   *)
(* leader's memory holds the heartbeats it received.  The monitor lists    *)
(* the nodes once per pass, judges each listed record by the heartbeats    *)
(* and the gossip view of that moment and then sends its command, so both  *)
(* the record and the verdict may be out of date when the command commits. *)
(*                                                                         *)
(* Time advances in ticks of the gossip threshold (10s in the code, where  *)
(* the heartbeat deadline is 30s and the grace window 45s).                *)
(***************************************************************************)
EXTENDS NodeTable, Naturals, FiniteSets

CONSTANTS
    Control,      \* the control nodes
    GossipStale,  \* GossipDownStaleThreshold in ticks
    Deadline,     \* heartbeatDeadline in ticks
    Grace,        \* leaderGracePeriod in ticks
    Gossip,       \* a gossip failure detector is attached
    Ops,          \* the operator and node events that happen: a subset of OpKind
    MaxTerm,      \* bound: elections and control restarts
    MaxRequest    \* bound: operator requests and node restarts

OpKind == {"crash", "recover", "drain", "cordon", "uncordon", "rewrite", "remove"}

ASSUME LivenessAssumption ==
    /\ Control \subseteq Node /\ Control # {}
    /\ GossipStale \in Nat /\ Deadline \in Nat /\ Grace \in Nat \ {0}
    /\ GossipStale <= Deadline /\ Deadline <= Grace
    /\ Gossip \in BOOLEAN /\ Ops \subseteq OpKind
    /\ MaxTerm \in Nat /\ MaxRequest \in Nat

Stale == Deadline + 1   \* an age past every threshold, also that of a heartbeat never received

VARIABLES
    up,       \* the nodes whose agent runs
    leader,   \* the control node that leads
    reign,    \* ticks since it was elected
    uptime,   \* per control node: ticks since its monitor started (leaderSince)
    beat,     \* per control node: the age of the last heartbeat it holds of each node
    listed,   \* the records the monitor's pass has still to judge
    verdict,  \* the command the monitor is about to send
    request,  \* the operator request being handled
    term,     \* elections and control restarts so far
    used      \* operator requests and node restarts so far

cluster == <<up, leader, reign, uptime, beat, term>>
monitor == <<listed, verdict>>
operator == <<request, used>>
vars == <<node, cluster, monitor, operator>>

NoVerdict == [node |-> "none", status |-> "none"]
NoRequest == [op |-> "none", node |-> "none", read |-> AbsentNode]
NothingListed == [n \in Node |-> AbsentNode]

Init ==
    /\ node = [n \in Node |-> [status |-> "ALIVE", schedulable |-> TRUE]]
    /\ up = Node /\ leader \in Control /\ reign = Grace
    /\ uptime = [c \in Control |-> Grace]
    /\ beat = [c \in Control |-> [n \in Node |-> IF c = leader THEN 0 ELSE Stale]]
    /\ listed = NothingListed /\ verdict = NoVerdict /\ request = NoRequest
    /\ term = 0 /\ used = 0

(***************************************************************************)
(* Time, agents and elections                                              *)
(***************************************************************************)
Aged(t, cap) == IF t < cap THEN t + 1 ELSE cap

\* A running agent is heard from before the deadline; after an election or a
\* restart of the leader it has the grace window to find the new leader.
Timely == \A n \in up \ {leader} : beat[leader][n] < Deadline \/ reign + 1 < Grace

Tick ==
    /\ Timely
    /\ reign' = Aged(reign, Grace)
    /\ uptime' = [c \in Control |-> Aged(uptime[c], Grace)]
    /\ beat' = [c \in Control |-> [n \in Node |-> Aged(beat[c][n], Stale)]]
    /\ UNCHANGED <<node, up, leader, term, monitor, operator>>

\* Only the leader accepts an agent's stream, so only it records heartbeats.  (It
\* never looks at those of its own node.)
Heartbeat(n) ==
    /\ n \in up \ {leader}
    /\ beat' = [beat EXCEPT ![leader][n] = 0]
    /\ UNCHANGED <<node, up, leader, reign, uptime, term, monitor, operator>>

\* The monitor of the old leader stops with ErrNotLeader.
StopMonitor == listed' = NothingListed /\ verdict' = NoVerdict

Elect(c) ==
    /\ term < MaxTerm /\ c \in (Control \cap up) \ {leader}
    /\ leader' = c /\ reign' = 0 /\ term' = term + 1
    /\ StopMonitor
    /\ UNCHANGED <<node, up, uptime, beat, operator>>

\* The leader's daemon restarts and leads again: its memory is gone, and it
\* registers its own node as ALIVE, keeping the schedulable flag.
registerLocalNode(c) == applyPutNode(c, [node[c] EXCEPT !.status = "ALIVE"])

RestartLeader ==
    /\ term < MaxTerm
    /\ reign' = 0 /\ term' = term + 1
    /\ uptime' = [uptime EXCEPT ![leader] = 0]
    /\ beat' = [beat EXCEPT ![leader] = [n \in Node |-> Stale]]
    /\ registerLocalNode(leader)
    /\ StopMonitor
    /\ UNCHANGED <<up, leader, operator>>

Crash(n) ==
    /\ "crash" \in Ops /\ used < MaxRequest /\ n \in up \ {leader}
    /\ up' = up \ {n} /\ used' = used + 1
    /\ UNCHANGED <<node, leader, reign, uptime, beat, term, monitor, request>>

Recover(n) ==
    /\ "recover" \in Ops /\ n \in Node \ up
    /\ up' = up \cup {n}
    /\ uptime' = [c \in Control |-> IF c = n THEN 0 ELSE uptime[c]]
    /\ beat' = [c \in Control |-> IF c = n THEN [m \in Node |-> Stale] ELSE beat[c]]
    /\ UNCHANGED <<node, leader, reign, term, monitor, operator>>

(***************************************************************************)
(* The monitor                                                             *)
(***************************************************************************)
Admin(status) == status \in {"DRAINING", "DRAINED"}

\* Mutant: a new leader demotes whom it has not heard from at once.
desiredStatusNoGrace(opinion, age, inGrace, current) ==
    CASE age <= GossipStale \/ opinion = "alive" \/ (opinion = "none" /\ age <= Deadline) -> "ALIVE"
      [] OTHER -> "DOWN"

\* Mutant: once a node has been demoted it is left alone.
desiredStatusSticky(opinion, age, inGrace, current) ==
    IF current = "DOWN" THEN "KEEP"
    ELSE desiredStatusNoGrace(opinion, age, inGrace, current)

\* The flap guard: one fresh signal keeps a node up, gossip alone never demotes it.
Decide(opinion, age) ==
    CASE age <= GossipStale \/ opinion = "alive" -> "alive"
      [] age > GossipStale /\ opinion = "dead" -> "down"
      [] OTHER -> "none"

desiredStatus(opinion, age, inGrace, current) ==
    CASE Decide(opinion, age) = "alive" -> "ALIVE"
      [] Decide(opinion, age) = "down" -> "DOWN"
      [] OTHER -> IF age <= Deadline THEN "ALIVE"
                  ELSE IF inGrace /\ current # "DOWN" THEN "KEEP" ELSE "DOWN"

\* Gossip has no opinion of a node it has not seen, never takes a running one for
\* dead, and notices a death within the heartbeat deadline.
GossipView(n) ==
    CASE ~Gossip -> {"none"}
      [] Gossip /\ n \in up -> {"none", "alive"}
      [] Gossip /\ n \notin up /\ beat[leader][n] <= Deadline -> {"none", "alive", "dead"}
      [] OTHER -> {"none", "dead"}

\* evaluate: the leader lists the nodes; its own and the drained ones are skipped.
ListNodes ==
    /\ listed = NothingListed /\ verdict = NoVerdict
    /\ listed' = [n \in Node |-> IF n = leader \/ Admin(node[n].status) THEN AbsentNode ELSE node[n]]
    /\ listed' # NothingListed
    /\ UNCHANGED <<node, cluster, verdict, operator>>

\* A record is written when its status changes, and now and then to store the
\* time of a fresh heartbeat (every minute in the code, any time here).
Judge(n) ==
    /\ verdict = NoVerdict /\ listed[n] # AbsentNode
    /\ \E opinion \in GossipView(n) :
          LET age == beat[leader][n]
              status == desiredStatus(opinion, age, uptime[leader] < Grace, listed[n].status)
          IN  \/ /\ status # "KEEP" /\ (status # listed[n].status \/ age <= Deadline)
                 /\ verdict' = [node |-> n, status |-> status]
              \/ /\ status \in {"KEEP", listed[n].status}
                 /\ verdict' = NoVerdict
    /\ listed' = [listed EXCEPT ![n] = AbsentNode]
    /\ UNCHANGED <<node, cluster, operator>>

ApplyVerdict ==
    /\ verdict # NoVerdict
    /\ applySetNodeStatus(verdict.node, verdict.status)
    /\ verdict' = NoVerdict
    /\ UNCHANGED <<cluster, listed, operator>>

(***************************************************************************)
(* Operator requests: read the record, check it, then send the command.    *)
(* DrainNode's command depends on nothing it read.                         *)
(***************************************************************************)
DrainNode(n) ==
    /\ "drain" \in Ops /\ used < MaxRequest /\ Known(n)
    /\ applySetNodeSchedulable(n, "DRAINING", FALSE)
    /\ used' = used + 1
    /\ UNCHANGED <<cluster, monitor, request>>

\* Requests an operator makes with the record as it is now.  "rewrite" stands for
\* the writers that put the whole record back with another field changed:
\* SetNodeLabels, recordNodeVersion, foldEndpoints and updateNodeMesh.
Accepts(op, record) ==
    CASE op = "cordon" -> ~Admin(record.status)
      [] op = "uncordon" -> record.status # "DOWN"
      [] op \in {"rewrite", "remove"} -> TRUE   \* remove: with force

ReadNode(op, n) ==
    /\ request = NoRequest /\ used < MaxRequest
    /\ Known(n) /\ Accepts(op, node[n])
    /\ request' = [op |-> op, node |-> n, read |-> node[n]]
    /\ used' = used + 1
    /\ UNCHANGED <<node, cluster, monitor>>

CordonNode(n) ==
    /\ request.op = "cordon" /\ request.node = n
    /\ applySetNodeSchedulable(n, request.read.status, FALSE)

UncordonNode(n) ==
    /\ request.op = "uncordon" /\ request.node = n
    /\ applySetNodeSchedulable(n, "ALIVE", TRUE)

\* SetNodeLabels also sets the schedulable flag to what the caller sends.
SetNodeLabels(n) ==
    /\ request.op = "rewrite" /\ request.node = n
    /\ \E schedulable \in BOOLEAN :
          applyPutNode(n, [request.read EXCEPT !.schedulable = schedulable])

RemoveNode(n) ==
    /\ request.op = "remove" /\ request.node = n
    /\ applyDeleteNode(n)

CommitRequest ==
    /\ \E n \in Node : CordonNode(n) \/ UncordonNode(n) \/ SetNodeLabels(n) \/ RemoveNode(n)
    /\ request' = NoRequest
    /\ UNCHANGED <<cluster, monitor, used>>

MonitorStep == ListNodes \/ ApplyVerdict \/ \E n \in Node : Judge(n)

Next ==
    \/ Tick \/ RestartLeader \/ MonitorStep \/ CommitRequest
    \/ \E c \in Control : Elect(c)
    \/ \E n \in Node :
          \/ Heartbeat(n) \/ Crash(n) \/ Recover(n) \/ DrainNode(n)
          \/ \E op \in Ops \cap {"cordon", "uncordon", "rewrite", "remove"} : ReadNode(op, n)

Spec == Init /\ [][Next]_vars

(***************************************************************************)
(* Properties                                                              *)
(***************************************************************************)
\* With one control node, a node whose agent runs and is heard in time is never
\* marked DOWN, however often that leader restarts and whatever stale record a
\* request puts back: the grace window covers the time in which a leader that has
\* lost its memory has not heard from the node yet.  (The window is measured from
\* the start of the daemon, Run, so it does not cover an election between control
\* nodes that have been up for longer; WorkersTracked says what holds there.)
RunningNotDown == \A n \in up : node[n].status # "DOWN"

(***************************************************************************)
(* Fairness: the clock runs, the monitor's ticker fires and its commands   *)
(* commit, running agents send heartbeats, handlers finish.                *)
(***************************************************************************)
Fairness ==
    /\ WF_vars(Tick) /\ WF_vars(MonitorStep) /\ WF_vars(CommitRequest)
    /\ \A n \in Node : WF_vars(Heartbeat(n))

FairSpec == Spec /\ Fairness

\* The status of a worker follows its agent, whatever stale record an operator
\* request or another writer puts back meanwhile: one that stops does not stay
\* ALIVE, one that runs does not stay DOWN.
WorkersTracked ==
    \A n \in Node \ Control :
        /\ n \notin up ~> (n \in up \/ node[n].status # "ALIVE")
        /\ n \in up ~> (n \notin up \/ node[n].status # "DOWN")
==============================================================================
