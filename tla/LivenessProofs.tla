---------------------------- MODULE LivenessProofs ----------------------------
(***************************************************************************)
(* Why a node that is heard in time is not demoted, for one control node   *)
(* that may restart as often as it likes.                                  *)
(***************************************************************************)
EXTENDS Liveness, TLAPS

OneControl == \A c, d \in Control : c = d

LivenessTypeOK ==
    /\ node \in [Node -> NodeRecord] /\ up \subseteq Node
    /\ leader \in Control /\ reign \in 0..Grace
    /\ uptime \in [Control -> 0..Grace] /\ beat \in [Control -> [Node -> 0..Stale]]
    /\ listed \in [Node -> NodeRecord]
    /\ verdict \in [node : Node, status : {"ALIVE", "DOWN"}] \cup {NoVerdict}
    /\ request \in [op : OpKind, node : Node, read : NodeRecord] \cup {NoRequest}
    /\ term \in Nat /\ used \in Nat

\* The grace window of the monitor is the time since the leader's memory is empty,
\* and outside of it every running agent has been heard.
HeardOrGrace ==
    /\ uptime[leader] = reign
    /\ \A n \in up \ {leader} : beat[leader][n] <= Deadline \/ reign < Grace

\* What a pass or a request has read or decided and has yet to act on does not
\* make a running node DOWN either.
NothingToDemote ==
    /\ listed[leader] = AbsentNode
    /\ \A n \in up : /\ listed[n].status # "DOWN"
                     /\ verdict # [node |-> n, status |-> "DOWN"]
                     /\ request # NoRequest /\ request.node = n => request.read.status # "DOWN"

HeardInv == LivenessTypeOK /\ HeardOrGrace /\ NothingToDemote /\ RunningNotDown

(***************************************************************************)
(* What the operators of a pass return.                                    *)
(***************************************************************************)
\* The flap guard and the grace window: a node that gossip does not take for dead is
\* demoted only when its heartbeat is overdue and the window is over.
LEMMA Demotion ==
    ASSUME NEW opinion \in {"none", "alive"}, NEW age \in Nat, NEW inGrace \in BOOLEAN,
           NEW current \in NodeStatus \ {"DOWN"}, age <= Deadline \/ inGrace
    PROVE  desiredStatus(opinion, age, inGrace, current) \in {"ALIVE", "KEEP"}
  BY LivenessAssumption DEF desiredStatus, Decide

LEMMA Verdicts ==
    ASSUME NEW opinion, NEW age, NEW inGrace, NEW current
    PROVE  desiredStatus(opinion, age, inGrace, current) \in {"ALIVE", "DOWN", "KEEP"}
  BY DEF desiredStatus, Decide

(***************************************************************************)
(* The invariant                                                           *)
(***************************************************************************)
LEMMA HeardInit == Init => HeardInv
  <1> SUFFICES ASSUME Init PROVE HeardInv
    OBVIOUS
  <1> USE LivenessAssumption DEF Init, NodeRecord, NodeStatus, AbsentNode, NothingListed
  <1>1. LivenessTypeOK
    BY DEF LivenessTypeOK, Stale, NoVerdict, NoRequest
  <1>2. HeardOrGrace /\ NothingToDemote /\ RunningNotDown
    BY DEF HeardOrGrace, NothingToDemote, RunningNotDown, NoVerdict
  <1> QED BY <1>1, <1>2 DEF HeardInv

LEMMA HeardNext ==
    ASSUME OneControl, "recover" \notin Ops, HeardInv, [Next]_vars
    PROVE  HeardInv'
  <1> USE LivenessAssumption DEF HeardInv
  <1>l. \A c \in Control : c = leader
    BY DEF OneControl, LivenessTypeOK
  <1>1. CASE Tick
    <2>1. /\ reign' \in 0..Grace /\ uptime' \in [Control -> 0..Grace]
          /\ beat' \in [Control -> [Node -> 0..Stale]]
      BY <1>1 DEF Tick, Aged, LivenessTypeOK, Stale
    <2>2. HeardOrGrace'
      <3>1. uptime'[leader] = reign'
        BY <1>1 DEF Tick, Aged, LivenessTypeOK, HeardOrGrace
      <3>2. ASSUME NEW n \in up \ {leader} PROVE beat'[leader][n] <= Deadline \/ reign' < Grace
        <4>1. beat[leader][n] < Deadline \/ reign + 1 < Grace
          BY <1>1 DEF Tick, Timely
        <4>2. n \in Node /\ leader \in Control /\ beat[leader][n] \in 0..Stale /\ reign \in 0..Grace
          BY DEF LivenessTypeOK
        <4> QED BY <1>1, <4>1, <4>2 DEF Tick, Aged, Stale
      <3> QED BY <1>1, <3>1, <3>2 DEF Tick, HeardOrGrace
    <2> QED
      BY <1>1, <2>1, <2>2 DEF Tick, monitor, operator, LivenessTypeOK, NothingToDemote, RunningNotDown
  <1>2. ASSUME NEW n \in Node, Heartbeat(n) PROVE HeardInv'
    <2>1. beat' \in [Control -> [Node -> 0..Stale]] /\ \A m \in Node : beat'[leader][m] \in {beat[leader][m], 0}
      BY <1>2 DEF Heartbeat, LivenessTypeOK, Stale
    <2>2. HeardOrGrace'
      BY <1>2, <2>1 DEF Heartbeat, HeardOrGrace, LivenessTypeOK
    <2> QED
      BY <1>2, <2>1, <2>2 DEF Heartbeat, monitor, operator, LivenessTypeOK, NothingToDemote, RunningNotDown
  <1>3. ASSUME NEW c \in Control, Elect(c) PROVE HeardInv'
    BY <1>3, <1>l DEF Elect
  <1>4. CASE RestartLeader
    <2>1. /\ node' \in [Node -> NodeRecord]
          /\ \A n \in Node : node'[n].status \in {node[n].status, "ALIVE"}
      BY <1>4 DEF RestartLeader, registerLocalNode, applyPutNode, LivenessTypeOK, NodeRecord, NodeStatus
    <2>2. LivenessTypeOK'
      BY <1>4, <2>1 DEF RestartLeader, StopMonitor, operator, LivenessTypeOK, Stale, NothingListed, AbsentNode,
                        NodeRecord, NodeStatus
    <2>3. HeardOrGrace'
      BY <1>4 DEF RestartLeader, HeardOrGrace, LivenessTypeOK
    <2> QED
      BY <1>4, <2>1, <2>2, <2>3
      DEF RestartLeader, StopMonitor, operator, NothingListed, AbsentNode, NothingToDemote, RunningNotDown,
          NoVerdict, LivenessTypeOK
  <1>5. ASSUME NEW n \in Node, Crash(n) PROVE HeardInv'
    BY <1>5 DEF Crash, monitor, LivenessTypeOK, HeardOrGrace, NothingToDemote, RunningNotDown
  <1>6. ASSUME NEW n \in Node, Recover(n) PROVE HeardInv'
    BY <1>6 DEF Recover
  <1>7. CASE ListNodes
    BY <1>7 DEF ListNodes, cluster, operator, LivenessTypeOK, HeardOrGrace, NothingToDemote, RunningNotDown,
                NodeRecord, NodeStatus, AbsentNode
  <1>8. ASSUME NEW n \in Node, Judge(n) PROVE HeardInv'
    <2> DEFINE age == beat[leader][n]
               status(opinion) == desiredStatus(opinion, age, uptime[leader] < Grace, listed[n].status)
    <2>1. PICK opinion \in GossipView(n) :
             \/ status(opinion) # "KEEP" /\ verdict' = [node |-> n, status |-> status(opinion)]
             \/ verdict' = NoVerdict
      BY <1>8 DEF Judge
    <2>2. n \in up => status(opinion) # "DOWN"
      <3> SUFFICES ASSUME n \in up PROVE status(opinion) \in {"ALIVE", "KEEP"}
        OBVIOUS
      <3>1. n # leader
        BY <1>8 DEF Judge, NothingToDemote
      <3>2. opinion \in {"none", "alive"}
        BY DEF GossipView
      <3>3. age \in Nat /\ listed[n].status \in NodeStatus \ {"DOWN"}
        BY DEF LivenessTypeOK, NothingToDemote, NodeRecord, Stale
      <3>4. age <= Deadline \/ uptime[leader] < Grace
        BY <3>1 DEF HeardOrGrace
      <3>5. (uptime[leader] < Grace) \in BOOLEAN
        OBVIOUS
      <3> HIDE DEF age
      <3> QED BY <3>2, <3>3, <3>4, <3>5, Demotion DEF status
    <2>3. status(opinion) \in {"ALIVE", "DOWN", "KEEP"}
      BY Verdicts
    <2>4. /\ verdict' \in [node : Node, status : {"ALIVE", "DOWN"}] \cup {NoVerdict}
          /\ \A m \in up : verdict' # [node |-> m, status |-> "DOWN"]
      <3> HIDE DEF status
      <3> QED BY <2>1, <2>2, <2>3 DEF NoVerdict
    <2>5. listed' \in [Node -> NodeRecord] /\ \A m \in Node : listed'[m] \in {listed[m], AbsentNode}
      BY <1>8 DEF Judge, LivenessTypeOK, NodeRecord, NodeStatus, AbsentNode
    <2> QED
      BY <1>8, <2>4, <2>5 DEF Judge, cluster, operator, LivenessTypeOK, HeardOrGrace, NothingToDemote,
                              RunningNotDown, AbsentNode
  <1>9. CASE ApplyVerdict
    <2>1. /\ node' \in [Node -> NodeRecord]
          /\ \A n \in up : node'[n].status # "DOWN"
      <3>1. /\ verdict.node \in Node /\ verdict.status \in {"ALIVE", "DOWN"}
            /\ verdict.node \in up => verdict.status # "DOWN"
        <4>1. verdict \in [node : Node, status : {"ALIVE", "DOWN"}]
          BY <1>9 DEF ApplyVerdict, LivenessTypeOK
        <4>2. verdict = [node |-> verdict.node, status |-> verdict.status]
          BY <4>1
        <4> QED BY <4>1, <4>2 DEF NothingToDemote
      <3>2. node' \in {node, [node EXCEPT ![verdict.node].status = verdict.status]}
        BY <1>9 DEF ApplyVerdict, applySetNodeStatus
      <3>3. [node EXCEPT ![verdict.node].status = verdict.status]
               = [node EXCEPT ![verdict.node] = [node[verdict.node] EXCEPT !.status = verdict.status]]
        OBVIOUS
      <3> DEFINE r == [node[verdict.node] EXCEPT !.status = verdict.status]
      <3>4. r \in NodeRecord /\ r.status = verdict.status
        <4>1. node[verdict.node] \in NodeRecord
          BY <3>1 DEF LivenessTypeOK
        <4> QED BY <3>1, <4>1 DEF NodeRecord, NodeStatus
      <3> HIDE DEF r
      <3>5. node' \in {node, [node EXCEPT ![verdict.node] = r]}
        BY <3>2, <3>3 DEF r
      <3> QED BY <3>1, <3>4, <3>5 DEF LivenessTypeOK, RunningNotDown
    <2> QED
      BY <1>9, <2>1 DEF ApplyVerdict, cluster, operator, LivenessTypeOK, HeardOrGrace, NothingToDemote,
                        RunningNotDown, NoVerdict
  <1>10. ASSUME NEW n \in Node, DrainNode(n) PROVE HeardInv'
    <2>1. /\ node' \in [Node -> NodeRecord]
          /\ \A m \in up : node'[m].status # "DOWN"
      BY <1>10 DEF DrainNode, applySetNodeSchedulable, LivenessTypeOK, RunningNotDown, NodeRecord, NodeStatus
    <2> QED
      BY <1>10, <2>1 DEF DrainNode, cluster, monitor, LivenessTypeOK, HeardOrGrace, NothingToDemote, RunningNotDown
  <1>11. ASSUME NEW n \in Node, NEW op \in Ops, ReadNode(op, n) PROVE HeardInv'
    <2>1. /\ request' \in [op : OpKind, node : Node, read : NodeRecord]
          /\ request'.node = n /\ request'.read = node[n]
      BY <1>11 DEF ReadNode, LivenessTypeOK
    <2> QED
      BY <1>11, <2>1 DEF ReadNode, cluster, monitor, LivenessTypeOK, HeardOrGrace, NothingToDemote, RunningNotDown
  <1>12. CASE CommitRequest
    <2>1. /\ node' \in [Node -> NodeRecord]
          /\ \A m \in up : node'[m].status # "DOWN"
      <3>1. PICK n \in Node : CordonNode(n) \/ UncordonNode(n) \/ SetNodeLabels(n) \/ RemoveNode(n)
        BY <1>12 DEF CommitRequest
      <3>2. /\ request.node = n /\ request.read \in NodeRecord
            /\ n \in up => request.read.status # "DOWN"
        <4>1. request.node = n /\ request.op \in {"cordon", "uncordon", "rewrite", "remove"}
          BY <3>1 DEF CordonNode, UncordonNode, SetNodeLabels, RemoveNode
        <4>2. NoRequest.op = "none"
          BY DEF NoRequest
        <4>3. request # NoRequest
          BY <4>1, <4>2
        <4> QED BY <4>1, <4>3 DEF LivenessTypeOK, NothingToDemote
      <3> DEFINE recorded(r) == /\ r \in NodeRecord /\ node' = [node EXCEPT ![n] = r]
                                /\ n \in up => r.status # "DOWN"
      <3>3. node' = node \/ \E r : recorded(r)
        <4>1. CASE CordonNode(n)
          <5> DEFINE r == [status |-> request.read.status, schedulable |-> FALSE]
          <5>1. node' \in {node, [node EXCEPT ![n] = r]}
            BY <4>1 DEF CordonNode, applySetNodeSchedulable
          <5>2. r \in NodeRecord /\ r.status = request.read.status
            BY <3>2 DEF LivenessTypeOK, NodeRecord
          <5> QED BY <3>2, <5>1, <5>2
        <4>2. CASE UncordonNode(n)
          <5> DEFINE r == [status |-> "ALIVE", schedulable |-> TRUE]
          <5>1. node' \in {node, [node EXCEPT ![n] = r]}
            BY <4>2 DEF UncordonNode, applySetNodeSchedulable
          <5>2. r \in NodeRecord /\ r.status = "ALIVE"
            BY DEF LivenessTypeOK, NodeRecord, NodeStatus
          <5> QED BY <5>1, <5>2
        <4>3. CASE SetNodeLabels(n)
          <5>1. PICK schedulable \in BOOLEAN :
                   applyPutNode(n, [request.read EXCEPT !.schedulable = schedulable])
            BY <4>3 DEF SetNodeLabels
          <5> DEFINE r == [request.read EXCEPT !.schedulable = schedulable]
          <5>2. node' = [node EXCEPT ![n] = r]
            BY <5>1 DEF applyPutNode
          <5>3. r \in NodeRecord /\ r.status = request.read.status
            BY <3>2 DEF NodeRecord
          <5> QED BY <3>2, <5>2, <5>3
        <4>4. CASE RemoveNode(n)
          <5>1. node' \in {node, [node EXCEPT ![n] = AbsentNode]}
            BY <4>4 DEF RemoveNode, applyDeleteNode
          <5>2. AbsentNode \in NodeRecord /\ AbsentNode.status # "DOWN"
            BY DEF AbsentNode, NodeRecord, NodeStatus
          <5> QED BY <5>1, <5>2
        <4> QED BY <3>1, <4>1, <4>2, <4>3, <4>4
      <3> QED BY <3>3 DEF LivenessTypeOK, RunningNotDown
    <2> QED
      BY <1>12, <2>1 DEF CommitRequest, cluster, monitor, LivenessTypeOK, HeardOrGrace, NothingToDemote, RunningNotDown
  <1>13. CASE UNCHANGED vars
    BY <1>13 DEF vars, cluster, monitor, operator, LivenessTypeOK, HeardOrGrace, NothingToDemote, RunningNotDown
  <1> QED
    BY <1>1, <1>2, <1>3, <1>4, <1>5, <1>6, <1>7, <1>8, <1>9, <1>10, <1>11, <1>12, <1>13 DEF Next, MonitorStep

\* With one control node, a node whose agent runs and is heard in time is never marked
\* DOWN, for every number of nodes, every deadline and grace window, and however the
\* monitor's passes interleave with restarts of the leader and operator requests.
THEOREM HeardNotDemoted ==
    ASSUME OneControl, "recover" \notin Ops
    PROVE  Spec => []RunningNotDown
  <1>1. HeardInv /\ [Next]_vars => HeardInv'
    BY HeardNext
  <1>2. HeardInv => RunningNotDown
    BY DEF HeardInv
  <1> QED BY <1>1, <1>2, HeardInit, PTL DEF Spec
===============================================================================
