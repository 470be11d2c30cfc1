------------------------------ MODULE NodeTable ------------------------------
(***************************************************************************)
(* The replicated node table and the raft commands that change it.  The    *)
(* liveness monitor, the node service, a node's own registration and the   *)
(* scheduler's drain loop all write it; each reads a record first and      *)
(* decides on what it read.                                                *)
(***************************************************************************)
CONSTANT Node   \* the node ids

VARIABLE node   \* per node id: its liveness status and the schedulable flag

NodeStatus == {"ALIVE", "DOWN", "DRAINING", "DRAINED", "ABSENT"}
NodeRecord == [status : NodeStatus, schedulable : BOOLEAN]

AbsentNode == [status |-> "ABSENT", schedulable |-> FALSE]
Known(n) == node[n].status # "ABSENT"

\* SetNodeStatus leaves the schedulable flag alone unless the command sets it, and
\* is an error that changes nothing for a node that is not stored.
applySetNodeStatus(n, s) ==
    node' = IF Known(n) THEN [node EXCEPT ![n].status = s] ELSE node

applySetNodeSchedulable(n, s, schedulable) ==
    node' = IF Known(n) THEN [node EXCEPT ![n] = [status |-> s, schedulable |-> schedulable]]
            ELSE node

\* PutNode replaces the whole record.
applyPutNode(n, record) == node' = [node EXCEPT ![n] = record]

applyDeleteNode(n) == node' = [node EXCEPT ![n] = AbsentNode]

\* Queries the control loops share (scheduler/helpers.go).
nodeDown(n) == node[n].status # "ALIVE"
nodeDraining(n) == node[n].status = "DRAINING"
==============================================================================
