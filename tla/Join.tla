-------------------------------- MODULE Join --------------------------------
(***************************************************************************)
(* Nodes enrol through JoinServer.Join: a token is verified and consumed,  *)
(* the node gets an identity and a mesh address, its record is written and *)
(* its registry credential stored.  A call makes three commands and reads  *)
(* its own replica of the state between them; calls overlap, leadership    *)
(* moves under them, and a command may commit although its caller is told  *)
(* that it failed.  A machine that was admitted once presents its identity *)
(* again when it restarts.                                                 *)
(***************************************************************************)
EXTENDS Naturals, FiniteSets

CONSTANTS
    Replica,        \* control nodes
    Call,           \* join calls; a call that mints an identity mints its own name
    Addresses,      \* mesh addresses are 1..Addresses, taken lowest first
    JoinToken, SingleUse,
    meshIPRetries,
    MaxMoves,       \* bound: leader changes
    MaxRemovals     \* bound: nodes removed

ASSUME JoinAssumption ==
    /\ Addresses \in Nat /\ JoinToken # {} /\ SingleUse \subseteq JoinToken
    /\ meshIPRetries \in Nat /\ MaxMoves \in Nat /\ MaxRemovals \in Nat

VARIABLES
    members,     \* what the log has committed: used tokens, and addresses by node
    replica,     \* the same as each control node has applied it
    joinLeader, moves, removals,
    call,        \* the handler of each call
    revived      \* removed nodes whose record a call under way stored again

joinVars == <<members, replica, joinLeader, moves, removals, call, revived>>

MeshIP == 1..Addresses
NoIP == 0  \* no node record
AnyToken == CHOOSE t \in JoinToken : TRUE
Stage == {"idle", "consume", "allocate", "put", "resume", "check", "creds",
          "done", "denied", "failed"}
Handler == [stage : Stage, at : Replica, token : JoinToken, id : Call,
            ip : MeshIP \cup {NoIP}, tries : Nat]
Members == [used : SUBSET JoinToken, ip : [Call -> MeshIP \cup {NoIP}]]

JoinInit ==
    /\ members = [used |-> {}, ip |-> [i \in Call |-> NoIP]]
    /\ replica = [r \in Replica |-> members]
    /\ joinLeader \in Replica
    /\ moves = 0 /\ removals = 0
    /\ call = [c \in Call |-> [stage |-> "idle", at |-> joinLeader, token |-> AnyToken,
                               id |-> c, ip |-> NoIP, tries |-> 0]]
    /\ revived = {}

\* Identities some machine holds on disk.
admitted == {call[c].id : c \in {d \in Call : call[d].stage = "done"}}

(***************************************************************************)
(* Store.Apply for the handler of call c.  It succeeds on the leader, whose *)
(* replica then has everything committed before; on a deposed leader it    *)
(* fails; and when leadership is lost while the command is under way it    *)
(* commits and fails.                                                      *)
(***************************************************************************)
raftApply(c, commit, next, failure) ==
    \/ /\ call[c].at = joinLeader
       /\ members' = commit
       /\ replica' = [replica EXCEPT ![call[c].at] = commit]
       /\ call' = [call EXCEPT ![c] = next]
       /\ UNCHANGED <<joinLeader, moves, removals>>
    \/ /\ call[c].at = joinLeader /\ moves < MaxMoves
       /\ members' = commit
       /\ joinLeader' \in Replica \ {joinLeader} /\ moves' = moves + 1
       /\ call' = [call EXCEPT ![c].stage = failure]
       /\ UNCHANGED <<replica, removals>>
    \/ /\ call[c].at # joinLeader
       /\ call' = [call EXCEPT ![c].stage = failure]
       /\ UNCHANGED <<members, replica, joinLeader, moves, removals>>

Proceeds(c, next) ==
    /\ call' = [call EXCEPT ![c] = next]
    /\ UNCHANGED <<members, replica, joinLeader, moves, removals, revived>>

verifyToken(t, seen) == ~(t \in SingleUse /\ t \in seen.used)

\* A call arrives at the leader, for a new machine (e = c) or for one that
\* restarts under the identity e.
BeginJoin(c, t, e) ==
    /\ call[c].stage = "idle" /\ e \in admitted \cup {c}
    /\ Proceeds(c, [call[c] EXCEPT !.at = joinLeader, !.token = t, !.id = e,
                       !.stage = IF verifyToken(t, replica[joinLeader]) THEN "consume" ELSE "denied"])

\* Mutant: the apply handler relies on the check the server made before.
tokenRefusedNever(t) == FALSE
\* The apply handler refuses a second use of a single-use token.
tokenRefused(t) == t \in SingleUse /\ t \in members.used

\* Mutant: a returning node is given a new address.
resumeOrAllocateAnew(c, seen) ==
    IF seen.ip[call[c].id] # NoIP
    THEN [call[c] EXCEPT !.stage = "allocate"]
    ELSE [call[c] EXCEPT !.stage = "allocate", !.id = c]
\* An identity that is on record is resumed with its address; otherwise the node
\* is a new one.
resumeOrAllocate(c, seen) ==
    IF seen.ip[call[c].id] # NoIP
    THEN [call[c] EXCEPT !.stage = "resume", !.ip = seen.ip[call[c].id]]
    ELSE [call[c] EXCEPT !.stage = "allocate", !.id = c]

ConsumeJoinToken(c) ==
    /\ call[c].stage = "consume"
    /\ LET t == call[c].token
           spent == [members EXCEPT !.used = @ \cup {t}]
       IN  IF tokenRefused(t)
           THEN raftApply(c, members, [call[c] EXCEPT !.stage = "denied"], "denied")
           ELSE raftApply(c, spent, resumeOrAllocate(c, spent), "denied")
    /\ UNCHANGED revived

free(seen) == MeshIP \ {seen.ip[i] : i \in Call}
isLowest(x, S) == x \in S /\ \A y \in S : x <= y

\* Mutant: the scan runs past the end of the range.
allocateMeshIPPastEnd(c) ==
    /\ call[c].stage = "allocate"
    /\ \E x \in 1..(Addresses + 1) :
          /\ isLowest(x, 1..(Addresses + 1) \ {replica[call[c].at].ip[i] : i \in Call})
          /\ Proceeds(c, [call[c] EXCEPT !.stage = "put", !.ip = x])
\* One turn of registerNode's loop, up to its command.
allocateMeshIP(c) ==
    LET open == free(replica[call[c].at])
    IN  /\ call[c].stage = "allocate"
        /\ \/ open = {} /\ Proceeds(c, [call[c] EXCEPT !.stage = "failed"])
           \/ \E x \in MeshIP : /\ isLowest(x, open)
                                /\ Proceeds(c, [call[c] EXCEPT !.stage = "put", !.ip = x])

\* A node that resumes is stored with the address read before, its record being
\* there or not by now; nothing is checked afterwards.
PutNode(c) ==
    /\ call[c].stage \in {"put", "resume"}
    /\ raftApply(c, [members EXCEPT !.ip[call[c].id] = call[c].ip],
             [call[c] EXCEPT !.stage = IF @ = "put" THEN "check" ELSE "creds"],
             "failed")
    /\ revived' = revived \cup {i \in {call[c].id} : call[c].stage = "resume" /\ members'.ip[i] # members.ip[i]}

\* Mutant: collisions are looked for among admitted nodes only.
meshIPTakenAdmitted(c) ==
    \E i \in admitted \ {call[c].id} : replica[call[c].at].ip[i] = call[c].ip
meshIPTaken(c) ==
    \E i \in Call \ {call[c].id} : replica[call[c].at].ip[i] = call[c].ip

\* Another node took the address between the scan and the command: try again.
CheckNode(c) ==
    /\ call[c].stage = "check"
    /\ Proceeds(c, IF ~meshIPTaken(c) THEN [call[c] EXCEPT !.stage = "creds"]
                   ELSE [call[c] EXCEPT !.tries = @ + 1,
                            !.stage = IF call[c].tries + 1 < meshIPRetries THEN "allocate" ELSE "failed"])

\* The registry credential, then the answer.
PutCredential(c) ==
    /\ call[c].stage = "creds"
    /\ raftApply(c, members, [call[c] EXCEPT !.stage = "done"], "failed")
    /\ UNCHANGED revived

\* RemoveNode deletes the record, whatever calls are under way.  With force it asks
\* for no drain, which is Cluster's.
RemoveMember(i) ==
    /\ removals < MaxRemovals /\ removals' = removals + 1
    /\ replica[joinLeader].ip[i] # NoIP
    /\ members' = [members EXCEPT !.ip[i] = NoIP]
    /\ replica' = [replica EXCEPT ![joinLeader] = members']
    /\ revived' = revived \ {i}
    /\ UNCHANGED <<joinLeader, moves, call>>

JoinElect(r) ==
    /\ moves < MaxMoves /\ r # joinLeader
    /\ moves' = moves + 1 /\ joinLeader' = r
    /\ UNCHANGED <<members, replica, removals, call, revived>>

\* A control node applies what is committed.
CatchUp(r) ==
    /\ replica[r] # members
    /\ replica' = [replica EXCEPT ![r] = members]
    /\ UNCHANGED <<members, joinLeader, moves, removals, call, revived>>

JoinNext ==
    \/ \E c \in Call : \/ \E t \in JoinToken, e \in Call : BeginJoin(c, t, e)
                       \/ ConsumeJoinToken(c) \/ allocateMeshIP(c) \/ PutNode(c)
                       \/ CheckNode(c) \/ PutCredential(c)
    \/ \E i \in Call : RemoveMember(i)
    \/ \E r \in Replica : JoinElect(r) \/ CatchUp(r)

JoinSpec == JoinInit /\ [][JoinNext]_joinVars

(***************************************************************************)
(* Properties                                                              *)
(***************************************************************************)
\* Values stay in range; a handler with a record to write has an address.
JoinTypeOK ==
    /\ members \in Members /\ replica \in [Replica -> Members]
    /\ joinLeader \in Replica /\ moves \in 0..MaxMoves /\ removals \in 0..MaxRemovals
    /\ call \in [Call -> Handler] /\ revived \subseteq Call
    /\ \A c \in Call : call[c].stage \in {"put", "resume", "check", "creds"} => call[c].ip \in MeshIP

\* A single-use token lets one call past its consumption, however many calls
\* verified it before it was used and whatever leader they reached.
TokenUsedOnce ==
    \A c, d \in Call :
        /\ c # d /\ call[c].token = call[d].token /\ call[c].token \in SingleUse
        /\ call[c].stage \notin {"idle", "consume", "denied"}
        => call[d].stage \in {"idle", "consume", "denied"}

\* Nodes whose address was accepted.
accepted == {call[c].id : c \in {d \in Call : call[d].stage \in {"creds", "done"}}}

\* No two nodes that were let in hold the same mesh address, although addresses
\* are chosen from a scan that other joins overtake (registerNode's re-check) and
\* nodes are removed meanwhile.  Except a node removed between the read and the
\* command of a call that resumes it (join.go:265): that command stores the node
\* again with an address another may have been given.
AddressesDistinct ==
    \A i, j \in accepted \ revived :
        i # j /\ members.ip[i] # NoIP => members.ip[i] # members.ip[j]

\* The address a node was told is the one on record for it until it is removed,
\* across restarts and removals of others.
AddressKept ==
    \A c \in Call : call[c].stage = "done" => members.ip[call[c].id] \in {NoIP, call[c].ip}
=============================================================================
