----------------------------- MODULE JoinProofs -----------------------------
(***************************************************************************)
(* Proofs about Join, for every number of calls, addresses, tokens and     *)
(* replicas: mesh addresses of admitted nodes are distinct, a single-use   *)
(* token admits one call, and a node keeps the address it was told.        *)
(*                                                                         *)
(* The idea: of two calls that wrote the same address, the one whose       *)
(* command came second sees the other's record when it re-checks, because  *)
(* its replica had to apply everything committed before its own command.   *)
(* A command that resumes a node re-checks nothing; it changes no record   *)
(* unless the node was removed meanwhile, and then the node is revived.    *)
(***************************************************************************)
EXTENDS Join, TLAPS

Own(c) == call[c].id = c
Written == {"check", "creds", "done"}
Past == Stage \ {"idle", "consume", "denied"}

\* An identity other than the call's own was minted by a call that has ended well.
Identities ==
    \A c \in Call :
        /\ ~Own(c) => Own(call[c].id) /\ call[call[c].id].stage = "done"
        /\ call[c].stage \in {"allocate", "put", "check"} => Own(c)
        /\ call[c].stage = "resume" => ~Own(c)

\* What a handler wrote, or is about to write again, is on record unless the node
\* was removed; a new node has no record before it got past its token.
OnRecord == {"check", "resume", "creds", "done"}
Recorded ==
    \A c \in Call :
        /\ call[c].stage \in {"idle", "consume"} => members.ip[c] = NoIP
        /\ call[c].stage \in OnRecord => members.ip[call[c].id] \in {NoIP, call[c].ip}

\* A node that returns brings the address it was told the first time.
Returning ==
    \A c \in Call :
        ~Own(c) /\ call[c].stage \in {"resume", "creds", "done"} => call[c].ip = call[call[c].id].ip

\* c's replica holds d's record.
Sees(c, d) == replica[call[c].at].ip[d] = call[c].ip
OneSeesOther ==
    \A c, d \in Call :
        /\ c # d /\ call[c].stage = "check" /\ Own(d) /\ call[d].stage \in Written
        /\ members.ip[c] = call[c].ip /\ members.ip[d] = call[c].ip /\ d \notin revived
        => Sees(c, d) \/ (call[d].stage = "check" /\ Sees(d, c))

OwnersDistinct ==
    \A c, d \in Call :
        /\ c # d /\ Own(c) /\ Own(d) /\ members.ip[c] # NoIP /\ {c, d} \cap revived = {}
        /\ call[c].stage \in {"creds", "done"} /\ call[d].stage \in {"creds", "done"}
        => members.ip[c] # members.ip[d]

\* A call past its consumption has used its token.
Spent == \A c \in Call : call[c].stage \in Past => call[c].token \in members.used

JoinInv ==
    /\ JoinTypeOK /\ Identities /\ Recorded /\ Returning /\ OneSeesOther /\ OwnersDistinct
    /\ Spent /\ TokenUsedOnce

(***************************************************************************)
(* What the steps change, field by field.                                  *)
(***************************************************************************)
\* Handler c goes from call[c] to `next'; the others stay.
Moves(c, next) == call' = [call EXCEPT ![c] = next]
OthersStay(c) == call' \in [Call -> Handler] /\ \A d \in Call \ {c} : call'[d] = call[d]

LEMMA MovesFields ==
    ASSUME JoinTypeOK, NEW c \in Call, NEW next \in Handler, Moves(c, next)
    PROVE  OthersStay(c) /\ call'[c] = next
  BY DEF Moves, OthersStay, JoinTypeOK

\* A step that writes no record leaves them right if they fit where its call goes.
LEMMA RecordStays ==
    ASSUME Recorded, NEW c \in Call, OthersStay(c), UNCHANGED members,
           call'[c].stage \notin {"idle", "consume"},
           call'[c].stage \in OnRecord => members.ip[call'[c].id] \in {NoIP, call'[c].ip}
    PROVE  Recorded'
  <1> SUFFICES ASSUME NEW x \in Call
               PROVE  /\ call'[x].stage \in {"idle", "consume"} => members.ip[x] = NoIP
                      /\ call'[x].stage \in OnRecord => members.ip[call'[x].id] \in {NoIP, call'[x].ip}
    BY DEF Recorded
  <1>1. CASE x = c
    BY <1>1
  <1>2. CASE x # c
    <2>1. call'[x] = call[x]
      BY <1>2 DEF OthersStay
    <2> QED BY <2>1 DEF Recorded
  <1> QED BY <1>1, <1>2

LEMMA StageFields ==
    ASSUME JoinTypeOK, NEW c \in Call, NEW st \in Stage, Moves(c, [call[c] EXCEPT !.stage = st])
    PROVE  /\ OthersStay(c)
           /\ call'[c].stage = st /\ call'[c].id = call[c].id /\ call'[c].ip = call[c].ip
           /\ call'[c].at = call[c].at /\ call'[c].token = call[c].token
  <1>1. call[c] \in Handler
    BY DEF JoinTypeOK
  <1>2. [call[c] EXCEPT !.stage = st] \in Handler
    BY <1>1 DEF Handler
  <1> QED
    BY <1>1, <1>2, MovesFields DEF Handler

\* The log or the leader may move on while a command is under way.
Leads == joinLeader' \in Replica /\ moves' \in 0..MaxMoves /\ UNCHANGED removals

\* A command commits and the handler goes on, commits and the handler fails, or
\* does nothing and the handler fails.
LEMMA Outcomes ==
    ASSUME JoinTypeOK, NEW c \in Call, NEW commit, NEW next, NEW failure,
           raftApply(c, commit, next, failure)
    PROVE  /\ Leads
           /\ \/ /\ members' = commit /\ replica' = [replica EXCEPT ![call[c].at] = commit]
                 /\ Moves(c, next)
              \/ /\ members' = commit \/ UNCHANGED members
                 /\ UNCHANGED replica
                 /\ Moves(c, [call[c] EXCEPT !.stage = failure])
  <1>1. call' = [call EXCEPT ![c].stage = failure] => Moves(c, [call[c] EXCEPT !.stage = failure])
    BY DEF Moves
  <1> QED
    BY <1>1, JoinAssumption DEF raftApply, Moves, Leads, JoinTypeOK

\* What the invariant says of a call that checks its address and another one.
PairFacts(x, y) ==
    /\ call \in [Call -> Handler] /\ replica \in [Replica -> Members] /\ members \in Members
    /\ call[x].at \in Replica /\ call[y].at \in Replica
    /\ call[x].stage = "check" =>
          call[x].ip # NoIP /\ call[x].id = x /\ members.ip[x] \in {NoIP, call[x].ip}
    /\ call[y].stage = "check" => call[y].id = y /\ members.ip[y] \in {NoIP, call[y].ip}
    /\ call[x].stage = "check" /\ call[y].id = y /\ call[y].stage \in Written
          /\ members.ip[x] = call[x].ip /\ members.ip[y] = call[x].ip /\ y \notin revived
          => \/ replica[call[x].at].ip[y] = call[x].ip
             \/ call[y].stage = "check" /\ replica[call[y].at].ip[x] = call[y].ip

LEMMA Pairs ==
    ASSUME JoinInv, NEW x \in Call, NEW y \in Call, x # y
    PROVE  PairFacts(x, y)
  <1>1. /\ call \in [Call -> Handler] /\ replica \in [Replica -> Members] /\ members \in Members
        /\ call[x].at \in Replica /\ call[y].at \in Replica
        /\ call[x].stage = "check" => call[x].ip # NoIP
    BY DEF JoinInv, JoinTypeOK, Handler, MeshIP, NoIP
  <1>2. \A z \in {x, y} : call[z].stage = "check" => call[z].id = z /\ members.ip[z] \in {NoIP, call[z].ip}
    BY DEF JoinInv, Identities, Recorded, OnRecord, Own
  <1> QED
    BY <1>1, <1>2 DEF PairFacts, JoinInv, OneSeesOther, Own, Sees

(***************************************************************************)
(* One lemma per action: the invariant is preserved.                       *)
(***************************************************************************)
LEMMA BeginJoinInv ==
    ASSUME JoinInv, NEW c \in Call, NEW t \in JoinToken, NEW e \in Call, BeginJoin(c, t, e)
    PROVE  JoinInv'
  <1>a. PICK st \in {"consume", "denied"} :
           Moves(c, [call[c] EXCEPT !.at = joinLeader, !.token = t, !.id = e, !.stage = st])
    BY DEF BeginJoin, Proceeds, Moves
  <1>b. call[c] \in Handler /\ joinLeader \in Replica
    BY DEF JoinInv, JoinTypeOK
  <1>c. [call[c] EXCEPT !.at = joinLeader, !.token = t, !.id = e, !.stage = st] \in Handler
    BY <1>b DEF Handler, Stage
  <1>d. OthersStay(c) /\ call'[c] = [call[c] EXCEPT !.at = joinLeader, !.token = t, !.id = e, !.stage = st]
    BY <1>a, <1>c, MovesFields DEF JoinInv
  <1>e. call'[c].stage \in {"consume", "denied"} /\ call'[c].id = e
    BY <1>b, <1>d DEF Handler
  <1>0. /\ call[c].stage = "idle"
        /\ e = c \/ \E d \in Call : call[d].stage = "done" /\ call[d].id = e
        /\ OthersStay(c) /\ call'[c].stage \in {"consume", "denied"} /\ call'[c].id = e
        /\ UNCHANGED <<members, replica, joinLeader, moves, removals, revived>>
    BY <1>d, <1>e DEF BeginJoin, Proceeds, admitted
  <1>1. JoinTypeOK'
    BY <1>0, JoinAssumption DEF JoinInv, JoinTypeOK, Members, Handler, Stage, MeshIP, NoIP, OthersStay, Leads
  <1>2. Identities'
    BY <1>0, JoinAssumption DEF JoinInv, Identities, Own, JoinTypeOK, Handler, OthersStay
  <1>3. Recorded'
    <2> SUFFICES ASSUME NEW x \in Call
                 PROVE  /\ call'[x].stage \in {"idle", "consume"} => members'.ip[x] = NoIP
                        /\ call'[x].stage \in OnRecord => members'.ip[call'[x].id] \in {NoIP, call'[x].ip}
      BY DEF Recorded
    <2>1. CASE x = c
      BY <1>0, <2>1 DEF JoinInv, Recorded, OnRecord
    <2>2. CASE x # c
      BY <1>0, <2>2 DEF JoinInv, Recorded, OthersStay
    <2> QED
      BY <2>1, <2>2
  <1>4. OneSeesOther'
    <2> SUFFICES ASSUME NEW x \in Call, NEW y \in Call, x # y, call'[x].stage = "check",
                        call'[y].id = y, call'[y].stage \in Written,
                        members'.ip[x] = call'[x].ip, members'.ip[y] = call'[x].ip, y \notin revived'
                 PROVE  \/ replica'[call'[x].at].ip[y] = call'[x].ip
                        \/ call'[y].stage = "check" /\ replica'[call'[y].at].ip[x] = call'[y].ip
      BY DEF OneSeesOther, Own, Sees
    <2>1. PairFacts(x, y)
      BY Pairs
    <2> QED
      BY <1>0, <2>1 DEF OthersStay, Written, PairFacts
  <1>5. OwnersDistinct'
    <2> SUFFICES ASSUME NEW x \in Call, NEW y \in Call, x # y, call'[x].id = x, call'[y].id = y,
                        members'.ip[x] # NoIP, call'[x].stage \in {"creds", "done"},
                        call'[y].stage \in {"creds", "done"}, x \notin revived', y \notin revived'
                 PROVE  members'.ip[x] # members'.ip[y]
      BY DEF OwnersDistinct, Own
    <2>1. call[x].id = x /\ call[y].id = y /\ members.ip[x] # NoIP /\ call[x].stage \in {"creds", "done"}
             /\ call[y].stage \in {"creds", "done"} /\ x \notin revived /\ y \notin revived
             => members.ip[x] # members.ip[y]
      BY DEF JoinInv, OwnersDistinct, Own
    <2> QED
      BY <1>0, <2>1 DEF OthersStay
  <1>6. Spent'
    BY <1>0, JoinAssumption DEF JoinInv, Spent, Past, Stage, JoinTypeOK, Handler, Members, OthersStay
  <1>7. TokenUsedOnce'
    <2> SUFFICES ASSUME NEW x \in Call, NEW y \in Call, x # y, call'[x].token = call'[y].token,
                        call'[x].token \in SingleUse, call'[x].stage \notin {"idle", "consume", "denied"}
                 PROVE  call'[y].stage \in {"idle", "consume", "denied"}
      BY DEF TokenUsedOnce
    <2>1. /\ call[x].token = call[y].token /\ call[x].token \in SingleUse
             /\ call[x].stage \notin {"idle", "consume", "denied"} => call[y].stage \in {"idle", "consume", "denied"}
      BY DEF JoinInv, TokenUsedOnce
    <2>2. /\ call[x].stage \notin {"idle", "consume", "denied"} => call[x].token \in members.used
          /\ call[y].stage \notin {"idle", "consume", "denied"} => call[y].token \in members.used
      BY DEF JoinInv, Spent, Past, JoinTypeOK, Handler
    <2> QED
      BY <1>0, <2>1, <2>2 DEF OthersStay
  <1>8. Returning'
    BY <1>0 DEF JoinInv, Identities, Returning, Own, JoinTypeOK, Handler, OthersStay
  <1> QED
    BY <1>1, <1>2, <1>3, <1>4, <1>5, <1>6, <1>7, <1>8 DEF JoinInv

LEMMA allocateInv ==
    ASSUME JoinInv, NEW c \in Call, allocateMeshIP(c)
    PROVE  JoinInv'
  <1>a. call[c] \in Handler
    BY DEF JoinInv, JoinTypeOK
  <1>b. \A x \in MeshIP : [call[c] EXCEPT !.stage = "put", !.ip = x] \in Handler
    BY <1>a DEF Handler, Stage
  <1>0. /\ call[c].stage = "allocate" /\ OthersStay(c)
        /\ call'[c].stage = "failed" \/ (call'[c].stage = "put" /\ call'[c].ip \in MeshIP)
        /\ call'[c].id = call[c].id /\ call'[c].token = call[c].token
        /\ UNCHANGED <<members, replica, joinLeader, moves, removals, revived>>
    <2>1. CASE Proceeds(c, [call[c] EXCEPT !.stage = "failed"])
      BY <2>1, StageFields DEF allocateMeshIP, Proceeds, Moves, Stage, JoinInv
    <2>2. CASE \E x \in MeshIP : Proceeds(c, [call[c] EXCEPT !.stage = "put", !.ip = x])
      <3>1. PICK x \in MeshIP : Proceeds(c, [call[c] EXCEPT !.stage = "put", !.ip = x])
        BY <2>2
      <3>2. OthersStay(c) /\ call'[c] = [call[c] EXCEPT !.stage = "put", !.ip = x]
        BY <1>b, <3>1, MovesFields DEF Proceeds, Moves, JoinInv
      <3>3. /\ call'[c].stage = "put" /\ call'[c].ip = x
            /\ call'[c].id = call[c].id /\ call'[c].token = call[c].token
        BY <1>a, <3>2 DEF Handler
      <3> QED
        BY <3>1, <3>2, <3>3 DEF allocateMeshIP, Proceeds
    <2> QED
      BY <2>1, <2>2 DEF allocateMeshIP
  <1>1. JoinTypeOK'
    BY <1>0, JoinAssumption DEF JoinInv, JoinTypeOK, Members, Handler, Stage, MeshIP, NoIP, OthersStay, Leads
  <1>2. Identities'
    BY <1>0, JoinAssumption DEF JoinInv, Identities, Own, JoinTypeOK, Handler, OthersStay
  <1>3. Recorded'
    BY <1>0, RecordStays DEF JoinInv, Recorded, OnRecord
  <1>4. OneSeesOther'
    <2> SUFFICES ASSUME NEW x \in Call, NEW y \in Call, x # y, call'[x].stage = "check",
                        call'[y].id = y, call'[y].stage \in Written,
                        members'.ip[x] = call'[x].ip, members'.ip[y] = call'[x].ip, y \notin revived'
                 PROVE  \/ replica'[call'[x].at].ip[y] = call'[x].ip
                        \/ call'[y].stage = "check" /\ replica'[call'[y].at].ip[x] = call'[y].ip
      BY DEF OneSeesOther, Own, Sees
    <2>1. PairFacts(x, y)
      BY Pairs
    <2> QED
      BY <1>0, <2>1 DEF OthersStay, Written, PairFacts
  <1>5. OwnersDistinct'
    <2> SUFFICES ASSUME NEW x \in Call, NEW y \in Call, x # y, call'[x].id = x, call'[y].id = y,
                        members'.ip[x] # NoIP, call'[x].stage \in {"creds", "done"},
                        call'[y].stage \in {"creds", "done"}, x \notin revived', y \notin revived'
                 PROVE  members'.ip[x] # members'.ip[y]
      BY DEF OwnersDistinct, Own
    <2>1. call[x].id = x /\ call[y].id = y /\ members.ip[x] # NoIP /\ call[x].stage \in {"creds", "done"}
             /\ call[y].stage \in {"creds", "done"} /\ x \notin revived /\ y \notin revived
             => members.ip[x] # members.ip[y]
      BY DEF JoinInv, OwnersDistinct, Own
    <2> QED
      BY <1>0, <2>1 DEF OthersStay
  <1>6. Spent'
    BY <1>0, JoinAssumption DEF JoinInv, Spent, Past, Stage, JoinTypeOK, Handler, Members, OthersStay
  <1>7. TokenUsedOnce'
    <2> SUFFICES ASSUME NEW x \in Call, NEW y \in Call, x # y, call'[x].token = call'[y].token,
                        call'[x].token \in SingleUse, call'[x].stage \notin {"idle", "consume", "denied"}
                 PROVE  call'[y].stage \in {"idle", "consume", "denied"}
      BY DEF TokenUsedOnce
    <2>1. /\ call[x].token = call[y].token /\ call[x].token \in SingleUse
             /\ call[x].stage \notin {"idle", "consume", "denied"} => call[y].stage \in {"idle", "consume", "denied"}
      BY DEF JoinInv, TokenUsedOnce
    <2>2. /\ call[x].stage \notin {"idle", "consume", "denied"} => call[x].token \in members.used
          /\ call[y].stage \notin {"idle", "consume", "denied"} => call[y].token \in members.used
      BY DEF JoinInv, Spent, Past, JoinTypeOK, Handler
    <2> QED
      BY <1>0, <2>1, <2>2 DEF OthersStay
  <1>8. Returning'
    BY <1>0 DEF JoinInv, Identities, Returning, Own, JoinTypeOK, Handler, OthersStay
  <1> QED
    BY <1>1, <1>2, <1>3, <1>4, <1>5, <1>6, <1>7, <1>8 DEF JoinInv

LEMMA CheckInv ==
    ASSUME JoinInv, NEW c \in Call, CheckNode(c)
    PROVE  JoinInv'
  <1>a. call[c] \in Handler
    BY DEF JoinInv, JoinTypeOK
  <1> DEFINE again == call[c].tries + 1
  <1>b. again \in Nat
    BY <1>a DEF Handler
  <1> HIDE DEF again
  <1>c. \A st \in Stage : [call[c] EXCEPT !.tries = again, !.stage = st] \in Handler
    BY <1>a, <1>b DEF Handler
  <1>0. /\ call[c].stage = "check" /\ OthersStay(c)
        /\ \/ /\ call'[c].stage = "creds"
              /\ \A d \in Call \ {call[c].id} : replica[call[c].at].ip[d] # call[c].ip
           \/ call'[c].stage \in {"allocate", "failed"}
        /\ call'[c].id = call[c].id /\ call'[c].ip = call[c].ip
        /\ call'[c].at = call[c].at /\ call'[c].token = call[c].token
        /\ UNCHANGED <<members, replica, joinLeader, moves, removals, revived>>
    <2>1. CASE meshIPTaken(c)
      <3>1. PICK st \in {"allocate", "failed"} :
               Moves(c, [call[c] EXCEPT !.tries = again, !.stage = st])
        BY <2>1 DEF CheckNode, Proceeds, Moves, again
      <3>2. OthersStay(c) /\ call'[c] = [call[c] EXCEPT !.tries = again, !.stage = st]
        BY <1>c, <3>1, MovesFields DEF Stage, JoinInv
      <3>3. /\ call'[c].stage = st /\ call'[c].id = call[c].id /\ call'[c].ip = call[c].ip
            /\ call'[c].at = call[c].at /\ call'[c].token = call[c].token
        BY <1>a, <3>2, SMTT(20) DEF Handler
      <3> QED
        BY <3>2, <3>3 DEF CheckNode, Proceeds
    <2>2. CASE ~meshIPTaken(c)
      <3>1. Moves(c, [call[c] EXCEPT !.stage = "creds"])
        BY <2>2 DEF CheckNode, Proceeds, Moves
      <3> QED
        BY <2>2, <3>1, StageFields DEF CheckNode, Proceeds, meshIPTaken, Stage, JoinInv
    <2> QED
      BY <2>1, <2>2
  <1>1. JoinTypeOK'
    BY <1>0, JoinAssumption DEF JoinInv, JoinTypeOK, Members, Handler, Stage, MeshIP, NoIP, OthersStay, Leads
  <1>2. Identities'
    BY <1>0, JoinAssumption DEF JoinInv, Identities, Own, JoinTypeOK, Handler, OthersStay
  <1>3. Recorded'
    BY <1>0, RecordStays DEF JoinInv, Recorded, OnRecord
  <1>4. OneSeesOther'
    <2> SUFFICES ASSUME NEW x \in Call, NEW y \in Call, x # y, call'[x].stage = "check",
                        call'[y].id = y, call'[y].stage \in Written,
                        members'.ip[x] = call'[x].ip, members'.ip[y] = call'[x].ip, y \notin revived'
                 PROVE  \/ replica'[call'[x].at].ip[y] = call'[x].ip
                        \/ call'[y].stage = "check" /\ replica'[call'[y].at].ip[x] = call'[y].ip
      BY DEF OneSeesOther, Own, Sees
    <2>1. PairFacts(x, y)
      BY Pairs
    <2> QED
      BY <1>0, <2>1 DEF OthersStay, Written, PairFacts
  <1>5. OwnersDistinct'
    <2> SUFFICES ASSUME NEW x \in Call, NEW y \in Call, x # y, call'[x].id = x, call'[y].id = y,
                        members'.ip[x] # NoIP, call'[x].stage \in {"creds", "done"},
                        call'[y].stage \in {"creds", "done"}, x \notin revived', y \notin revived'
                 PROVE  members'.ip[x] # members'.ip[y]
      BY DEF OwnersDistinct, Own
    <2>1. call[x].id = x /\ call[y].id = y /\ members.ip[x] # NoIP /\ call[x].stage \in {"creds", "done"}
             /\ call[y].stage \in {"creds", "done"} /\ x \notin revived /\ y \notin revived
             => members.ip[x] # members.ip[y]
      BY DEF JoinInv, OwnersDistinct, Own
    <2>2. ASSUME NEW d \in Call, d # c, call[d].id = d, call[d].stage \in {"creds", "done"},
                 call'[c].stage = "creds", d \notin revived, members.ip[c] # NoIP \/ members.ip[d] # NoIP
          PROVE  members.ip[c] # members.ip[d]
      <3>1. call[c].id = c /\ members.ip[c] \in {NoIP, call[c].ip}
        BY <1>0 DEF JoinInv, Identities, Recorded, OnRecord, Own
      <3>2. replica[call[c].at].ip[d] # call[c].ip
        BY <1>0, <2>2, <3>1
      <3> QED
        BY <1>0, <2>2, <3>1, <3>2 DEF JoinInv, OneSeesOther, Own, Sees, Written
    <2> QED
      BY <1>0, <2>1, <2>2 DEF OthersStay
  <1>6. Spent'
    BY <1>0, JoinAssumption DEF JoinInv, Spent, Past, Stage, JoinTypeOK, Handler, Members, OthersStay
  <1>7. TokenUsedOnce'
    <2> SUFFICES ASSUME NEW x \in Call, NEW y \in Call, x # y, call'[x].token = call'[y].token,
                        call'[x].token \in SingleUse, call'[x].stage \notin {"idle", "consume", "denied"}
                 PROVE  call'[y].stage \in {"idle", "consume", "denied"}
      BY DEF TokenUsedOnce
    <2>1. /\ call[x].token = call[y].token /\ call[x].token \in SingleUse
             /\ call[x].stage \notin {"idle", "consume", "denied"} => call[y].stage \in {"idle", "consume", "denied"}
      BY DEF JoinInv, TokenUsedOnce
    <2>2. /\ call[x].stage \notin {"idle", "consume", "denied"} => call[x].token \in members.used
          /\ call[y].stage \notin {"idle", "consume", "denied"} => call[y].token \in members.used
      BY DEF JoinInv, Spent, Past, JoinTypeOK, Handler
    <2> QED
      BY <1>0, <2>1, <2>2 DEF OthersStay
  <1>8. Returning'
    BY <1>0 DEF JoinInv, Identities, Returning, Own, JoinTypeOK, Handler, OthersStay
  <1> QED
    BY <1>1, <1>2, <1>3, <1>4, <1>5, <1>6, <1>7, <1>8 DEF JoinInv

LEMMA ElectInv ==
    ASSUME JoinInv, NEW r \in Replica, JoinElect(r)
    PROVE  JoinInv'
  <1>0. Leads /\ UNCHANGED <<members, replica, call, revived>>
    BY JoinAssumption DEF JoinElect, Leads, JoinInv, JoinTypeOK
  <1>1. JoinTypeOK'
    BY <1>0, JoinAssumption DEF JoinInv, JoinTypeOK, Members, Handler, Stage, MeshIP, NoIP, OthersStay, Leads
  <1>2. Identities'
    BY <1>0, JoinAssumption DEF JoinInv, Identities, Own, JoinTypeOK, Handler, OthersStay
  <1>3. Recorded'
    BY <1>0, JoinAssumption DEF JoinInv, Recorded, Identities, Own, JoinTypeOK, Handler, Members, OthersStay
  <1>4. OneSeesOther'
    <2> SUFFICES ASSUME NEW x \in Call, NEW y \in Call, x # y, call'[x].stage = "check",
                        call'[y].id = y, call'[y].stage \in Written,
                        members'.ip[x] = call'[x].ip, members'.ip[y] = call'[x].ip, y \notin revived'
                 PROVE  \/ replica'[call'[x].at].ip[y] = call'[x].ip
                        \/ call'[y].stage = "check" /\ replica'[call'[y].at].ip[x] = call'[y].ip
      BY DEF OneSeesOther, Own, Sees
    <2>1. PairFacts(x, y)
      BY Pairs
    <2> QED
      BY <1>0, <2>1 DEF OthersStay, Written, PairFacts
  <1>5. OwnersDistinct'
    <2> SUFFICES ASSUME NEW x \in Call, NEW y \in Call, x # y, call'[x].id = x, call'[y].id = y,
                        members'.ip[x] # NoIP, call'[x].stage \in {"creds", "done"},
                        call'[y].stage \in {"creds", "done"}, x \notin revived', y \notin revived'
                 PROVE  members'.ip[x] # members'.ip[y]
      BY DEF OwnersDistinct, Own
    <2>1. call[x].id = x /\ call[y].id = y /\ members.ip[x] # NoIP /\ call[x].stage \in {"creds", "done"}
             /\ call[y].stage \in {"creds", "done"} /\ x \notin revived /\ y \notin revived
             => members.ip[x] # members.ip[y]
      BY DEF JoinInv, OwnersDistinct, Own
    <2> QED
      BY <1>0, <2>1 DEF OthersStay
  <1>6. Spent'
    BY <1>0, JoinAssumption DEF JoinInv, Spent, Past, Stage, JoinTypeOK, Handler, Members, OthersStay
  <1>7. TokenUsedOnce'
    <2> SUFFICES ASSUME NEW x \in Call, NEW y \in Call, x # y, call'[x].token = call'[y].token,
                        call'[x].token \in SingleUse, call'[x].stage \notin {"idle", "consume", "denied"}
                 PROVE  call'[y].stage \in {"idle", "consume", "denied"}
      BY DEF TokenUsedOnce
    <2>1. /\ call[x].token = call[y].token /\ call[x].token \in SingleUse
             /\ call[x].stage \notin {"idle", "consume", "denied"} => call[y].stage \in {"idle", "consume", "denied"}
      BY DEF JoinInv, TokenUsedOnce
    <2>2. /\ call[x].stage \notin {"idle", "consume", "denied"} => call[x].token \in members.used
          /\ call[y].stage \notin {"idle", "consume", "denied"} => call[y].token \in members.used
      BY DEF JoinInv, Spent, Past, JoinTypeOK, Handler
    <2> QED
      BY <1>0, <2>1, <2>2 DEF OthersStay
  <1>8. Returning'
    BY <1>0 DEF JoinInv, Identities, Returning, Own, JoinTypeOK, Handler, OthersStay
  <1> QED
    BY <1>1, <1>2, <1>3, <1>4, <1>5, <1>6, <1>7, <1>8 DEF JoinInv

LEMMA CatchUpInv ==
    ASSUME JoinInv, NEW r \in Replica, CatchUp(r)
    PROVE  JoinInv'
  <1>0. /\ replica' = [replica EXCEPT ![r] = members]
        /\ UNCHANGED <<members, joinLeader, moves, removals, call, revived>>
    BY DEF CatchUp
  <1>1. JoinTypeOK'
    BY <1>0, JoinAssumption DEF JoinInv, JoinTypeOK, Members, Handler, Stage, MeshIP, NoIP, OthersStay, Leads
  <1>2. Identities'
    BY <1>0, JoinAssumption DEF JoinInv, Identities, Own, JoinTypeOK, Handler, OthersStay
  <1>3. Recorded'
    BY <1>0, JoinAssumption DEF JoinInv, Recorded, Identities, Own, JoinTypeOK, Handler, Members, OthersStay
  <1>4. OneSeesOther'
    <2> SUFFICES ASSUME NEW x \in Call, NEW y \in Call, x # y, call'[x].stage = "check",
                        call'[y].id = y, call'[y].stage \in Written,
                        members'.ip[x] = call'[x].ip, members'.ip[y] = call'[x].ip, y \notin revived'
                 PROVE  \/ replica'[call'[x].at].ip[y] = call'[x].ip
                        \/ call'[y].stage = "check" /\ replica'[call'[y].at].ip[x] = call'[y].ip
      BY DEF OneSeesOther, Own, Sees
    <2>1. PairFacts(x, y)
      BY Pairs
    <2> QED
      BY <1>0, <2>1 DEF OthersStay, Written, PairFacts
  <1>5. OwnersDistinct'
    <2> SUFFICES ASSUME NEW x \in Call, NEW y \in Call, x # y, call'[x].id = x, call'[y].id = y,
                        members'.ip[x] # NoIP, call'[x].stage \in {"creds", "done"},
                        call'[y].stage \in {"creds", "done"}, x \notin revived', y \notin revived'
                 PROVE  members'.ip[x] # members'.ip[y]
      BY DEF OwnersDistinct, Own
    <2>1. call[x].id = x /\ call[y].id = y /\ members.ip[x] # NoIP /\ call[x].stage \in {"creds", "done"}
             /\ call[y].stage \in {"creds", "done"} /\ x \notin revived /\ y \notin revived
             => members.ip[x] # members.ip[y]
      BY DEF JoinInv, OwnersDistinct, Own
    <2> QED
      BY <1>0, <2>1 DEF OthersStay
  <1>6. Spent'
    BY <1>0, JoinAssumption DEF JoinInv, Spent, Past, Stage, JoinTypeOK, Handler, Members, OthersStay
  <1>7. TokenUsedOnce'
    <2> SUFFICES ASSUME NEW x \in Call, NEW y \in Call, x # y, call'[x].token = call'[y].token,
                        call'[x].token \in SingleUse, call'[x].stage \notin {"idle", "consume", "denied"}
                 PROVE  call'[y].stage \in {"idle", "consume", "denied"}
      BY DEF TokenUsedOnce
    <2>1. /\ call[x].token = call[y].token /\ call[x].token \in SingleUse
             /\ call[x].stage \notin {"idle", "consume", "denied"} => call[y].stage \in {"idle", "consume", "denied"}
      BY DEF JoinInv, TokenUsedOnce
    <2>2. /\ call[x].stage \notin {"idle", "consume", "denied"} => call[x].token \in members.used
          /\ call[y].stage \notin {"idle", "consume", "denied"} => call[y].token \in members.used
      BY DEF JoinInv, Spent, Past, JoinTypeOK, Handler
    <2> QED
      BY <1>0, <2>1, <2>2 DEF OthersStay
  <1>8. Returning'
    BY <1>0 DEF JoinInv, Identities, Returning, Own, JoinTypeOK, Handler, OthersStay
  <1> QED
    BY <1>1, <1>2, <1>3, <1>4, <1>5, <1>6, <1>7, <1>8 DEF JoinInv

LEMMA RemoveInv ==
    ASSUME JoinInv, NEW i \in Call, RemoveMember(i)
    PROVE  JoinInv'
  <1>a. members \in Members /\ joinLeader \in Replica /\ replica \in [Replica -> Members]
    BY DEF JoinInv, JoinTypeOK
  <1>b. members' = [members EXCEPT !.ip = [members.ip EXCEPT ![i] = NoIP]]
    BY DEF RemoveMember
  <1>0. /\ removals' \in 0..MaxRemovals
        /\ members' \in Members /\ members'.used = members.used
        /\ members'.ip[i] = NoIP /\ \A j \in Call \ {i} : members'.ip[j] = members.ip[j]
        /\ replica' = [replica EXCEPT ![joinLeader] = members']
        /\ revived' = revived \ {i} /\ UNCHANGED <<joinLeader, moves, call>>
    <2>1. /\ members' \in Members /\ members'.used = members.used
          /\ members'.ip[i] = NoIP /\ \A j \in Call \ {i} : members'.ip[j] = members.ip[j]
      BY <1>a, <1>b DEF Members
    <2>2. removals' \in 0..MaxRemovals
      BY JoinAssumption DEF RemoveMember, JoinInv, JoinTypeOK
    <2> QED BY <2>1, <2>2 DEF RemoveMember
  <1>1. JoinTypeOK'
    BY <1>0, JoinAssumption DEF JoinInv, JoinTypeOK, Members, Handler, Stage, MeshIP, NoIP, OthersStay, Leads
  <1>2. Identities'
    BY <1>0, JoinAssumption DEF JoinInv, Identities, Own, JoinTypeOK, Handler, OthersStay
  <1>3. Recorded'
    BY <1>0, JoinAssumption DEF JoinInv, Recorded, Identities, Own, JoinTypeOK, Handler, Members, OthersStay
  <1>4. OneSeesOther'
    <2> SUFFICES ASSUME NEW x \in Call, NEW y \in Call, x # y, call'[x].stage = "check",
                        call'[y].id = y, call'[y].stage \in Written,
                        members'.ip[x] = call'[x].ip, members'.ip[y] = call'[x].ip, y \notin revived'
                 PROVE  \/ replica'[call'[x].at].ip[y] = call'[x].ip
                        \/ call'[y].stage = "check" /\ replica'[call'[y].at].ip[x] = call'[y].ip
      BY DEF OneSeesOther, Own, Sees
    <2>1. PairFacts(x, y)
      BY Pairs
    <2>4. y # i /\ x # i
      BY <1>0, <2>1 DEF PairFacts
    <2>5. members'.ip[x] = members.ip[x] /\ members'.ip[y] = members.ip[y]
      BY <1>0, <2>4
    <2>6. \A r \in Replica : replica'[r] = replica[r] \/ replica'[r] = members'
      BY <1>0, <2>1 DEF PairFacts
    <2> QED
      BY <1>0, <2>1, <2>5, <2>6 DEF PairFacts
  <1>5. OwnersDistinct'
    <2> SUFFICES ASSUME NEW x \in Call, NEW y \in Call, x # y, call'[x].id = x, call'[y].id = y,
                        members'.ip[x] # NoIP, call'[x].stage \in {"creds", "done"},
                        call'[y].stage \in {"creds", "done"}, x \notin revived', y \notin revived'
                 PROVE  members'.ip[x] # members'.ip[y]
      BY DEF OwnersDistinct, Own
    <2>1. call[x].id = x /\ call[y].id = y /\ members.ip[x] # NoIP /\ call[x].stage \in {"creds", "done"}
             /\ call[y].stage \in {"creds", "done"} /\ x \notin revived /\ y \notin revived
             => members.ip[x] # members.ip[y]
      BY DEF JoinInv, OwnersDistinct, Own
    <2> QED
      BY <1>0, <2>1 DEF OthersStay
  <1>6. Spent'
    BY <1>0, JoinAssumption DEF JoinInv, Spent, Past, Stage, JoinTypeOK, Handler, Members, OthersStay
  <1>7. TokenUsedOnce'
    <2> SUFFICES ASSUME NEW x \in Call, NEW y \in Call, x # y, call'[x].token = call'[y].token,
                        call'[x].token \in SingleUse, call'[x].stage \notin {"idle", "consume", "denied"}
                 PROVE  call'[y].stage \in {"idle", "consume", "denied"}
      BY DEF TokenUsedOnce
    <2>1. /\ call[x].token = call[y].token /\ call[x].token \in SingleUse
             /\ call[x].stage \notin {"idle", "consume", "denied"} => call[y].stage \in {"idle", "consume", "denied"}
      BY DEF JoinInv, TokenUsedOnce
    <2>2. /\ call[x].stage \notin {"idle", "consume", "denied"} => call[x].token \in members.used
          /\ call[y].stage \notin {"idle", "consume", "denied"} => call[y].token \in members.used
      BY DEF JoinInv, Spent, Past, JoinTypeOK, Handler
    <2> QED
      BY <1>0, <2>1, <2>2 DEF OthersStay
  <1>8. Returning'
    BY <1>0 DEF JoinInv, Identities, Returning, Own, JoinTypeOK, Handler, OthersStay
  <1> QED
    BY <1>1, <1>2, <1>3, <1>4, <1>5, <1>6, <1>7, <1>8 DEF JoinInv

LEMMA CredentialInv ==
    ASSUME JoinInv, NEW c \in Call, PutCredential(c)
    PROVE  JoinInv'
  <1>0. /\ call[c].stage = "creds" /\ Leads /\ UNCHANGED <<members, revived>> /\ OthersStay(c)
        /\ call'[c].stage \in {"done", "failed"} /\ call'[c].id = call[c].id
        /\ call'[c].ip = call[c].ip /\ call'[c].token = call[c].token
        /\ UNCHANGED replica \/ replica' = [replica EXCEPT ![call[c].at] = members]
    BY Outcomes, StageFields DEF PutCredential, Stage, JoinInv
  <1>1. JoinTypeOK'
    <2>1. replica' \in [Replica -> Members] /\ members' \in Members
      BY <1>0 DEF JoinInv, JoinTypeOK
    <2>2. call'[c].stage \in {"put", "resume", "check", "creds"} => call'[c].ip \in MeshIP
      BY <1>0
    <2> QED
      BY <1>0, <2>1, <2>2 DEF JoinInv, JoinTypeOK, OthersStay, Leads
  <1>2. Identities'
    BY <1>0, JoinAssumption DEF JoinInv, Identities, Own, JoinTypeOK, Handler, OthersStay
  <1>3. Recorded'
    BY <1>0, RecordStays DEF JoinInv, Recorded, OnRecord
  <1>4. OneSeesOther'
    <2> SUFFICES ASSUME NEW x \in Call, NEW y \in Call, x # y, call'[x].stage = "check",
                        call'[y].id = y, call'[y].stage \in Written,
                        members'.ip[x] = call'[x].ip, members'.ip[y] = call'[x].ip, y \notin revived'
                 PROVE  \/ replica'[call'[x].at].ip[y] = call'[x].ip
                        \/ call'[y].stage = "check" /\ replica'[call'[y].at].ip[x] = call'[y].ip
      BY DEF OneSeesOther, Own, Sees
    <2>1. PairFacts(x, y)
      BY Pairs
    <2>4. call'[x] = call[x]
      BY <1>0 DEF OthersStay
    <2>5. \A r \in Replica : replica'[r] = replica[r] \/ replica'[r] = members
      BY <1>0, <2>1 DEF PairFacts
    <2>6. call[y].id = y /\ call[y].stage \in Written /\ (call[y].stage = "check" => call'[y] = call[y])
      BY <1>0 DEF OthersStay, Written
    <2> QED
      BY <1>0, <2>1, <2>4, <2>5, <2>6 DEF PairFacts
  <1>5. OwnersDistinct'
    <2> SUFFICES ASSUME NEW x \in Call, NEW y \in Call, x # y, call'[x].id = x, call'[y].id = y,
                        members'.ip[x] # NoIP, call'[x].stage \in {"creds", "done"},
                        call'[y].stage \in {"creds", "done"}, x \notin revived', y \notin revived'
                 PROVE  members'.ip[x] # members'.ip[y]
      BY DEF OwnersDistinct, Own
    <2>1. call[x].id = x /\ call[y].id = y /\ members.ip[x] # NoIP /\ call[x].stage \in {"creds", "done"}
             /\ call[y].stage \in {"creds", "done"} /\ x \notin revived /\ y \notin revived
             => members.ip[x] # members.ip[y]
      BY DEF JoinInv, OwnersDistinct, Own
    <2> QED
      BY <1>0, <2>1 DEF OthersStay
  <1>6. Spent'
    BY <1>0, JoinAssumption DEF JoinInv, Spent, Past, Stage, JoinTypeOK, Handler, Members, OthersStay
  <1>7. TokenUsedOnce'
    <2> SUFFICES ASSUME NEW x \in Call, NEW y \in Call, x # y, call'[x].token = call'[y].token,
                        call'[x].token \in SingleUse, call'[x].stage \notin {"idle", "consume", "denied"}
                 PROVE  call'[y].stage \in {"idle", "consume", "denied"}
      BY DEF TokenUsedOnce
    <2>1. /\ call[x].token = call[y].token /\ call[x].token \in SingleUse
             /\ call[x].stage \notin {"idle", "consume", "denied"} => call[y].stage \in {"idle", "consume", "denied"}
      BY DEF JoinInv, TokenUsedOnce
    <2>2. /\ call[x].stage \notin {"idle", "consume", "denied"} => call[x].token \in members.used
          /\ call[y].stage \notin {"idle", "consume", "denied"} => call[y].token \in members.used
      BY DEF JoinInv, Spent, Past, JoinTypeOK, Handler
    <2> QED
      BY <1>0, <2>1, <2>2 DEF OthersStay
  <1>8. Returning'
    BY <1>0 DEF JoinInv, Identities, Returning, Own, JoinTypeOK, Handler, OthersStay
  <1> QED
    BY <1>1, <1>2, <1>3, <1>4, <1>5, <1>6, <1>7, <1>8 DEF JoinInv

LEMMA ConsumeInv ==
    ASSUME JoinInv, NEW c \in Call, ConsumeJoinToken(c)
    PROVE  JoinInv'
  <1> DEFINE spent == [members EXCEPT !.used = members.used \cup {call[c].token}]
  <1>a. call[c] \in Handler /\ members \in Members
    BY DEF JoinInv, JoinTypeOK
  <1>b. spent \in Members /\ spent.ip = members.ip /\ spent.used = members.used \cup {call[c].token}
    BY <1>a DEF Members, Handler
  <1>c. /\ [call[c] EXCEPT !.stage = "allocate", !.id = c] \in Handler
        /\ [call[c] EXCEPT !.stage = "resume", !.ip = members.ip[call[c].id]] \in Handler
    BY <1>a DEF Handler, Stage, Members
  <1>d. \/ /\ Leads /\ Moves(c, [call[c] EXCEPT !.stage = "denied"])
           /\ members' \in {members, spent}
           /\ UNCHANGED replica \/ replica' = [replica EXCEPT ![call[c].at] = members]
        \/ /\ Leads /\ Moves(c, resumeOrAllocate(c, spent)) /\ ~tokenRefused(call[c].token)
           /\ members' = spent /\ replica' = [replica EXCEPT ![call[c].at] = spent]
    BY Outcomes DEF ConsumeJoinToken, JoinInv
  <1>0. /\ call[c].stage = "consume" /\ Leads /\ OthersStay(c) /\ members' \in Members
        /\ members'.ip = members.ip /\ members.used \subseteq members'.used
        /\ call'[c].token = call[c].token
        /\ \/ /\ UNCHANGED replica \/ replica' = [replica EXCEPT ![call[c].at] = members]
              /\ call'[c].stage = "denied" /\ call'[c].id = call[c].id
           \/ /\ ~(call[c].token \in SingleUse /\ call[c].token \in members.used)
              /\ call[c].token \in members'.used
              /\ replica' = [replica EXCEPT ![call[c].at] = members']
              /\ \/ /\ call'[c].stage = "resume" /\ call'[c].id = call[c].id
                    /\ members.ip[call[c].id] # NoIP /\ call'[c].ip = members.ip[call[c].id]
                 \/ call'[c].stage = "allocate" /\ call'[c].id = c
    <2>1. CASE Moves(c, [call[c] EXCEPT !.stage = "denied"]) /\ members' \in {members, spent}
               /\ (UNCHANGED replica \/ replica' = [replica EXCEPT ![call[c].at] = members])
      BY <1>a, <1>b, <1>d, <2>1, StageFields DEF ConsumeJoinToken, Stage, JoinInv
    <2>2. CASE /\ Moves(c, resumeOrAllocate(c, spent)) /\ ~tokenRefused(call[c].token)
               /\ members' = spent /\ replica' = [replica EXCEPT ![call[c].at] = spent]
      <3>1. CASE members.ip[call[c].id] # NoIP
        <4>1. Moves(c, [call[c] EXCEPT !.stage = "resume", !.ip = members.ip[call[c].id]])
          BY <1>b, <2>2, <3>1 DEF resumeOrAllocate
        <4>2. OthersStay(c) /\ call'[c] = [call[c] EXCEPT !.stage = "resume", !.ip = members.ip[call[c].id]]
          BY <1>c, <4>1, MovesFields DEF JoinInv
        <4>3. call'[c].stage = "resume" /\ call'[c].id = call[c].id /\ call'[c].ip = members.ip[call[c].id]
              /\ call'[c].token = call[c].token
          BY <1>a, <4>2 DEF Handler
        <4> QED
          BY <1>a, <1>b, <1>d, <2>2, <3>1, <4>2, <4>3 DEF ConsumeJoinToken, tokenRefused
      <3>2. CASE members.ip[call[c].id] = NoIP
        <4>1. Moves(c, [call[c] EXCEPT !.stage = "allocate", !.id = c])
          BY <1>b, <2>2, <3>2 DEF resumeOrAllocate
        <4>2. OthersStay(c) /\ call'[c] = [call[c] EXCEPT !.stage = "allocate", !.id = c]
          BY <1>c, <4>1, MovesFields DEF JoinInv
        <4>3. call'[c].stage = "allocate" /\ call'[c].id = c /\ call'[c].token = call[c].token
          BY <1>a, <4>2 DEF Handler
        <4> QED
          BY <1>a, <1>b, <1>d, <2>2, <4>2, <4>3 DEF ConsumeJoinToken, tokenRefused
      <3> QED
        BY <3>1, <3>2
    <2> QED
      BY <1>d, <2>1, <2>2
  <1> HIDE DEF spent
  <1>e. UNCHANGED revived
    BY DEF ConsumeJoinToken
  <1>1. JoinTypeOK'
    <2>1. replica' \in [Replica -> Members] /\ members' \in Members
      BY <1>0 DEF JoinInv, JoinTypeOK
    <2>2. call'[c].stage \in {"put", "resume", "check", "creds"} => call'[c].ip \in MeshIP
      BY <1>0 DEF JoinInv, JoinTypeOK, Members, Handler
    <2> QED
      BY <1>0, <1>e, <2>1, <2>2 DEF JoinInv, JoinTypeOK, OthersStay, Leads
  <1>2. Identities'
    <2>1. call'[c].stage = "resume" => call[c].id # c
      BY <1>0 DEF JoinInv, Recorded
    <2>2. ASSUME NEW x \in Call
          PROVE  /\ call'[x].id # x => call'[call'[x].id].id = call'[x].id /\ call'[call'[x].id].stage = "done"
                 /\ call'[x].stage \in {"allocate", "put", "check"} => call'[x].id = x
                 /\ call'[x].stage = "resume" => call'[x].id # x
      <3>1. CASE x = c
        BY <1>0, <2>1, <3>1 DEF JoinInv, Identities, Own, OthersStay, JoinTypeOK, Handler
      <3>2. CASE x # c
        BY <1>0, <3>2 DEF JoinInv, Identities, Own, OthersStay, JoinTypeOK, Handler
      <3> QED BY <3>1, <3>2
    <2> QED
      BY <2>2 DEF Identities, Own
  <1>3. Recorded'
    <2> SUFFICES ASSUME NEW x \in Call
                 PROVE  /\ call'[x].stage \in {"idle", "consume"} => members'.ip[x] = NoIP
                        /\ call'[x].stage \in OnRecord => members'.ip[call'[x].id] \in {NoIP, call'[x].ip}
      BY DEF Recorded
    <2>1. CASE x = c
      BY <1>0, <2>1 DEF JoinInv, Recorded, OnRecord
    <2>2. CASE x # c
      BY <1>0, <2>2 DEF JoinInv, Recorded, OthersStay
    <2> QED
      BY <2>1, <2>2
  <1>4. OneSeesOther'
    <2> SUFFICES ASSUME NEW x \in Call, NEW y \in Call, x # y, call'[x].stage = "check",
                        call'[y].id = y, call'[y].stage \in Written,
                        members'.ip[x] = call'[x].ip, members'.ip[y] = call'[x].ip, y \notin revived'
                 PROVE  \/ replica'[call'[x].at].ip[y] = call'[x].ip
                        \/ call'[y].stage = "check" /\ replica'[call'[y].at].ip[x] = call'[y].ip
      BY DEF OneSeesOther, Own, Sees
    <2>1. PairFacts(x, y)
      BY Pairs
    <2>4. call'[x] = call[x] /\ call'[y] = call[y]
      BY <1>0 DEF OthersStay, Written
    <2>5. \A r \in Replica : replica'[r] = replica[r] \/ replica'[r].ip = members.ip
      BY <1>0, <2>1 DEF PairFacts
    <2> QED
      BY <1>0, <1>e, <2>1, <2>4, <2>5 DEF PairFacts
  <1>5. OwnersDistinct'
    <2> SUFFICES ASSUME NEW x \in Call, NEW y \in Call, x # y, call'[x].id = x, call'[y].id = y,
                        members'.ip[x] # NoIP, call'[x].stage \in {"creds", "done"},
                        call'[y].stage \in {"creds", "done"}, x \notin revived', y \notin revived'
                 PROVE  members'.ip[x] # members'.ip[y]
      BY DEF OwnersDistinct, Own
    <2>1. call[x].id = x /\ call[y].id = y /\ members.ip[x] # NoIP /\ call[x].stage \in {"creds", "done"}
             /\ call[y].stage \in {"creds", "done"} /\ x \notin revived /\ y \notin revived
             => members.ip[x] # members.ip[y]
      BY DEF JoinInv, OwnersDistinct, Own
    <2> QED
      BY <1>0, <1>e, <2>1 DEF OthersStay
  <1>6. Spent'
    <2> SUFFICES ASSUME NEW x \in Call, call'[x].stage \in Past PROVE call'[x].token \in members'.used
      BY DEF Spent
    <2>1. CASE x = c
      BY <1>0, <2>1 DEF Past
    <2>2. CASE x # c
      <3>1. call'[x] = call[x]
        BY <1>0, <2>2 DEF OthersStay
      <3> QED BY <1>0, <3>1 DEF JoinInv, Spent
    <2> QED BY <2>1, <2>2
  <1>7. TokenUsedOnce'
    <2> SUFFICES ASSUME NEW x \in Call, NEW y \in Call, x # y, call'[x].token = call'[y].token,
                        call'[x].token \in SingleUse, call'[x].stage \notin {"idle", "consume", "denied"}
                 PROVE  call'[y].stage \in {"idle", "consume", "denied"}
      BY DEF TokenUsedOnce
    <2>1. /\ call[x].token = call[y].token /\ call[x].token \in SingleUse
             /\ call[x].stage \notin {"idle", "consume", "denied"} => call[y].stage \in {"idle", "consume", "denied"}
      BY DEF JoinInv, TokenUsedOnce
    <2>2. /\ call[x].stage \notin {"idle", "consume", "denied"} => call[x].token \in members.used
          /\ call[y].stage \notin {"idle", "consume", "denied"} => call[y].token \in members.used
      BY DEF JoinInv, Spent, Past, JoinTypeOK, Handler
    <2> QED
      BY <1>0, <2>1, <2>2 DEF OthersStay
  <1>8. Returning'
    <2>1. ASSUME call'[c].stage = "resume" PROVE call'[c].ip = call[call[c].id].ip /\ call[c].id # c
      BY <1>0, <2>1 DEF JoinInv, Identities, Recorded, OnRecord, Own, JoinTypeOK, Handler
    <2>2. ASSUME NEW x \in Call, call'[x].id # x, call'[x].stage \in {"resume", "creds", "done"}
          PROVE  call'[x].ip = call'[call'[x].id].ip
      <3>1. CASE x = c
        BY <1>0, <2>1, <2>2, <3>1 DEF JoinInv, Identities, Own, OthersStay, JoinTypeOK, Handler
      <3>2. CASE x # c
        BY <1>0, <2>2, <3>2 DEF JoinInv, Identities, Returning, Own, OthersStay, JoinTypeOK, Handler
      <3> QED BY <3>1, <3>2
    <2> QED BY <2>2 DEF Returning, Own
  <1> QED
    BY <1>1, <1>2, <1>3, <1>4, <1>5, <1>6, <1>7, <1>8 DEF JoinInv

LEMMA PutNodeInv ==
    ASSUME JoinInv, NEW c \in Call, PutNode(c)
    PROVE  JoinInv'
  <1> DEFINE written == [members EXCEPT !.ip = [members.ip EXCEPT ![call[c].id] = call[c].ip]]
             ahead == IF call[c].stage = "put" THEN "check" ELSE "creds"
  <1>a. call[c] \in Handler /\ members \in Members /\ ahead \in Stage
    BY DEF JoinInv, JoinTypeOK, Stage
  <1>b. /\ written \in Members /\ written.used = members.used
        /\ written.ip[call[c].id] = call[c].ip
        /\ \A j \in Call \ {call[c].id} : written.ip[j] = members.ip[j]
    BY <1>a DEF Members, Handler
  <1>c. /\ Leads
        /\ \/ /\ members' = written /\ replica' = [replica EXCEPT ![call[c].at] = written]
              /\ Moves(c, [call[c] EXCEPT !.stage = ahead])
           \/ /\ members' = written \/ UNCHANGED members
              /\ UNCHANGED replica
              /\ Moves(c, [call[c] EXCEPT !.stage = "failed"])
    BY Outcomes DEF PutNode, JoinInv
  <1>0. /\ call[c].stage \in {"put", "resume"} /\ Leads /\ OthersStay(c)
        /\ members' \in Members /\ members'.used = members.used
        /\ \A j \in Call \ {call[c].id} : members'.ip[j] = members.ip[j]
        /\ call'[c].id = call[c].id /\ call'[c].ip = call[c].ip
        /\ call'[c].at = call[c].at /\ call'[c].token = call[c].token
        /\ members'.ip[call[c].id] \in {members.ip[call[c].id], call[c].ip}
        /\ \/ /\ members'.ip[call[c].id] = call[c].ip
              /\ replica' = [replica EXCEPT ![call[c].at] = members']
              /\ call'[c].stage = ahead
           \/ UNCHANGED replica /\ call'[c].stage = "failed"
    BY <1>a, <1>b, <1>c, StageFields DEF PutNode, Stage, JoinInv
  <1> HIDE DEF written
  \* A call that resumes changes no record but one it revives.
  <1>e. /\ revived \subseteq revived' /\ revived' \subseteq Call
        /\ call[c].stage = "resume" => \A j \in Call \ revived' : members'.ip[j] = members.ip[j]
    BY <1>0 DEF PutNode, JoinInv, JoinTypeOK, Handler
  <1>1. JoinTypeOK'
    <2>1. replica' \in [Replica -> Members] /\ members' \in Members
      BY <1>0 DEF JoinInv, JoinTypeOK
    <2>2. call'[c].stage \in {"put", "resume", "check", "creds"} => call'[c].ip \in MeshIP
      BY <1>0 DEF JoinInv, JoinTypeOK
    <2> QED
      BY <1>0, <1>e, <2>1, <2>2 DEF JoinInv, JoinTypeOK, OthersStay, Leads
  <1>2. Identities'
    BY <1>0, JoinAssumption DEF JoinInv, Identities, Own, JoinTypeOK, Handler, OthersStay
  <1>3. Recorded'
    <2> SUFFICES ASSUME NEW x \in Call
                 PROVE  /\ call'[x].stage \in {"idle", "consume"} => members'.ip[x] = NoIP
                        /\ call'[x].stage \in OnRecord => members'.ip[call'[x].id] \in {NoIP, call'[x].ip}
      BY DEF Recorded
    <2>0. call'[x].stage \in {"idle", "consume"} => members'.ip[x] = NoIP
      BY <1>0 DEF JoinInv, Recorded, Identities, Own, OthersStay
    <2>1. CASE x = c
      BY <1>0, <2>0, <2>1 DEF OnRecord
    <2>2. CASE x # c /\ call[x].id # call[c].id
      BY <1>0, <2>0, <2>2 DEF OthersStay, JoinInv, Recorded, JoinTypeOK, Handler
    <2>3. CASE x # c /\ call[x].id = call[c].id
      <3>1. call[c].stage = "resume" /\ call[c].ip = call[call[c].id].ip
        BY <1>0, <2>3 DEF JoinInv, Identities, Returning, Own
      <3>2. call[x].stage \in OnRecord => call[x].ip = call[c].ip
        BY <2>3, <3>1 DEF JoinInv, Identities, Returning, OnRecord, Own
      <3> QED
        BY <1>0, <2>0, <2>3, <3>2 DEF OthersStay, JoinInv, Recorded
    <2> QED
      BY <2>1, <2>2, <2>3
  <1>4. OneSeesOther'
    <2> SUFFICES ASSUME NEW x \in Call, NEW y \in Call, x # y, call'[x].stage = "check",
                        call'[y].id = y, call'[y].stage \in Written,
                        members'.ip[x] = call'[x].ip, members'.ip[y] = call'[x].ip, y \notin revived'
                 PROVE  \/ replica'[call'[x].at].ip[y] = call'[x].ip
                        \/ call'[y].stage = "check" /\ replica'[call'[y].at].ip[x] = call'[y].ip
      BY DEF OneSeesOther, Own, Sees
    <2>1. PairFacts(x, y)
      BY Pairs
    <2>4. call'[x].at = call[x].at /\ call'[y].at = call[y].at /\ call'[x].ip = call[x].ip
      BY <1>0 DEF OthersStay
    <2>5. \A r \in Replica : replica'[r] = replica[r] \/ replica'[r] = members'
      BY <1>0, <2>1 DEF PairFacts
    <2>6. CASE x = c
      <3>1. call[c].stage = "put" /\ replica'[call[c].at] = members'
        BY <1>0, <2>1, <2>6 DEF PairFacts
      <3> QED
        BY <2>4, <2>6, <3>1
    <2>7. CASE y = c /\ call'[c].stage = "check"
      <3>1. replica'[call[c].at] = members' /\ members'.ip[y] = call[c].ip
        BY <1>0, <2>1, <2>7 DEF PairFacts
      <3>2. call'[x] = call[x] /\ members'.ip[x] = members.ip[x]
        BY <1>0, <2>7 DEF OthersStay
      <3> QED
        BY <1>0, <2>1, <2>4, <2>7, <3>1, <3>2 DEF PairFacts
    <2>8. CASE x # c /\ (y # c \/ call'[c].stage # "check")
      <3>1. call'[x] = call[x] /\ call[x].id = x
        BY <1>0, <2>1, <2>8 DEF OthersStay, PairFacts
      <3>2. x # call[c].id
        BY <1>0, <2>8, <3>1 DEF JoinInv, Identities, Own
      <3>3. /\ members'.ip[x] = members.ip[x] /\ members'.ip[y] = members.ip[y]
            /\ call[y].id = y /\ call[y].stage \in Written /\ call'[y] = call[y]
        <4>1. CASE y = c
          BY <1>0, <2>8, <4>1 DEF Written, JoinInv, Identities, Own
        <4>2. CASE y # c
          <5>1. call'[y] = call[y]
            BY <1>0, <4>2 DEF OthersStay
          <5>2. y = call[c].id => members'.ip[y] = members.ip[y]
            BY <1>0, <1>e, <4>2, <5>1 DEF JoinInv, Identities, Own
          <5> QED
            BY <1>0, <3>2, <5>1, <5>2
        <4> QED BY <4>1, <4>2
      <3>4. y \notin revived
        BY <1>e
      <3> QED
        BY <2>1, <2>5, <3>1, <3>2, <3>3, <3>4 DEF PairFacts
    <2> QED
      BY <2>6, <2>7, <2>8
  <1>5. OwnersDistinct'
    <2> SUFFICES ASSUME NEW x \in Call, NEW y \in Call, x # y, call'[x].id = x, call'[y].id = y,
                        members'.ip[x] # NoIP, call'[x].stage \in {"creds", "done"},
                        call'[y].stage \in {"creds", "done"}, x \notin revived', y \notin revived'
                 PROVE  members'.ip[x] # members'.ip[y]
      BY DEF OwnersDistinct, Own
    <2>1. call[x].id = x /\ call[y].id = y /\ members.ip[x] # NoIP /\ call[x].stage \in {"creds", "done"}
             /\ call[y].stage \in {"creds", "done"} /\ x \notin revived /\ y \notin revived
             => members.ip[x] # members.ip[y]
      BY DEF JoinInv, OwnersDistinct, Own
    <2>2. x # c /\ y # c
      BY <1>0 DEF JoinInv, Identities, Own
    <2>3. call'[x] = call[x] /\ call'[y] = call[y]
      BY <1>0, <2>2 DEF OthersStay
    <2>4. \A z \in {x, y} : members'.ip[z] = members.ip[z]
      BY <1>0, <1>e, <2>2, <2>3 DEF JoinInv, Identities, Own
    <2>5. x \notin revived /\ y \notin revived
      BY <1>e
    <2> QED
      BY <2>1, <2>3, <2>4, <2>5
  <1>6. Spent'
    BY <1>0, JoinAssumption DEF JoinInv, Spent, Past, Stage, JoinTypeOK, Handler, Members, OthersStay
  <1>7. TokenUsedOnce'
    <2> SUFFICES ASSUME NEW x \in Call, NEW y \in Call, x # y, call'[x].token = call'[y].token,
                        call'[x].token \in SingleUse, call'[x].stage \notin {"idle", "consume", "denied"}
                 PROVE  call'[y].stage \in {"idle", "consume", "denied"}
      BY DEF TokenUsedOnce
    <2>1. /\ call[x].token = call[y].token /\ call[x].token \in SingleUse
             /\ call[x].stage \notin {"idle", "consume", "denied"} => call[y].stage \in {"idle", "consume", "denied"}
      BY DEF JoinInv, TokenUsedOnce
    <2>2. /\ call[x].stage \notin {"idle", "consume", "denied"} => call[x].token \in members.used
          /\ call[y].stage \notin {"idle", "consume", "denied"} => call[y].token \in members.used
      BY DEF JoinInv, Spent, Past, JoinTypeOK, Handler
    <2> QED
      BY <1>0, <2>1, <2>2 DEF OthersStay
  <1>8. Returning'
    BY <1>0 DEF JoinInv, Identities, Returning, Own, JoinTypeOK, Handler, OthersStay
  <1> QED
    BY <1>1, <1>2, <1>3, <1>4, <1>5, <1>6, <1>7, <1>8 DEF JoinInv

(***************************************************************************)
(* The theorems.                                                           *)
(***************************************************************************)
LEMMA JoinInvHolds == JoinSpec => []JoinInv
  <1>1. JoinInit => JoinInv
    BY JoinAssumption DEF JoinInit, JoinInv, JoinTypeOK, Members, Handler, Stage, MeshIP, NoIP, AnyToken,
       Identities, Own, Recorded, OnRecord, Returning, OneSeesOther, OwnersDistinct, Spent, Past, TokenUsedOnce
  <1>2. JoinInv /\ [JoinNext]_joinVars => JoinInv'
    <2> SUFFICES ASSUME JoinInv, [JoinNext]_joinVars PROVE JoinInv'
      OBVIOUS
    <2>1. CASE UNCHANGED joinVars
      BY <2>1 DEF joinVars, JoinInv, JoinTypeOK, Identities, Own, Recorded, Returning, OneSeesOther, Sees,
         OwnersDistinct, Spent, TokenUsedOnce
    <2>2. CASE JoinNext
      BY <2>2, BeginJoinInv, ConsumeInv, allocateInv, PutNodeInv, CheckInv, CredentialInv,
         RemoveInv, ElectInv, CatchUpInv DEF JoinNext
    <2> QED BY <2>1, <2>2
  <1> QED BY <1>1, <1>2, PTL DEF JoinSpec

\* Values stay in range whatever overlaps: no handler writes a record without an
\* address, and no address outside the mesh's range is handed out.
THEOREM JoinTypes == JoinSpec => []JoinTypeOK
  BY JoinInvHolds, PTL DEF JoinInv

\* A single-use token lets one call past applyConsumeJoinToken.
THEOREM TokenOnce == JoinSpec => []TokenUsedOnce
  BY JoinInvHolds, PTL DEF JoinInv

\* Two nodes that were let in never hold the same mesh address, however their joins,
\* restarts and removals overlap, unless one of them was removed between the read and
\* the command of a call that resumes it.
THEOREM Distinct == JoinSpec => []AddressesDistinct
  <1>1. JoinInv => AddressesDistinct
    BY DEF JoinInv, AddressesDistinct, accepted, OwnersDistinct, Identities, Own, JoinTypeOK, Handler
  <1> QED BY <1>1, JoinInvHolds, PTL

\* The address on record for a node is the one it was told, or there is none: also
\* for a node that a restart under way stored again after its removal.
THEOREM Kept == JoinSpec => []AddressKept
  <1>1. JoinInv => AddressKept
    BY DEF JoinInv, AddressKept, Recorded, OnRecord
  <1> QED BY <1>1, JoinInvHolds, PTL
=============================================================================
