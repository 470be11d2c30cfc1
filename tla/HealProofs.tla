------------------------------ MODULE HealProofs ------------------------------
(***************************************************************************)
(* Proofs about the parts that repair what the outside breaks: the         *)
(* scheduler next to rollouts and drains (Cluster) and the path to a peer  *)
(* (MeshPath), for every number of nodes, replicas and addresses.          *)
(***************************************************************************)
EXTENDS MCHeal, RolloutProofs

(***************************************************************************)
(* What is left of an evaluation.                                          *)
(***************************************************************************)
\* All of it, and all but the step at its head.
Steps(w) == {w[i] : i \in 1..Len(w)}
Rest(w) == {w[i] : i \in 2..Len(w)}

LEMMA HeadAndRest ==
    ASSUME NEW S, NEW w \in Seq(S), w # <<>>
    PROVE  Steps(w) = {Head(w)} \cup Rest(w) /\ Head(w) \in S /\ Rest(w) \subseteq S
  <1>1. Len(w) \in Nat \ {0} /\ Head(w) = w[1]
    OBVIOUS
  <1>2. \A i \in 1..Len(w) : w[i] \in S /\ (i = 1 \/ i \in 2..Len(w))
    BY <1>1
  <1>3. 1 \in 1..Len(w) /\ 2..Len(w) \subseteq 1..Len(w)
    BY <1>1
  <1> QED
    BY <1>1, <1>2, <1>3 DEF Steps, Rest

LEMMA NothingLeft == Steps(<<>>) = {} /\ Rest(<<>>) = {}
  BY DEF Steps, Rest

\* The step at the head is replaced by none or more.
LEMMA Expanded ==
    ASSUME NEW S, NEW w \in Seq(S), w # <<>>, NEW s \in Seq(S)
    PROVE  LET v == s \o Tail(w)
           IN  /\ v \in Seq(S)
               /\ s = <<>> => Rest(v) \subseteq Rest(w) /\ (v # <<>> => Head(v) \in Rest(w))
               /\ s # <<>> => v # <<>> /\ Head(v) = s[1] /\ Rest(v) \subseteq Rest(s) \cup Rest(w)
               /\ Steps(v) \subseteq Steps(s) \cup Rest(w)
  <1>0. PICK v : v = s \o Tail(w)
    OBVIOUS
  <1>1. /\ Len(w) \in Nat \ {0} /\ Len(s) \in Nat /\ Tail(w) \in Seq(S)
        /\ Len(Tail(w)) = Len(w) - 1 /\ \A i \in 1..(Len(w) - 1) : Tail(w)[i] = w[i + 1]
    OBVIOUS
  <1>2. /\ v \in Seq(S) /\ Len(v) = Len(s) + (Len(w) - 1)
        /\ \A i \in 1..Len(v) : v[i] = IF i <= Len(s) THEN s[i] ELSE Tail(w)[i - Len(s)]
    BY <1>0, <1>1
  <1>3. ASSUME NEW i \in 1..Len(v), i > Len(s)
        PROVE  v[i] \in Rest(w)
    <2>1. i - Len(s) \in 1..(Len(w) - 1) /\ i - Len(s) + 1 \in 2..Len(w)
      BY <1>1, <1>2, <1>3
    <2>2. v[i] = w[i - Len(s) + 1]
      BY <1>1, <1>2, <1>3, <2>1
    <2> QED
      BY <2>1, <2>2 DEF Rest
  <1>4. ASSUME NEW i \in 1..Len(v), i <= Len(s)
        PROVE  v[i] = s[i] /\ v[i] \in Steps(s) /\ (i # 1 => v[i] \in Rest(s))
    <2>1. v[i] = s[i] /\ i \in 1..Len(s) /\ (i # 1 => i \in 2..Len(s))
      BY <1>1, <1>2, <1>4
    <2> QED
      BY <2>1 DEF Steps, Rest
  <1>5. Steps(v) \subseteq Steps(s) \cup Rest(w)
    BY <1>1, <1>2, <1>3, <1>4 DEF Steps
  <1>6. CASE s = <<>>
    <2>1. Len(s) = 0
      BY <1>6
    <2>2. \A i \in 1..Len(v) : v[i] \in Rest(w)
      <3>1. \A i \in 1..Len(v) : i > Len(s)
        BY <1>1, <1>2, <2>1
      <3> QED
        BY <1>3, <3>1
    <2>3. v # <<>> => Head(v) = v[1] /\ 1 \in 1..Len(v)
      BY <1>2
    <2>4. 2..Len(v) \subseteq 1..Len(v)
      BY <1>2
    <2> QED
      BY <1>0, <1>2, <1>5, <1>6, <2>2, <2>3, <2>4 DEF Rest
  <1>7. CASE s # <<>>
    <2>1. Len(s) > 0 /\ Len(v) > 0
      BY <1>1, <1>2, <1>7
    <2>2. v # <<>> /\ Head(v) = v[1] /\ 1 \in 1..Len(v)
      BY <1>1, <1>2, <2>1
    <2>3. v[1] = s[1]
      BY <1>1, <1>4, <2>1, <2>2
    <2>4. \A i \in 2..Len(v) : v[i] \in Rest(s) \cup Rest(w)
      BY <1>1, <1>2, <1>3, <1>4
    <2> QED
      BY <1>0, <1>2, <1>5, <1>7, <2>2, <2>3, <2>4 DEF Rest
  <1> QED
    BY <1>6, <1>7

LEMMA Shortened ==
    ASSUME NEW S, NEW w \in Seq(S), w # <<>>, NEW v, v = Tail(w)
    PROVE  /\ v \in Seq(S)
           /\ Rest(v) \subseteq Rest(w) /\ (v # <<>> => Head(v) \in Rest(w))
           /\ Steps(v) \subseteq Rest(w)
  <1>0. <<>> \in Seq(S)
    OBVIOUS
  <1>1. PICK s \in Seq(S) : s = <<>>
    BY <1>0
  <1>2. s \o Tail(w) = v
    BY <1>1
  <1>3. /\ v \in Seq(S) /\ Steps(v) \subseteq Steps(s) \cup Rest(w)
        /\ s = <<>> => Rest(v) \subseteq Rest(w) /\ (v # <<>> => Head(v) \in Rest(w))
    BY <1>2, Expanded
  <1> QED
    BY <1>1, <1>3, NothingLeft

(***************************************************************************)
(* Types.  The scheduler stores new replicas that belong to no deployment, *)
(* and otherwise only ever stops one.                                      *)
(***************************************************************************)
NewReplica ==
    {p \in Assignment : \/ p = NoAssignment
                        \/ /\ p.desired = "RUN" /\ p.node \in Node
                           /\ p.dep = NoId /\ p.obs = "UNSPECIFIED"}
SchedPut == NewReplica \cup {p \in Assignment : p.desired = "STOP"}

WorkStep ==
    [op : {"CheckOwner", "Converge", "ReapOrphans", "ListDraining"}]
      \cup [op : {"Drain", "SetDrained"}, node : Node]
      \cup [op : {"Batch"}, puts : [AssignmentId -> NewReplica], stop : SUBSET AssignmentId]
      \cup [op : {"PutAssignments"}, puts : [AssignmentId -> SchedPut]]
      \cup [op : {"DeleteAssignments"}, ids : SUBSET AssignmentId]

SchedTypes == view \in Environment /\ work \in Seq(WorkStep)
ClusterTypes == TypeInv /\ SchedTypes

LEMMA WorkStepTypes ==
    /\ {CheckOwner, Converge, ReapOrphans, ListDraining} \subseteq WorkStep
    /\ \A n \in Node : DrainStep(n) \in WorkStep /\ SetDrained(n) \in WorkStep
    /\ \A puts \in [AssignmentId -> NewReplica], stop \in SUBSET AssignmentId :
          Batch(puts, stop) \in WorkStep
    /\ \A puts \in [AssignmentId -> SchedPut] : PutAssignments(puts) \in WorkStep
    /\ \A ids \in SUBSET AssignmentId : DeleteAssignments(ids) \in WorkStep
  BY DEF WorkStep, CheckOwner, Converge, ReapOrphans, ListDraining, DrainStep, SetDrained, Batch,
         PutAssignments, DeleteAssignments

\* What the kinds of step carry.
LEMMA WorkStepFields ==
    ASSUME NEW s \in WorkStep
    PROVE  /\ s.op \in {"Drain", "SetDrained"} => s.node \in Node
           /\ s.op = "Batch" => s.puts \in [AssignmentId -> NewReplica] /\ s.stop \subseteq AssignmentId
           /\ s.op = "PutAssignments" => s.puts \in [AssignmentId -> SchedPut]
           /\ s.op = "DeleteAssignments" => s.ids \subseteq AssignmentId
  BY DEF WorkStep

LEMMA PutTypes ==
    /\ NoAssignment \in NewReplica /\ NoPuts \in [AssignmentId -> NewReplica]
    /\ NewReplica \subseteq SchedPut /\ SchedPut \subseteq Assignment
  BY DEF NewReplica, SchedPut, NoPuts, NoAssignment, Assignment, InstanceState, NoId

LEMMA FewAssignments ==
    ASSUME NEW S \in SUBSET AssignmentId
    PROVE  IsFiniteSet(S) /\ Cardinality(S) \in Nat
  <1>1. IsFiniteSet(AssignmentId)
    BY StoreAssumption, FS_Interval DEF AssignmentId
  <1> QED
    BY <1>1, FS_Subset, FS_CardinalityType

LEMMA DesiredTypes ==
    ASSUME NEW e \in Environment PROVE desiredReplicas(e) \in Nat
  BY StoreAssumption DEF desiredReplicas, Environment

\* What Converge decides: new replicas for the places that are missing, on nodes
\* that are alive, under ids that have not been handed out.
LEMMA ConvergePlaces ==
    ASSUME ClusterTypes, ConvergeEnv
    PROVE  /\ work # <<>> /\ Head(work).op = "Converge" /\ UNCHANGED <<store, view>>
           /\ \E k \in Nat, puts \in [AssignmentId -> NewReplica] :
                /\ k # 0 => k <= desiredReplicas(view) - Cardinality(Good)
                /\ minted' = minted + k /\ minted + k <= MaxAssignment
                /\ \A a \in AssignmentId :
                      IF a \in (minted + 1)..(minted + k)
                      THEN /\ puts[a].desired = "RUN" /\ puts[a].rel = view.active
                           /\ puts[a].node \in Node /\ node[puts[a].node].status = "ALIVE"
                      ELSE puts[a] = NoAssignment
                /\ work' = BatchSteps(puts,
                             StaleRelease \cup
                               (IF Cardinality(Good) > desiredReplicas(view)
                                THEN NewestOf(Good, Cardinality(Good) - desiredReplicas(view))
                                ELSE {}),
                             Reapable(AssignmentId) \cup Lost) \o Tail(work)
  <1> DEFINE desired == desiredReplicas(view)
             have == Cardinality(Good)
             want == IF desired > have THEN desired - have ELSE 0
             stop == StaleRelease \cup (IF have > desired THEN NewestOf(Good, have - desired) ELSE {})
             reap == Reapable(AssignmentId) \cup Lost
  <1>1. minted \in Nat /\ MaxAssignment \in Nat /\ view \in Environment /\ node \in [Node -> NodeRecord]
    BY StoreAssumption DEF ClusterTypes, SchedTypes, TypeInv, TypeOK, StoreTypeOK
  <1>2. desired \in Nat /\ have \in Nat /\ want \in Nat
    <2>1. Good \in SUBSET AssignmentId
      BY DEF Good, CurrentReplicas, Running
    <2> QED
      BY <1>1, <2>1, FewAssignments, DesiredTypes
  <1>3. PICK picks \in Place(want, {}) :
          /\ minted + Len(picks) <= MaxAssignment /\ minted' = minted + Len(picks)
          /\ Expand(BatchSteps(IF picks = <<>> THEN NoPuts ELSE NewAssignments(picks, view.active, NoId),
                               stop, reap))
    BY DEF ConvergeEnv
  <1> HIDE DEF want
  <1>4. PICK k \in 0..want : picks \in [1..k -> Eligible({})]
    BY <1>3 DEF Place
  <1>5. k \in Nat /\ Len(picks) = k /\ (k = 0 => picks = <<>>) /\ k <= want
    <2>1. k \in Nat /\ k <= want
      BY <1>2, <1>4
    <2>2. Len(picks) = k
      BY <1>4, <2>1
    <2>3. k = 0 => picks = <<>>
      BY <1>4, <2>1
    <2> QED
      BY <2>1, <2>2, <2>3
  <1> DEFINE puts == IF picks = <<>> THEN NoPuts ELSE NewAssignments(picks, view.active, NoId)
  <1>6. ASSUME NEW a \in AssignmentId
        PROVE  IF a \in (minted + 1)..(minted + k)
               THEN \E n \in Node : node[n].status = "ALIVE" /\ puts[a] = newAssignment(n, view.active, NoId)
               ELSE puts[a] = NoAssignment
    <2>1. CASE a \in (minted + 1)..(minted + k)
      <3>1. a - minted \in 1..k /\ k # 0
        BY <1>1, <1>5, <2>1
      <3>2. picks[a - minted] \in Node /\ node[picks[a - minted]].status = "ALIVE"
        BY <1>4, <3>1 DEF Eligible
      <3>3. picks # <<>>
        BY <1>5, <3>1
      <3>4. puts[a] = newAssignment(picks[a - minted], view.active, NoId)
        BY <1>5, <2>1, <3>3 DEF NewAssignments, FreshIds
      <3> QED
        BY <2>1, <3>2, <3>4
    <2>2. CASE a \notin (minted + 1)..(minted + k)
      BY <1>5, <2>2 DEF NewAssignments, FreshIds, NoPuts
    <2> QED
      BY <2>1, <2>2
  <1>7. ASSUME NEW n \in Node
        PROVE  /\ newAssignment(n, view.active, NoId) \in NewReplica
               /\ newAssignment(n, view.active, NoId).desired = "RUN"
               /\ newAssignment(n, view.active, NoId).rel = view.active
               /\ newAssignment(n, view.active, NoId).node = n
    BY <1>1 DEF newAssignment, NewReplica, Assignment, InstanceState, Environment
  <1>8. puts \in [AssignmentId -> NewReplica]
    <2>1. \A a \in AssignmentId : puts[a] \in NewReplica
      BY <1>6, <1>7, PutTypes
    <2>2. puts = [a \in AssignmentId |-> puts[a]]
      BY DEF NewAssignments, NoPuts
    <2> HIDE DEF puts
    <2> QED
      BY <2>1, <2>2
  <1>9. \A a \in AssignmentId :
            IF a \in (minted + 1)..(minted + k)
            THEN /\ puts[a].desired = "RUN" /\ puts[a].rel = view.active
                 /\ puts[a].node \in Node /\ node[puts[a].node].status = "ALIVE"
            ELSE puts[a] = NoAssignment
    <2> HIDE DEF puts
    <2> QED
      BY <1>6, <1>7
  <1>10. work' = BatchSteps(puts, stop, reap) \o Tail(work) /\ UNCHANGED <<store, view>>
    BY <1>3 DEF Expand
  <1>11. k # 0 => k <= desired - have
    BY <1>2, <1>5 DEF want
  <1>12. work # <<>> /\ Head(work).op = "Converge"
    BY DEF ConvergeEnv, AtStep
  <1> HIDE DEF puts
  <1> QED
    BY <1>3, <1>5, <1>8, <1>9, <1>10, <1>11, <1>12

LEMMA ListedOne ==
    ASSUME NEW s PROVE Steps(<<s>>) = {s} /\ Rest(<<s>>) = {} /\ <<s>>[1] = s
  <1>1. 1..1 = {1} /\ 2..1 = {} /\ Len(<<s>>) = 1 /\ <<s>>[1] = s
    OBVIOUS
  <1>2. Steps(<<s>>) = {<<s>>[1]} /\ Rest(<<s>>) = {}
    BY <1>1 DEF Steps, Rest
  <1> QED
    BY <1>1, <1>2

LEMMA ListedTwo ==
    ASSUME NEW s, NEW t
    PROVE  Steps(<<s, t>>) = {s, t} /\ Rest(<<s, t>>) = {t} /\ <<s, t>>[1] = s
  <1>1. 1..2 = {1, 2} /\ 2..2 = {2} /\ Len(<<s, t>>) = 2 /\ <<s, t>>[1] = s /\ <<s, t>>[2] = t
    OBVIOUS
  <1>2. Steps(<<s, t>>) = {<<s, t>>[1], <<s, t>>[2]} /\ Rest(<<s, t>>) = {<<s, t>>[2]}
    BY <1>1 DEF Steps, Rest
  <1> QED
    BY <1>1, <1>2

LEMMA Joined ==
    ASSUME NEW S, NEW s \in Seq(S), NEW t \in Seq(S)
    PROVE  /\ s \o t \in Seq(S) /\ Steps(s \o t) \subseteq Steps(s) \cup Steps(t)
           /\ s = <<>> => s \o t = t
           /\ s # <<>> => /\ s \o t # <<>> /\ (s \o t)[1] = s[1]
                          /\ Rest(s \o t) \subseteq Rest(s) \cup Steps(t)
  <1>0. PICK v : v = s \o t
    OBVIOUS
  <1>1. /\ Len(s) \in Nat /\ Len(t) \in Nat /\ v \in Seq(S) /\ Len(v) = Len(s) + Len(t)
        /\ \A i \in 1..Len(v) : v[i] = IF i <= Len(s) THEN s[i] ELSE t[i - Len(s)]
    BY <1>0
  <1>2. ASSUME NEW i \in 1..Len(v), i > Len(s)
        PROVE  v[i] \in Steps(t)
    <2>1. i - Len(s) \in 1..Len(t) /\ v[i] = t[i - Len(s)]
      BY <1>1, <1>2
    <2> QED
      BY <2>1 DEF Steps
  <1>3. ASSUME NEW i \in 1..Len(v), i <= Len(s)
        PROVE  v[i] = s[i] /\ v[i] \in Steps(s) /\ (i # 1 => v[i] \in Rest(s))
    <2>1. v[i] = s[i] /\ i \in 1..Len(s) /\ (i # 1 => i \in 2..Len(s))
      BY <1>1, <1>3
    <2> QED
      BY <2>1 DEF Steps, Rest
  <1>4. Steps(v) \subseteq Steps(s) \cup Steps(t)
    <2>1. \A i \in 1..Len(v) : v[i] \in Steps(s) \cup Steps(t)
      BY <1>1, <1>2, <1>3
    <2>2. Steps(v) = {v[i] : i \in 1..Len(v)}
      BY DEF Steps
    <2> QED
      BY <2>1, <2>2
  <1>5. s = <<>> => v = t
    BY <1>0
  <1>6. CASE s # <<>>
    <2>1. Len(s) > 0 /\ Len(v) > 0 /\ 1 \in 1..Len(v)
      BY <1>1, <1>6
    <2>2. v # <<>> /\ v[1] = s[1]
      BY <1>1, <1>3, <2>1
    <2>3. \A i \in 2..Len(v) : v[i] \in Rest(s) \cup Steps(t)
      BY <1>1, <1>2, <1>3
    <2>4. Rest(v) \subseteq Rest(s) \cup Steps(t)
      BY <2>3 DEF Rest
    <2> QED
      BY <1>0, <1>1, <1>4, <2>2, <2>4, <1>6
  <1> QED
    BY <1>0, <1>1, <1>4, <1>5, <1>6

\* A batch, then the deletions; each only if there is something to do.
LEMMA BatchShape ==
    ASSUME NEW puts \in [AssignmentId -> NewReplica], NEW stop \in SUBSET AssignmentId,
           NEW delete \in SUBSET AssignmentId, NEW b, b = BatchSteps(puts, stop, delete)
    PROVE  /\ b \in Seq(WorkStep)
           /\ Rest(b) \subseteq {DeleteAssignments(delete)}
           /\ b # <<>> => \/ b[1] = Batch(puts, stop)
                          \/ b[1] = DeleteAssignments(delete) /\ puts = NoPuts /\ stop = {}
           /\ \A s \in Steps(b) : \/ s = Batch(puts, stop) /\ (puts # NoPuts \/ stop # {})
                                  \/ s = DeleteAssignments(delete)
  <1> DEFINE B == Batch(puts, stop)
             D == DeleteAssignments(delete)
             first == IF puts = NoPuts /\ stop = {} THEN <<>> ELSE <<B>>
             last == IF delete = {} THEN <<>> ELSE <<D>>
  <1>1. B \in WorkStep /\ D \in WorkStep
    BY WorkStepTypes
  <1>2. b = first \o last
    BY DEF BatchSteps
  <1> HIDE DEF B, D
  <1>3. first \in Seq(WorkStep) /\ last \in Seq(WorkStep)
    BY <1>1
  <1>4. /\ Rest(first) = {} /\ (first = <<>> <=> puts = NoPuts /\ stop = {})
        /\ \A s \in Steps(first) : s = B /\ (puts # NoPuts \/ stop # {})
        /\ first # <<>> => first[1] = B
    <2>1. CASE puts = NoPuts /\ stop = {}
      BY <2>1, NothingLeft
    <2>2. CASE puts # NoPuts \/ stop # {}
      <3>1. first = <<B>>
        BY <2>2
      <3> HIDE DEF first
      <3> QED
        BY <2>2, <3>1, ListedOne
    <2> QED
      BY <2>1, <2>2
  <1>5. Rest(last) = {} /\ Steps(last) \subseteq {D} /\ (last # <<>> => last[1] = D)
    BY NothingLeft, ListedOne
  <1> HIDE DEF first, last
  <1>6. /\ b \in Seq(WorkStep) /\ Steps(b) \subseteq Steps(first) \cup Steps(last)
        /\ first = <<>> => b = last
        /\ first # <<>> => /\ b # <<>> /\ b[1] = first[1]
                           /\ Rest(b) \subseteq Rest(first) \cup Steps(last)
    BY <1>2, <1>3, Joined
  <1>7. Rest(b) \subseteq {D} /\ (b # <<>> => b[1] = B \/ (b[1] = D /\ puts = NoPuts /\ stop = {}))
    BY <1>4, <1>5, <1>6
  <1>8. \A s \in Steps(b) : (s = B /\ (puts # NoPuts \/ stop # {})) \/ s = D
    BY <1>4, <1>5, <1>6
  <1> QED
    BY <1>6, <1>7, <1>8 DEF B, D

\* What is read of a draining node, and the steps decided on.
Hosted(n) == {a \in AssignmentId : Stored(a) /\ assignment[a].node = n}
Replaced(n) ==
    {a \in Running(Hosted(n)) : (Stateful /\ release[assignment[a].rel] # "ABSENT")
                                  \/ replacementReady(a)}

LEMMA DrainDecides ==
    ASSUME ClusterTypes, reconcileDrain
    PROVE  /\ work # <<>> /\ Head(work).op = "Drain" /\ Head(work).node \in Node
           /\ UNCHANGED <<store, minted, view>>
           /\ LET n == Head(work).node
                  B == Batch(NoPuts, Replaced(n))
                  D == DeleteAssignments(Reapable(Hosted(n)))
              IN  \E s \in Seq(WorkStep) :
                     /\ work' = s \o Tail(work)
                     /\ Rest(s) \subseteq {D, SetDrained(n)}
                     /\ s # <<>> => s[1] \in {B, D, SetDrained(n)}
                     /\ \A x \in Steps(s) : \/ x = B /\ Replaced(n) # {}
                                            \/ x = D
                                            \/ x = SetDrained(n) /\ Hosted(n) = Reapable(Hosted(n))
  <1> DEFINE n == Head(work).node
             B == Batch(NoPuts, Replaced(n))
             D == DeleteAssignments(Reapable(Hosted(n)))
             b == BatchSteps(NoPuts, Replaced(n), Reapable(Hosted(n)))
             e == IF Hosted(n) = Reapable(Hosted(n)) THEN <<SetDrained(n)>> ELSE <<>>
  <1>1. /\ work # <<>> /\ Head(work).op = "Drain" /\ UNCHANGED <<store, minted, view>>
        /\ work' = (b \o e) \o Tail(work)
    BY DEF reconcileDrain, AtStep, Expand, Hosted, Replaced
  <1>2. work \in Seq(WorkStep) /\ Head(work) \in WorkStep
    BY <1>1, HeadAndRest DEF ClusterTypes, SchedTypes
  <1>3. n \in Node
    BY <1>1, <1>2, WorkStepFields
  <1>4. /\ b \in Seq(WorkStep) /\ Rest(b) \subseteq {D} /\ (b # <<>> => b[1] \in {B, D})
        /\ \A s \in Steps(b) : (s = B /\ Replaced(n) # {}) \/ s = D
    <2>1. Replaced(n) \in SUBSET AssignmentId /\ Reapable(Hosted(n)) \in SUBSET AssignmentId
      BY DEF Replaced, Running, Reapable, Hosted
    <2> HIDE DEF n
    <2> QED
      BY <2>1, BatchShape, PutTypes
  <1>5. e \in Seq(WorkStep)
    <2>1. SetDrained(n) \in WorkStep
      BY <1>3, WorkStepTypes
    <2> QED
      BY <2>1
  <1>6. /\ \A s \in Steps(e) : s = SetDrained(n) /\ Hosted(n) = Reapable(Hosted(n))
        /\ Rest(e) = {} /\ (e # <<>> => e[1] = SetDrained(n))
    <2>1. CASE Hosted(n) = Reapable(Hosted(n))
      <3>1. e = <<SetDrained(n)>>
        BY <2>1
      <3> QED
        BY <2>1, <3>1, ListedOne
    <2>2. CASE Hosted(n) # Reapable(Hosted(n))
      <3>1. e = <<>>
        BY <2>2
      <3> QED
        BY <3>1, NothingLeft
    <2> QED
      BY <2>1, <2>2
  <1> HIDE DEF b, e, B, D, n
  <1>7. PICK bs, es : bs = b /\ es = e
    OBVIOUS
  <1>8. PICK s : s = bs \o es
    OBVIOUS
  <1>9. /\ s \in Seq(WorkStep) /\ Steps(s) \subseteq Steps(bs) \cup Steps(es)
        /\ bs = <<>> => s = es
        /\ bs # <<>> => s # <<>> /\ s[1] = bs[1] /\ Rest(s) \subseteq Rest(bs) \cup Steps(es)
    <2>1. bs \in Seq(WorkStep) /\ es \in Seq(WorkStep)
      BY <1>4, <1>5, <1>7
    <2> QED
      BY <1>8, <2>1, Joined
  <1>10. Rest(s) \subseteq {D, SetDrained(n)} /\ (s # <<>> => s[1] \in {B, D, SetDrained(n)})
    BY <1>4, <1>6, <1>7, <1>9
  <1>11. \A x \in Steps(s) : \/ x = B /\ Replaced(n) # {}
                             \/ x = D
                             \/ x = SetDrained(n) /\ Hosted(n) = Reapable(Hosted(n))
    BY <1>4, <1>6, <1>7, <1>9
  <1>12. work' = s \o Tail(work)
    BY <1>1, <1>7, <1>8
  <1> QED
    BY <1>1, <1>3, <1>9, <1>10, <1>11, <1>12 DEF n, B, D

LEMMA ListDecides ==
    ASSUME ClusterTypes, ListDrainingNodes
    PROVE  /\ work # <<>> /\ Head(work).op = "ListDraining" /\ UNCHANGED <<store, minted, view>>
           /\ \E s \in Seq(WorkStep) : /\ work' = s \o Tail(work)
                                       /\ \A x \in Steps(s) : x.op = "Drain"
  <1> DEFINE Draining == {n \in Node : nodeDraining(n)}
  <1>1. IsFiniteSet(Draining)
    BY ClusterAssumption, FS_Subset
  <1>2. Cardinality(Draining) \in Nat
    BY <1>1, FS_CardinalityType
  <1>3. PICK order \in Orders(Draining) : Expand([i \in DOMAIN order |-> DrainStep(order[i])])
    BY DEF ListDrainingNodes
  <1> DEFINE k == Cardinality(Draining)
             s == [i \in 1..k |-> DrainStep(order[i])]
  <1>4. order \in [1..k -> Draining]
    BY <1>3 DEF Orders
  <1>5. \A i \in 1..k : DrainStep(order[i]) \in WorkStep /\ DrainStep(order[i]).op = "Drain"
    <2>1. \A i \in 1..k : order[i] \in Node
      BY <1>4
    <2> HIDE DEF k
    <2> QED
      BY <2>1, WorkStepTypes DEF DrainStep
  <1> HIDE DEF k
  <1>6. k \in Nat
    BY <1>2 DEF k
  <1>7. s \in Seq(WorkStep) /\ Len(s) = k /\ \A i \in 1..k : s[i] = DrainStep(order[i])
    BY <1>5, <1>6
  <1>8. \A x \in Steps(s) : x.op = "Drain"
    <2> HIDE DEF s
    <2> QED
      BY <1>5, <1>7 DEF Steps
  <1>9. work' = s \o Tail(work) /\ UNCHANGED <<store, view>>
    <2>1. DOMAIN order = 1..k
      BY <1>4
    <2> QED
      BY <1>3, <2>1 DEF Expand
  <1> HIDE DEF s
  <1> QED
    BY <1>7, <1>8, <1>9 DEF ListDrainingNodes, AtStep

\* applyBatch stops what is still wanted and adds the new replicas.
LEMMA BatchDecides ==
    ASSUME ClusterTypes, applyBatch
    PROVE  /\ work # <<>> /\ Head(work) \in WorkStep /\ Head(work).op = "Batch"
           /\ UNCHANGED <<store, minted, view>>
           /\ \/ work' = <<>> \o Tail(work)
              \/ \E puts \in [AssignmentId -> SchedPut] :
                    /\ work' = <<PutAssignments(puts)>> \o Tail(work)
                    /\ \A a \in AssignmentId :
                          IF a \in Head(work).stop /\ assignment[a].desired = "RUN"
                          THEN puts[a].desired = "STOP" ELSE puts[a] = Head(work).puts[a]
  <1>1. /\ work # <<>> /\ Head(work).op = "Batch" /\ work \in Seq(WorkStep)
        /\ assignment \in [AssignmentId -> Assignment]
    BY DEF applyBatch, AtStep, ClusterTypes, SchedTypes, TypeInv, TypeOK, StoreTypeOK
  <1>2. Head(work) \in WorkStep
    BY <1>1, HeadAndRest
  <1>3. Head(work).puts \in [AssignmentId -> NewReplica]
    <2>1. PICK h \in WorkStep : h = Head(work)
      BY <1>2
    <2>2. h.op = "Batch"
      BY <1>1, <2>1
    <2>3. h.puts \in [AssignmentId -> NewReplica]
      BY <2>2, WorkStepFields, Zenon
    <2> QED
      BY <2>1, <2>3
  <1> DEFINE flip == {a \in Head(work).stop : assignment[a].desired = "RUN"}
             puts == [a \in AssignmentId |->
                        IF a \in flip THEN FlipTo(flip, "STOP")[a] ELSE Head(work).puts[a]]
  <1>4. UNCHANGED <<store, minted, view>> /\ work' \in {<<>> \o Tail(work), <<PutAssignments(puts)>> \o Tail(work)}
    BY DEF applyBatch, Expand
  <1>5. ASSUME NEW a \in AssignmentId, a \in flip
        PROVE  puts[a] \in SchedPut /\ puts[a].desired = "STOP"
    <2>1. puts[a] = [assignment[a] EXCEPT !.desired = "STOP"]
      BY <1>5 DEF FlipTo
    <2>2. assignment[a] \in Assignment
      BY <1>1
    <2>3. [assignment[a] EXCEPT !.desired = "STOP"] \in Assignment
      BY <2>2 DEF Assignment
    <2>4. [assignment[a] EXCEPT !.desired = "STOP"].desired = "STOP"
      BY <2>2 DEF Assignment
    <2> HIDE DEF puts
    <2> QED
      BY <2>1, <2>3, <2>4 DEF SchedPut
  <1>6. ASSUME NEW a \in AssignmentId, a \notin flip
        PROVE  puts[a] \in SchedPut /\ puts[a] = Head(work).puts[a]
    BY <1>3, <1>6, PutTypes
  <1>7. puts \in [AssignmentId -> SchedPut]
    <2>1. \A a \in AssignmentId : puts[a] \in SchedPut
      BY <1>5, <1>6
    <2>2. puts = [a \in AssignmentId |-> puts[a]]
      OBVIOUS
    <2> HIDE DEF puts
    <2> QED
      BY <2>1, <2>2
  <1>8. \A a \in AssignmentId : IF a \in Head(work).stop /\ assignment[a].desired = "RUN"
                                THEN puts[a].desired = "STOP" ELSE puts[a] = Head(work).puts[a]
    <2> HIDE DEF puts
    <2> QED
      BY <1>5, <1>6
  <1> HIDE DEF puts, flip
  <1> QED
    BY <1>1, <1>2, <1>4, <1>7, <1>8

\* The head of the evaluation is replaced by well-formed steps.
LEMMA ExpandTypes ==
    ASSUME SchedTypes, work # <<>>, NEW s \in Seq(WorkStep), work' = s \o Tail(work),
           UNCHANGED view
    PROVE  SchedTypes'
  <1>1. PICK w, v : w = work /\ v = work'
    OBVIOUS
  <1>2. w \in Seq(WorkStep) /\ w # <<>> /\ v = s \o Tail(w)
    BY <1>1 DEF SchedTypes
  <1>3. v \in Seq(WorkStep)
    BY <1>2, Expanded
  <1> QED
    BY <1>1, <1>3 DEF SchedTypes

\* A step that leaves the rollouts' own records alone.
LEMMA Framed ==
    ASSUME TypeInv, UNCHANGED <<env, release, deployment, build, orch, api>>,
           doomed' \in SUBSET ReleaseId, assignment' \in [AssignmentId -> Assignment],
           minted' \in 0..MaxAssignment, node' \in [Node -> NodeRecord]
    PROVE  TypeInv'
  <1>1. UNCHANGED <<pass, todo, requests, lastRelease, lastDeployment>>
    BY DEF orch, api
  <1>2. TypeOK'
    BY <1>1 DEF TypeInv, TypeOK, StoreTypeOK, ApiTypeOK
  <1>3. StepsInv'
    BY <1>1 DEF TypeInv, StepsInv, NamesRelease, PassLive, Idle, Goal
  <1> QED
    BY <1>2, <1>3 DEF TypeInv

\* It takes no replica of a deployment up again.
GreenShrinks == \A d \in DeploymentId : greenAssignments(d)' \subseteq greenAssignments(d)

\* Between the beginning of an evaluation and its commands the scheduler only reads.
LEMMA SchedReads ==
    ASSUME ClusterTypes, SchedStep, ~evaluate, ~SchedApply
    PROVE  work # <<>> /\ UNCHANGED <<store, view>>
  <1>1. CASE evaluateEnv
    BY <1>1 DEF evaluateEnv, AtStep, Expand
  <1>2. CASE ConvergeEnv
    BY <1>2, ConvergePlaces
  <1>3. CASE reconcileOrphans
    BY <1>3 DEF reconcileOrphans, AtStep, Expand
  <1>4. CASE ListDrainingNodes
    BY <1>4, ListDecides
  <1>5. CASE reconcileDrain
    BY <1>5, DrainDecides
  <1>6. CASE applyBatch
    BY <1>6, BatchDecides
  <1> QED
    BY <1>1, <1>2, <1>3, <1>4, <1>5, <1>6 DEF SchedStep

LEMMA SchedSteps ==
    ASSUME ClusterTypes, SchedStep
    PROVE  /\ SchedTypes' /\ UNCHANGED <<env, release, deployment, build>>
           /\ assignment' \in [AssignmentId -> Assignment]
           /\ minted' \in 0..MaxAssignment /\ node' \in [Node -> NodeRecord]
           /\ GreenShrinks
  <1> DEFINE Fine == /\ SchedTypes' /\ UNCHANGED <<env, release, deployment, build>>
                     /\ assignment' \in [AssignmentId -> Assignment]
                     /\ minted' \in 0..MaxAssignment /\ node' \in [Node -> NodeRecord]
                     /\ GreenShrinks
  <1>0. /\ SchedTypes /\ env \in Environment /\ assignment \in [AssignmentId -> Assignment]
        /\ minted \in 0..MaxAssignment /\ node \in [Node -> NodeRecord] /\ MaxAssignment \in Nat
        /\ work \in Seq(WorkStep)
    BY StoreAssumption DEF ClusterTypes, SchedTypes, TypeInv, TypeOK, StoreTypeOK
  <1>1. UNCHANGED store /\ minted' \in 0..MaxAssignment /\ SchedTypes' => Fine
    BY <1>0 DEF store, GreenShrinks, greenAssignments
  <1> SUFFICES Fine
    OBVIOUS
  <1> HIDE DEF Fine
  <1> DEFINE Reads(s) == /\ work' = s \o Tail(work) /\ work # <<>>
                         /\ UNCHANGED store /\ UNCHANGED view /\ minted' \in 0..MaxAssignment
  <1>2. ASSUME NEW s \in Seq(WorkStep) PROVE Reads(s) => Fine
    BY <1>0, <1>1, ExpandTypes
  <1> HIDE DEF Reads
  <1>3. CASE evaluate
    <2>1. /\ UNCHANGED <<store, minted>> /\ view' = env
          /\ work' = <<CheckOwner, ReapOrphans, ListDraining>>
      BY <1>3 DEF evaluate
    <2>2. CheckOwner \in WorkStep /\ ReapOrphans \in WorkStep /\ ListDraining \in WorkStep
      BY WorkStepTypes
    <2>3. work' \in Seq(WorkStep)
      BY <2>1, <2>2
    <2> QED
      <3>1. SchedTypes' /\ minted' \in 0..MaxAssignment /\ UNCHANGED store
        BY <1>0, <2>1, <2>3 DEF SchedTypes
      <3> QED
        BY <1>1, <3>1
  <1>4. CASE evaluateEnv
    <2>1. PICK s \in {<<>>, <<Converge>>} : work' = s \o Tail(work)
      BY <1>4 DEF evaluateEnv, Expand
    <2>2. UNCHANGED <<store, view, minted>> /\ work # <<>>
      BY <1>4 DEF evaluateEnv, Expand, AtStep
    <2>3. Converge \in WorkStep
      BY WorkStepTypes
    <2>4. <<>> \in Seq(WorkStep) /\ <<Converge>> \in Seq(WorkStep)
      BY <2>3
    <2> QED
      BY <1>0, <1>2, <2>1, <2>2, <2>4 DEF Reads
  <1>5. CASE ConvergeEnv
    <2>1. PICK k \in Nat, puts \in [AssignmentId -> NewReplica],
                stop \in SUBSET AssignmentId, reap \in SUBSET AssignmentId :
            /\ minted' = minted + k /\ minted + k <= MaxAssignment
            /\ work' = BatchSteps(puts, stop, reap) \o Tail(work)
      <3>1. /\ StaleRelease \cup (IF Cardinality(Good) > desiredReplicas(view)
                                  THEN NewestOf(Good, Cardinality(Good) - desiredReplicas(view))
                                  ELSE {}) \in SUBSET AssignmentId
            /\ Reapable(AssignmentId) \cup Lost \in SUBSET AssignmentId
        BY DEF StaleRelease, NewestOf, Good, Lost, CurrentReplicas, Running, Reapable
      <3> QED
        BY <1>5, <3>1, ConvergePlaces
    <2>2. UNCHANGED <<store, view>> /\ work # <<>>
      BY <1>5, ConvergePlaces
    <2>3. minted' \in 0..MaxAssignment
      BY <1>0, <2>1
    <2>4. BatchSteps(puts, stop, reap) \in Seq(WorkStep)
      BY <2>1, BatchShape
    <2> QED
      BY <1>2, <2>1, <2>2, <2>3, <2>4 DEF Reads
  <1>6. CASE reconcileOrphans
    <2>1. PICK stop \in SUBSET AssignmentId, reap \in SUBSET AssignmentId :
             work' = BatchSteps(NoPuts, stop, reap) \o Tail(work)
      BY <1>6 DEF reconcileOrphans, Expand, Running, Reapable
    <2>2. UNCHANGED <<store, view, minted>> /\ work # <<>>
      BY <1>6 DEF reconcileOrphans, Expand, AtStep
    <2>3. BatchSteps(NoPuts, stop, reap) \in Seq(WorkStep)
      BY BatchShape, PutTypes
    <2> QED
      BY <1>0, <1>2, <2>1, <2>2, <2>3 DEF Reads
  <1>7. CASE ListDrainingNodes
    <2>1. PICK s \in Seq(WorkStep) : work' = s \o Tail(work)
      BY <1>7, ListDecides
    <2> QED
      BY <1>0, <1>2, <1>7, <2>1, ListDecides DEF Reads
  <1>8. CASE reconcileDrain
    <2>1. PICK s \in Seq(WorkStep) : work' = s \o Tail(work)
      BY <1>8, DrainDecides
    <2>2. UNCHANGED <<store, view, minted>> /\ work # <<>>
      BY <1>8, DrainDecides
    <2> QED
      BY <1>0, <1>2, <2>1, <2>2 DEF Reads
  <1>9. CASE applyBatch
    <2>1. PICK s \in Seq(WorkStep) : work' = s \o Tail(work)
      <3>1. \A puts \in [AssignmentId -> SchedPut] : <<PutAssignments(puts)>> \in Seq(WorkStep)
        BY WorkStepTypes
      <3>2. <<>> \in Seq(WorkStep)
        OBVIOUS
      <3> QED
        BY <1>9, <3>1, <3>2, BatchDecides
    <2> QED
      BY <1>0, <1>2, <1>9, <2>1, BatchDecides DEF Reads
  <1>10. CASE SchedApply
    <2>1. /\ work # <<>> /\ work' = Tail(work) /\ UNCHANGED <<minted, view>>
          /\ Head(work) \in WorkStep
      BY <1>0, <1>10, HeadAndRest DEF SchedApply
    <2>2. SchedTypes'
      <3>1. work' \in Seq(WorkStep)
        BY <1>0, <2>1
      <3> QED
        BY <1>0, <2>1, <3>1 DEF SchedTypes
    <2>3. CASE Head(work).op = "PutAssignments" /\ applyPutAssignments(Head(work).puts)
      <3>1. PICK puts \in [AssignmentId -> SchedPut] : puts = Head(work).puts
        BY <2>1, <2>3, WorkStepFields
      <3>2. /\ UNCHANGED <<env, release, deployment, build, node>>
            /\ assignment' = [a \in AssignmentId |->
                                IF puts[a] # NoAssignment THEN puts[a] ELSE assignment[a]]
        BY <2>3, <3>1 DEF applyPutAssignments
      <3>3. \A a \in AssignmentId : puts[a] \in Assignment
        BY <3>1, PutTypes
      <3>4. assignment' \in [AssignmentId -> Assignment]
        BY <1>0, <3>2, <3>3
      <3>5. \A a \in AssignmentId : puts[a] # NoAssignment =>
                 puts[a].dep = NoId \/ puts[a].desired # "RUN"
        BY <3>1 DEF SchedPut, NewReplica
      <3>6. GreenShrinks
        <4>1. NoId \notin DeploymentId
          BY DEF NoId, DeploymentId
        <4> QED
          BY <3>2, <3>5, <4>1 DEF GreenShrinks, greenAssignments
      <3> QED
        BY <1>0, <2>1, <2>2, <3>2, <3>4, <3>6 DEF Fine
    <2>4. CASE Head(work).op = "DeleteAssignments" /\ applyDeleteAssignments(Head(work).ids)
      <3>1. /\ UNCHANGED <<env, release, deployment, build, node>>
            /\ assignment' = [a \in AssignmentId |->
                                IF a \in Head(work).ids THEN NoAssignment ELSE assignment[a]]
        BY <2>4 DEF applyDeleteAssignments
      <3>2. NoAssignment \in Assignment /\ NoAssignment.desired # "RUN"
        BY DEF NoAssignment, Assignment, InstanceState
      <3>3. assignment' \in [AssignmentId -> Assignment] /\ GreenShrinks
        BY <1>0, <3>1, <3>2 DEF GreenShrinks, greenAssignments
      <3> QED
        BY <1>0, <2>1, <2>2, <3>1, <3>3 DEF Fine
    <2>5. CASE /\ Head(work).op = "SetDrained" /\ applySetNodeStatus(Head(work).node, "DRAINED")
               /\ UNCHANGED <<env, release, deployment, build, assignment>>
      <3>1. node' \in [Node -> NodeRecord]
        BY <1>0, <2>5 DEF applySetNodeStatus, NodeRecord, NodeStatus
      <3>2. GreenShrinks
        BY <2>5 DEF GreenShrinks, greenAssignments
      <3> QED
        BY <1>0, <2>1, <2>2, <2>5, <3>1, <3>2 DEF Fine
    <2> QED
      BY <1>10, <2>3, <2>4, <2>5 DEF SchedApply, AtStep
  <1> QED
    BY <1>3, <1>4, <1>5, <1>6, <1>7, <1>8, <1>9, <1>10 DEF SchedStep

(***************************************************************************)
(* Rollouts next to everything else that writes the same records.          *)
(***************************************************************************)
\* A step of another part: it takes no replica of a deployment up again, and at
\* most ends the pass of an orchestrator that is no longer the leader's.
Beside ==
    /\ UNCHANGED <<env, deployment, api>> /\ GreenShrinks
    /\ UNCHANGED <<pass, todo>> \/ (pass' = {} /\ todo' = <<>>)

LEMMA NodeSteps ==
    ASSUME node \in [Node -> NodeRecord], NEW n \in Node,
           DrainNode(n) \/ UncordonNode(n) \/ MarkDown(n) \/ MarkAlive(n) \/ BeginRemove(n)
    PROVE  /\ node' \in [Node -> NodeRecord]
           /\ \A m \in Node : node'[m].status = "DRAINED" => node[m].status = "DRAINED"
           /\ UNCHANGED <<tables, assignment, minted, rollout, sched>>
  <1>1. /\ UNCHANGED <<tables, assignment, minted, rollout, sched>>
        /\ \/ \E r \in NodeRecord : r.status # "DRAINED" /\ node' = [node EXCEPT ![n] = r]
           \/ UNCHANGED node
    <2>1. CASE DrainNode(n)
      <3>1. [status |-> "DRAINING", schedulable |-> FALSE] \in NodeRecord
        BY DEF NodeRecord, NodeStatus
      <3> QED
        BY <2>1, <3>1 DEF DrainNode, applySetNodeSchedulable, NodeCommand
    <2>2. CASE UncordonNode(n)
      <3>1. [status |-> "ALIVE", schedulable |-> TRUE] \in NodeRecord
        BY DEF NodeRecord, NodeStatus
      <3> QED
        BY <2>2, <3>1 DEF UncordonNode, applySetNodeSchedulable, NodeCommand
    <2>3. CASE MarkDown(n)
      <3>1. [node[n] EXCEPT !.status = "DOWN"] \in NodeRecord
            /\ [node[n] EXCEPT !.status = "DOWN"].status = "DOWN"
        BY DEF NodeRecord, NodeStatus
      <3> QED
        BY <2>3, <3>1 DEF MarkDown, applySetNodeStatus, NodeCommand
    <2>4. CASE MarkAlive(n)
      <3>1. [node[n] EXCEPT !.status = "ALIVE"] \in NodeRecord
            /\ [node[n] EXCEPT !.status = "ALIVE"].status = "ALIVE"
        BY DEF NodeRecord, NodeStatus
      <3> QED
        BY <2>4, <3>1 DEF MarkAlive, applySetNodeStatus, NodeCommand
    <2>5. CASE BeginRemove(n)
      BY <2>5 DEF BeginRemove, store, tables
    <2> QED
      BY <2>1, <2>2, <2>3, <2>4, <2>5
  <1> QED
    BY <1>1

LEMMA RemoveSteps ==
    ASSUME TypeInv, RemoveNode
    PROVE  /\ node' \in [Node -> NodeRecord] /\ assignment' \in [AssignmentId -> Assignment]
           /\ \A m \in Node : node'[m].status = "DRAINED" => node[m].status = "DRAINED"
           /\ \A a \in AssignmentId : assignment'[a] = assignment[a] \/ assignment'[a] = NoAssignment
           /\ UNCHANGED <<tables, minted, rollout, sched>>
  <1>1. node \in [Node -> NodeRecord] /\ assignment \in [AssignmentId -> Assignment]
    BY DEF TypeInv, TypeOK, StoreTypeOK
  <1>2. NoAssignment \in Assignment
    BY DEF NoAssignment, Assignment, InstanceState
  <1>3. AbsentNode \in NodeRecord /\ AbsentNode.status # "DRAINED"
    BY DEF AbsentNode, NodeRecord, NodeStatus
  <1>4. CASE removal.stage = "reap"
    <2>1. PICK ids : /\ applyDeleteAssignments(ids) /\ UNCHANGED <<minted, rollout, sched, nodeOps>>
      BY <1>4 DEF RemoveNode
    <2> QED
      BY <1>1, <1>2, <2>1 DEF applyDeleteAssignments, tables
  <1>5. CASE removal.stage = "delete"
    <2>1. PICK m : node' = [node EXCEPT ![m] = AbsentNode]
      BY <1>5 DEF RemoveNode, applyDeleteNode
    <2>2. UNCHANGED <<tables, assignment, minted, rollout, sched>>
      BY <1>5 DEF RemoveNode
    <2>3. node' \in [Node -> NodeRecord]
          /\ \A l \in Node : node'[l] = node[l] \/ node'[l] = AbsentNode
      BY <1>1, <1>3, <2>1
    <2> QED
      BY <1>1, <1>3, <2>2, <2>3
  <1> QED
    BY <1>4, <1>5 DEF RemoveNode

LEMMA ReportSteps ==
    ASSUME TypeInv, NEW a \in AssignmentId, AgentReport(a)
    PROVE  /\ assignment' \in [AssignmentId -> Assignment]
           /\ \A b \in AssignmentId : /\ assignment'[b].desired = assignment[b].desired
                                      /\ assignment'[b].node = assignment[b].node
                                      /\ assignment'[b].rel = assignment[b].rel
                                      /\ assignment'[b].dep = assignment[b].dep
                                      /\ b # a => assignment'[b] = assignment[b]
           /\ \E s \in IF assignment[a].desired = "STOP" THEN {"STOPPED"} ELSE Reports :
                 assignment'[a].obs = MergeObserved(assignment[a].obs, s)
           /\ UNCHANGED <<tables, node, minted, rollout, sched>>
  <1>1. PICK s \in IF assignment[a].desired = "STOP" THEN {"STOPPED"} ELSE Reports :
           SetAssignmentObserved(a, s)
    BY DEF AgentReport
  <1>2. UNCHANGED <<rollout, sched>>
    BY DEF AgentReport
  <1>3. /\ assignment \in [AssignmentId -> Assignment]
        /\ assignment' = [assignment EXCEPT ![a].obs = MergeObserved(assignment[a].obs, s)]
        /\ UNCHANGED <<tables, node, minted>>
    BY <1>1 DEF SetAssignmentObserved, TypeInv, TypeOK, StoreTypeOK, tables
  <1>4. PICK o \in InstanceState : o = MergeObserved(assignment[a].obs, s)
    <2>1. s \in InstanceState
      BY RolloutAssumption DEF InstanceState
    <2>2. assignment[a].obs \in InstanceState
      BY <1>3 DEF Assignment
    <2> QED
      BY <2>1, <2>2 DEF MergeObserved
  <1>5. assignment' = [assignment EXCEPT ![a].obs = o]
    BY <1>3, <1>4
  <1>6. assignment' \in [AssignmentId -> Assignment]
    BY <1>3, <1>5 DEF Assignment
  <1>7. /\ \A b \in AssignmentId : b # a => assignment'[b] = assignment[b]
        /\ assignment'[a] = [assignment[a] EXCEPT !.obs = o]
    BY <1>3, <1>5
  <1>8. /\ assignment'[a].desired = assignment[a].desired /\ assignment'[a].node = assignment[a].node
        /\ assignment'[a].rel = assignment[a].rel /\ assignment'[a].dep = assignment[a].dep
        /\ assignment'[a].obs = o
    BY <1>3, <1>7 DEF Assignment
  <1> QED
    BY <1>2, <1>3, <1>4, <1>6, <1>7, <1>8

LEMMA ClusterKinds ==
    ASSUME ClusterTypes, [ClusterNext]_clusterVars
    PROVE  SchedTypes' /\ ([Next]_vars \/ (TypeInv' /\ Beside))
  <1> DEFINE Accounted == SchedTypes' /\ ([Next]_vars \/ (TypeInv' /\ Beside))
  <1> SUFFICES Accounted
    OBVIOUS
  <1>0. /\ TypeInv /\ SchedTypes /\ doomed \in SUBSET ReleaseId
        /\ assignment \in [AssignmentId -> Assignment] /\ node \in [Node -> NodeRecord]
        /\ minted \in 0..MaxAssignment
    BY DEF ClusterTypes, TypeInv, TypeOK, StoreTypeOK
  <1>1. UNCHANGED sched => SchedTypes'
    BY <1>0 DEF sched, SchedTypes
  <1>2. /\ UNCHANGED <<tables, minted, rollout>> /\ UNCHANGED sched
        /\ assignment' \in [AssignmentId -> Assignment] /\ node' \in [Node -> NodeRecord]
        /\ GreenShrinks
        => Accounted
    <2> SUFFICES ASSUME UNCHANGED <<tables, minted, rollout>>, UNCHANGED sched,
                        assignment' \in [AssignmentId -> Assignment], node' \in [Node -> NodeRecord],
                        GreenShrinks
                 PROVE  Accounted
      OBVIOUS
    <2>1. UNCHANGED <<env, release, deployment, build, orch, api>>
          /\ UNCHANGED <<pass, todo>>
          /\ doomed' \in SUBSET ReleaseId /\ minted' \in 0..MaxAssignment
      BY <1>0 DEF tables, rollout, orch
    <2>2. TypeInv'
      BY <1>0, <2>1, Framed
    <2> QED
      BY <1>1, <2>1, <2>2 DEF Beside
  <1> HIDE DEF Accounted
  <1>3. CASE RolloutStep
    <2>1. Next /\ UNCHANGED sched
      BY <1>3 DEF RolloutStep, Next
    <2> QED
      BY <1>1, <2>1 DEF Accounted
  <1>4. CASE ScheduleStep
    <2>1. SchedStep /\ UNCHANGED rollout
      BY <1>4 DEF ScheduleStep
    <2>2. /\ SchedTypes' /\ UNCHANGED <<env, release, deployment, build>>
          /\ assignment' \in [AssignmentId -> Assignment]
          /\ minted' \in 0..MaxAssignment /\ node' \in [Node -> NodeRecord]
          /\ GreenShrinks
      BY <2>1, SchedSteps
    <2>3. UNCHANGED <<orch, api>> /\ UNCHANGED <<pass, todo>> /\ doomed' \in SUBSET ReleaseId
      BY <1>0, <2>1 DEF rollout, orch
    <2>4. TypeInv'
      BY <1>0, <2>2, <2>3, Framed
    <2> QED
      BY <2>2, <2>3, <2>4 DEF Accounted, Beside
  <1>5. CASE LeaderMoves
    <2>1. /\ pass' = {} /\ todo' = <<>> /\ doomed' = {} /\ work' = <<>>
          /\ UNCHANGED <<store, minted, api, view>>
      BY <1>5 DEF LeaderMoves
    <2>2. TypeInv'
      BY <1>0, <2>1 DEF TypeInv, TypeOK, StoreTypeOK, ApiTypeOK, StepsInv, NamesRelease, PassLive,
         store, api, Idle
    <2>3. SchedTypes'
      <3>1. work' \in Seq(WorkStep)
        BY <2>1
      <3> QED
        BY <1>0, <2>1, <3>1 DEF SchedTypes
    <2>4. GreenShrinks /\ UNCHANGED <<env, deployment>>
      BY <2>1 DEF GreenShrinks, greenAssignments, store
    <2> QED
      BY <2>1, <2>2, <2>3, <2>4 DEF Accounted, Beside
  <1>6. CASE RemoveNode
    <2>1. GreenShrinks
      <3>1. NoAssignment.desired # "RUN"
        BY DEF NoAssignment
      <3> QED
        BY <1>0, <1>6, <3>1, RemoveSteps DEF GreenShrinks, greenAssignments
    <2> QED
      BY <1>0, <1>2, <1>6, <2>1, RemoveSteps
  <1>7. ASSUME NEW a \in AssignmentId, AgentReport(a) PROVE Accounted
    <2>1. GreenShrinks
      BY <1>0, <1>7, ReportSteps DEF GreenShrinks, greenAssignments
    <2>2. /\ UNCHANGED <<tables, minted, rollout>> /\ UNCHANGED sched /\ UNCHANGED node
          /\ assignment' \in [AssignmentId -> Assignment]
      BY <1>0, <1>7, ReportSteps
    <2> QED
      BY <1>0, <1>2, <2>1, <2>2
  <1>8. ASSUME NEW n \in Node,
               DrainNode(n) \/ UncordonNode(n) \/ MarkDown(n) \/ MarkAlive(n) \/ BeginRemove(n)
        PROVE  Accounted
    <2>1. /\ UNCHANGED <<tables, minted, rollout>> /\ UNCHANGED sched /\ UNCHANGED assignment
          /\ node' \in [Node -> NodeRecord]
      BY <1>0, <1>8, NodeSteps
    <2>2. GreenShrinks
      BY <2>1 DEF GreenShrinks, greenAssignments
    <2> QED
      BY <1>0, <1>2, <2>1, <2>2
  <1>9. CASE UNCHANGED clusterVars
    BY <1>1, <1>9 DEF clusterVars, Accounted
  <1> QED
    BY <1>3, <1>4, <1>5, <1>6, <1>7, <1>8, <1>9 DEF ClusterNext

LEMMA BesideKeeps ==
    ASSUME TypeInv, Beside
    PROVE  /\ OrderInv => OrderInv'
           /\ ReapInv => ReapInv'
           /\ FreshDeployments => FreshDeployments'
           /\ SwitchInv => SwitchInv'
  <1>1. UNCHANGED <<env, deployment, requests, lastDeployment>> /\ GreenShrinks
    BY DEF Beside, api
  <1>2. FreshDeployments => FreshDeployments'
    BY <1>1 DEF FreshDeployments
  <1>3. ~Idle => Goal.dep \in DeploymentId
    <2>1. ~Idle => Goal \in Step /\ Goal.op \in {"SetDeploymentPhase", "RecheckGreen"}
      BY RestOfArm DEF TypeInv, StepsInv, PassLive
    <2> QED
      BY <2>1 DEF Step
  <1>4. ReapInv => NoLeakedGreen'
    BY <1>1 DEF ReapInv, NoLeakedGreen, GreenShrinks
  <1>5. CASE UNCHANGED <<pass, todo>>
    <2>1. OrderInv => OrderInv'
      BY <1>1, <1>5 DEF OrderInv, PassOrder, ExclusiveRollout, Idle, Goal, Advances, GoalPhase
    <2>2. ReapInv => ReapedFirst'
      BY <1>1, <1>3, <1>5 DEF ReapInv, ReapedFirst, GreenShrinks, Idle, Goal, GoalPhase
    <2>3. SwitchInv => SwitchInv'
      BY <1>1, <1>5 DEF SwitchInv, SwitchedFirst, DrainingHasSwitched, Idle, Goal, GoalPhase
    <2> QED
      BY <1>2, <1>4, <2>1, <2>2, <2>3 DEF ReapInv
  <1>6. CASE pass' = {} /\ todo' = <<>>
    <2>1. OrderInv => OrderInv'
      BY <1>1, <1>6 DEF OrderInv, PassOrder, ExclusiveRollout, Idle
    <2>2. ReapInv => ReapedFirst'
      BY <1>6 DEF ReapedFirst, Idle
    <2>3. SwitchInv => SwitchInv'
      BY <1>1, <1>6 DEF SwitchInv, SwitchedFirst, DrainingHasSwitched, Idle
    <2> QED
      BY <1>2, <1>4, <2>1, <2>2, <2>3 DEF ReapInv
  <1> QED
    BY <1>5, <1>6 DEF Beside

LEMMA InitCluster == ClusterInit => ClusterTypes
  <1> SUFFICES ASSUME ClusterInit PROVE ClusterTypes
    OBVIOUS
  <1>1. TypeInv
    BY InitTypes DEF ClusterInit
  <1>2. view \in Environment /\ work \in Seq(WorkStep)
    BY <1>1 DEF ClusterInit, TypeInv, TypeOK, StoreTypeOK
  <1> QED
    BY <1>1, <1>2 DEF ClusterTypes, SchedTypes

LEMMA NextCluster == ClusterTypes /\ [ClusterNext]_clusterVars => ClusterTypes'
  BY ClusterKinds, NextTypes DEF ClusterTypes

\* What a rollout promises survives the scheduler, drains, nodes that fail and
\* leave, and leader changes: there is one rollout at a time, and nothing is left
\* of one that failed.  The scheduler stops and deletes replicas of deployments, and
\* the ones it adds belong to none (ConvergeEnv, reconcileOrphans, reconcileDrains).
THEOREM RolloutsUndisturbed ==
    ASSUME "timeout" \notin Faults
    PROVE  ClusterSpec => [](ExclusiveRollout /\ NoLeakedGreen)
  <1>1. ClusterInit => OrderInv /\ ReapInv
    BY InitOrder, InitReap DEF ClusterInit
  <1>2. ClusterTypes /\ OrderInv /\ ReapInv /\ [ClusterNext]_clusterVars => OrderInv' /\ ReapInv'
    BY ClusterKinds, BesideKeeps, NextOrder, NextReap DEF ClusterTypes
  <1>3. OrderInv /\ ReapInv => ExclusiveRollout /\ NoLeakedGreen
    BY DEF OrderInv, ReapInv
  <1> QED
    BY <1>1, <1>2, <1>3, InitCluster, NextCluster, PTL DEF ClusterSpec

\* Nor does any of them make a deployment enter its drain window before the
\* traffic has switched to it (promote).
THEOREM SwitchUndisturbed ==
    ASSUME "timeout" \notin Faults
    PROVE  ClusterSpec /\ []RolloutReleaseKept => []DrainingHasSwitched
  <1>1. ClusterInit => OrderInv /\ FreshDeployments /\ SwitchInv
    BY InitOrder, InitFresh, InitSwitch DEF ClusterInit
  <1>2. ClusterTypes /\ OrderInv /\ [ClusterNext]_clusterVars => OrderInv'
    BY ClusterKinds, BesideKeeps, NextOrder DEF ClusterTypes
  <1>3. ClusterTypes /\ FreshDeployments /\ [ClusterNext]_clusterVars => FreshDeployments'
    BY ClusterKinds, BesideKeeps, NextFresh DEF ClusterTypes
  <1>4. ClusterTypes /\ OrderInv /\ FreshDeployments /\ SwitchInv /\ RolloutReleaseKept
          /\ [ClusterNext]_clusterVars => SwitchInv'
    BY ClusterKinds, BesideKeeps, NextSwitch DEF ClusterTypes
  <1>5. SwitchInv => DrainingHasSwitched
    BY DEF SwitchInv
  <1> QED
    BY <1>1, <1>2, <1>3, <1>4, <1>5, InitCluster, NextCluster, PTL DEF ClusterSpec

(***************************************************************************)
(* Drains, when no deployment is requested.  Everything the scheduler does *)
(* to the replicas is then at the head of its evaluation, so there is one  *)
(* batch at a time to reason about: the replicas it is about to add, and   *)
(* the ones it is about to stop.                                           *)
(***************************************************************************)
NoRollout ==
    /\ pass = {} /\ todo = <<>> /\ requests = {}
    /\ \A d \in DeploymentId : deployment[d].phase = "ABSENT"

HeadIs(op) == work # <<>> /\ Head(work).op = op

Arriving ==
    IF HeadIs("Batch") \/ HeadIs("PutAssignments")
    THEN {a \in AssignmentId : Head(work).puts[a].desired = "RUN"} ELSE {}

Leaving ==
    IF HeadIs("Batch") THEN Head(work).stop
    ELSE IF HeadIs("PutAssignments")
         THEN {a \in AssignmentId : Head(work).puts[a].desired = "STOP"} ELSE {}

\* Batches are only ever at the head, and an evaluation that has not looked at its
\* environment yet has nothing else to do than to look for orphans and drains.
LaterOps == {"ReapOrphans", "ListDraining", "Drain", "DeleteAssignments", "SetDrained"}
WorkOrder ==
    work # <<>> =>
      /\ \A s \in Rest(work) : s.op \in LaterOps
      /\ Head(work).op \in {"CheckOwner", "Converge"} =>
            \A s \in Rest(work) : s.op \in {"ReapOrphans", "ListDraining"}

Vacant(n) == \A a \in AssignmentId : assignment[a].node = n => assignment[a].desired # "RUN"

\* No replica is, or is about to be put, on a drained node or one that is about to
\* be marked so.
DrainInv ==
    /\ DrainedEmpty
    /\ \A a \in Arriving : node[Head(work).puts[a].node].status # "DRAINED"
    /\ \A s \in Steps(work) : s.op = "SetDrained" => Arriving = {} /\ Vacant(s.node)

EmptyInv == NoRollout /\ WorkOrder /\ DrainInv

\* The replicas that are up, and those on nodes that are.
UpState == {"RUNNING", "HEALTHY"}
Ready == {a \in AssignmentId : assignment[a].desired = "RUN" /\ assignment[a].obs \in UpState}
Homed == {a \in Running(AssignmentId) : ~nodeDown(assignment[a].node)}

\* The scheduler never has more replicas on live nodes than it needs, so it has
\* none to spare, and what it is about to stop leaves enough that are up.
EnoughLeft ==
    /\ Cardinality(Homed \cup Arriving) <= MinReplicas
    /\ Cardinality(Ready \ Leaving) >= MinReplicas

\* Every replica is of the release that serves and its id was handed out; what is
\* about to be added is new, and what is about to be deleted is not wanted.
OfActive ==
    /\ env.active \notin doomed /\ release[env.active] # "ABSENT"
    /\ \A a \in AssignmentId : Stored(a) => a <= minted
    /\ \A a \in Running(AssignmentId) :
          /\ assignment[a].node \in Node /\ assignment[a].rel = env.active
          /\ assignment[a].obs \in {"UNSPECIFIED"} \cup UpState
    /\ \A a \in Arriving :
          a <= minted /\ ~Stored(a) /\ Head(work).puts[a].rel = env.active
    /\ \A a \in Leaving : a <= minted
    /\ \A s \in Steps(work) : s.op = "DeleteAssignments" =>
          \A a \in s.ids : assignment[a].desired # "RUN" /\ a \notin Arriving

\* Nodes are alive, draining or drained, and the evaluation sees the environment.
CalmInv ==
    /\ env.effective = 0 /\ (work # <<>> => view = env)
    /\ removal = NoRemoval /\ nodeOps \in Nat
    /\ \A n \in Node : node[n].status \in {"ALIVE", "DRAINING", "DRAINED"}

KeepInv == EmptyInv /\ CalmInv /\ (env.active # NoId => OfActive /\ EnoughLeft)

LEMMA ExpandWork ==
    ASSUME SchedTypes, work # <<>>, NEW s \in Seq(WorkStep), work' = s \o Tail(work)
    PROVE  /\ Steps(work) = {Head(work)} \cup Rest(work)
           /\ s = <<>> => Rest(work') \subseteq Rest(work) /\ (work' # <<>> => Head(work') \in Rest(work))
           /\ s # <<>> => /\ work' # <<>> /\ Head(work') = s[1]
                          /\ Rest(work') \subseteq Rest(s) \cup Rest(work)
           /\ Steps(work') \subseteq Steps(s) \cup Rest(work)
  <1>1. PICK w, v : w = work /\ v = work'
    OBVIOUS
  <1>2. w \in Seq(WorkStep) /\ w # <<>> /\ v = s \o Tail(w)
    BY <1>1 DEF SchedTypes
  <1>3. /\ s = <<>> => Rest(v) \subseteq Rest(w) /\ (v # <<>> => Head(v) \in Rest(w))
        /\ s # <<>> => v # <<>> /\ Head(v) = s[1] /\ Rest(v) \subseteq Rest(s) \cup Rest(w)
        /\ Steps(v) \subseteq Steps(s) \cup Rest(w)
    BY <1>2, Expanded
  <1>4. Steps(w) = {Head(w)} \cup Rest(w)
    BY <1>2, HeadAndRest
  <1> QED
    BY <1>1, <1>3, <1>4

LEMMA ShortenWork ==
    ASSUME SchedTypes, work # <<>>, work' = Tail(work)
    PROVE  /\ Steps(work) = {Head(work)} \cup Rest(work)
           /\ Rest(work') \subseteq Rest(work) /\ (work' # <<>> => Head(work') \in Rest(work))
           /\ Steps(work') \subseteq Rest(work)
  <1>1. PICK w, v : w = work /\ v = work'
    OBVIOUS
  <1>2. w \in Seq(WorkStep) /\ w # <<>> /\ v = Tail(w)
    BY <1>1 DEF SchedTypes
  <1>3. /\ Rest(v) \subseteq Rest(w) /\ (v # <<>> => Head(v) \in Rest(w))
        /\ Steps(v) \subseteq Rest(w)
    BY <1>2, Shortened
  <1>4. Steps(w) = {Head(w)} \cup Rest(w)
    BY <1>2, HeadAndRest
  <1> QED
    BY <1>1, <1>3, <1>4

\* The steps an evaluation goes on to after its head neither add nor stop replicas.
LEMMA LaterAddsNone ==
    ASSUME work' # <<>> => Head(work').op \in LaterOps \cup {"CheckOwner", "Converge"}
    PROVE  Arriving' = {} /\ Leaving' = {}
  BY DEF Arriving, Leaving, HeadIs, LaterOps

LEMMA ArrivingTyped ==
    ASSUME SchedTypes, NEW a \in Arriving
    PROVE  a \in AssignmentId /\ Head(work).puts[a].node \in Node
           /\ Head(work).puts[a].obs = "UNSPECIFIED"
  <1>1. /\ a \in AssignmentId /\ work # <<>> /\ Head(work).op \in {"Batch", "PutAssignments"}
        /\ Head(work).puts[a].desired = "RUN"
    BY DEF Arriving, HeadIs
  <1>2. Head(work) \in WorkStep
    BY <1>1, HeadAndRest DEF SchedTypes
  <1>3. Head(work).puts[a] \in SchedPut
    BY <1>1, <1>2, WorkStepFields, PutTypes
  <1> QED
    BY <1>1, <1>3 DEF SchedPut, NewReplica, NoAssignment

\* Whatever is not the scheduler adds no replica and marks no node as drained.
LEMMA UndrainedElsewhere ==
    ASSUME SchedTypes, WorkOrder, DrainInv, UNCHANGED work,
           \A a \in AssignmentId : assignment'[a].desired = "RUN" =>
              assignment[a].desired = "RUN" /\ assignment'[a].node = assignment[a].node,
           \A n \in Node : node'[n].status = "DRAINED" => node[n].status = "DRAINED"
    PROVE  WorkOrder' /\ DrainInv'
  <1>1. WorkOrder' /\ Arriving' = Arriving
    BY DEF WorkOrder, Arriving, HeadIs
  <1>2. DrainedEmpty'
    BY DEF DrainInv, DrainedEmpty
  <1>3. \A a \in Arriving : node'[Head(work).puts[a].node].status # "DRAINED"
    BY ArrivingTyped DEF DrainInv
  <1>4. \A s \in Steps(work) : s.op = "SetDrained" => Arriving = {} /\ Vacant(s.node)'
    BY DEF DrainInv, Vacant
  <1> QED
    BY <1>1, <1>2, <1>3, <1>4 DEF DrainInv

LEMMA NoPutsAdd == \A a \in AssignmentId : NoPuts[a].desired = "ABSENT"
  BY DEF NoPuts, NoAssignment

LEMMA BatchFields ==
    ASSUME NEW puts, NEW stop, NEW ids
    PROVE  /\ Batch(puts, stop).op = "Batch" /\ Batch(puts, stop).puts = puts
           /\ Batch(puts, stop).stop = stop
           /\ PutAssignments(puts).op = "PutAssignments" /\ PutAssignments(puts).puts = puts
           /\ DeleteAssignments(ids).op = "DeleteAssignments" /\ DeleteAssignments(ids).ids = ids
           /\ SetDrained(ids).op = "SetDrained" /\ SetDrained(ids).node = ids
  BY DEF Batch, PutAssignments, DeleteAssignments, SetDrained

\* The scheduler's reads: nothing but the evaluation changes.
LEMMA EmptyReads ==
    ASSUME DrainInv, UNCHANGED store,
           \A a \in Arriving' : node[Head(work').puts[a].node].status # "DRAINED",
           \A s \in Steps(work') : s.op = "SetDrained" => Arriving' = {} /\ Vacant(s.node)
    PROVE  DrainInv'
  <1>1. UNCHANGED <<node, assignment>>
    BY DEF store
  <1>2. \A n : Vacant(n)' = Vacant(n)
    BY <1>1 DEF Vacant
  <1> QED
    BY <1>1, <1>2 DEF DrainInv, DrainedEmpty

\* Every step of the scheduler keeps drained nodes empty.
LEMMA SchedEmpty ==
    ASSUME ClusterTypes, WorkOrder, DrainInv, SchedStep
    PROVE  WorkOrder' /\ DrainInv'
  <1>0. /\ SchedTypes /\ work \in Seq(WorkStep)
        /\ assignment \in [AssignmentId -> Assignment] /\ node \in [Node -> NodeRecord]
    BY DEF ClusterTypes, SchedTypes, TypeInv, TypeOK, StoreTypeOK
  <1>1. CASE evaluate
    <2>1. UNCHANGED store /\ work' = <<CheckOwner, ReapOrphans, ListDraining>>
      BY <1>1 DEF evaluate
    <2>2. /\ work' # <<>> /\ Head(work') = CheckOwner /\ Rest(work') = {ReapOrphans, ListDraining}
          /\ Steps(work') = {CheckOwner, ReapOrphans, ListDraining}
      <3>1. Len(work') = 3 /\ work'[1] = CheckOwner /\ work'[2] = ReapOrphans /\ work'[3] = ListDraining
        BY <2>1
      <3>2. 1..3 = {1, 2, 3} /\ 2..3 = {2, 3}
        OBVIOUS
      <3>3. Steps(work') = {work'[1], work'[2], work'[3]} /\ Rest(work') = {work'[2], work'[3]}
        BY <3>1, <3>2 DEF Steps, Rest
      <3>4. work' # <<>> /\ Head(work') = work'[1]
        BY <2>1
      <3> QED
        BY <3>1, <3>3, <3>4
    <2>3. CheckOwner.op = "CheckOwner" /\ ReapOrphans.op = "ReapOrphans" /\ ListDraining.op = "ListDraining"
      BY DEF CheckOwner, ReapOrphans, ListDraining
    <2>4. WorkOrder'
      BY <2>2, <2>3 DEF WorkOrder, LaterOps
    <2>5. Arriving' = {}
      BY <2>2, <2>3, LaterAddsNone
    <2> QED
      BY <2>1, <2>2, <2>3, <2>4, <2>5, EmptyReads
  <1>2. CASE evaluateEnv
    <2>1. work # <<>> /\ Head(work).op = "CheckOwner" /\ UNCHANGED store
      BY <1>2 DEF evaluateEnv, AtStep, Expand
    <2>2. PICK s \in {<<>>, <<Converge>>} : work' = s \o Tail(work)
      BY <1>2 DEF evaluateEnv, Expand
    <2>3. s \in Seq(WorkStep)
      <3>1. Converge \in WorkStep
        BY WorkStepTypes
      <3>2. <<>> \in Seq(WorkStep) /\ <<Converge>> \in Seq(WorkStep)
        BY <3>1
      <3> QED
        BY <2>2, <3>2
    <2>4. \A r \in Rest(work) : r.op \in {"ReapOrphans", "ListDraining"}
      BY <2>1 DEF WorkOrder
    <2>5. Converge.op = "Converge" /\ Rest(s) = {} /\ Steps(s) \subseteq {Converge}
          /\ (s # <<>> => s[1] = Converge)
      BY NothingLeft, ListedOne DEF Converge
    <2>6. /\ work' # <<>> => Head(work').op \in {"ReapOrphans", "ListDraining", "Converge"}
          /\ \A r \in Rest(work') : r.op \in {"ReapOrphans", "ListDraining"}
          /\ \A r \in Steps(work') : r.op # "SetDrained"
      BY <1>0, <2>1, <2>2, <2>3, <2>4, <2>5, ExpandWork
    <2>7. Arriving' = {}
      BY <2>6, LaterAddsNone DEF LaterOps
    <2>8. WorkOrder'
      BY <2>6 DEF WorkOrder, LaterOps
    <2> QED
      BY <2>1, <2>6, <2>7, <2>8, EmptyReads
  <1>3. CASE ConvergeEnv
    <2>1. work # <<>> /\ Head(work).op = "Converge" /\ UNCHANGED store
      BY <1>3, ConvergePlaces
    <2>2. PICK puts \in [AssignmentId -> NewReplica], stop \in SUBSET AssignmentId,
               reap \in SUBSET AssignmentId :
            /\ \A a \in AssignmentId : puts[a].desired = "RUN" => node[puts[a].node].status = "ALIVE"
            /\ work' = BatchSteps(puts, stop, reap) \o Tail(work)
      <3>1. /\ StaleRelease \cup (IF Cardinality(Good) > desiredReplicas(view)
                                  THEN NewestOf(Good, Cardinality(Good) - desiredReplicas(view))
                                  ELSE {}) \in SUBSET AssignmentId
            /\ Reapable(AssignmentId) \cup Lost \in SUBSET AssignmentId
        BY DEF StaleRelease, NewestOf, Good, Lost, CurrentReplicas, Running, Reapable
      <3>2. NoAssignment.desired # "RUN"
        BY DEF NoAssignment
      <3> QED
        BY <1>3, <3>1, <3>2, ConvergePlaces
    <2>3. PICK s : s = BatchSteps(puts, stop, reap)
      OBVIOUS
    <2>4. /\ s \in Seq(WorkStep) /\ Rest(s) \subseteq {DeleteAssignments(reap)}
          /\ s # <<>> => s[1] \in {Batch(puts, stop), DeleteAssignments(reap)}
          /\ Steps(s) \subseteq {Batch(puts, stop), DeleteAssignments(reap)}
      <3>1. /\ s \in Seq(WorkStep) /\ Rest(s) \subseteq {DeleteAssignments(reap)}
            /\ s # <<>> => s[1] = Batch(puts, stop) \/ s[1] = DeleteAssignments(reap)
            /\ \A x \in Steps(s) : x = Batch(puts, stop) \/ x = DeleteAssignments(reap)
        <4>1. s \in Seq(WorkStep)
          BY <2>3, BatchShape
        <4>2. Rest(s) \subseteq {DeleteAssignments(reap)}
          BY <2>3, BatchShape
        <4>3. s # <<>> => s[1] = Batch(puts, stop) \/ s[1] = DeleteAssignments(reap)
          BY <2>3, BatchShape
        <4>4. \A x \in Steps(s) : x = Batch(puts, stop) \/ x = DeleteAssignments(reap)
          BY <2>3, BatchShape
        <4> QED
          BY <4>1, <4>2, <4>3, <4>4
      <3> QED
        BY <3>1
    <2>5. \A r \in Rest(work) : r.op \in {"ReapOrphans", "ListDraining"}
      BY <2>1 DEF WorkOrder
    <2>6. /\ \A r \in Rest(work') : r.op \in LaterOps
          /\ \A r \in Steps(work') : r.op # "SetDrained"
          /\ work' # <<>> => Head(work') = Batch(puts, stop) \/ Head(work').op \in LaterOps
      <3>1. /\ s = <<>> => Rest(work') \subseteq Rest(work)
                             /\ (work' # <<>> => Head(work') \in Rest(work))
            /\ s # <<>> => Head(work') = s[1] /\ Rest(work') \subseteq Rest(s) \cup Rest(work)
            /\ Steps(work') \subseteq Steps(s) \cup Rest(work)
        BY <1>0, <2>1, <2>2, <2>3, <2>4, ExpandWork
      <3>2. Batch(puts, stop).op = "Batch" /\ DeleteAssignments(reap).op = "DeleteAssignments"
        BY BatchFields
      <3>3. DeleteAssignments(reap).op \in LaterOps /\ "SetDrained" \notin {"ReapOrphans", "ListDraining"}
            /\ {"ReapOrphans", "ListDraining"} \subseteq LaterOps
        BY <3>2 DEF LaterOps
      <3> QED
        BY <2>4, <2>5, <3>1, <3>2, <3>3
    <2>7. \A a \in Arriving' : node[Head(work').puts[a].node].status # "DRAINED"
      <3>1. CASE work' # <<>> /\ Head(work') = Batch(puts, stop)
        <4>1. Head(work').puts = puts
          BY <3>1, BatchFields
        <4>2. \A a \in Arriving' : a \in AssignmentId /\ puts[a].desired = "RUN"
          BY <4>1 DEF Arriving
        <4> QED
          BY <2>2, <4>1, <4>2
      <3>2. CASE work' = <<>> \/ Head(work').op \in LaterOps
        BY <3>2, LaterAddsNone
      <3> QED
        BY <2>6, <3>1, <3>2
    <2>8. WorkOrder'
      BY <2>6, BatchFields DEF WorkOrder, LaterOps
    <2> QED
      BY <2>1, <2>6, <2>7, <2>8, EmptyReads
  <1> DEFINE Settles == /\ Arriving' = {} /\ UNCHANGED store
                        /\ \A r \in Rest(work') : r.op \in LaterOps
                        /\ work' # <<>> => Head(work').op \notin {"CheckOwner", "Converge"}
                        /\ \A r \in Steps(work') : r.op = "SetDrained" => r \in Steps(work) \/ Vacant(r.node)
             Stays == WorkOrder' /\ DrainInv'
  <1>4. Settles => Stays
    <2> SUFFICES ASSUME Settles PROVE Stays
      OBVIOUS
    <2>1. WorkOrder'
      BY DEF WorkOrder
    <2>2. \A r \in Steps(work') : r.op = "SetDrained" => Vacant(r.node)
      BY DEF DrainInv
    <2> QED
      BY <2>1, <2>2, EmptyReads
  <1>5. ASSUME NEW puts, NEW stop, puts = NoPuts,
               work' # <<>> => Head(work') = Batch(puts, stop) \/ Head(work').op \in LaterOps
        PROVE  Arriving' = {}
    <2>1. CASE work' # <<>> /\ Head(work') = Batch(puts, stop)
      <3>1. Head(work').puts = NoPuts
        BY <1>5, <2>1, BatchFields
      <3> QED
        BY <3>1, NoPutsAdd DEF Arriving
    <2>2. CASE work' = <<>> \/ Head(work').op \in LaterOps
      BY <2>2, LaterAddsNone
    <2> QED
      BY <1>5, <2>1, <2>2
  <1>6. CASE reconcileOrphans
    <2>1. work # <<>> /\ Head(work).op = "ReapOrphans" /\ UNCHANGED store
      BY <1>6, Zenon DEF reconcileOrphans, AtStep, Expand
    <2>2. PICK stop \in SUBSET AssignmentId, reap \in SUBSET AssignmentId :
             work' = BatchSteps(NoPuts, stop, reap) \o Tail(work)
      BY <1>6 DEF reconcileOrphans, Expand, Running, Reapable
    <2>3. PICK s : s = BatchSteps(NoPuts, stop, reap)
      OBVIOUS
    <2>4. /\ s \in Seq(WorkStep) /\ Rest(s) \subseteq {DeleteAssignments(reap)}
          /\ s # <<>> => s[1] \in {Batch(NoPuts, stop), DeleteAssignments(reap)}
          /\ Steps(s) \subseteq {Batch(NoPuts, stop), DeleteAssignments(reap)}
      BY <2>3, BatchShape, PutTypes
    <2>5. \A r \in Rest(work) : r.op \in LaterOps
      BY <2>1 DEF WorkOrder
    <2>6. /\ \A r \in Rest(work') : r.op \in LaterOps
          /\ \A r \in Steps(work') : r.op = "SetDrained" => r \in Rest(work)
          /\ work' # <<>> => Head(work') = Batch(NoPuts, stop) \/ Head(work').op \in LaterOps
      <3>1. /\ s = <<>> => Rest(work') \subseteq Rest(work)
                             /\ (work' # <<>> => Head(work') \in Rest(work))
            /\ s # <<>> => Head(work') = s[1] /\ Rest(work') \subseteq Rest(s) \cup Rest(work)
            /\ Steps(work') \subseteq Steps(s) \cup Rest(work)
        BY <1>0, <2>1, <2>2, <2>3, <2>4, ExpandWork
      <3>2. Batch(NoPuts, stop).op = "Batch" /\ DeleteAssignments(reap).op = "DeleteAssignments"
        BY BatchFields
      <3>3. DeleteAssignments(reap).op \in LaterOps /\ "SetDrained" \notin {"ReapOrphans", "ListDraining"}
            /\ {"ReapOrphans", "ListDraining"} \subseteq LaterOps
        BY <3>2 DEF LaterOps
      <3> QED
        BY <2>4, <2>5, <3>1, <3>2, <3>3
    <2>7. Rest(work) \subseteq Steps(work)
      BY <1>0, <2>1, HeadAndRest
    <2>8. Arriving' = {}
      BY <1>5, <2>6
    <2>9. work' # <<>> => Head(work').op \notin {"CheckOwner", "Converge"}
      BY <2>6, BatchFields DEF LaterOps
    <2> QED
      BY <1>4, <2>1, <2>6, <2>7, <2>8, <2>9
  <1>7. CASE ListDrainingNodes
    <2>1. work # <<>> /\ Head(work).op = "ListDraining" /\ UNCHANGED store
      BY <1>7, ListDecides
    <2>2. PICK s \in Seq(WorkStep) : work' = s \o Tail(work) /\ \A x \in Steps(s) : x.op = "Drain"
      BY <1>7, ListDecides
    <2>3. \A r \in Rest(work) : r.op \in LaterOps
      BY <2>1 DEF WorkOrder
    <2>4. s # <<>> => s[1] \in Steps(s) /\ Rest(s) \subseteq Steps(s)
      BY HeadAndRest
    <2>5. s = <<>> => Rest(s) = {}
      BY NothingLeft
    <2>6. /\ \A r \in Rest(work') : r.op \in LaterOps
          /\ \A r \in Steps(work') : r.op = "SetDrained" => r \in Rest(work)
          /\ work' # <<>> => Head(work').op \in LaterOps
      BY <1>0, <2>1, <2>2, <2>3, <2>4, <2>5, ExpandWork DEF LaterOps
    <2>7. Rest(work) \subseteq Steps(work)
      BY <1>0, <2>1, HeadAndRest
    <2>8. Arriving' = {}
      BY <2>6, LaterAddsNone
    <2>9. work' # <<>> => Head(work').op \notin {"CheckOwner", "Converge"}
      BY <2>6 DEF LaterOps
    <2> QED
      BY <1>4, <2>1, <2>6, <2>7, <2>8, <2>9
  <1>8. CASE reconcileDrain
    <2>1. PICK n \in Node : n = Head(work).node
      BY <1>8, DrainDecides
    <2> DEFINE stop == Replaced(n)
               reap == Reapable(Hosted(n))
    <2>2. work # <<>> /\ Head(work).op = "Drain" /\ UNCHANGED store
      BY <1>8, DrainDecides
    <2>3. PICK s \in Seq(WorkStep) :
             /\ work' = s \o Tail(work)
             /\ Rest(s) \subseteq {DeleteAssignments(reap), SetDrained(n)}
             /\ s # <<>> => s[1] \in {Batch(NoPuts, stop), DeleteAssignments(reap), SetDrained(n)}
             /\ \A x \in Steps(s) : \/ x = Batch(NoPuts, stop)
                                    \/ x = DeleteAssignments(reap)
                                    \/ x = SetDrained(n) /\ Hosted(n) = Reapable(Hosted(n))
      BY <1>8, <2>1, DrainDecides
    <2>4. Hosted(n) = Reapable(Hosted(n)) => Vacant(n)
      BY DEF Hosted, Reapable, Vacant, Stored
    <2> HIDE DEF stop, reap
    <2>5. \A r \in Rest(work) : r.op \in LaterOps
      BY <2>2 DEF WorkOrder
    <2>0. /\ s = <<>> => Rest(work') \subseteq Rest(work)
                           /\ (work' # <<>> => Head(work') \in Rest(work))
          /\ s # <<>> => Head(work') = s[1] /\ Rest(work') \subseteq Rest(s) \cup Rest(work)
          /\ Steps(work') \subseteq Steps(s) \cup Rest(work)
      BY <1>0, <2>2, <2>3, ExpandWork
    <2>11. /\ Batch(NoPuts, stop).op = "Batch" /\ DeleteAssignments(reap).op = "DeleteAssignments"
           /\ SetDrained(n).op = "SetDrained" /\ SetDrained(n).node = n
      BY BatchFields
    <2>6. /\ \A r \in Rest(work') : r.op \in LaterOps
          /\ work' # <<>> => Head(work') = Batch(NoPuts, stop) \/ Head(work').op \in LaterOps
      <3>1. DeleteAssignments(reap).op \in LaterOps /\ SetDrained(n).op \in LaterOps
        BY <2>11 DEF LaterOps
      <3> QED
        BY <2>0, <2>3, <2>5, <3>1
    <2>7. \A r \in Steps(work') : r.op = "SetDrained" => r \in Rest(work) \/ Vacant(r.node)
      BY <2>0, <2>3, <2>4, <2>11
    <2>8. Rest(work) \subseteq Steps(work)
      BY <1>0, <2>2, HeadAndRest
    <2>9. Arriving' = {}
      BY <1>5, <2>6
    <2>10. work' # <<>> => Head(work').op \notin {"CheckOwner", "Converge"}
      BY <2>6, BatchFields DEF LaterOps
    <2> QED
      BY <1>4, <2>2, <2>6, <2>7, <2>8, <2>9, <2>10
  <1>9. CASE applyBatch
    <2>1. work # <<>> /\ Head(work).op = "Batch" /\ UNCHANGED store
      BY <1>9, BatchDecides
    <2>2. \A r \in Rest(work) : r.op \in LaterOps
      BY <2>1 DEF WorkOrder
    <2>3. Rest(work) \subseteq Steps(work)
      BY <1>0, <2>1, HeadAndRest
    <2>4. CASE work' = <<>> \o Tail(work)
      <3>1. /\ \A r \in Rest(work') : r.op \in LaterOps
            /\ \A r \in Steps(work') : r \in Rest(work)
            /\ work' # <<>> => Head(work').op \in LaterOps
        <4>1. <<>> \in Seq(WorkStep)
          OBVIOUS
        <4> QED
          BY <1>0, <2>1, <2>2, <2>4, <4>1, ExpandWork, NothingLeft
      <3>2. Arriving' = {}
        BY <3>1, LaterAddsNone
      <3>3. work' # <<>> => Head(work').op \notin {"CheckOwner", "Converge"}
        BY <3>1 DEF LaterOps
      <3> QED
        BY <1>4, <2>1, <2>3, <3>1, <3>2, <3>3
    <2>5. ASSUME NEW puts \in [AssignmentId -> SchedPut],
                 work' = <<PutAssignments(puts)>> \o Tail(work),
                 \A a \in AssignmentId :
                    IF a \in Head(work).stop /\ assignment[a].desired = "RUN"
                    THEN puts[a].desired = "STOP" ELSE puts[a] = Head(work).puts[a]
          PROVE  Stays
      <3>1. PICK s : s = <<PutAssignments(puts)>>
        OBVIOUS
      <3>2. s \in Seq(WorkStep) /\ Rest(s) = {} /\ Steps(s) = {PutAssignments(puts)}
            /\ s # <<>> /\ s[1] = PutAssignments(puts)
        BY <3>1, WorkStepTypes, ListedOne
      <3>3. /\ \A r \in Rest(work') : r.op \in LaterOps
            /\ \A r \in Steps(work') : r.op = "SetDrained" => r \in Rest(work)
            /\ work' # <<>> /\ Head(work') = PutAssignments(puts)
        BY <1>0, <2>1, <2>2, <2>5, <3>1, <3>2, ExpandWork, BatchFields
      <3>4. Head(work').op = "PutAssignments" /\ Head(work').puts = puts
        BY <3>3, BatchFields
      <3>5. ASSUME NEW a \in Arriving'
            PROVE  a \in Arriving /\ puts[a] = Head(work).puts[a]
        <4>1. a \in AssignmentId /\ puts[a].desired = "RUN"
          BY <3>4 DEF Arriving
        <4>2. puts[a] = Head(work).puts[a]
          BY <2>5, <4>1
        <4> QED
          BY <2>1, <4>1, <4>2 DEF Arriving, HeadIs
      <3>6. \A a \in Arriving' : node[Head(work').puts[a].node].status # "DRAINED"
        BY <3>4, <3>5 DEF DrainInv
      <3>7. \A r \in Steps(work') : r.op = "SetDrained" => Arriving' = {} /\ Vacant(r.node)
        BY <2>3, <3>3, <3>5 DEF DrainInv
      <3>8. WorkOrder'
        BY <3>3, <3>4 DEF WorkOrder
      <3> QED
        BY <2>1, <3>6, <3>7, <3>8, EmptyReads
    <2> QED
      BY <1>9, <2>4, <2>5, BatchDecides
  <1>10. CASE SchedApply
    <2>1. work # <<>> /\ work' = Tail(work) /\ Head(work) \in WorkStep
      BY <1>0, <1>10, HeadAndRest DEF SchedApply
    <2>2. /\ Steps(work) = {Head(work)} \cup Rest(work)
          /\ Rest(work') \subseteq Rest(work) /\ (work' # <<>> => Head(work') \in Rest(work))
          /\ Steps(work') \subseteq Rest(work)
      BY <1>0, <2>1, ShortenWork
    <2>3. /\ \A r \in Rest(work') : r.op \in LaterOps
          /\ work' # <<>> => Head(work').op \in LaterOps
      <3>1. \A r \in Rest(work) : r.op \in LaterOps
        BY <2>1 DEF WorkOrder
      <3> QED
        BY <2>2, <3>1
    <2>4. WorkOrder'
      BY <2>3 DEF WorkOrder, LaterOps
    <2>5. Arriving' = {}
      BY <2>3, LaterAddsNone
    <2>7. CASE Head(work).op = "PutAssignments" /\ applyPutAssignments(Head(work).puts)
      <3>1. PICK puts \in [AssignmentId -> SchedPut] : puts = Head(work).puts
        BY <2>1, <2>7, WorkStepFields
      <3>2. /\ UNCHANGED node
            /\ assignment' = [a \in AssignmentId |->
                                IF puts[a] # NoAssignment THEN puts[a] ELSE assignment[a]]
        BY <2>7, <3>1 DEF applyPutAssignments
      <3>3. Arriving = {a \in AssignmentId : puts[a].desired = "RUN"}
        BY <2>1, <2>7, <3>1 DEF Arriving, HeadIs
      <3>4. \A a \in AssignmentId : assignment'[a].desired = "RUN" =>
               (a \in Arriving /\ assignment'[a] = puts[a]) \/ assignment'[a] = assignment[a]
        BY <3>2, <3>3
      <3>5. DrainedEmpty'
        BY <3>1, <3>2, <3>4 DEF DrainInv, DrainedEmpty
      <3>6. \A r \in Steps(work') : r.op = "SetDrained" => Vacant(r.node)'
        BY <2>2, <3>4 DEF DrainInv, Vacant
      <3> QED
        BY <2>4, <2>5, <3>5, <3>6 DEF DrainInv
    <2>8. CASE Head(work).op = "DeleteAssignments" /\ applyDeleteAssignments(Head(work).ids)
      <3>1. UNCHANGED node
            /\ \A a \in AssignmentId : assignment'[a].desired = "RUN" => assignment'[a] = assignment[a]
        BY <2>8 DEF applyDeleteAssignments, NoAssignment
      <3>2. DrainedEmpty'
        BY <3>1 DEF DrainInv, DrainedEmpty
      <3>3. \A r \in Steps(work') : r.op = "SetDrained" => Vacant(r.node)'
        BY <2>2, <3>1 DEF DrainInv, Vacant
      <3> QED
        BY <2>4, <2>5, <3>2, <3>3 DEF DrainInv
    <2>9. CASE /\ Head(work).op = "SetDrained" /\ applySetNodeStatus(Head(work).node, "DRAINED")
               /\ UNCHANGED assignment
      <3>1. PICK n \in Node : n = Head(work).node
        BY <2>1, <2>9, WorkStepFields
      <3>2. Vacant(n)
        BY <2>2, <2>9, <3>1 DEF DrainInv
      <3>3. \A m \in Node : m # n => node'[m] = node[m]
        BY <1>0, <2>9, <3>1 DEF applySetNodeStatus
      <3>4. DrainedEmpty'
        BY <2>9, <3>2, <3>3 DEF DrainInv, DrainedEmpty, Vacant
      <3>5. \A r \in Steps(work') : r.op = "SetDrained" => Vacant(r.node)'
        BY <2>2, <2>9 DEF DrainInv, Vacant
      <3> QED
        BY <2>4, <2>5, <3>4, <3>5 DEF DrainInv
    <2> QED
      BY <1>10, <2>7, <2>8, <2>9 DEF SchedApply, AtStep
  <1> QED
    BY <1>1, <1>2, <1>3, <1>6, <1>7, <1>8, <1>9, <1>10 DEF SchedStep

\* Without requests there is nothing for the API and the orchestrator to do.
LEMMA SweepsOnly ==
    ASSUME Inputs = {}, NoRollout, RolloutStep
    PROVE  Sweep /\ UNCHANGED <<sched, nodes>>
  <1>1. ~ApiStep
    BY DEF NoRollout, ApiStep, DeployGit
  <1>2. ~OrchStep
    <2>1. Idle /\ pass = {} /\ \A d \in DeploymentId : isTerminalPhase(d)
      BY DEF NoRollout, Idle, isTerminalPhase, LivePhase, RolloutPhase
    <2>2. ~BeginPass
      BY <2>1 DEF BeginPass
    <2>3. ~ApplyNext /\ ~RecheckPlacement
      BY <2>1 DEF ApplyNext, RecheckPlacement
    <2>4. \A d \in DeploymentId : ~reconcile(d)
      BY <2>1 DEF reconcile, Turn
    <2> QED
      BY <2>2, <2>3, <2>4 DEF OrchStep
  <1> QED
    BY <1>1, <1>2 DEF RolloutStep

LEMMA SweepSteps ==
    ASSUME Sweep
    PROVE  UNCHANGED <<env, deployment, build, assignment, node, minted, orch, api>>
  BY DEF Sweep, sweepEnv, DeleteRelease, store

LEMMA NoRolloutKept ==
    ASSUME NoRollout, UNCHANGED <<deployment, api>>,
           UNCHANGED <<pass, todo>> \/ (pass' = {} /\ todo' = <<>>)
    PROVE  NoRollout'
  BY DEF NoRollout, api

LEMMA NextEmpty ==
    ASSUME Inputs = {}
    PROVE  ClusterTypes /\ EmptyInv /\ [ClusterNext]_clusterVars => EmptyInv'
  <1> SUFFICES ASSUME ClusterTypes, EmptyInv, [ClusterNext]_clusterVars PROVE EmptyInv'
    OBVIOUS
  <1>0. /\ TypeInv /\ SchedTypes /\ NoRollout /\ WorkOrder /\ DrainInv /\ node \in [Node -> NodeRecord]
    BY DEF ClusterTypes, EmptyInv, TypeInv, TypeOK, StoreTypeOK
  <1> DEFINE Elsewhere ==
               /\ UNCHANGED work
               /\ \A a \in AssignmentId : assignment'[a].desired = "RUN" =>
                     assignment[a].desired = "RUN" /\ assignment'[a].node = assignment[a].node
               /\ \A n \in Node : node'[n].status = "DRAINED" => node[n].status = "DRAINED"
             Still == /\ UNCHANGED <<deployment, api>>
                      /\ UNCHANGED <<pass, todo>> \/ (pass' = {} /\ todo' = <<>>)
  <1>1. Elsewhere /\ Still => EmptyInv'
    BY <1>0, UndrainedElsewhere, NoRolloutKept DEF EmptyInv
  <1>2. UNCHANGED <<tables, rollout>> => Still
    BY DEF tables, rollout, orch
  <1> HIDE DEF Elsewhere, Still
  <1>3. CASE RolloutStep
    <2>1. Sweep /\ UNCHANGED sched
      BY <1>0, <1>3, SweepsOnly
    <2>2. UNCHANGED <<deployment, assignment, node, orch, api>>
      BY <2>1, SweepSteps
    <2> QED
      BY <1>1, <2>1, <2>2 DEF Elsewhere, Still, sched, orch
  <1>4. CASE ScheduleStep
    <2>1. SchedStep /\ UNCHANGED rollout
      BY <1>4 DEF ScheduleStep
    <2>2. WorkOrder' /\ DrainInv'
      BY <1>0, <2>1, SchedEmpty
    <2>3. UNCHANGED deployment
      BY <2>1, SchedSteps
    <2>4. NoRollout'
      BY <1>0, <2>1, <2>3, NoRolloutKept DEF rollout, orch
    <2> QED
      BY <2>2, <2>4 DEF EmptyInv
  <1>5. CASE LeaderMoves
    <2>1. pass' = {} /\ todo' = <<>> /\ work' = <<>> /\ UNCHANGED store /\ UNCHANGED api
      BY <1>5 DEF LeaderMoves
    <2>2. UNCHANGED deployment
      BY <2>1 DEF store
    <2>3. NoRollout'
      BY <1>0, <2>1, <2>2, NoRolloutKept
    <2>4. WorkOrder' /\ Arriving' = {} /\ Steps(work') = {}
      BY <2>1, NothingLeft, LaterAddsNone DEF WorkOrder
    <2>5. DrainInv'
      BY <1>0, <2>1, <2>4, EmptyReads
    <2> QED
      BY <2>3, <2>4, <2>5 DEF EmptyInv
  <1>6. CASE RemoveNode
    <2>1. NoAssignment.desired # "RUN"
      BY DEF NoAssignment
    <2>2. Elsewhere
      BY <1>0, <1>6, <2>1, RemoveSteps DEF Elsewhere, sched
    <2>3. UNCHANGED <<tables, rollout>>
      BY <1>0, <1>6, RemoveSteps
    <2> QED
      BY <1>1, <1>2, <2>2, <2>3
  <1>7. ASSUME NEW a \in AssignmentId, AgentReport(a) PROVE EmptyInv'
    <2>1. Elsewhere
      BY <1>0, <1>7, ReportSteps DEF Elsewhere, sched
    <2>2. UNCHANGED <<tables, rollout>>
      BY <1>0, <1>7, ReportSteps
    <2> QED
      BY <1>1, <1>2, <2>1, <2>2
  <1>8. ASSUME NEW n \in Node,
               DrainNode(n) \/ UncordonNode(n) \/ MarkDown(n) \/ MarkAlive(n) \/ BeginRemove(n)
        PROVE  EmptyInv'
    <2>1. Elsewhere
      BY <1>0, <1>8, NodeSteps DEF Elsewhere, sched
    <2>2. UNCHANGED <<tables, rollout>>
      BY <1>0, <1>8, NodeSteps
    <2> QED
      BY <1>1, <1>2, <2>1, <2>2
  <1>9. CASE UNCHANGED clusterVars
    <2>1. UNCHANGED <<vars, sched>>
      BY <1>9 DEF clusterVars
    <2>2. UNCHANGED <<store, orch, api, work>>
      BY <2>1 DEF vars, sched
    <2> QED
      BY <1>1, <2>2 DEF Elsewhere, Still, store, orch
  <1> QED
    BY <1>3, <1>4, <1>5, <1>6, <1>7, <1>8, <1>9 DEF ClusterNext

LEMMA InitEmpty == ClusterInit => EmptyInv
  <1> SUFFICES ASSUME ClusterInit PROVE EmptyInv
    OBVIOUS
  <1>1. NoRollout
    BY DEF ClusterInit, Init, NoRollout, NoDeployment
  <1>2. work = <<>> /\ \A n \in Node : node[n].status = "ALIVE"
    BY DEF ClusterInit, Init
  <1>3. WorkOrder /\ Arriving = {} /\ Steps(work) = {}
    BY <1>2, NothingLeft DEF WorkOrder, Arriving, HeadIs
  <1>4. DrainInv
    BY <1>2, <1>3 DEF DrainInv, DrainedEmpty
  <1> QED
    BY <1>1, <1>3, <1>4 DEF EmptyInv

\* As long as nothing is deployed, a node is DRAINED only when no replica is to run
\* on it, whatever else happens: nodes fail, return, are drained, uncordoned and
\* removed, leaders change between any two commands, and agents report late.  The
\* mark is sent after the replicas were read (reconcileDrains), so the proof is that
\* nothing the scheduler still has to send puts a replica there.
THEOREM DrainedNodesEmpty ==
    ASSUME Inputs = {}
    PROVE  ClusterSpec => []DrainedEmpty
  <1>1. EmptyInv => DrainedEmpty
    BY DEF EmptyInv, DrainInv
  <1> QED
    BY <1>1, InitEmpty, NextEmpty, InitCluster, NextCluster, PTL DEF ClusterSpec

(***************************************************************************)
(* Drains keep the endpoints.                                              *)
(***************************************************************************)
LEMMA FewerStill ==
    ASSUME NEW T \in SUBSET AssignmentId, NEW S \in SUBSET T, Cardinality(T) <= MinReplicas
    PROVE  Cardinality(S) <= MinReplicas
  <1>1. IsFiniteSet(T) /\ Cardinality(T) \in Nat
    BY FewAssignments
  <1>2. IsFiniteSet(S) /\ Cardinality(S) <= Cardinality(T)
    BY <1>1, FS_Subset
  <1>3. Cardinality(S) \in Nat
    BY <1>2, FS_CardinalityType
  <1> QED
    BY <1>1, <1>2, <1>3, StoreAssumption

LEMMA MoreStill ==
    ASSUME NEW T \in SUBSET AssignmentId, NEW S \in SUBSET T, Cardinality(S) >= MinReplicas
    PROVE  Cardinality(T) >= MinReplicas
  <1>1. IsFiniteSet(T) /\ Cardinality(T) \in Nat
    BY FewAssignments
  <1>2. IsFiniteSet(S) /\ Cardinality(S) <= Cardinality(T)
    BY <1>1, FS_Subset
  <1>3. Cardinality(S) \in Nat
    BY <1>2, FS_CardinalityType
  <1> QED
    BY <1>1, <1>2, <1>3, StoreAssumption

LEMMA BatchSets ==
    ASSUME SchedTypes
    PROVE  /\ Arriving \in SUBSET AssignmentId /\ Leaving \in SUBSET AssignmentId
           /\ Homed \in SUBSET AssignmentId /\ Ready \in SUBSET AssignmentId
  <1>1. HeadIs("Batch") => Head(work).stop \subseteq AssignmentId
    BY HeadAndRest, WorkStepFields DEF HeadIs, SchedTypes
  <1> QED
    BY <1>1 DEF Arriving, Leaving, Homed, Ready, Running

\* Nothing is about to be added or stopped by the other kinds of step.
LEMMA NoBatch ==
    ASSUME work = <<>> \/ Head(work).op \notin {"Batch", "PutAssignments"}
    PROVE  Arriving = {} /\ Leaving = {}
  BY DEF Arriving, Leaving, HeadIs

\* The parts of OfActive that are about the records.
Recorded ==
    /\ env.active \notin doomed /\ release[env.active] # "ABSENT"
    /\ \A a \in AssignmentId : Stored(a) => a <= minted
    /\ \A a \in Running(AssignmentId) :
          /\ assignment[a].node \in Node /\ assignment[a].rel = env.active
          /\ assignment[a].obs \in {"UNSPECIFIED"} \cup UpState

\* Nothing is about to be added or stopped: only the records matter.
LEMMA KeepAlone ==
    ASSUME ClusterTypes, ClusterTypes', OfActive, EnoughLeft, Recorded',
           \A s \in Steps(work') : s.op = "DeleteAssignments" =>
              \A a \in s.ids : assignment'[a].desired # "RUN",
           Arriving' = {}, Leaving' = {},
           Homed' \subseteq Homed \cup Arriving, Ready \ Leaving \subseteq Ready'
    PROVE  OfActive' /\ EnoughLeft'
  <1>1. OfActive'
    BY DEF OfActive, Recorded
  <1>2. /\ Arriving \in SUBSET AssignmentId /\ Homed \in SUBSET AssignmentId
        /\ Ready' \in SUBSET AssignmentId
    BY BatchSets DEF ClusterTypes, Ready
  <1>3. Homed' \cup Arriving' \in SUBSET (Homed \cup Arriving)
    OBVIOUS
  <1>4. Cardinality(Homed' \cup Arriving') <= MinReplicas
    BY <1>2, <1>3, FewerStill DEF EnoughLeft
  <1>5. Ready' \ Leaving' = Ready'
    OBVIOUS
  <1>6. Cardinality(Ready' \ Leaving') >= MinReplicas
    BY <1>2, <1>5, MoreStill DEF EnoughLeft
  <1> QED
    BY <1>1, <1>4, <1>6 DEF EnoughLeft

\* The scheduler's reads: the records stay, the evaluation goes on.
LEMMA KeepReads ==
    ASSUME ClusterTypes, OfActive, UNCHANGED store, UNCHANGED doomed, minted' \in Nat, minted' >= minted,
           \A a \in Arriving' : a <= minted' /\ ~Stored(a) /\ Head(work').puts[a].rel = env.active,
           \A a \in Leaving' : a <= minted',
           \A s \in Steps(work') : s.op = "DeleteAssignments" =>
              \A a \in s.ids : assignment[a].desired # "RUN" /\ a \notin Arriving',
           Cardinality(Homed \cup Arriving') <= MinReplicas,
           Cardinality(Ready \ Leaving') >= MinReplicas
    PROVE  OfActive' /\ EnoughLeft'
  <1>1. UNCHANGED <<env, release, assignment, node>>
    BY DEF store
  <1>2. Homed' = Homed /\ Ready' = Ready /\ \A a : Stored(a)' = Stored(a)
    BY <1>1 DEF Homed, Ready, Stored, Running, nodeDown
  <1>3. minted \in Nat
    BY StoreAssumption DEF ClusterTypes, TypeInv, TypeOK, StoreTypeOK
  <1>4. Running(AssignmentId)' = Running(AssignmentId)
    BY <1>1 DEF Running
  <1>5. \A a \in AssignmentId : Stored(a) => a <= minted'
    BY <1>3 DEF OfActive, AssignmentId
  <1>6. OfActive'
    BY <1>1, <1>2, <1>4, <1>5 DEF OfActive
  <1> QED
    BY <1>2, <1>6 DEF EnoughLeft

\* Anything else than the scheduler.
LEMMA KeepElsewhere ==
    ASSUME ClusterTypes, OfActive, EnoughLeft, Recorded', UNCHANGED work, UNCHANGED minted,
           UNCHANGED env,
           \A a \in AssignmentId : assignment'[a].desired = assignment[a].desired,
           Homed' \subseteq Homed, Ready \subseteq Ready'
    PROVE  OfActive' /\ EnoughLeft'
  <1>1. Arriving' = Arriving /\ Leaving' = Leaving /\ Steps(work') = Steps(work)
    BY DEF Arriving, Leaving, HeadIs
  <1>2. Arriving \in SUBSET AssignmentId /\ Homed \in SUBSET AssignmentId /\ Ready' \in SUBSET AssignmentId
    BY BatchSets DEF ClusterTypes, Ready
  <1>3. \A a \in AssignmentId : Stored(a)' = Stored(a)
    BY DEF Stored
  <1>4. \A s \in Steps(work) : s.op = "DeleteAssignments" => s.ids \subseteq AssignmentId
    BY HeadAndRest, NothingLeft, WorkStepFields DEF ClusterTypes, SchedTypes
  <1>5. OfActive'
    BY <1>1, <1>2, <1>3, <1>4 DEF OfActive, Recorded
  <1>6. Homed' \cup Arriving' \in SUBSET (Homed \cup Arriving) /\ Ready \ Leaving \in SUBSET (Ready' \ Leaving')
    BY <1>1
  <1>7. Cardinality(Homed' \cup Arriving') <= MinReplicas
    BY <1>2, <1>6, FewerStill DEF EnoughLeft
  <1>8. Cardinality(Ready' \ Leaving') >= MinReplicas
    <2>1. Ready' \ Leaving' \in SUBSET AssignmentId
      BY <1>2
    <2> QED
      BY <1>6, <2>1, MoreStill DEF EnoughLeft
  <1> QED
    BY <1>5, <1>7, <1>8 DEF EnoughLeft

LEMMA BatchAhead ==
    ASSUME NEW puts, NEW stop, work' # <<>>, Head(work') = Batch(puts, stop)
    PROVE  Arriving' = {a \in AssignmentId : puts[a].desired = "RUN"} /\ Leaving' = stop
  <1>1. Head(work').op = "Batch" /\ Head(work').puts = puts /\ Head(work').stop = stop
    BY BatchFields
  <1> QED
    BY <1>1 DEF Arriving, Leaving, HeadIs

LEMMA PutAhead ==
    ASSUME NEW puts, work' # <<>>, Head(work') = PutAssignments(puts)
    PROVE  /\ Arriving' = {a \in AssignmentId : puts[a].desired = "RUN"}
           /\ Leaving' = {a \in AssignmentId : puts[a].desired = "STOP"}
  <1>1. Head(work').op = "PutAssignments" /\ Head(work').puts = puts
    BY BatchFields
  <1> QED
    BY <1>1 DEF Arriving, Leaving, HeadIs

\* With nothing to spare and nothing lost, an evaluation adds what is missing.
LEMMA ConvergeAdds ==
    ASSUME ClusterTypes, ~Stateful, ~ScaleToZero, EmptyInv, CalmInv, env.active # NoId,
           OfActive, EnoughLeft, ConvergeEnv
    PROVE  \E k \in Nat, puts \in [AssignmentId -> NewReplica] :
              /\ Cardinality(Homed) + k <= MinReplicas /\ minted' = minted + k
              /\ \A a \in AssignmentId :
                    IF a \in (minted + 1)..(minted + k)
                    THEN puts[a].desired = "RUN" /\ puts[a].rel = env.active
                    ELSE puts[a] = NoAssignment
              /\ work' = BatchSteps(puts, {}, Reapable(AssignmentId)) \o Tail(work)
  <1>1. work # <<>> /\ Head(work).op = "Converge"
    BY ConvergePlaces
  <1>2. view = env /\ Arriving = {}
    BY <1>1, NoBatch DEF CalmInv
  <1>3. desiredReplicas(view) = MinReplicas
    BY <1>2 DEF desiredReplicas, CalmInv
  <1>4. StaleRelease = {}
    BY <1>2 DEF StaleRelease, OfActive
  <1>5. Good = Homed
    BY <1>4 DEF Good, Homed, CurrentReplicas
  <1>6. Lost = {}
    <2>1. ASSUME NEW a \in Lost PROVE FALSE
      <3>1. /\ a \in AssignmentId /\ assignment[a].desired = "RUN" /\ nodeDown(assignment[a].node)
            /\ ~nodeDraining(assignment[a].node) /\ assignment[a].node \in Node
        BY <2>1 DEF Lost, CurrentReplicas, Running, OfActive
      <3>2. node[assignment[a].node].status = "DRAINED"
        BY <3>1 DEF CalmInv, nodeDown, nodeDraining
      <3> QED
        BY <3>1, <3>2 DEF EmptyInv, DrainInv, DrainedEmpty
    <2> QED
      BY <2>1
  <1>7. Homed \in SUBSET AssignmentId
    BY BatchSets DEF ClusterTypes
  <1>8. Cardinality(Homed) \in Nat /\ Cardinality(Homed) <= MinReplicas /\ MinReplicas \in Nat
    <2>1. Homed \cup Arriving = Homed
      BY <1>2
    <2> QED
      BY <1>7, <2>1, FewAssignments, StoreAssumption DEF EnoughLeft
  <1>9. StaleRelease \cup (IF Cardinality(Good) > desiredReplicas(view)
                           THEN NewestOf(Good, Cardinality(Good) - desiredReplicas(view))
                           ELSE {}) = {}
    BY <1>3, <1>4, <1>5, <1>8
  <1>10. Reapable(AssignmentId) \cup Lost = Reapable(AssignmentId)
    BY <1>6
  <1>11. PICK k \in Nat, puts \in [AssignmentId -> NewReplica] :
            /\ k # 0 => k <= desiredReplicas(view) - Cardinality(Good)
            /\ minted' = minted + k
            /\ \A a \in AssignmentId :
                  IF a \in (minted + 1)..(minted + k)
                  THEN puts[a].desired = "RUN" /\ puts[a].rel = view.active
                  ELSE puts[a] = NoAssignment
            /\ work' = BatchSteps(puts, {}, Reapable(AssignmentId)) \o Tail(work)
    BY <1>9, <1>10, ConvergePlaces
  <1>12. Cardinality(Homed) + k <= MinReplicas
    BY <1>3, <1>5, <1>8, <1>11
  <1> QED
    BY <1>2, <1>11, <1>12

\* Every step of the scheduler keeps as many replicas up as are needed.
LEMMA SchedKeeps ==
    ASSUME ClusterTypes, ClusterTypes', ~Stateful, ~ScaleToZero, EmptyInv, CalmInv,
           env.active # NoId, OfActive, EnoughLeft, SchedStep, UNCHANGED doomed
    PROVE  OfActive' /\ EnoughLeft'
  <1> DEFINE Stays == OfActive' /\ EnoughLeft'
             Wanted(a) == assignment[a].desired = "RUN"
             Unwanted(s) == s.op = "DeleteAssignments" => \A a \in s.ids : ~Wanted(a)
             Silent == /\ UNCHANGED store /\ UNCHANGED minted
                       /\ Arriving' = {} /\ Leaving' = {}
                       /\ \A s \in Steps(work') : Unwanted(s)
  <1> SUFFICES Stays
    OBVIOUS
  <1>0. /\ SchedTypes /\ work \in Seq(WorkStep) /\ WorkOrder /\ env \in Environment
        /\ assignment \in [AssignmentId -> Assignment] /\ node \in [Node -> NodeRecord]
        /\ minted \in Nat /\ minted <= MaxAssignment
    BY StoreAssumption DEF ClusterTypes, SchedTypes, TypeInv, TypeOK, StoreTypeOK, EmptyInv
  <1>1. /\ Arriving \in SUBSET AssignmentId /\ Homed \in SUBSET AssignmentId
        /\ Ready \in SUBSET AssignmentId
    BY <1>0, BatchSets
  <1>2. Cardinality(Homed) <= MinReplicas /\ Cardinality(Ready) >= MinReplicas
    <2>1. Homed \in SUBSET (Homed \cup Arriving) /\ Ready \ Leaving \in SUBSET Ready
          /\ Homed \cup Arriving \in SUBSET AssignmentId
      BY <1>1
    <2> QED
      BY <1>1, <2>1, FewerStill, MoreStill DEF EnoughLeft
  <1>3. Silent => Stays
    <2> SUFFICES ASSUME Silent PROVE Stays
      OBVIOUS
    <2>1. Homed \cup Arriving' = Homed /\ Ready \ Leaving' = Ready
      OBVIOUS
    <2>2. minted' \in Nat /\ minted' >= minted
      BY <1>0
    <2> QED
      BY <1>2, <2>1, <2>2, KeepReads
  <1>4. \A s \in Steps(work) : Unwanted(s)
    BY DEF OfActive
  <1>5. work # <<>> => Rest(work) \subseteq Steps(work) /\ Head(work) \in WorkStep
                       /\ \A s \in Rest(work) : s.op \in LaterOps
    BY <1>0, HeadAndRest DEF WorkOrder
  <1>6. ASSUME NEW S PROVE Unwanted(DeleteAssignments(Reapable(S)))
    BY BatchFields DEF Reapable
  <1> HIDE DEF Stays
  <1>7. CASE evaluate
    <2>1. UNCHANGED <<store, minted>> /\ work' = <<CheckOwner, ReapOrphans, ListDraining>>
      BY <1>7 DEF evaluate
    <2>2. /\ Len(work') = 3 /\ work'[1] = CheckOwner /\ work'[2] = ReapOrphans
          /\ work'[3] = ListDraining /\ work' # <<>> /\ Head(work') = CheckOwner
      BY <2>1
    <2>3. 1..3 = {1, 2, 3}
      OBVIOUS
    <2>4. Steps(work') = {CheckOwner, ReapOrphans, ListDraining}
      BY <2>2, <2>3 DEF Steps
    <2>5. CheckOwner.op = "CheckOwner" /\ ReapOrphans.op = "ReapOrphans" /\ ListDraining.op = "ListDraining"
      BY DEF CheckOwner, ReapOrphans, ListDraining
    <2>6. Arriving' = {} /\ Leaving' = {}
      BY <2>2, <2>5, LaterAddsNone
    <2> QED
      BY <1>3, <2>1, <2>4, <2>5, <2>6
  <1>8. CASE evaluateEnv
    <2>1. work # <<>> /\ Head(work).op = "CheckOwner" /\ UNCHANGED store /\ UNCHANGED minted
      BY <1>8 DEF evaluateEnv, AtStep, Expand
    <2>2. PICK s \in {<<>>, <<Converge>>} : work' = s \o Tail(work)
      BY <1>8 DEF evaluateEnv, Expand
    <2>3. Converge \in WorkStep
      BY WorkStepTypes
    <2>4. <<>> \in Seq(WorkStep) /\ <<Converge>> \in Seq(WorkStep)
      BY <2>3
    <2>5. s \in Seq(WorkStep)
      BY <2>2, <2>4
    <2>6. Converge.op = "Converge" /\ Steps(s) \subseteq {Converge} /\ (s # <<>> => s[1] = Converge)
      BY NothingLeft, ListedOne DEF Converge
    <2>7. /\ s = <<>> => (work' # <<>> => Head(work') \in Rest(work))
          /\ s # <<>> => Head(work') = s[1]
          /\ Steps(work') \subseteq Steps(s) \cup Rest(work)
      BY <1>0, <2>1, <2>2, <2>5, ExpandWork
    <2>8. work' # <<>> => Head(work').op \in LaterOps \cup {"CheckOwner", "Converge"}
      BY <1>5, <2>1, <2>6, <2>7
    <2>9. Arriving' = {} /\ Leaving' = {}
      BY <2>8, LaterAddsNone
    <2>10. \A x \in Steps(work') : Unwanted(x)
      BY <1>4, <1>5, <2>1, <2>6, <2>7
    <2> QED
      BY <1>3, <2>1, <2>9, <2>10
  <1>9. CASE ConvergeEnv
    <2>1. work # <<>> /\ Head(work).op = "Converge" /\ UNCHANGED store
      BY <1>9, ConvergePlaces
    <2>2. PICK k \in Nat, puts \in [AssignmentId -> NewReplica] :
              /\ Cardinality(Homed) + k <= MinReplicas /\ minted' = minted + k
              /\ \A a \in AssignmentId :
                    IF a \in (minted + 1)..(minted + k)
                    THEN puts[a].desired = "RUN" /\ puts[a].rel = env.active
                    ELSE puts[a] = NoAssignment
              /\ work' = BatchSteps(puts, {}, Reapable(AssignmentId)) \o Tail(work)
      BY <1>9, ConvergeAdds
    <2> DEFINE New == {a \in AssignmentId : puts[a].desired = "RUN"}
    <2>3. PICK reap \in SUBSET AssignmentId : reap = Reapable(AssignmentId)
      BY DEF Reapable
    <2>4. PICK s : s = BatchSteps(puts, {}, reap)
      OBVIOUS
    <2>5. /\ s \in Seq(WorkStep)
          /\ s # <<>> => s[1] = Batch(puts, {}) \/ s[1] = DeleteAssignments(reap)
          /\ \A x \in Steps(s) : x = Batch(puts, {}) \/ x = DeleteAssignments(reap)
      <3>1. s \in Seq(WorkStep)
        BY <2>4, BatchShape
      <3>2. s # <<>> => s[1] = Batch(puts, {}) \/ s[1] = DeleteAssignments(reap)
        BY <2>4, BatchShape
      <3>3. \A x \in Steps(s) : x = Batch(puts, {}) \/ x = DeleteAssignments(reap)
        BY <2>4, BatchShape
      <3> QED
        BY <3>1, <3>2, <3>3
    <2>6. work' = s \o Tail(work)
      BY <2>2, <2>3, <2>4
    <2>7. /\ s = <<>> => (work' # <<>> => Head(work') \in Rest(work))
          /\ s # <<>> => work' # <<>> /\ Head(work') = s[1]
          /\ Steps(work') \subseteq Steps(s) \cup Rest(work)
      BY <1>0, <2>1, <2>5, <2>6, ExpandWork
    <2>8. \/ Arriving' = New /\ Leaving' = {}
          \/ Arriving' = {} /\ Leaving' = {}
      <3>1. CASE work' # <<>> /\ Head(work') = Batch(puts, {})
        BY <3>1, BatchAhead
      <3>2. CASE work' = <<>> \/ Head(work').op \in LaterOps
        BY <3>2, LaterAddsNone
      <3>3. DeleteAssignments(reap).op \in LaterOps
        BY BatchFields DEF LaterOps
      <3> QED
        BY <1>5, <2>1, <2>5, <2>7, <3>1, <3>2, <3>3
    <2>9. \A a \in New : /\ a \in (minted + 1)..(minted + k) /\ a <= minted' /\ ~Stored(a)
                         /\ puts[a].rel = env.active
      <3>1. ASSUME NEW a \in New PROVE a \in (minted + 1)..(minted + k) /\ puts[a].rel = env.active
        BY <2>2 DEF NoAssignment
      <3>2. \A a \in (minted + 1)..(minted + k) : a <= minted + k /\ ~(a <= minted)
        BY <1>0
      <3> QED
        BY <2>2, <3>1, <3>2 DEF OfActive
    <2>10. Cardinality(Homed \cup Arriving') <= MinReplicas
      <3>1. IsFiniteSet(Homed) /\ Cardinality(Homed) \in Nat /\ MinReplicas \in Nat
        BY <1>1, FewAssignments, StoreAssumption
      <3>2. PICK F : F = (minted + 1)..(minted + k)
        OBVIOUS
      <3>3. IsFiniteSet(F) /\ Cardinality(F) = k
        <4>1. minted + 1 \in Int /\ minted + k \in Int
          BY <1>0
        <4>2. IsFiniteSet(F) /\ Cardinality(F) = IF minted + 1 > minted + k THEN 0
                                                 ELSE (minted + k) - (minted + 1) + 1
          BY <3>2, <4>1, FS_Interval
        <4> QED
          BY <1>0, <4>2
      <3>4. New \subseteq F
        BY <2>9, <3>2
      <3>5. IsFiniteSet(Arriving') /\ Cardinality(Arriving') <= k /\ Cardinality(Arriving') \in Nat
        <4>1. Arriving' \subseteq F
          BY <2>8, <3>4
        <4> HIDE DEF New
        <4>2. IsFiniteSet(Arriving') /\ Cardinality(Arriving') <= k
          BY <3>3, <4>1, FS_Subset
        <4> QED
          BY <4>2, FS_CardinalityType
      <3>6. Cardinality(Homed \cup Arriving') <= Cardinality(Homed) + Cardinality(Arriving')
            /\ Cardinality(Homed \cup Arriving') \in Nat
        <4>1. IsFiniteSet(Homed \cup Arriving') /\ IsFiniteSet(Homed \cap Arriving')
          BY <3>1, <3>5, FS_Union, FS_Intersection
        <4>2. Cardinality(Homed \cup Arriving') =
                 Cardinality(Homed) + Cardinality(Arriving') - Cardinality(Homed \cap Arriving')
          BY <3>1, <3>5, FS_Union
        <4>3. Cardinality(Homed \cap Arriving') \in Nat /\ Cardinality(Homed \cup Arriving') \in Nat
          BY <4>1, FS_CardinalityType
        <4> QED
          BY <3>1, <3>5, <4>2, <4>3
      <3> QED
        BY <2>2, <3>1, <3>5, <3>6
    <2>11. \A x \in Steps(work') : Unwanted(x)
      <3>1. Unwanted(DeleteAssignments(reap)) /\ Unwanted(Batch(puts, {}))
        BY <1>6, <2>3, BatchFields
      <3> QED
        BY <1>4, <1>5, <2>1, <2>5, <2>7, <3>1
    <2>12. \A x \in Steps(work') : x.op = "DeleteAssignments" => \A a \in x.ids : a \notin Arriving'
      <3>1. DeleteAssignments(reap).ids = reap /\ Batch(puts, {}).op = "Batch"
        BY BatchFields
      <3>2. \A a \in reap : Stored(a)
        BY <2>3 DEF Reapable, Stored
      <3>3. \A x \in Rest(work) : x.op # "DeleteAssignments"
        BY <1>0, <2>1 DEF WorkOrder
      <3> QED
        BY <2>5, <2>7, <2>8, <2>9, <3>1, <3>2, <3>3
    <2>13. \A a \in Arriving' : Head(work').puts[a].rel = env.active
      <3>1. CASE work' # <<>> /\ Head(work') = Batch(puts, {})
        BY <2>8, <2>9, <3>1, BatchFields
      <3>2. CASE work' = <<>> \/ Head(work').op \in LaterOps
        BY <3>2, LaterAddsNone
      <3>3. DeleteAssignments(reap).op \in LaterOps
        BY BatchFields DEF LaterOps
      <3> QED
        BY <1>5, <2>1, <2>5, <2>7, <3>1, <3>2, <3>3
    <2>14. minted' \in Nat /\ minted' >= minted
      BY <1>0, <2>2
    <2>15. Ready \ Leaving' = Ready /\ Leaving' = {}
      BY <2>8
    <2>16. \A a \in Arriving' : a <= minted' /\ ~Stored(a)
      BY <2>8, <2>9
    <2> HIDE DEF New
    <2> QED
      BY <1>2, <2>1, <2>10, <2>11, <2>12, <2>13, <2>14, <2>15, <2>16, KeepReads DEF Stays
  <1>10. CASE reconcileOrphans
    <2>1. work # <<>> /\ UNCHANGED store /\ UNCHANGED minted
      BY <1>10 DEF reconcileOrphans, AtStep, Expand
    <2> DEFINE orphans == {a \in AssignmentId : Stored(a) /\ release[assignment[a].rel] = "ABSENT"}
    <2>2. Running(orphans) = {}
      BY DEF Running, OfActive
    <2>3. PICK reap \in SUBSET AssignmentId :
             reap = Reapable(orphans) /\ work' = BatchSteps(NoPuts, {}, reap) \o Tail(work)
      <3>1. Reapable(orphans) \in SUBSET AssignmentId
        BY DEF Reapable
      <3> QED
        BY <1>10, <2>2, <3>1 DEF reconcileOrphans, Expand
    <2> HIDE DEF orphans
    <2>4. PICK s : s = BatchSteps(NoPuts, {}, reap)
      OBVIOUS
    <2>5. /\ s \in Seq(WorkStep)
          /\ s # <<>> => s[1] = Batch(NoPuts, {}) \/ s[1] = DeleteAssignments(reap)
          /\ \A x \in Steps(s) : x = Batch(NoPuts, {}) \/ x = DeleteAssignments(reap)
      <3>1. s \in Seq(WorkStep)
        BY <2>4, BatchShape, PutTypes
      <3>2. s # <<>> => s[1] = Batch(NoPuts, {}) \/ s[1] = DeleteAssignments(reap)
        BY <2>4, BatchShape, PutTypes
      <3>3. \A x \in Steps(s) : x = Batch(NoPuts, {}) \/ x = DeleteAssignments(reap)
        BY <2>4, BatchShape, PutTypes
      <3> QED
        BY <3>1, <3>2, <3>3
    <2>6. /\ s = <<>> => (work' # <<>> => Head(work') \in Rest(work))
          /\ s # <<>> => work' # <<>> /\ Head(work') = s[1]
          /\ Steps(work') \subseteq Steps(s) \cup Rest(work)
      BY <1>0, <2>1, <2>3, <2>4, <2>5, ExpandWork
    <2>7. Arriving' = {} /\ Leaving' = {}
      <3>1. CASE work' # <<>> /\ Head(work') = Batch(NoPuts, {})
        BY <3>1, BatchAhead, NoPutsAdd
      <3>2. CASE work' = <<>> \/ Head(work').op \in LaterOps
        BY <3>2, LaterAddsNone
      <3>3. DeleteAssignments(reap).op \in LaterOps
        BY BatchFields DEF LaterOps
      <3> QED
        BY <1>5, <2>1, <2>5, <2>6, <3>1, <3>2, <3>3
    <2>8. \A x \in Steps(work') : Unwanted(x)
      <3>1. Unwanted(DeleteAssignments(reap)) /\ Unwanted(Batch(NoPuts, {}))
        BY <1>6, <2>3, BatchFields
      <3> QED
        BY <1>4, <1>5, <2>1, <2>5, <2>6, <3>1
    <2> QED
      BY <1>3, <2>1, <2>7, <2>8
  <1>11. CASE ListDrainingNodes
    <2>1. work # <<>> /\ UNCHANGED store /\ UNCHANGED minted
      BY <1>11, ListDecides
    <2>2. PICK s \in Seq(WorkStep) : work' = s \o Tail(work) /\ \A x \in Steps(s) : x.op = "Drain"
      BY <1>11, ListDecides
    <2>3. s # <<>> => s[1] \in Steps(s)
      BY HeadAndRest
    <2>4. /\ s = <<>> => (work' # <<>> => Head(work') \in Rest(work))
          /\ s # <<>> => work' # <<>> /\ Head(work') = s[1]
          /\ Steps(work') \subseteq Steps(s) \cup Rest(work)
      BY <1>0, <2>1, <2>2, ExpandWork
    <2>5. work' # <<>> => Head(work').op \in LaterOps
      BY <1>5, <2>1, <2>2, <2>3, <2>4 DEF LaterOps
    <2>6. Arriving' = {} /\ Leaving' = {}
      BY <2>5, LaterAddsNone
    <2>7. \A x \in Steps(work') : Unwanted(x)
      BY <1>4, <1>5, <2>1, <2>2, <2>4
    <2> QED
      BY <1>3, <2>1, <2>6, <2>7
  <1>12. CASE reconcileDrain
    <2>1. PICK n \in Node : n = Head(work).node
      BY <1>12, DrainDecides
    <2>2. work # <<>> /\ UNCHANGED store /\ UNCHANGED minted
      BY <1>12, DrainDecides
    <2>3. PICK stop, reap : stop = Replaced(n) /\ reap = Reapable(Hosted(n))
      OBVIOUS
    <2>4. PICK s \in Seq(WorkStep) :
             /\ work' = s \o Tail(work)
             /\ s # <<>> => s[1] \in {Batch(NoPuts, stop), DeleteAssignments(reap), SetDrained(n)}
             /\ \A x \in Steps(s) : \/ x = Batch(NoPuts, stop) /\ stop # {}
                                    \/ x = DeleteAssignments(reap)
                                    \/ x = SetDrained(n)
      BY <1>12, <2>1, <2>3, DrainDecides
    <2>5. /\ s = <<>> => (work' # <<>> => Head(work') \in Rest(work))
          /\ s # <<>> => work' # <<>> /\ Head(work') = s[1]
          /\ Steps(work') \subseteq Steps(s) \cup Rest(work)
      BY <1>0, <2>2, <2>4, ExpandWork
    <2>6. /\ Batch(NoPuts, stop).op = "Batch" /\ DeleteAssignments(reap).op = "DeleteAssignments"
          /\ SetDrained(n).op = "SetDrained"
      BY BatchFields
    <2>7. \A x \in Steps(work') : Unwanted(x)
      <3>1. Unwanted(DeleteAssignments(reap)) /\ Unwanted(Batch(NoPuts, stop)) /\ Unwanted(SetDrained(n))
        BY <1>6, <2>3, <2>6
      <3> QED
        BY <1>4, <1>5, <2>2, <2>4, <2>5, <3>1
    <2>8. CASE work' = <<>> \/ Head(work').op \in LaterOps
      <3>1. Arriving' = {} /\ Leaving' = {}
        BY <2>8, LaterAddsNone
      <3> QED
        BY <1>3, <2>2, <2>7, <3>1
    <2>9. CASE work' # <<>> /\ s # <<>> /\ s[1] = Batch(NoPuts, stop)
      <3>1. s[1] \in Steps(s)
        BY <2>9, HeadAndRest
      <3>2. PICK a \in Replaced(n) : TRUE
        <4>1. DeleteAssignments(reap) # Batch(NoPuts, stop) /\ SetDrained(n) # Batch(NoPuts, stop)
          BY <2>6
        <4> QED
          BY <2>3, <2>4, <2>9, <3>1, <4>1
      <3>3. replacementReady(a) /\ a \in AssignmentId /\ assignment[a].node = n
        BY DEF Replaced, Running, Hosted
      <3>4. desiredReplicas(env) = MinReplicas
        BY DEF desiredReplicas, CalmInv
      <3> DEFINE Others == {b \in Running(AssignmentId) :
                              /\ assignment[b].node # assignment[a].node
                              /\ assignment[b].rel = assignment[a].rel
                              /\ assignment[b].obs \in {"RUNNING", "HEALTHY"}}
      <3>5. Cardinality(Others) >= MinReplicas
        BY <3>3, <3>4 DEF replacementReady
      <3>6. stop \subseteq Hosted(n) /\ Hosted(n) \subseteq AssignmentId
            /\ \A b \in Hosted(n) : Stored(b) /\ assignment[b].node = n
        BY <2>3 DEF Replaced, Running, Hosted
      <3>7. Others \in SUBSET (Ready \ stop)
        BY <3>3, <3>6 DEF OfActive, Ready, Running
      <3>8. Arriving' = {} /\ Leaving' = stop
        BY <2>5, <2>9, BatchAhead, NoPutsAdd
      <3> HIDE DEF Others
      <3>9. Cardinality(Ready \ Leaving') >= MinReplicas
        <4>1. Ready \ Leaving' \in SUBSET AssignmentId /\ Others \in SUBSET (Ready \ Leaving')
          BY <1>1, <3>7, <3>8
        <4> QED
          BY <3>5, <4>1, MoreStill
      <3>10. Homed \cup Arriving' = Homed /\ minted' \in Nat /\ minted' >= minted
        BY <1>0, <2>2, <3>8
      <3>11. \A b \in Leaving' : b <= minted'
        BY <2>2, <3>6, <3>8 DEF OfActive
      <3> QED
        BY <1>2, <2>2, <2>7, <3>8, <3>9, <3>10, <3>11, KeepReads DEF Stays
    <2>10. DeleteAssignments(reap).op \in LaterOps /\ SetDrained(n).op \in LaterOps
      BY <2>6 DEF LaterOps
    <2> QED
      BY <1>5, <2>2, <2>4, <2>5, <2>8, <2>9, <2>10
  <1>13. CASE applyBatch
    <2>1. work # <<>> /\ Head(work).op = "Batch" /\ UNCHANGED store /\ UNCHANGED minted
      BY <1>13, BatchDecides
    <2>2. CASE work' = <<>> \o Tail(work)
      <3>1. /\ \A r \in Steps(work') : r \in Rest(work)
            /\ work' # <<>> => Head(work').op \in LaterOps
        <4>1. <<>> \in Seq(WorkStep)
          OBVIOUS
        <4> QED
          BY <1>0, <1>5, <2>1, <2>2, <4>1, ExpandWork, NothingLeft
      <3>2. Arriving' = {} /\ Leaving' = {}
        BY <3>1, LaterAddsNone
      <3> QED
        BY <1>3, <1>4, <1>5, <2>1, <3>1, <3>2
    <2>3. ASSUME NEW puts \in [AssignmentId -> SchedPut],
                 work' = <<PutAssignments(puts)>> \o Tail(work),
                 \A a \in AssignmentId :
                    IF a \in Head(work).stop /\ assignment[a].desired = "RUN"
                    THEN puts[a].desired = "STOP" ELSE puts[a] = Head(work).puts[a]
          PROVE  Stays
      <3>1. PICK s : s = <<PutAssignments(puts)>>
        OBVIOUS
      <3>2. s \in Seq(WorkStep) /\ Steps(s) = {PutAssignments(puts)}
            /\ s # <<>> /\ s[1] = PutAssignments(puts)
        BY <3>1, WorkStepTypes, ListedOne
      <3>3. /\ Steps(work') \subseteq Steps(s) \cup Rest(work)
            /\ work' # <<>> /\ Head(work') = PutAssignments(puts)
        BY <1>0, <2>1, <2>3, <3>1, <3>2, ExpandWork
      <3>4. PutAssignments(puts).op = "PutAssignments" /\ PutAssignments(puts).puts = puts
        BY BatchFields
      <3>5. /\ Arriving' = {a \in AssignmentId : puts[a].desired = "RUN"}
            /\ Leaving' = {a \in AssignmentId : puts[a].desired = "STOP"}
        BY <3>3, PutAhead
      <3>6. Leaving = Head(work).stop /\ Arriving = {a \in AssignmentId : Head(work).puts[a].desired = "RUN"}
        BY <2>1 DEF Leaving, Arriving, HeadIs
      <3>7. \A a \in AssignmentId : Head(work).puts[a].desired # "STOP"
        <4>1. Head(work).puts \in [AssignmentId -> NewReplica]
          BY <1>5, <2>1, WorkStepFields
        <4>2. \A p \in NewReplica : p.desired # "STOP"
          BY DEF NewReplica, NoAssignment
        <4> QED
          BY <4>1, <4>2
      <3>8. \A a \in Arriving' : a \in Arriving /\ puts[a] = Head(work).puts[a]
        BY <2>3, <3>5, <3>6
      <3>9. Leaving' \subseteq Leaving
        BY <2>3, <3>5, <3>6, <3>7
      <3>10. Cardinality(Homed \cup Arriving') <= MinReplicas
        <4>1. Homed \cup Arriving' \in SUBSET (Homed \cup Arriving)
          BY <3>8
        <4>2. Homed \cup Arriving \in SUBSET AssignmentId
          BY <1>1
        <4> QED
          BY <4>1, <4>2, FewerStill DEF EnoughLeft
      <3>11. Cardinality(Ready \ Leaving') >= MinReplicas
        <4>1. Ready \ Leaving \in SUBSET (Ready \ Leaving')
          BY <3>9
        <4>2. Ready \ Leaving' \in SUBSET AssignmentId
          BY <1>1
        <4> QED
          BY <4>1, <4>2, MoreStill DEF EnoughLeft
      <3>12. \A a \in Arriving' : a <= minted' /\ ~Stored(a) /\ Head(work').puts[a].rel = env.active
        BY <2>1, <3>3, <3>4, <3>8 DEF OfActive
      <3>13. \A a \in Leaving' : a <= minted'
        BY <2>1, <3>9 DEF OfActive
      <3>14. \A x \in Steps(work') : x.op = "DeleteAssignments" =>
                \A a \in x.ids : assignment[a].desired # "RUN" /\ a \notin Arriving'
        BY <1>5, <2>1, <3>2, <3>3, <3>4, <3>8 DEF OfActive
      <3>15. minted' \in Nat /\ minted' >= minted
        BY <1>0, <2>1
      <3> QED
        BY <2>1, <3>10, <3>11, <3>12, <3>13, <3>14, <3>15, KeepReads DEF Stays
    <2> QED
      BY <1>13, <2>2, <2>3, BatchDecides
  <1>14. CASE SchedApply
    <2>1. work # <<>> /\ work' = Tail(work) /\ UNCHANGED minted
      BY <1>14 DEF SchedApply
    <2>2. Steps(work') \subseteq Rest(work) /\ (work' # <<>> => Head(work') \in Rest(work))
      BY <1>0, <2>1, ShortenWork
    <2>3. Arriving' = {} /\ Leaving' = {}
      BY <1>5, <2>1, <2>2, LaterAddsNone
    <2>4. \A s \in Steps(work') : s.op = "DeleteAssignments" =>
             \A a \in s.ids : a \in AssignmentId /\ ~Wanted(a) /\ a \notin Arriving
      <3>1. \A s \in Steps(work') : s \in WorkStep /\ s \in Steps(work)
        BY <1>0, <1>5, <2>1, <2>2, HeadAndRest
      <3> QED
        BY <3>1, WorkStepFields DEF OfActive
    <2>5. CASE Head(work).op = "PutAssignments" /\ applyPutAssignments(Head(work).puts)
      <3>1. PICK puts \in [AssignmentId -> SchedPut] : puts = Head(work).puts
        BY <1>5, <2>1, <2>5, WorkStepFields
      <3>2. /\ UNCHANGED <<env, release, node>>
            /\ \A a \in AssignmentId :
                  assignment'[a] = IF puts[a] # NoAssignment THEN puts[a] ELSE assignment[a]
        BY <2>5, <3>1 DEF applyPutAssignments
      <3>3. /\ Arriving = {a \in AssignmentId : puts[a].desired = "RUN"}
            /\ Leaving = {a \in AssignmentId : puts[a].desired = "STOP"}
        BY <2>1, <2>5, <3>1 DEF Arriving, Leaving, HeadIs
      <3>4. \A a \in AssignmentId :
               \/ a \in Arriving /\ assignment'[a] = puts[a]
               \/ a \in Leaving /\ assignment'[a] = puts[a]
               \/ a \notin Arriving \cup Leaving /\ assignment'[a] = assignment[a]
        <4>1. \A p \in SchedPut : p.desired \in {"RUN", "STOP"} \/ p = NoAssignment
          BY DEF SchedPut, NewReplica
        <4>2. NoAssignment.desired = "ABSENT"
          BY DEF NoAssignment
        <4> QED
          BY <3>1, <3>2, <3>3, <4>1, <4>2
      <3>5. \A a \in Arriving : /\ a <= minted /\ ~Stored(a) /\ puts[a].rel = env.active
                                /\ puts[a].node \in Node /\ puts[a].obs = "UNSPECIFIED"
                                /\ puts[a].desired = "RUN"
        BY <1>0, <3>1, <3>3, ArrivingTyped DEF OfActive
      <3>6. \A a \in Leaving : a <= minted /\ puts[a].desired = "STOP"
        BY <3>3 DEF OfActive
      <3>7. Recorded'
        <4>1. \A a \in AssignmentId : Stored(a)' => a <= minted
          BY <3>4, <3>5, <3>6 DEF OfActive, Stored
        <4>2. \A a \in AssignmentId : assignment'[a].desired = "RUN" =>
                 /\ assignment'[a].node \in Node /\ assignment'[a].rel = env.active
                 /\ assignment'[a].obs \in {"UNSPECIFIED"} \cup UpState
          BY <3>4, <3>5, <3>6 DEF OfActive, Running
        <4> QED
          BY <2>1, <3>2, <4>1, <4>2 DEF Recorded, Running, OfActive
      <3>8. Homed' \subseteq Homed \cup Arriving
        BY <3>2, <3>4, <3>6 DEF Homed, Running, nodeDown
      <3>9. Ready \ Leaving \subseteq Ready'
        BY <3>4, <3>5 DEF Ready, Stored
      <3>10. \A s \in Steps(work') : s.op = "DeleteAssignments" =>
                \A a \in s.ids : assignment'[a].desired # "RUN"
        BY <2>4, <3>4, <3>6
      <3> QED
        BY <2>3, <3>7, <3>8, <3>9, <3>10, KeepAlone DEF Stays
    <2>6. CASE Head(work).op = "DeleteAssignments" /\ applyDeleteAssignments(Head(work).ids)
      <3>1. \A a \in Head(work).ids : ~Wanted(a)
        <4>1. Head(work) \in Steps(work)
          BY <1>0, <2>1, HeadAndRest
        <4> QED
          BY <1>4, <2>6, <4>1
      <3>2. /\ UNCHANGED <<env, release, node>>
            /\ \A a \in AssignmentId : assignment'[a].desired # "ABSENT" => assignment'[a] = assignment[a]
            /\ \A a \in AssignmentId : Wanted(a) => assignment'[a] = assignment[a]
        BY <2>6, <3>1 DEF applyDeleteAssignments, NoAssignment
      <3>3. \A a \in AssignmentId : assignment'[a].desired = "RUN" =>
               Wanted(a) /\ assignment'[a] = assignment[a]
        BY <3>2
      <3>4. Recorded'
        BY <2>1, <3>2, <3>3 DEF Recorded, OfActive, Running, Stored
      <3>5. Homed' \subseteq Homed /\ Ready \subseteq Ready'
        BY <3>2, <3>3 DEF Homed, Ready, Running, nodeDown
      <3>6. \A s \in Steps(work') : s.op = "DeleteAssignments" =>
               \A a \in s.ids : assignment'[a].desired # "RUN"
        BY <2>4, <3>3
      <3> QED
        BY <2>3, <3>4, <3>5, <3>6, KeepAlone DEF Stays
    <2>7. CASE /\ Head(work).op = "SetDrained" /\ applySetNodeStatus(Head(work).node, "DRAINED")
               /\ UNCHANGED <<env, release, deployment, build, assignment>>
      <3>1. \A m \in Node : node'[m] = node[m] \/ node'[m].status = "DRAINED"
        BY <1>0, <2>7 DEF applySetNodeStatus
      <3>2. Recorded'
        BY <2>1, <2>7 DEF Recorded, OfActive, Running, Stored
      <3>3. Homed' \subseteq Homed /\ Ready' = Ready
        BY <2>7, <3>1 DEF Homed, Ready, Running, nodeDown, OfActive
      <3>4. \A s \in Steps(work') : s.op = "DeleteAssignments" =>
               \A a \in s.ids : assignment'[a].desired # "RUN"
        BY <2>4, <2>7
      <3> QED
        BY <2>3, <3>2, <3>3, <3>4, KeepAlone DEF Stays
    <2> QED
      BY <1>14, <2>5, <2>6, <2>7 DEF SchedApply, AtStep
  <1> QED
    BY <1>7, <1>8, <1>9, <1>10, <1>11, <1>12, <1>13, <1>14 DEF SchedStep

LEMMA InitKeep ==
    ASSUME ~Stateful, ~ScaleToZero
    PROVE  ClusterInit => KeepInv
  <1> SUFFICES ASSUME ClusterInit PROVE KeepInv
    OBVIOUS
  <1>1. EmptyInv
    BY InitEmpty
  <1>2. /\ work = <<>> /\ removal = NoRemoval /\ nodeOps = 0 /\ doomed = {}
        /\ \A n \in Node : node[n].status = "ALIVE"
    BY DEF ClusterInit, Init
  <1>3. env.effective = 0
    BY DEF ClusterInit, Init
  <1>4. CalmInv
    BY <1>2, <1>3 DEF CalmInv
  <1>5. Arriving = {} /\ Leaving = {} /\ Steps(work) = {}
    BY <1>2, NoBatch, NothingLeft
  <1>6. ASSUME env.active # NoId PROVE OfActive /\ EnoughLeft
    <2>1. PICK home \in Node : assignment = [a \in AssignmentId |-> SteadyAssignment(a, home)]
      BY <1>6 DEF ClusterInit, Init
    <2>2. /\ env.active = 1 /\ MinReplicas <= MaxAssignment /\ minted = MinReplicas
          /\ release = [r \in ReleaseId |-> IF r = 1 THEN "IMAGE" ELSE "ABSENT"]
      BY <1>6 DEF ClusterInit, Init
    <2>3. 1 \in ReleaseId
      BY StoreAssumption DEF ReleaseId
    <2>4. \A a \in AssignmentId : a <= MinReplicas =>
             /\ assignment[a].node = home /\ assignment[a].rel = 1
             /\ assignment[a].desired = "RUN" /\ assignment[a].obs = "HEALTHY"
      BY <2>1 DEF SteadyAssignment, newAssignment
    <2>5. \A a \in AssignmentId : ~(a <= MinReplicas) => assignment[a].desired = "ABSENT"
      BY <2>1 DEF SteadyAssignment, NoAssignment
    <2>6. OfActive
      BY <1>2, <1>5, <2>2, <2>3, <2>4, <2>5 DEF OfActive, Running, Stored, UpState
    <2>7. {a \in AssignmentId : a <= MinReplicas} = 1..MinReplicas
      BY <2>2, StoreAssumption DEF AssignmentId
    <2>8. Homed \cup Arriving = 1..MinReplicas /\ Ready \ Leaving = 1..MinReplicas
      <3>1. Homed = {a \in AssignmentId : a <= MinReplicas}
        BY <1>2, <2>4, <2>5 DEF Homed, Running, nodeDown
      <3>2. Ready = {a \in AssignmentId : a <= MinReplicas}
        BY <2>4, <2>5 DEF Ready, UpState
      <3> QED
        BY <1>5, <2>7, <3>1, <3>2
    <2>9. Cardinality(1..MinReplicas) = MinReplicas
      <3>1. Cardinality(1..MinReplicas) = IF 1 > MinReplicas THEN 0 ELSE MinReplicas - 1 + 1
        BY StoreAssumption, FS_Interval
      <3> QED
        BY <3>1, StoreAssumption
    <2>10. Cardinality(Homed \cup Arriving) = MinReplicas /\ Cardinality(Ready \ Leaving) = MinReplicas
      BY <2>8, <2>9
    <2>11. MinReplicas <= MinReplicas /\ MinReplicas >= MinReplicas
      BY StoreAssumption
    <2>12. EnoughLeft
      BY <2>10, <2>11 DEF EnoughLeft
    <2> QED
      BY <2>6, <2>12
  <1> QED
    BY <1>1, <1>4, <1>6 DEF KeepInv

\* When nodes are only drained, nothing else is done to them.
LEMMA DrainsOnly ==
    ASSUME CalmInv, OnlyDrains, NEW n \in Node,
           DrainNode(n) \/ UncordonNode(n) \/ MarkDown(n) \/ MarkAlive(n) \/ BeginRemove(n)
    PROVE  \E m \in Node : DrainNode(m)
  <1>1. nodeOps' = nodeOps + 1 /\ nodeOps \in Nat
    BY DEF DrainNode, UncordonNode, MarkDown, MarkAlive, BeginRemove, NodeOp, CalmInv
  <1>2. nodeOps' # nodeOps
    BY <1>1
  <1> QED
    BY <1>2 DEF OnlyDrains

LEMMA NextKeep ==
    ASSUME ~Stateful, ~ScaleToZero, Inputs = {}, Reports \subseteq UpState
    PROVE  ClusterTypes /\ KeepInv /\ [ClusterNext /\ OnlyDrains]_clusterVars => KeepInv'
  <1> SUFFICES ASSUME ClusterTypes, KeepInv, [ClusterNext /\ OnlyDrains]_clusterVars
               PROVE  KeepInv'
    OBVIOUS
  <1>0. /\ TypeInv /\ SchedTypes /\ EmptyInv /\ CalmInv /\ NoRollout
        /\ node \in [Node -> NodeRecord] /\ assignment \in [AssignmentId -> Assignment]
        /\ env \in Environment /\ doomed \subseteq ReleaseId
        /\ release \in [ReleaseId -> {"ABSENT", "SOURCE", "IMAGE"}]
    BY DEF KeepInv, ClusterTypes, EmptyInv, TypeInv, TypeOK, StoreTypeOK
  <1>1. EmptyInv' /\ ClusterTypes'
    BY NextEmpty, NextCluster, <1>0
  <1> DEFINE Calm == CalmInv' /\ UNCHANGED env
             Keeps == env.active # NoId => OfActive' /\ EnoughLeft'
  <1>2. Calm /\ Keeps => KeepInv'
    BY <1>1 DEF KeepInv
  <1>3. env.active # NoId => OfActive /\ EnoughLeft /\ Recorded
    BY DEF KeepInv, OfActive, Recorded
  <1>4. UNCHANGED <<env, sched, removal, nodeOps>> /\ UNCHANGED node => Calm
    BY <1>0 DEF CalmInv, sched
  <1> HIDE DEF Calm, Keeps
  <1>5. CASE RolloutStep
    <2>1. Sweep /\ UNCHANGED <<sched, nodes>>
      BY <1>0, <1>5, SweepsOnly
    <2>2. UNCHANGED <<env, assignment, node, minted>>
      BY <2>1, SweepSteps
    <2>3. Calm
      BY <1>4, <2>1, <2>2 DEF nodes
    <2>4. Keeps
      <3> SUFFICES ASSUME env.active # NoId PROVE OfActive' /\ EnoughLeft'
        BY DEF Keeps
      <3>1. env.active \notin doomed' /\ release'[env.active] # "ABSENT"
        <4>1. CASE sweepEnv
          BY <1>3, <4>1 DEF sweepEnv, store, Recorded
        <4>2. ASSUME NEW r \in ReleaseId, DeleteRelease(r) PROVE env.active \notin doomed' /\ release'[env.active] # "ABSENT"
          <5>1. r # env.active /\ env.active \in ReleaseId
            BY <1>0, <1>3, <4>2 DEF DeleteRelease, Recorded, Environment
          <5> QED
            BY <1>0, <1>3, <4>2, <5>1 DEF DeleteRelease, Recorded
        <4> QED
          BY <2>1, <4>1, <4>2 DEF Sweep
      <3>2. Recorded'
        BY <1>3, <2>2, <3>1 DEF Recorded, Running, Stored
      <3>3. Homed' = Homed /\ Ready' = Ready /\ UNCHANGED work
        BY <2>1, <2>2 DEF Homed, Ready, Running, nodeDown, sched
      <3> QED
        BY <1>3, <2>2, <3>2, <3>3, KeepElsewhere
    <2> QED
      BY <1>2, <2>3, <2>4
  <1>6. CASE ScheduleStep
    <2>1. SchedStep /\ UNCHANGED <<rollout, nodes>>
      BY <1>6 DEF ScheduleStep
    <2>2. UNCHANGED env
      BY <2>1, SchedSteps
    <2>3. UNCHANGED <<doomed, removal, nodeOps>>
      BY <2>1 DEF rollout, nodes
    <2>4. work' # <<>> => view' = env
      <3>1. CASE evaluate
        BY <3>1 DEF evaluate
      <3>2. CASE ~evaluate
        <4>1. work # <<>> /\ UNCHANGED view
          BY <2>1, <3>2, SchedReads DEF SchedApply
        <4> QED
          BY <1>0, <4>1 DEF CalmInv
      <3> QED
        BY <3>1, <3>2
    <2>5. \A n \in Node : node'[n] = node[n] \/ node'[n].status = "DRAINED"
      <3>1. UNCHANGED node \/ \E m : node' = [node EXCEPT ![m].status = "DRAINED"]
        <4>1. CASE SchedApply
          BY <4>1 DEF SchedApply, applyPutAssignments, applyDeleteAssignments, applySetNodeStatus
        <4>2. CASE ~SchedApply
          <5>1. UNCHANGED store
            BY <2>1, <4>2, SchedReads DEF evaluate
          <5> QED
            BY <5>1 DEF store
        <4> QED
          BY <4>1, <4>2
      <3>2. ASSUME NEW m, node' = [node EXCEPT ![m].status = "DRAINED"], NEW n \in Node
            PROVE  node'[n] = node[n] \/ node'[n].status = "DRAINED"
        <4>1. n # m => node'[n] = node[n]
          BY <1>0, <3>2
        <4>2. n = m => node'[n] = [node[n] EXCEPT !.status = "DRAINED"]
          BY <1>0, <3>2
        <4>3. node[n] \in NodeRecord
          BY <1>0
        <4> QED
          BY <4>1, <4>2, <4>3 DEF NodeRecord
      <3> QED
        BY <3>1, <3>2
    <2>6. Calm
      BY <1>0, <2>2, <2>3, <2>4, <2>5 DEF Calm, CalmInv
    <2>7. Keeps
      BY <1>0, <1>1, <1>3, <2>1, <2>3, SchedKeeps DEF Keeps
    <2> QED
      BY <1>2, <2>6, <2>7
  <1>7. CASE LeaderMoves
    <2>1. doomed' = {} /\ work' = <<>> /\ UNCHANGED <<store, minted, nodes>>
      BY <1>7 DEF LeaderMoves
    <2>2. UNCHANGED <<env, release, assignment, node, minted, removal, nodeOps>>
      BY <2>1 DEF store, nodes
    <2>3. Calm
      BY <1>0, <2>1, <2>2 DEF Calm, CalmInv
    <2>4. Arriving' = {} /\ Leaving' = {} /\ Steps(work') = {}
      BY <2>1, LaterAddsNone, NothingLeft
    <2>5. Homed' = Homed /\ Ready' = Ready
      BY <2>2 DEF Homed, Ready, Running, nodeDown
    <2>6. Keeps
      <3> SUFFICES ASSUME env.active # NoId PROVE OfActive' /\ EnoughLeft'
        BY DEF Keeps
      <3>1. Recorded'
        BY <1>3, <2>1, <2>2 DEF Recorded, Running, Stored
      <3> QED
        BY <1>1, <1>3, <2>4, <2>5, <3>1, KeepAlone
    <2> QED
      BY <1>2, <2>3, <2>6
  <1>8. CASE RemoveNode
    BY <1>0, <1>8 DEF RemoveNode, CalmInv, NoRemoval
  <1>9. ASSUME NEW a \in AssignmentId, AgentReport(a) PROVE KeepInv'
    <2>1. UNCHANGED <<tables, node, minted, rollout, sched>> /\ UNCHANGED nodes
      BY <1>0, <1>9, ReportSteps DEF AgentReport
    <2>2. UNCHANGED <<env, release, doomed, removal, nodeOps, work>>
      BY <2>1 DEF tables, rollout, nodes, sched
    <2>3. Calm
      BY <1>4, <2>1, <2>2
    <2>4. \A b \in AssignmentId : /\ assignment'[b].desired = assignment[b].desired
                                  /\ assignment'[b].node = assignment[b].node
                                  /\ assignment'[b].rel = assignment[b].rel
                                  /\ b # a => assignment'[b] = assignment[b]
      BY <1>0, <1>9, ReportSteps
    <2>5. env.active # NoId /\ assignment[a].desired = "RUN" => assignment'[a].obs \in UpState
      <3>1. PICK s \in IF assignment[a].desired = "STOP" THEN {"STOPPED"} ELSE Reports :
               assignment'[a].obs = MergeObserved(assignment[a].obs, s)
        BY <1>0, <1>9, ReportSteps
      <3>2. env.active # NoId /\ assignment[a].desired = "RUN" =>
               assignment[a].obs \in {"UNSPECIFIED", "RUNNING", "HEALTHY"}
        BY <1>3 DEF Recorded, Running, UpState
      <3> QED
        BY <3>1, <3>2 DEF MergeObserved, UpState
    <2>6. Keeps
      <3> SUFFICES ASSUME env.active # NoId PROVE OfActive' /\ EnoughLeft'
        BY DEF Keeps
      <3>1. Recorded'
        BY <1>3, <2>1, <2>2, <2>4, <2>5 DEF Recorded, Running, Stored
      <3>2. Homed' \subseteq Homed
        BY <2>1, <2>4 DEF Homed, Running, nodeDown
      <3>3. Ready \subseteq Ready'
        BY <2>4, <2>5 DEF Ready
      <3> QED
        BY <1>3, <2>1, <2>2, <2>4, <3>1, <3>2, <3>3, KeepElsewhere
    <2> QED
      BY <1>2, <2>3, <2>6
  <1>10. ASSUME NEW n \in Node, DrainNode(n) PROVE KeepInv'
    <2>1. /\ UNCHANGED <<tables, assignment, minted, rollout, sched, removal>>
          /\ nodeOps' = nodeOps + 1
          /\ node' = [node EXCEPT ![n] = [status |-> "DRAINING", schedulable |-> FALSE]]
      BY <1>10 DEF DrainNode, NodeOp, NodeCommand, applySetNodeSchedulable, Known
    <2>2. UNCHANGED <<env, release, doomed, work, view>>
      BY <2>1 DEF tables, rollout, sched
    <2>3. \A m \in Node : node'[m] = node[m] \/ node'[m].status = "DRAINING"
      BY <1>0, <2>1
    <2>4. nodeOps' \in Nat
      BY <1>0, <2>1 DEF CalmInv
    <2>5. Calm
      BY <1>0, <2>1, <2>2, <2>3, <2>4 DEF Calm, CalmInv
    <2>6. Keeps
      <3> SUFFICES ASSUME env.active # NoId PROVE OfActive' /\ EnoughLeft'
        BY DEF Keeps
      <3>1. Recorded'
        BY <1>3, <2>1, <2>2 DEF Recorded, Running, Stored
      <3>2. Homed' \subseteq Homed
        BY <1>3, <2>1, <2>3 DEF Homed, Running, nodeDown, Recorded
      <3>3. Ready' = Ready
        BY <2>1 DEF Ready
      <3> QED
        BY <1>3, <2>1, <2>2, <3>1, <3>2, <3>3, KeepElsewhere
    <2> QED
      BY <1>2, <2>5, <2>6
  <1>11. ASSUME NEW n \in Node, OnlyDrains,
                DrainNode(n) \/ UncordonNode(n) \/ MarkDown(n) \/ MarkAlive(n) \/ BeginRemove(n)
         PROVE  KeepInv'
    BY <1>0, <1>10, <1>11, DrainsOnly
  <1>12. CASE UNCHANGED clusterVars
    <2>1. UNCHANGED <<vars, sched, nodes>>
      BY <1>12 DEF clusterVars
    <2>2. UNCHANGED <<env, release, assignment, node, minted, doomed, removal, nodeOps, sched, work>>
      BY <2>1 DEF vars, store, nodes, sched
    <2>3. Calm
      BY <1>4, <2>2
    <2>4. Keeps
      <3> SUFFICES ASSUME env.active # NoId PROVE OfActive' /\ EnoughLeft'
        BY DEF Keeps
      <3>1. Recorded' /\ Homed' = Homed /\ Ready' = Ready
        BY <1>3, <2>2 DEF Recorded, Running, Stored, Homed, Ready, nodeDown
      <3> QED
        BY <1>3, <2>2, <3>1, KeepElsewhere
    <2> QED
      BY <1>2, <2>3, <2>4
  <1> QED
    BY <1>5, <1>6, <1>7, <1>8, <1>9, <1>11, <1>12 DEF ClusterNext

LEMMA KeepStaffed == ClusterTypes /\ KeepInv => KeptUp
  <1> SUFFICES ASSUME ClusterTypes, KeepInv, env.active # NoId
               PROVE  Cardinality(upReplicas) >= MinReplicas
    BY DEF KeptUp
  <1>1. OfActive /\ EnoughLeft /\ DrainedEmpty /\ CalmInv
    BY DEF KeepInv, EmptyInv, DrainInv
  <1>2. Ready \ Leaving \in SUBSET upReplicas
    BY <1>1 DEF Ready, UpState, upReplicas, OfActive, Running, DrainedEmpty, CalmInv
  <1>3. upReplicas \in SUBSET AssignmentId
    BY DEF upReplicas
  <1> QED
    BY <1>1, <1>2, <1>3, MoreStill DEF EnoughLeft

\* A drain migrates before it stops: when nodes are drained and nothing else happens
\* to them, and no instance fails, the release that serves always has as many
\* replicas up as it needs, however many nodes are drained at once, wherever the
\* leader changes and however late the agents' reports are (replacementReady).  Up
\* is RUNNING or HEALTHY, as in the code; see Served for what is promised of HEALTHY.
THEOREM DrainsKeepUp ==
    ASSUME ~Stateful, ~ScaleToZero, Inputs = {}, Reports \subseteq UpState
    PROVE  ClusterSpec /\ [][OnlyDrains]_clusterVars => []KeptUp
  <1>1. ClusterTypes /\ KeepInv /\ [ClusterNext]_clusterVars /\ [OnlyDrains]_clusterVars => KeepInv'
    <2>1. [ClusterNext]_clusterVars /\ [OnlyDrains]_clusterVars
            => [ClusterNext /\ OnlyDrains]_clusterVars
      OBVIOUS
    <2> QED
      BY <2>1, NextKeep
  <1> QED
    BY <1>1, InitKeep, KeepStaffed, InitCluster, NextCluster, PTL DEF ClusterSpec

\* The same for the behaviours of the two parts together in which nodes are only
\* drained: reconcileDrains never stops a replica that has no replacement.
THEOREM DrainsKeepReplicas ==
    ASSUME ~Stateful, ~ScaleToZero, Inputs = {}, Reports \subseteq UpState
    PROVE  HealSpec => []DrainKeepsReplicas
  <1> DEFINE HealInv == ClusterTypes /\ (focus = "drains" => KeepInv)
  <1>1. HealInit => HealInv
    BY InitCluster, InitKeep DEF HealInit
  <1>2. HealInv /\ [HealNext]_<<clusterVars, meshVars, focus>> => HealInv'
    <2> SUFFICES ASSUME HealInv, [HealNext]_<<clusterVars, meshVars, focus>> PROVE HealInv'
      OBVIOUS
    <2>1. /\ [ClusterNext]_clusterVars /\ UNCHANGED focus
          /\ focus = "drains" => [ClusterNext /\ OnlyDrains]_clusterVars
      BY DEF HealNext
    <2>2. ClusterTypes'
      BY <2>1, NextCluster
    <2>3. focus = "drains" => KeepInv'
      BY <2>1, NextKeep
    <2> QED
      BY <2>1, <2>2, <2>3
  <1>3. HealInv => DrainKeepsReplicas
    BY KeepStaffed DEF DrainKeepsReplicas
  <1> HIDE DEF HealInv
  <1> QED
    BY <1>1, <1>2, <1>3, PTL DEF HealSpec

(***************************************************************************)
(* Mesh paths.  Before anything changes, the addresses that answer stay    *)
(* the same: a keepalive is answered before the next tick, so no           *)
(* evaluation ever copies a miss.                                          *)
(***************************************************************************)
Answering == reachable \cup {NoAddr}

PathInv ==
    /\ changes \in Nat /\ misses \in Nat
    /\ reachable \subseteq Addr /\ answers \subseteq Addr
    /\ changes = 0 =>
          /\ answers \subseteq reachable /\ verified \in Answering
          /\ due => misses = 0
          /\ misses # 0 => answers # {}
          /\ glance.taken => open /\ due /\ glance.misses = 0
                               /\ glance.verified \in Answering

LEMMA PathInit == MeshInit => PathInv
  BY DEF MeshInit, PathInv, NoGlance, Answering

\* A drop needs a miss, and a miss outlives its tick only after a change.
LEMMA PathStep ==
    ASSUME PathInv, [MeshNext]_meshVars
    PROVE  PathInv' /\ (changes = 0 /\ verified # NoAddr => verified' # NoAddr)
  <1> DEFINE Stays == PathInv' /\ (changes = 0 /\ verified # NoAddr => verified' # NoAddr)
  <1> SUFFICES Stays
    OBVIOUS
  <1> USE DEF PathInv, Answering
  <1>1. CASE Glance
    <2>1. glance'.taken = TRUE /\ glance'.misses = misses /\ glance'.verified = verified
      BY <1>1 DEF Glance
    <2> QED
      BY <1>1, <2>1 DEF Glance, peerBook
  <1>2. CASE Keepalive
    <2>1. ~glance'.taken /\ due' = FALSE /\ UNCHANGED <<open, reachable, changes>>
      BY <1>2 DEF Keepalive, Evaluated, NoGlance
    <2>2. CASE UNCHANGED <<peerBook, answers>>
      BY <2>1, <2>2 DEF peerBook
    <2>3. CASE glance.misses >= PathMisses /\ dropPath /\ UNCHANGED answers
      <3>1. changes # 0
        BY <1>2, <2>3, MeshPathAssumption DEF Keepalive
      <3> QED
        BY <2>1, <2>3, <3>1 DEF dropPath
    <2>4. CASE misses' = misses + 1 /\ Probe({glance.verified}) /\ UNCHANGED verified
      <3>1. changes = 0 => glance.verified \in answers' /\ answers' \subseteq reachable
        BY <1>2, <2>4 DEF Probe, Keepalive
      <3>2. answers' \subseteq Addr /\ misses' \in Nat
        BY <2>4 DEF Probe
      <3> QED
        BY <2>1, <2>4, <3>1, <3>2
    <2> QED
      BY <1>2, <2>2, <2>3, <2>4 DEF Keepalive
  <1>3. CASE Escalate
    <2>1. /\ ~glance'.taken /\ due' = FALSE
          /\ UNCHANGED <<open, reachable, changes, verified, misses>>
      BY <1>3 DEF Escalate, Evaluated, NoGlance
    <2>2. answers \subseteq answers' /\ answers' \subseteq answers \cup reachable
      BY <1>3 DEF Escalate, Probe
    <2> QED
      BY <2>1, <2>2
  <1>4. CASE MeshTick
    BY <1>4 DEF MeshTick
  <1>5. CASE OpenBind
    BY <1>5 DEF OpenBind, peerBook
  <1>6. ASSUME NEW A \in SUBSET Addr, CloseBind \/ NetworkChanges(A) \/ SetPeers(A) PROVE Stays
    <2>1. changes' = changes + 1 /\ UNCHANGED <<misses, verified>>
      BY <1>6 DEF CloseBind, NetworkChanges, SetPeers, Change, peerBook
    <2>2. changes' \in Nat /\ changes' # 0
      BY <2>1
    <2>3. reachable' \subseteq Addr /\ answers' \subseteq Addr
      BY <1>6 DEF CloseBind, NetworkChanges, SetPeers
    <2> QED
      BY <2>1, <2>2, <2>3
  <1>7. ASSUME NEW A \in SUBSET Addr, PunchNow(A) PROVE Stays
    <2>1. UNCHANGED <<open, reachable, changes, verified, misses, glance, due>>
      BY <1>7 DEF PunchNow
    <2>2. answers \subseteq answers' /\ answers' \subseteq answers \cup reachable
      BY <1>7 DEF PunchNow, Probe
    <2> QED
      BY <2>1, <2>2
  <1>8. ASSUME NEW a \in Addr, HandlePing(a) PROVE Stays
    BY <1>8 DEF HandlePing
  <1>9. ASSUME NEW a \in Addr, HandlePong(a) PROVE Stays
    <2>1. /\ a \in answers /\ answers' = answers \ {a} /\ verified' = a /\ misses' = 0
          /\ UNCHANGED <<open, reachable, changes, glance, due>>
      BY <1>9 DEF HandlePong, answered
    <2> QED
      BY <2>1, MeshPathAssumption
  <1>10. CASE UNCHANGED meshVars
    BY <1>10 DEF meshVars, peerBook
  <1> QED
    BY <1>1, <1>2, <1>3, <1>4, <1>5, <1>6, <1>7, <1>8, <1>9, <1>10 DEF MeshNext, MeshEvaluate

\* As long as neither network, candidates nor socket change, a peer that was verified
\* stays so, for every set of addresses, every interval and number of misses, however
\* answers, punches and pings fall between an evaluation's copy and its action.
THEOREM PathKept == MeshSpec => StablePathKept
  <1>1. PathInv /\ [MeshNext]_meshVars =>
           PathInv' /\ [changes = 0 /\ verified # NoAddr => verified' # NoAddr]_meshVars
    BY PathStep
  <1> QED
    BY <1>1, PathInit, PTL DEF MeshSpec, StablePathKept
===============================================================================
