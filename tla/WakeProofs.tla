------------------------------ MODULE WakeProofs ------------------------------
(***************************************************************************)
(* Why a busy environment is not cooled and a held request is served, for  *)
(* every number of ingresses and requests.                                 *)
(***************************************************************************)
EXTENDS Wake, FiniteSetTheorems, WellFoundedInduction, TLAPS

Stage == {"new", "serving", "shed", "parked", "ready", "badGateway", "gatewayTimeout", "done", "cut"}
HttpState == [stage : Stage, at : Ingress, age : Nat]
Report == [heard : BOOLEAN, inflight : Nat, last : 0..IdleTimeout, age : {0, 1}]

WakeShape ==
    /\ effective \in {0, 1} /\ endpoint \in BOOLEAN /\ warmup \in 0..ColdStart
    /\ http \in [HttpRequest -> HttpState] /\ lastReq \in [Ingress -> 0..IdleTimeout]
    /\ waking \subseteq Ingress /\ lastWake \in 0..activationDebounce
    /\ report \in [Ingress -> Report] /\ lastActive \in 0..Unseen /\ faults \in Nat

\* A heartbeat that is younger than a request in flight has counted it.
Counted ==
    \A r \in Serving : LET p == http[r].at
                       IN  report[p].heard /\ http[r].age > report[p].age => report[p].inflight > 0

\* While an ingress is silent the mark is not older than this silence, which ends
\* within a heartbeat interval.
Seeded == \A p \in Ingress : ~report[p].heard => lastActive = Unseen \/ lastActive <= report[p].age

BusyInv == WakeShape /\ Counted /\ Seeded

\* The mark is at most so old.
MarkWithin(age) == lastActive = Unseen \/ lastActive <= age

\* A cold environment has no mark: its first evaluation after a wake counts as activity.
Afresh ==
    /\ effective = 0 => lastActive = Unseen
    /\ effective = 1 /\ ~endpoint => MarkWithin(warmup)

\* An activation that is debounced finds the environment awake.
WakeRemembered == lastWake < activationDebounce => effective = 1 /\ MarkWithin(lastWake)

\* The wake of a parked request is on its way, or the replica is coming up and has
\* been for as long as the request waits, or it is up and stays.
Held(r) ==
    /\ endpoint => effective = 1 /\ MarkWithin(ColdStart)
    /\ http[r].stage = "ready" => endpoint
    /\ http[r].stage = "parked" =>
          /\ effective = 1 \/ (http[r].at \in waking /\ http[r].age = 0)
          /\ effective = 1 /\ ~endpoint => http[r].age <= warmup
          /\ http[r].age <= ColdStart

Undisturbed == Afresh /\ WakeRemembered /\ HeldIsServed /\ \A r \in Waiting : Held(r)

HeldInv == WakeShape /\ (faults = 0 => Undisturbed)

(***************************************************************************)
(* The operators of the model                                              *)
(***************************************************************************)
LEMMA Least ==
    ASSUME NEW S \in SUBSET Nat, S # {}
    PROVE  \E n \in S : \A m \in S : n <= m
  <1>1. PICK n \in S : \A m \in S : ~ (<<m, n>> \in OpToRel(<, Nat))
    BY WFMin, NatLessThanWellFounded
  <1>2. OpToRel(<, Nat) = {p \in Nat \X Nat : p[1] < p[2]}
    BY Zenon DEF OpToRel
  <1>3. \A m \in S : ~ (<<m, n>> \in {p \in Nat \X Nat : p[1] < p[2]})
    BY <1>1, <1>2, Zenon
  <1>4. \A m \in S : ~ (m < n)
    BY <1>3
  <1> QED BY <1>4

\* What an evaluation takes for the last activity is not older than its mark, and it
\* is now when a heartbeat counts a request in flight.
LEMMA SeenBounds ==
    ASSUME WakeShape
    PROVE  /\ seen \in 0..IdleTimeout
           /\ Busy => seen = 0
           /\ lastActive = Unseen => seen = 0
           /\ lastActive # Unseen => seen <= lastActive
  <1> DEFINE mark == IF lastActive = Unseen THEN firstSight ELSE lastActive
             marks == {mark} \cup {report[p].last : p \in Heard}
             first == CHOOSE a \in marks : \A b \in marks : a <= b
  <1>1. mark \in 0..IdleTimeout /\ mark \in Nat
    BY WakeAssumption DEF WakeShape, Unseen, firstSight
  <1>2. marks \subseteq 0..IdleTimeout /\ mark \in marks
    BY <1>1 DEF WakeShape, Report, Heard
  <1> HIDE DEF mark
  <1>3. first \in marks /\ first <= mark
    <2> HIDE DEF marks
    <2>1. \E a \in marks : \A b \in marks : a <= b
      BY <1>2, Least
    <2> QED BY <1>2, <2>1
  <1>4. seen = IF Busy THEN 0 ELSE first
    BY DEF seen, mark
  <1> HIDE DEF first, marks
  <1>5. first \in 0..IdleTimeout
    BY <1>2, <1>3
  <1>6. lastActive = Unseen => first = 0
    BY <1>1, <1>3, <1>5 DEF mark, firstSight
  <1>7. lastActive # Unseen => first <= lastActive
    BY <1>3 DEF mark
  <1> QED BY <1>4, <1>5, <1>6, <1>7, WakeAssumption DEF WakeShape, Unseen

\* A heartbeat counts every request that its ingress is serving.
LEMMA InFlight ==
    ASSUME WakeShape, NEW p \in Ingress
    PROVE  /\ Cardinality(At(p, "serving")) \in Nat
           /\ \A r \in Serving : http[r].at = p => Cardinality(At(p, "serving")) > 0
  <1>1. IsFiniteSet(At(p, "serving"))
    BY WakeAssumption, FS_Subset DEF At
  <1>2. /\ Cardinality(At(p, "serving")) \in Nat
        /\ Cardinality(At(p, "serving")) = 0 => At(p, "serving") = {}
    BY <1>1, FS_CardinalityType, FS_EmptySet
  <1>3. ASSUME NEW r \in Serving, http[r].at = p PROVE r \in At(p, "serving")
    BY <1>3 DEF Serving, At
  <1> QED BY <1>2, <1>3

LEMMA Bounds ==
    /\ IdleTimeout \in Nat /\ ColdStart \in Nat /\ holdTimeout \in Nat
    /\ activationDebounce \in Nat /\ maxParked \in Nat /\ MaxFaults \in Nat
  BY WakeAssumption

(***************************************************************************)
(* The shape of the state                                                  *)
(***************************************************************************)
LEMMA ShapeInit == WakeInit => WakeShape
  <1> SUFFICES ASSUME WakeInit PROVE WakeShape
    OBVIOUS
  <1>1. (CHOOSE p \in Ingress : TRUE) \in Ingress
    BY WakeAssumption
  <1>2. NoReport \in Report
    BY WakeAssumption DEF NoReport, Report
  <1>3. http \in [HttpRequest -> HttpState]
    BY <1>1 DEF WakeInit, HttpState, Stage
  <1> QED BY <1>2, <1>3, WakeAssumption DEF WakeInit, WakeShape, Unseen

LEMMA Aging ==
    ASSUME NEW cap \in Nat, NEW a \in 0..cap
    PROVE  Old(a, cap) \in 0..cap /\ Old(a, cap) <= a + 1 /\ a <= Old(a, cap)
  BY DEF Old

\* A request changes its stage.
LEMMA HttpMoves ==
    ASSUME WakeShape, NEW r \in HttpRequest, NEW stage \in Stage, Becomes(r, stage)
    PROVE  /\ http' \in [HttpRequest -> HttpState]
           /\ http'[r].stage = stage /\ http'[r].at = http[r].at /\ http'[r].age = 0
           /\ \A q \in HttpRequest : q # r => http'[q] = http[q]
  BY DEF WakeShape, HttpState, Becomes

\* A heartbeat interval passes.
LEMMA TickFacts ==
    ASSUME WakeShape, WakeTick
    PROVE  /\ http' \in [HttpRequest -> HttpState]
           /\ \A r \in HttpRequest : /\ http'[r].stage = http[r].stage /\ http'[r].at = http[r].at
                                     /\ http'[r].age <= http[r].age + 1
           /\ report' \in [Ingress -> Report]
           /\ \A p \in Ingress : /\ report[p].age = 0 /\ report'[p].age = 1
                                 /\ report'[p].heard = report[p].heard
                                 /\ report'[p].inflight = report[p].inflight
           /\ warmup' \in 0..ColdStart /\ (effective = 1 /\ ~endpoint => warmup' = warmup + 1)
           /\ lastReq' \in [Ingress -> 0..IdleTimeout]
           /\ lastWake' \in 0..activationDebounce
           /\ lastWake' < activationDebounce => lastWake' = lastWake + 1
           /\ lastActive' \in 0..Unseen /\ (lastActive = Unseen => lastActive' = Unseen)
           /\ lastActive # Unseen => lastActive' <= lastActive + 1
           /\ UNCHANGED <<effective, endpoint, waking, faults>>
           /\ waking = {} /\ \A r \in Waiting : ~endpoint /\ http[r].stage # "ready"
  <1> USE Bounds
  <1>1. /\ warmup' = (IF effective = 1 /\ ~endpoint THEN warmup + 1 ELSE 0)
        /\ http' = [r \in HttpRequest |-> [http[r] EXCEPT !.age =
                      IF http[r].stage \in {"parked", "serving"} THEN Old(@, Older(holdTimeout, 2)) ELSE @]]
        /\ lastReq' = [p \in Ingress |-> Old(lastReq[p], IdleTimeout)]
        /\ lastWake' = Old(lastWake, activationDebounce)
        /\ report' = [p \in Ingress |-> [report[p] EXCEPT !.last = Old(@, IdleTimeout), !.age = @ + 1]]
        /\ lastActive' = (IF lastActive = Unseen THEN Unseen ELSE Old(lastActive, IdleTimeout))
        /\ UNCHANGED <<effective, endpoint, waking, faults>>
    BY DEF WakeTick
  <1>2. /\ waking = {} /\ \A r \in Waiting : ~endpoint /\ http[r].stage # "ready"
        /\ effective = 1 /\ ~endpoint => ~(warmup >= ColdStart)
        /\ \A p \in Ingress : ~(report[p].age >= 1)
    BY DEF WakeTick, Urgent
  <1>3. ASSUME NEW r \in HttpRequest
        PROVE  /\ http[r] \in HttpState /\ http'[r] \in HttpState
               /\ http'[r].stage = http[r].stage /\ http'[r].at = http[r].at
               /\ http'[r].age <= http[r].age + 1
    <2>1. http[r] \in HttpState
      BY DEF WakeShape
    <2>2. PICK age \in Nat : age <= http[r].age + 1 /\ http'[r] = [http[r] EXCEPT !.age = age]
      <3>1. /\ Old(http[r].age, Older(holdTimeout, 2)) \in Nat
            /\ Old(http[r].age, Older(holdTimeout, 2)) <= http[r].age + 1
        BY <2>1 DEF Old, Older, HttpState
      <3>2. http[r].age \in Nat
        BY <2>1 DEF HttpState
      <3>3. http'[r] = [http[r] EXCEPT !.age =
                          IF http[r].stage \in {"parked", "serving"}
                          THEN Old(http[r].age, Older(holdTimeout, 2)) ELSE http[r].age]
        BY <1>1
      <3> QED BY <3>1, <3>2, <3>3
    <2> QED BY <2>1, <2>2 DEF HttpState
  <1>4. http' \in [HttpRequest -> HttpState]
    BY <1>1, <1>3
  <1>5. ASSUME NEW p \in Ingress
        PROVE  /\ report'[p] \in Report /\ report[p].age = 0 /\ report'[p].age = 1
               /\ report'[p].heard = report[p].heard /\ report'[p].inflight = report[p].inflight
    <2>1. report[p] \in Report
      BY DEF WakeShape
    <2>2. report[p].age = 0
      BY <1>2, <2>1 DEF Report
    <2>3. PICK last \in 0..IdleTimeout : report'[p] = [report[p] EXCEPT !.last = last, !.age = 1]
      <3>1. Old(report[p].last, IdleTimeout) \in 0..IdleTimeout
        BY <2>1, Aging DEF Report
      <3>2. report'[p] = [report[p] EXCEPT !.last = Old(report[p].last, IdleTimeout), !.age = report[p].age + 1]
        BY <1>1
      <3>3. report[p].age + 1 = 1
        BY <2>2
      <3> QED BY <3>1, <3>2, <3>3, Zenon
    <2> QED BY <2>1, <2>2, <2>3 DEF Report
  <1>6. report' \in [Ingress -> Report]
    BY <1>1, <1>5
  <1>7. warmup' \in 0..ColdStart
    <2>1. warmup' = (IF effective = 1 /\ ~endpoint THEN warmup + 1 ELSE 0) /\ warmup \in 0..ColdStart
      BY <1>1 DEF WakeShape
    <2> QED BY <1>2, <2>1
  <1>8. lastReq' \in [Ingress -> 0..IdleTimeout]
    <2>1. ASSUME NEW p \in Ingress PROVE Old(lastReq[p], IdleTimeout) \in 0..IdleTimeout
      BY Aging DEF WakeShape
    <2> QED BY <1>1, <2>1
  <1>9. lastWake' \in 0..activationDebounce /\ (lastWake' < activationDebounce => lastWake' = lastWake + 1)
    <2>1. lastWake' = Old(lastWake, activationDebounce) /\ lastWake \in 0..activationDebounce
      BY <1>1 DEF WakeShape
    <2> QED BY <2>1 DEF Old
  <1>10. /\ lastActive' \in 0..Unseen
         /\ lastActive # Unseen => lastActive' <= lastActive + 1
    <2>1. /\ lastActive' = (IF lastActive = Unseen THEN Unseen ELSE Old(lastActive, IdleTimeout))
          /\ lastActive \in 0..Unseen
      BY <1>1 DEF WakeShape
    <2> QED BY <2>1 DEF Old, Unseen
  <1> QED BY <1>1, <1>2, <1>3, <1>4, <1>5, <1>6, <1>7, <1>8, <1>9, <1>10

LEMMA ShapeNext ==
    ASSUME WakeShape, [WakeNext]_wakeVars
    PROVE  WakeShape'
  <1> USE WakeAssumption
  <1>1. ASSUME NEW r \in HttpRequest, NEW p \in Ingress, ServeHTTP(r, p) PROVE WakeShape'
    <2>1. PICK stage \in Stage : http' = [http EXCEPT ![r] = [stage |-> stage, at |-> p, age |-> 0]]
      BY <1>1 DEF ServeHTTP, Stage
    <2>2. http' \in [HttpRequest -> HttpState]
      BY <2>1 DEF WakeShape, HttpState
    <2> QED BY <1>1, <2>2 DEF ServeHTTP, WakeShape, leaderSide, Unseen
  <1>2. ASSUME NEW r \in HttpRequest, Ready(r) \/ Retry(r) \/ HoldExpires(r) \/ Ends(r) PROVE WakeShape'
    <2>1. http' \in [HttpRequest -> HttpState]
      <3>1. PICK stage \in Stage : Becomes(r, stage)
        BY <1>2 DEF Ready, Retry, HoldExpires, Ends, Stage
      <3> QED BY <3>1, HttpMoves
    <2>2. lastReq' \in [Ingress -> 0..IdleTimeout]
      BY <1>2 DEF Ready, Retry, HoldExpires, Ends, WakeShape
    <2> QED BY <1>2, <2>1, <2>2 DEF Ready, Retry, HoldExpires, Ends, WakeShape, leaderSide, Unseen
  <1>3. ASSUME NEW p \in Ingress, Activate(p) PROVE WakeShape'
    BY <1>3 DEF Activate, WakeShape, Unseen
  <1>4. ASSUME NEW p \in Ingress, ReportStats(p) PROVE WakeShape'
    <2> DEFINE new == [heard |-> TRUE, inflight |-> Cardinality(At(p, "serving")), last |-> lastReq[p], age |-> 0]
    <2>1. new \in Report
      BY InFlight DEF Report, WakeShape
    <2>2. report' = [report EXCEPT ![p] = new]
      BY <1>4 DEF ReportStats
    <2> HIDE DEF new
    <2>3. report' \in [Ingress -> Report]
      BY <2>1, <2>2 DEF WakeShape
    <2> QED BY <1>4, <2>3 DEF ReportStats, WakeShape, Unseen
  <1>5. CASE scaleEnv
    BY <1>5, SeenBounds DEF scaleEnv, evaluateIdle, evaluateServerless, WakeShape, Unseen
  <1>6. CASE ReplicaUp
    BY <1>6 DEF ReplicaUp, WakeShape, Unseen
  <1>7. CASE ReplicaDown
    <2>1. http' \in [HttpRequest -> HttpState]
      BY <1>7 DEF ReplicaDown, WakeShape, HttpState, Stage
    <2>2. faults' \in Nat
      BY <1>7 DEF ReplicaDown, WakeShape
    <2>3. endpoint' = FALSE /\ warmup' = 0 /\ UNCHANGED <<effective, lastReq, waking, lastWake, report, lastActive>>
      BY <1>7 DEF ReplicaDown
    <2>4. endpoint' \in BOOLEAN
      BY <2>3, Zenon
    <2>5. warmup' = 0 /\ 0 \in 0..ColdStart
      BY <1>7, Bounds DEF ReplicaDown
    <2> QED BY <2>1, <2>2, <2>3, <2>4, <2>5 DEF WakeShape, Unseen
  <1>8. CASE NewLeader
    <2>1. NoReport \in Report
      BY DEF NoReport, Report
    <2> QED BY <1>8, <2>1 DEF NewLeader, WakeShape, Unseen
  <1>9. CASE WakeTick
    BY <1>9, TickFacts DEF WakeShape, Unseen
  <1>10. CASE UNCHANGED wakeVars
    BY <1>10 DEF wakeVars, WakeShape, Unseen
  <1> QED BY <1>1, <1>2, <1>3, <1>4, <1>5, <1>6, <1>7, <1>8, <1>9, <1>10 DEF WakeNext

(***************************************************************************)
(* A busy environment is not cooled                                        *)
(***************************************************************************)
LEMMA BusyNext ==
    ASSUME BusyInv, ~Serverless, [WakeNext]_wakeVars
    PROVE  BusyInv'
  <1> USE DEF BusyInv
  <1>0. WakeShape'
    BY ShapeNext
  \* A request that joins the ones served has age 0, the others do not change.
  <1>a. ASSUME UNCHANGED <<report, lastActive>>,
               \A r \in HttpRequest : \/ http'[r] = http[r] \/ http'[r].stage # "serving"
                                      \/ http'[r].age = 0
        PROVE  BusyInv'
    <2>1. ASSUME NEW r \in Serving', report[http'[r].at].heard, http'[r].age > report[http'[r].at].age
          PROVE  report[http'[r].at].inflight > 0
      <3>1. r \in HttpRequest /\ http'[r].stage = "serving" /\ report[http'[r].at].age \in {0, 1}
        BY <1>0 DEF Serving, WakeShape, HttpState, Report
      <3>2. http'[r] = http[r]
        BY <1>a, <2>1, <3>1
      <3> QED BY <2>1, <3>1, <3>2 DEF Counted, Serving
    <2> QED BY <1>0, <1>a, <2>1 DEF Counted, Seeded, Unseen
  <1>1. ASSUME NEW r \in HttpRequest, NEW p \in Ingress, ServeHTTP(r, p) PROVE BusyInv'
    <2>1. PICK stage \in Stage : http' = [http EXCEPT ![r] = [stage |-> stage, at |-> p, age |-> 0]]
      BY <1>1 DEF ServeHTTP, Stage
    <2>2. \A q \in HttpRequest : http'[q] = http[q] \/ http'[q].age = 0
      BY <2>1 DEF WakeShape
    <2> QED BY <1>1, <1>a, <2>2 DEF ServeHTTP, leaderSide
  <1>2. ASSUME NEW r \in HttpRequest, Ready(r) \/ Retry(r) \/ HoldExpires(r) \/ Ends(r) PROVE BusyInv'
    <2>1. PICK stage \in Stage : Becomes(r, stage)
      BY <1>2 DEF Ready, Retry, HoldExpires, Ends, Stage
    <2>2. \A q \in HttpRequest : http'[q] = http[q] \/ http'[q].age = 0
      BY <2>1, HttpMoves
    <2> QED BY <1>2, <1>a, <2>2 DEF Ready, Retry, HoldExpires, Ends, leaderSide
  <1>3. ASSUME NEW p \in Ingress, Activate(p) PROVE BusyInv'
    BY <1>3, <1>a DEF Activate
  <1>4. ASSUME NEW p \in Ingress, ReportStats(p) PROVE BusyInv'
    <2>1. /\ report'[p].heard = TRUE /\ report'[p].inflight = Cardinality(At(p, "serving"))
          /\ \A q \in Ingress : q # p => report'[q] = report[q]
          /\ UNCHANGED <<http, lastActive>>
      BY <1>4 DEF ReportStats, WakeShape
    <2>2. Counted'
      <3> SUFFICES ASSUME NEW r \in Serving, report'[http[r].at].heard, http[r].age > report'[http[r].at].age
                   PROVE  report'[http[r].at].inflight > 0
        BY <2>1 DEF Counted, Serving
      <3>1. CASE http[r].at = p
        BY <2>1, <3>1, InFlight
      <3>2. CASE http[r].at # p
        <4>1. http[r].at \in Ingress
          BY DEF Serving, WakeShape, HttpState
        <4> QED BY <2>1, <3>2, <4>1 DEF Counted
      <3> QED BY <3>1, <3>2
    <2>3. Seeded'
      BY <2>1 DEF Seeded, Unseen
    <2> QED BY <1>0, <2>2, <2>3
  <1>5. CASE scaleEnv
    <2>1. /\ lastActive' = Unseen \/ lastActive' = seen
          /\ UNCHANGED <<http, report>>
      BY <1>5 DEF scaleEnv, evaluateIdle
    <2>2. ASSUME NEW p \in Ingress, ~report[p].heard
          PROVE  lastActive' = Unseen \/ lastActive' <= report[p].age
      <3>1. report[p].age \in {0, 1}
        BY DEF WakeShape, Report
      <3>2. seen <= report[p].age
        BY <2>2, <3>1, SeenBounds, Bounds DEF Seeded, WakeShape, Unseen
      <3> QED BY <2>1, <3>2
    <2> QED BY <1>0, <2>1, <2>2 DEF Counted, Seeded, Serving, Unseen
  <1>6. CASE ReplicaUp
    BY <1>6, <1>a DEF ReplicaUp
  <1>7. CASE ReplicaDown
    <2>1. ASSUME NEW r \in HttpRequest PROVE http'[r] = http[r] \/ http'[r].stage # "serving"
      <3>1. http'[r] = IF r \in Serving THEN [http[r] EXCEPT !.stage = "cut"] ELSE http[r]
        BY <1>7 DEF ReplicaDown
      <3>2. http[r] \in HttpState
        BY DEF WakeShape
      <3> QED BY <3>1, <3>2 DEF HttpState
    <2> QED BY <1>7, <1>a, <2>1 DEF ReplicaDown
  <1>8. CASE NewLeader
    <2>1. lastActive' = Unseen /\ \A p \in Ingress : report'[p].heard = FALSE
      BY <1>8 DEF NewLeader, NoReport
    <2>2. Counted'
      <3>1. ASSUME NEW r \in Serving' PROVE http'[r].at \in Ingress
        BY <1>0, <3>1 DEF Serving, WakeShape, HttpState
      <3> QED BY <2>1, <3>1 DEF Counted
    <2> QED BY <1>0, <2>1, <2>2 DEF Seeded, Unseen
  <1>9. CASE WakeTick
    <2> USE TickFacts
    <2>1. Counted'
      <3> SUFFICES ASSUME NEW r \in Serving', report'[http'[r].at].heard, http'[r].age > report'[http'[r].at].age
                   PROVE  report'[http'[r].at].inflight > 0
        BY DEF Counted
      <3>1. r \in HttpRequest /\ http'[r].stage = "serving"
        BY DEF Serving
      <3>2. r \in Serving /\ http'[r].at = http[r].at /\ http[r].at \in Ingress
        BY <1>9, <3>1 DEF Serving, WakeShape, HttpState
      <3>3. http[r].age \in Nat /\ http'[r].age \in Nat
        BY <1>0, <3>1 DEF WakeShape, HttpState
      <3>4. http[r].age > report[http[r].at].age
        BY <1>9, <3>1, <3>2, <3>3
      <3> QED BY <1>9, <3>2, <3>4 DEF Counted
    <2>2. Seeded'
      BY <1>9 DEF Seeded, WakeShape, Unseen
    <2> QED BY <1>0, <2>1, <2>2
  <1>10. CASE UNCHANGED wakeVars
    BY <1>10, <1>a DEF wakeVars
  <1> QED BY <1>1, <1>2, <1>3, <1>4, <1>5, <1>6, <1>7, <1>8, <1>9, <1>10 DEF WakeNext

\* An evaluation that cools the environment has heard every ingress, none of them busy.
LEMMA CoolsIdle ==
    ASSUME BusyInv, ~Serverless, IdleTimeout >= 2, [WakeNext]_wakeVars,
           effective = 1, effective' = 0, NEW r \in Serving
    PROVE  http[r].age <= 1
  <1>1. evaluateIdle /\ seen >= IdleTimeout
    <2>1. scaleEnv
      BY DEF WakeNext, wakeVars, ServeHTTP, Ready, Retry, HoldExpires, Ends, Activate, ReportStats,
             ReplicaUp, ReplicaDown, NewLeader, WakeTick, leaderSide
    <2> QED BY <2>1 DEF scaleEnv, evaluateIdle
  <1>2. http[r].at \in Ingress /\ http[r].age \in Nat
    BY DEF BusyInv, WakeShape, HttpState, Serving
  <1>3. report[http[r].at].age \in {0, 1} /\ report[http[r].at].inflight \in Nat
    BY <1>2 DEF BusyInv, WakeShape, Report
  <1>4. report[http[r].at].heard
    BY <1>1, <1>2, <1>3, SeenBounds, Bounds DEF BusyInv, Seeded, WakeShape, Unseen
  <1>5. ~Busy
    BY <1>1, SeenBounds, Bounds DEF BusyInv
  <1>6. ~(report[http[r].at].inflight > 0)
    BY <1>2, <1>4, <1>5 DEF Busy, Heard
  <1> QED BY <1>2, <1>3, <1>4, <1>6 DEF BusyInv, Counted

\* A request that has been in flight for longer than a heartbeat interval keeps its
\* replica, however many ingresses there are and however often the leader changes or
\* replicas crash, if the idle window is longer than one heartbeat interval.
THEOREM BusyKeepsReplica ==
    ASSUME ~Serverless, IdleTimeout >= 2
    PROVE  WakeSpec => BusyNotCooled
  <1>1. WakeInit => BusyInv
    <2> SUFFICES ASSUME WakeInit PROVE BusyInv
      OBVIOUS
    <2>1. Serving = {} /\ lastActive = Unseen
      BY DEF WakeInit, Serving
    <2> QED BY <2>1, ShapeInit DEF BusyInv, Counted, Seeded
  <1>2. BusyInv /\ [WakeNext]_wakeVars => BusyInv'
    BY BusyNext
  <1>3. BusyInv /\ [WakeNext]_wakeVars
          => [effective = 1 /\ effective' = 0 => \A r \in Serving : http[r].age <= 1]_wakeVars
    BY CoolsIdle
  <1> QED BY <1>1, <1>2, <1>3, PTL DEF WakeSpec, BusyNotCooled

(***************************************************************************)
(* A held request is served                                                *)
(***************************************************************************)
\* What the theorem asks of the constants: a replica is up before the idle window
\* that its activation opened, and before the request is given up.
Timely ==
    /\ ~Serverless
    /\ ColdStart < IdleTimeout /\ ColdStart < holdTimeout /\ activationDebounce <= IdleTimeout

\* Only a cold environment loses its replica.
LEMMA HeldNext ==
    ASSUME HeldInv, Timely, [WakeNext]_wakeVars
    PROVE  HeldInv'
  <1> USE Bounds
  <1>0. WakeShape /\ WakeShape'
    BY ShapeNext DEF HeldInv
  <1> SUFFICES ASSUME faults' = 0 PROVE Undisturbed'
    BY <1>0 DEF HeldInv
  <1>00. faults = 0 /\ UNCHANGED faults
    <2>1. UNCHANGED faults \/ faults' = faults + 1
      BY Zenon DEF WakeNext, wakeVars, ServeHTTP, Ready, Retry, HoldExpires, Ends, Activate, ReportStats,
         scaleEnv, evaluateIdle, evaluateServerless, ReplicaUp, ReplicaDown, NewLeader, WakeTick, leaderSide
    <2>2. faults \in Nat
      BY <1>0 DEF WakeShape
    <2> QED BY <2>1, <2>2
  <1>u. Undisturbed
    BY <1>00 DEF HeldInv
  <1>a. \A r \in HttpRequest : http[r].stage \notin {"gatewayTimeout", "badGateway"}
    BY <1>00, <1>u DEF Undisturbed, HeldIsServed
  <1>w. \A r : r \in Waiting <=> r \in HttpRequest /\ http[r].stage \in {"parked", "ready"}
    BY DEF Waiting
  <1>v. \A r : r \in Waiting' <=> r \in HttpRequest /\ http'[r].stage \in {"parked", "ready"}
    BY DEF Waiting
  \* A request moves and the leader's side does not.
  <1>b. ASSUME UNCHANGED <<effective, endpoint, warmup, lastWake, lastActive>>, waking \subseteq waking',
               NEW r \in HttpRequest, \A q \in HttpRequest : q # r => http'[q] = http[q],
               http'[r].stage \notin {"gatewayTimeout", "badGateway"},
               r \in Waiting' => Held(r)'
        PROVE  Undisturbed'
    <2>1. Afresh' /\ WakeRemembered'
      BY <1>b, <1>u DEF Undisturbed, Afresh, WakeRemembered, MarkWithin, Unseen
    <2>2. HeldIsServed'
      BY <1>a, <1>b DEF HeldIsServed
    <2>3. ASSUME NEW q \in Waiting' PROVE Held(q)'
      <3>1. CASE q # r
        <4>1. q \in Waiting /\ http'[q] = http[q]
          BY <1>b, <1>w, <1>v, <2>3, <3>1
        <4> QED BY <1>b, <1>u, <4>1 DEF Undisturbed, Held, MarkWithin, Unseen
      <3> QED BY <1>b, <3>1
    <2> QED BY <2>1, <2>2, <2>3 DEF Undisturbed
  <1>1. ASSUME NEW r \in HttpRequest, NEW p \in Ingress, ServeHTTP(r, p) PROVE Undisturbed'
    <2>1. PICK stage \in {"serving", "shed", "parked"} :
             /\ http' = [http EXCEPT ![r] = [stage |-> stage, at |-> p, age |-> 0]]
             /\ stage = "parked" => ~endpoint /\ waking' = waking \cup {p}
             /\ stage # "parked" => waking' = waking
      BY <1>1 DEF ServeHTTP
    <2>2. /\ http'[r].stage = stage /\ http'[r].at = p /\ http'[r].age = 0
          /\ \A q \in HttpRequest : q # r => http'[q] = http[q]
      BY <1>0, <2>1 DEF WakeShape
    <2>3. UNCHANGED <<effective, endpoint, warmup, lastWake, lastActive>>
      BY <1>1 DEF ServeHTTP, leaderSide
    <2>4. r \in Waiting' => Held(r)'
      BY <1>0, <1>v, <2>1, <2>2, <2>3 DEF Held, WakeShape
    <2> QED BY <1>b, <2>1, <2>2, <2>3, <2>4
  <1>2. ASSUME NEW r \in HttpRequest, Ready(r) PROVE Undisturbed'
    <2>1. /\ http'[r].stage = "ready" /\ \A q \in HttpRequest : q # r => http'[q] = http[q]
      BY <1>0, <1>2, HttpMoves DEF Ready, Stage
    <2>2. endpoint /\ UNCHANGED <<effective, endpoint, warmup, lastWake, lastActive, waking>>
      BY <1>2 DEF Ready, leaderSide
    <2>3. Held(r)
      BY <1>2, <1>u, <1>w DEF Undisturbed, Ready
    <2>4. Held(r)'
      BY <2>1, <2>2, <2>3 DEF Held, MarkWithin, Unseen
    <2> QED BY <1>b, <2>1, <2>2, <2>4
  <1>3. ASSUME NEW r \in HttpRequest, Retry(r) PROVE Undisturbed'
    <2>1. endpoint
      BY <1>3, <1>u, <1>w DEF Undisturbed, Retry, Held
    <2>2. /\ http'[r].stage = "serving" /\ \A q \in HttpRequest : q # r => http'[q] = http[q]
      BY <1>0, <1>3, <2>1, HttpMoves DEF Retry, Stage
    <2> QED BY <1>3, <1>b, <1>v, <2>2 DEF Retry, leaderSide
  <1>4. ASSUME NEW r \in HttpRequest, HoldExpires(r) PROVE Undisturbed'
    <2>1. http[r].age <= ColdStart /\ http[r].age >= holdTimeout /\ http[r].age \in Nat
      BY <1>0, <1>4, <1>u, <1>w DEF Undisturbed, HoldExpires, Held, WakeShape, HttpState
    <2> QED BY <2>1 DEF Timely
  <1>5. ASSUME NEW r \in HttpRequest, Ends(r) PROVE Undisturbed'
    <2>1. /\ http'[r].stage = "done" /\ \A q \in HttpRequest : q # r => http'[q] = http[q]
      BY <1>0, <1>5, HttpMoves DEF Ends, Stage
    <2> QED BY <1>5, <1>b, <1>v, <2>1 DEF Ends, leaderSide
  <1>6. ASSUME NEW p \in Ingress, Activate(p) PROVE Undisturbed'
    <2>1. UNCHANGED <<http, endpoint, lastActive>> /\ waking' = waking \ {p}
      BY <1>6 DEF Activate
    <2>2. effective' = 1
      BY <1>0, <1>6, <1>u DEF Activate, debounced, Undisturbed, WakeRemembered, WakeShape
    <2>3. CASE effective = 1
      <3>1. UNCHANGED <<effective, warmup, lastWake>>
        BY <1>6, <2>3 DEF Activate
      <3>2. ASSUME NEW r \in Waiting PROVE Held(r)'
        <4>1. Held(r) /\ http'[r] = http[r]
          BY <1>u, <2>1 DEF Undisturbed
        <4> QED BY <2>1, <2>2, <2>3, <3>1, <4>1 DEF Held, MarkWithin, Unseen
      <3>3. Afresh' /\ WakeRemembered' /\ HeldIsServed' /\ Waiting' = Waiting
        BY <1>a, <1>u, <2>1, <2>2, <2>3, <3>1
           DEF Undisturbed, Afresh, WakeRemembered, HeldIsServed, MarkWithin, Unseen, Waiting
      <3> QED BY <3>2, <3>3 DEF Undisturbed
    <2>4. CASE effective = 0
      <3>1. warmup' = 0 /\ lastWake' = 0 /\ lastActive' = Unseen
        BY <1>0, <1>6, <1>u, <2>1, <2>2, <2>4 DEF Activate, Undisturbed, Afresh, Unseen, WakeShape
      <3>2. ASSUME NEW r \in Waiting PROVE Held(r)'
        <4>1. Held(r) /\ http'[r] = http[r]
          BY <1>u, <2>1 DEF Undisturbed
        <4> QED BY <2>1, <2>2, <2>4, <3>1, <4>1 DEF Held, MarkWithin, Unseen
      <3>3. Afresh' /\ WakeRemembered' /\ HeldIsServed' /\ Waiting' = Waiting
        BY <1>a, <2>1, <2>2, <3>1 DEF Afresh, WakeRemembered, HeldIsServed, MarkWithin, Unseen, Waiting
      <3> QED BY <3>2, <3>3 DEF Undisturbed
    <2> QED BY <1>0, <2>3, <2>4 DEF WakeShape
  <1>7. ASSUME UNCHANGED <<effective, endpoint, warmup, http, waking, lastWake, lastActive, faults>>
        PROVE  Undisturbed'
    BY <1>7, <1>u DEF Undisturbed, Afresh, WakeRemembered, HeldIsServed, Held, MarkWithin, Unseen, Waiting
  <1>8. CASE scaleEnv
    <2>1. evaluateIdle
      BY <1>8 DEF scaleEnv, Timely
    <2>2. UNCHANGED <<endpoint, warmup, http, waking, lastWake>>
      BY <2>1 DEF evaluateIdle
    <2>3. CASE effective = 0
      <3>1. UNCHANGED <<effective, lastActive>>
        BY <1>u, <2>1, <2>3 DEF evaluateIdle, Undisturbed, Afresh, Unseen
      <3> QED BY <1>7, <1>00, <2>2, <3>1
    <2>4. CASE effective = 1 /\ seen < IdleTimeout
      <3>1. effective' = 1 /\ lastActive' = seen
        BY <1>0, <2>1, <2>4, SeenBounds DEF evaluateIdle
      <3>2. ASSUME NEW age \in Nat, MarkWithin(age) PROVE lastActive' <= age
        BY <1>0, <3>1, <3>2, SeenBounds DEF MarkWithin, WakeShape, Unseen
      <3>3. ASSUME NEW r \in Waiting PROVE Held(r)'
        <4>1. Held(r) /\ http'[r] = http[r]
          BY <1>u, <2>2 DEF Undisturbed
        <4> QED BY <2>2, <2>4, <3>1, <3>2, <4>1 DEF Held, MarkWithin
      <3>4. warmup \in Nat /\ lastWake \in Nat
        BY <1>0 DEF WakeShape
      <3>5. Afresh' /\ WakeRemembered' /\ HeldIsServed' /\ Waiting' = Waiting
        BY <1>a, <1>u, <2>2, <2>4, <3>1, <3>2, <3>4
           DEF Undisturbed, Afresh, WakeRemembered, HeldIsServed, MarkWithin, Waiting
      <3> QED BY <3>3, <3>5 DEF Undisturbed
    <2>5. CASE effective = 1 /\ ~(seen < IdleTimeout)
      <3>1. effective' = 0 /\ lastActive' = Unseen
        BY <1>0, <2>1, <2>5, SeenBounds DEF evaluateIdle
      <3>2. ASSUME NEW age \in Nat, age < IdleTimeout PROVE ~MarkWithin(age)
        BY <1>0, <2>5, <3>2, SeenBounds DEF MarkWithin, WakeShape, Unseen, Timely
      <3>3. ~(lastWake < activationDebounce)
        BY <1>0, <1>u, <3>2 DEF Undisturbed, WakeRemembered, Timely, WakeShape
      <3>4. endpoint
        BY <1>0, <1>u, <2>5, <3>2 DEF Undisturbed, Afresh, Timely, WakeShape
      <3>5. Waiting = {}
        BY <1>u, <3>2, <3>4 DEF Undisturbed, Held, Timely
      <3> QED BY <1>a, <2>2, <3>1, <3>3, <3>5
            DEF Undisturbed, Afresh, WakeRemembered, HeldIsServed, Waiting, Unseen
    <2> QED BY <1>0, <2>3, <2>4, <2>5 DEF WakeShape
  <1>9. CASE ReplicaUp
    <2>1. effective = 1 /\ ~endpoint /\ endpoint' = TRUE /\ UNCHANGED <<effective, http, waking, lastWake, lastActive>>
      BY <1>9 DEF ReplicaUp
    <2>2. MarkWithin(ColdStart) /\ MarkWithin(ColdStart)'
      BY <1>0, <1>u, <2>1 DEF Undisturbed, Afresh, MarkWithin, WakeShape, Unseen
    <2>3. ASSUME NEW r \in Waiting PROVE Held(r)'
      <3>1. Held(r) /\ http'[r] = http[r]
        BY <1>u, <2>1 DEF Undisturbed
      <3> QED BY <2>1, <2>2, <3>1 DEF Held
    <2> QED BY <1>u, <1>a, <2>1, <2>3
          DEF Undisturbed, Afresh, WakeRemembered, HeldIsServed, MarkWithin, Unseen, Waiting
  <1>10. CASE ReplicaDown
    <2>1. effective = 0 /\ endpoint /\ UNCHANGED <<effective, waking, lastWake, lastActive>>
      BY <1>00, <1>0, <1>10 DEF ReplicaDown, WakeShape
    <2>2. Waiting = {}
      BY <1>u, <2>1 DEF Undisturbed, Held
    <2>3. ASSUME NEW r \in HttpRequest PROVE http'[r] = http[r] \/ http'[r].stage = "cut"
      <3>1. http'[r] = IF r \in Serving THEN [http[r] EXCEPT !.stage = "cut"] ELSE http[r]
        BY <1>10 DEF ReplicaDown
      <3>2. http[r] \in HttpState
        BY <1>0 DEF WakeShape
      <3> QED BY <3>1, <3>2 DEF HttpState
    <2>4. Waiting' = {}
      BY <1>w, <1>v, <2>2, <2>3
    <2>5. HeldIsServed'
      BY <1>a, <2>3 DEF HeldIsServed
    <2> QED BY <1>u, <2>1, <2>4, <2>5 DEF Undisturbed, Afresh, WakeRemembered, MarkWithin, Unseen
  <1>11. CASE WakeTick
    <2> USE <1>11, <1>0, TickFacts
    <2>1. HeldIsServed' /\ Waiting' = Waiting
      BY <1>a DEF HeldIsServed, Waiting
    <2>2. ASSUME NEW age \in Nat, MarkWithin(age) PROVE lastActive' = Unseen \/ lastActive' <= age + 1
      BY <2>2 DEF MarkWithin, WakeShape, Unseen
    <2>3. Afresh'
      BY <1>u, <2>2 DEF Undisturbed, Afresh, MarkWithin, WakeShape, Unseen
    <2>4. WakeRemembered'
      BY <1>u, <2>2 DEF Undisturbed, WakeRemembered, MarkWithin, WakeShape, Unseen
    <2>5. ASSUME NEW r \in Waiting PROVE Held(r)'
      <3>1. Held(r) /\ r \in HttpRequest /\ http[r].stage = "parked" /\ ~endpoint /\ waking = {}
        BY <1>u, <1>w DEF Undisturbed
      <3>2. http[r].age \in Nat /\ http'[r].age \in Nat /\ http'[r].age <= http[r].age + 1
        BY <3>1 DEF WakeShape, HttpState
      <3>3. effective = 1 /\ http[r].age <= warmup
        BY <3>1 DEF Held
      <3>4. http'[r].age <= warmup' /\ http'[r].age <= ColdStart /\ http'[r].stage = "parked"
        BY <3>1, <3>2, <3>3 DEF WakeShape
      <3>5. effective' = 1 /\ endpoint' = FALSE
        BY <3>1, <3>3 DEF WakeShape
      <3> QED BY <3>4, <3>5 DEF Held
    <2> QED BY <2>1, <2>3, <2>4, <2>5 DEF Undisturbed
  <1>12. ASSUME NEW p \in Ingress, ReportStats(p) PROVE Undisturbed'
    BY <1>12, <1>7 DEF ReportStats
  <1>13. CASE NewLeader
    BY <1>13, <1>00 DEF NewLeader
  <1>14. CASE UNCHANGED wakeVars
    BY <1>14, <1>7 DEF wakeVars
  <1> QED BY <1>1, <1>2, <1>3, <1>4, <1>5, <1>6, <1>8, <1>9, <1>10, <1>11, <1>12, <1>13, <1>14 DEF WakeNext

\* While the leader stays and no replica crashes, a held request is let through, for
\* every number of ingresses and requests and every order of wakes and cooling, if a
\* replica starts within the idle window and within the time a request is held.
THEOREM HeldRequestsServed ==
    ASSUME Timely
    PROVE  WakeSpec => []HeldIsServed
  <1>1. WakeInit => HeldInv
    <2> SUFFICES ASSUME WakeInit PROVE HeldInv
      OBVIOUS
    <2>1. Waiting = {} /\ HeldIsServed
      BY DEF WakeInit, Waiting, HeldIsServed
    <2>2. Afresh /\ WakeRemembered
      BY Bounds DEF WakeInit, Afresh, WakeRemembered
    <2> QED BY <2>1, <2>2, ShapeInit DEF HeldInv, Undisturbed
  <1>2. HeldInv /\ [WakeNext]_wakeVars => HeldInv'
    BY HeldNext
  <1>3. HeldInv => HeldIsServed
    BY Bounds DEF HeldInv, Undisturbed, HeldIsServed, WakeShape
  <1> QED BY <1>1, <1>2, <1>3, PTL DEF WakeSpec

(***************************************************************************)
(* The queues of held requests                                             *)
(***************************************************************************)
QueueInv == WakeShape /\ \A p \in Ingress : Cardinality(At(p, "parked")) <= maxParked

LEMMA QueueNext ==
    ASSUME QueueInv, [WakeNext]_wakeVars
    PROVE  QueueInv'
  <1> USE Bounds
  <1>0. WakeShape /\ WakeShape'
    BY ShapeNext DEF QueueInv
  <1>f. ASSUME NEW p \in Ingress
        PROVE  /\ IsFiniteSet(At(p, "parked")) /\ IsFiniteSet(At(p, "parked")')
               /\ Cardinality(At(p, "parked")) \in Nat /\ Cardinality(At(p, "parked"))' \in Nat
    <2>1. IsFiniteSet(At(p, "parked")) /\ IsFiniteSet(At(p, "parked")')
      BY WakeAssumption, FS_Subset DEF At
    <2> QED BY <2>1, FS_CardinalityType
  \* Nobody joins a queue.
  <1>a. ASSUME \A r \in HttpRequest : http'[r].stage = "parked" => http[r].stage = "parked" /\ http'[r].at = http[r].at
        PROVE  QueueInv'
    <2> SUFFICES ASSUME NEW p \in Ingress PROVE Cardinality(At(p, "parked"))' <= maxParked
      BY <1>0 DEF QueueInv
    <2>1. At(p, "parked")' \subseteq At(p, "parked")
      BY <1>a DEF At
    <2>2. Cardinality(At(p, "parked"))' <= Cardinality(At(p, "parked"))
      BY <1>f, <2>1, FS_Subset
    <2> QED BY <1>f, <2>2 DEF QueueInv
  <1>1. ASSUME NEW r \in HttpRequest, NEW p \in Ingress, ServeHTTP(r, p) PROVE QueueInv'
    <2>1. PICK stage \in {"serving", "shed", "parked"} :
             /\ http' = [http EXCEPT ![r] = [stage |-> stage, at |-> p, age |-> 0]]
             /\ stage = "parked" => ~queueFull(p)
      BY <1>1 DEF ServeHTTP
    <2>2. /\ http'[r].stage = stage /\ http'[r].at = p
          /\ \A q \in HttpRequest : q # r => http'[q] = http[q]
      BY <1>0, <2>1 DEF WakeShape
    <2>3. CASE stage # "parked"
      BY <1>a, <2>2, <2>3
    <2>4. CASE stage = "parked"
      <3> SUFFICES ASSUME NEW o \in Ingress PROVE Cardinality(At(o, "parked"))' <= maxParked
        BY <1>0 DEF QueueInv
      <3>1. CASE o # p
        <4>1. At(o, "parked")' \subseteq At(o, "parked")
          BY <2>2, <3>1 DEF At
        <4>2. Cardinality(At(o, "parked"))' <= Cardinality(At(o, "parked"))
          BY <1>f, <4>1, FS_Subset
        <4> QED BY <1>f, <4>2 DEF QueueInv
      <3>2. CASE o = p
        <4>1. At(p, "parked")' \subseteq At(p, "parked") \cup {r}
          BY <2>2 DEF At
        <4>2. /\ IsFiniteSet(At(p, "parked") \cup {r})
              /\ Cardinality(At(p, "parked") \cup {r}) <= Cardinality(At(p, "parked")) + 1
          <5>1. IsFiniteSet(At(p, "parked")) /\ Cardinality(At(p, "parked")) \in Nat
            BY <1>f
          <5>2. /\ IsFiniteSet(At(p, "parked") \cup {r})
                /\ \/ Cardinality(At(p, "parked") \cup {r}) = Cardinality(At(p, "parked"))
                   \/ Cardinality(At(p, "parked") \cup {r}) = Cardinality(At(p, "parked")) + 1
            BY <5>1, FS_AddElement
          <5> QED BY <5>1, <5>2
        <4>3. Cardinality(At(p, "parked"))' <= Cardinality(At(p, "parked") \cup {r})
          BY <4>1, <4>2, FS_Subset
        <4>4. Cardinality(At(p, "parked")) < maxParked
          BY <1>f, <2>1, <2>4 DEF queueFull
        <4>5. Cardinality(At(p, "parked") \cup {r}) \in Nat
          BY <4>2, FS_CardinalityType
        <4> QED BY <1>f, <3>2, <4>2, <4>3, <4>4, <4>5
      <3> QED BY <3>1, <3>2
    <2> QED BY <2>3, <2>4
  <1>2. ASSUME NEW r \in HttpRequest, Ready(r) \/ Retry(r) \/ HoldExpires(r) \/ Ends(r) PROVE QueueInv'
    <2>1. PICK stage \in Stage \ {"parked"} : Becomes(r, stage)
      BY <1>2 DEF Ready, Retry, HoldExpires, Ends, Stage
    <2>2. \A q \in HttpRequest : http'[q].stage = "parked" => http'[q] = http[q]
      BY <1>0, <2>1, HttpMoves
    <2> QED BY <1>a, <2>2
  <1>3. ASSUME UNCHANGED http PROVE QueueInv'
    BY <1>3, <1>a
  <1>4. CASE ReplicaDown
    <2>1. ASSUME NEW r \in HttpRequest PROVE http'[r] = http[r] \/ http'[r].stage = "cut"
      <3>1. http'[r] = IF r \in Serving THEN [http[r] EXCEPT !.stage = "cut"] ELSE http[r]
        BY <1>4 DEF ReplicaDown
      <3>2. http[r] \in HttpState
        BY <1>0 DEF WakeShape
      <3> QED BY <3>1, <3>2 DEF HttpState
    <2> QED BY <1>a, <2>1
  <1>5. CASE WakeTick
    BY <1>0, <1>5, <1>a, TickFacts
  <1>6. ASSUME NEW p \in Ingress, Activate(p) \/ ReportStats(p) PROVE QueueInv'
    BY <1>3, <1>6 DEF Activate, ReportStats
  <1>7. CASE scaleEnv \/ ReplicaUp \/ NewLeader \/ UNCHANGED wakeVars
    BY <1>3, <1>7 DEF scaleEnv, evaluateIdle, evaluateServerless, ReplicaUp, NewLeader, wakeVars
  <1> QED BY <1>1, <1>2, <1>4, <1>5, <1>6, <1>7 DEF WakeNext

\* Values stay in range and no ingress holds more requests than its queue has room
\* for, with and without a concurrency limit and whatever faults there are.
THEOREM WakeTyped == WakeSpec => []WakeTypeOK
  <1>1. WakeInit => QueueInv
    <2> SUFFICES ASSUME WakeInit, NEW p \in Ingress PROVE Cardinality(At(p, "parked")) <= maxParked
      BY ShapeInit DEF QueueInv
    <2>1. At(p, "parked") = {}
      BY DEF WakeInit, At
    <2> QED BY <2>1, FS_EmptySet, Bounds
  <1>2. QueueInv /\ [WakeNext]_wakeVars => QueueInv'
    BY QueueNext
  <1>3. QueueInv => WakeTypeOK
    BY DEF QueueInv, WakeShape, WakeTypeOK, HttpState, Report
  <1> QED BY <1>1, <1>2, <1>3, PTL DEF WakeSpec

===============================================================================
