-------------------------------- MODULE Wake --------------------------------
(***************************************************************************)
(* Scale to zero and wake on request, for one environment.  The leader     *)
(* cools the environment to zero replicas when the ingress nodes report no *)
(* traffic (ScaleToZero, or Serverless for an environment with a           *)
(* concurrency limit); an ingress that gets a request for a cold           *)
(* environment parks it, asks the leader to activate the environment once  *)
(* and lets the request through when an endpoint appears, or gives up.     *)
(*                                                                         *)
(* Time advances in heartbeat intervals (10s).  What the program does in   *)
(* less is urgent: Tick waits for it.                                      *)
(***************************************************************************)
EXTENDS Naturals, FiniteSets

CONSTANTS
    Ingress, HttpRequest,
    Serverless,          \* the environment sets max_concurrency
    IdleTimeout, ColdStart, holdTimeout, activationDebounce,  \* in ticks
    maxParked,
    WakeFaults,          \* a subset of {"election", "crash"}
    MaxFaults            \* bound: how often they happen

ASSUME WakeAssumption ==
    /\ Ingress # {} /\ IsFiniteSet(HttpRequest)
    /\ Serverless \in BOOLEAN /\ WakeFaults \subseteq {"election", "crash"}
    /\ {IdleTimeout, ColdStart, holdTimeout, activationDebounce, maxParked, MaxFaults} \subseteq Nat

VARIABLES
    effective,   \* the environment's effective_replicas, 0 or 1
    endpoint,    \* the routes have a healthy endpoint
    warmup,      \* ticks the scheduler has been starting a replica
    http,        \* per request: stage, ingress, ticks spent in the stage
    lastReq,     \* per ingress: age of the last request it proxied
    waking,      \* ingresses with an activation call in flight
    lastWake,    \* age of the leader's last activation
    report,      \* per ingress: the leader's latest heartbeat, with its age
    lastActive,  \* the leader's activity mark: an age, or Unseen
    faults

wakeVars == <<effective, endpoint, warmup, http, lastReq, waking, lastWake, report, lastActive, faults>>

Unseen == IdleTimeout + 1  \* no mark in this term
NoReport == [heard |-> FALSE, inflight |-> 0, last |-> IdleTimeout, age |-> 0]
Old(a, cap) == IF a < cap THEN a + 1 ELSE cap
Older(x, y) == IF x < y THEN y ELSE x
Newer(x, y) == IF x < y THEN x ELSE y

At(p, stage) == {r \in HttpRequest : http[r].at = p /\ http[r].stage = stage}
Waiting == {r \in HttpRequest : http[r].stage \in {"parked", "ready"}}
Serving == {r \in HttpRequest : http[r].stage = "serving"}

WakeInit ==
    /\ effective = 1 /\ endpoint = TRUE /\ warmup = 0
    /\ http = [r \in HttpRequest |-> [stage |-> "new", at |-> CHOOSE p \in Ingress : TRUE, age |-> 0]]
    /\ lastReq = [p \in Ingress |-> 0]
    /\ waking = {} /\ lastWake = activationDebounce
    /\ report = [p \in Ingress |-> NoReport]
    /\ lastActive = Unseen /\ faults = 0

(***************************************************************************)
(* Ingress (L7.ServeHTTP, Activator.Hold)                                  *)
(***************************************************************************)
Becomes(r, stage) == http' = [http EXCEPT ![r].stage = stage, ![r].age = 0]
leaderSide == <<effective, endpoint, warmup, lastWake, report, lastActive, faults>>

\* Mutant: one request too many is parked.
queueFullOffByOne(p) == Cardinality(At(p, "parked")) > maxParked
queueFull(p) == Cardinality(At(p, "parked")) >= maxParked

\* A request is proxied (Stats.begin), shed, or parked with an activation under way.
ServeHTTP(r, p) ==
    /\ http[r].stage = "new"
    /\ \/ /\ endpoint
          /\ http' = [http EXCEPT ![r] = [stage |-> "serving", at |-> p, age |-> 0]]
          /\ lastReq' = [lastReq EXCEPT ![p] = 0]
          /\ UNCHANGED waking
       \/ /\ ~endpoint /\ queueFull(p)
          /\ http' = [http EXCEPT ![r] = [stage |-> "shed", at |-> p, age |-> 0]]
          /\ UNCHANGED <<lastReq, waking>>
       \/ /\ ~endpoint /\ ~queueFull(p)
          /\ http' = [http EXCEPT ![r] = [stage |-> "parked", at |-> p, age |-> 0]]
          /\ waking' = waking \cup {p}
          /\ UNCHANGED lastReq
    /\ UNCHANGED leaderSide

\* The parked request sees an endpoint and gives its slot back.
Ready(r) ==
    /\ http[r].stage = "parked" /\ endpoint
    /\ Becomes(r, "ready")
    /\ UNCHANGED <<lastReq, waking, leaderSide>>

\* It selects an endpoint again: there may be none by now.
Retry(r) ==
    /\ http[r].stage = "ready"
    /\ Becomes(r, IF endpoint THEN "serving" ELSE "badGateway")
    /\ lastReq' = IF endpoint THEN [lastReq EXCEPT ![http[r].at] = 0] ELSE lastReq
    /\ UNCHANGED <<waking, leaderSide>>

HoldExpires(r) ==
    /\ http[r].stage = "parked" /\ http[r].age >= holdTimeout
    /\ Becomes(r, "gatewayTimeout")
    /\ UNCHANGED <<lastReq, waking, leaderSide>>

\* The response is complete, or the client gave up on a parked request.
Ends(r) ==
    /\ http[r].stage \in {"serving", "parked"}
    /\ Becomes(r, "done")
    /\ UNCHANGED <<lastReq, waking, leaderSide>>

(***************************************************************************)
(* Leader                                                                  *)
(***************************************************************************)
\* Mutant: an activation is accepted without a write for as long as one is remembered.
debouncedForever == lastWake <= activationDebounce
debounced == lastWake < activationDebounce

\* The activation call of an ingress is handled and returns.
Activate(p) ==
    /\ p \in waking /\ waking' = waking \ {p}
    /\ IF effective >= 1 \/ debounced
       THEN UNCHANGED <<effective, warmup, lastWake>>
       ELSE effective' = 1 /\ warmup' = 0 /\ lastWake' = 0
    /\ UNCHANGED <<endpoint, http, lastReq, report, lastActive, faults>>

\* An agent's heartbeat carries its ingress counters.
ReportStats(p) ==
    /\ report' = [report EXCEPT ![p] = [heard |-> TRUE, inflight |-> Cardinality(At(p, "serving")),
                                        last |-> lastReq[p], age |-> 0]]
    /\ report' # report
    /\ UNCHANGED <<effective, endpoint, warmup, http, lastReq, waking, lastWake, lastActive, faults>>

Heard == {p \in Ingress : report[p].heard}
Busy == \E p \in Heard : report[p].inflight > 0

\* Mutant: without a mark only reported requests count.
firstSightUnseeded == IdleTimeout
\* First sight in a term counts as activity: the full window starts.
firstSight == 0

\* The activity mark after an evaluation: the most recent of the mark and what
\* the ingresses reported.
seen ==
    LET mark == IF lastActive = Unseen THEN firstSight ELSE lastActive
    IN  IF Busy THEN 0
        ELSE CHOOSE a \in {mark} \cup {report[p].last : p \in Heard} :
                \A b \in {mark} \cup {report[p].last : p \in Heard} : a <= b

\* ScaleToZero.evaluateEnv with cool.  It does nothing while no node reports; a
\* node without an ingress counts, so it may act before any ingress was heard.
evaluateIdle ==
    /\ \/ effective = 0 /\ lastActive' = Unseen /\ UNCHANGED effective
       \/ effective = 1 /\ seen < IdleTimeout /\ lastActive' = seen /\ UNCHANGED effective
       \/ effective = 1 /\ seen >= IdleTimeout /\ effective' = 0 /\ lastActive' = Unseen
    /\ UNCHANGED <<endpoint, warmup, http, lastReq, waking, lastWake, report, faults>>

\* Serverless.evaluateEnv, with one replica at most: no idle window.
evaluateServerless ==
    /\ effective' = IF Busy THEN 1 ELSE 0
    /\ warmup' = IF effective' = effective THEN warmup ELSE 0
    /\ UNCHANGED <<endpoint, http, lastReq, waking, lastWake, report, lastActive, faults>>

\* Each of the two loops skips the environments of the other.
scaleEnv == IF Serverless THEN evaluateServerless ELSE evaluateIdle

(***************************************************************************)
(* The rest of the cluster: the scheduler starts and stops the replica     *)
(* (external to this module), leadership moves, replicas crash, time       *)
(* passes.                                                                 *)
(***************************************************************************)
ReplicaUp ==
    /\ effective = 1 /\ ~endpoint
    /\ endpoint' = TRUE /\ warmup' = 0
    /\ UNCHANGED <<effective, http, lastReq, waking, lastWake, report, lastActive, faults>>

\* A stopped replica takes the requests it serves with it.
ReplicaDown ==
    /\ endpoint /\ endpoint' = FALSE /\ warmup' = 0
    /\ \/ effective = 0 /\ UNCHANGED faults
       \/ effective = 1 /\ "crash" \in WakeFaults /\ faults < MaxFaults /\ faults' = faults + 1
    /\ http' = [r \in HttpRequest |-> IF r \in Serving
                                     THEN [http[r] EXCEPT !.stage = "cut"] ELSE http[r]]
    /\ UNCHANGED <<effective, lastReq, waking, lastWake, report, lastActive>>

\* A new leader has heard nobody and remembers nothing; calls to the old one fail.
NewLeader ==
    /\ "election" \in WakeFaults /\ faults < MaxFaults /\ faults' = faults + 1
    /\ report' = [p \in Ingress |-> NoReport] /\ lastActive' = Unseen
    /\ waking' = {} /\ lastWake' = activationDebounce
    /\ UNCHANGED <<effective, endpoint, warmup, http, lastReq>>

Urgent ==
    \/ waking # {} \/ \E r \in Waiting : endpoint \/ http[r].stage = "ready" \/ http[r].age >= holdTimeout
    \/ endpoint /\ effective = 0
    \/ ~endpoint /\ effective = 1 /\ warmup >= ColdStart
    \/ \E p \in Ingress : report[p].age >= 1

WakeTick ==
    /\ ~Urgent
    /\ warmup' = IF effective = 1 /\ ~endpoint THEN warmup + 1 ELSE 0
    /\ http' = [r \in HttpRequest |-> [http[r] EXCEPT !.age =
                      IF http[r].stage \in {"parked", "serving"} THEN Old(@, Older(holdTimeout, 2)) ELSE @]]
    /\ lastReq' = [p \in Ingress |-> Old(lastReq[p], IdleTimeout)]
    /\ lastWake' = Old(lastWake, activationDebounce)
    /\ report' = [p \in Ingress |-> [report[p] EXCEPT !.last = Old(@, IdleTimeout), !.age = @ + 1]]
    /\ lastActive' = IF lastActive = Unseen THEN Unseen ELSE Old(lastActive, IdleTimeout)
    /\ UNCHANGED <<effective, endpoint, waking, faults>>

WakeNext ==
    \/ \E r \in HttpRequest : \/ \E p \in Ingress : ServeHTTP(r, p)
                          \/ Ready(r) \/ Retry(r) \/ HoldExpires(r) \/ Ends(r)
    \/ \E p \in Ingress : Activate(p) \/ ReportStats(p)
    \/ scaleEnv \/ ReplicaUp \/ ReplicaDown \/ NewLeader \/ WakeTick

WakeSpec == WakeInit /\ [][WakeNext]_wakeVars

(***************************************************************************)
(* Properties                                                              *)
(***************************************************************************)
\* Values stay in range.
WakeTypeOK ==
    /\ effective \in {0, 1} /\ endpoint \in BOOLEAN /\ warmup \in 0..ColdStart
    /\ \A r \in HttpRequest : http[r].at \in Ingress
    /\ \A p \in Ingress : lastReq[p] \in 0..IdleTimeout /\ report[p].age \in 0..1
                          /\ Cardinality(At(p, "parked")) <= maxParked
    /\ waking \subseteq Ingress /\ lastWake \in 0..activationDebounce
    /\ lastActive \in 0..Unseen

\* The leader never takes the replica from a request that has been in flight for
\* longer than a heartbeat interval, also when it was elected a moment ago and
\* has heard from some of the ingresses only (evaluateEnv seeds its mark).
BusyNotCooled ==
    [][effective = 1 /\ effective' = 0 => \A r \in Serving : http[r].age <= 1]_wakeVars

\* A held request is let through once the replica is up: while the leader stays
\* and replicas do not crash it is neither timed out nor answered with a bad
\* gateway, although only its first moment asks for the wake and the environment
\* may have been cooled again since (Hold, Activate, evaluateEnv).
HeldIsServed ==
    \A r \in HttpRequest : http[r].stage \in {"gatewayTimeout", "badGateway"} => faults > 0

\* "waits for the new instance to become healthy, then proxies the held request
\* through" (docs/scaling/scale-to-zero.md): a held request does not time out
\* while the leader stays and replicas do not crash.
HeldNotTimedOut == \A r \in HttpRequest : http[r].stage = "gatewayTimeout" => faults > 0
=============================================================================
