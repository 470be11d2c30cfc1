----------------------------- MODULE BuildOutcome -----------------------------
(***************************************************************************)
(* What a build is to the rest of the system: it is waited for until it    *)
(* has an outcome, and the outcome is final.  Some builds may have theirs  *)
(* from the start.  Rollout's FinishBuild is this specification seen from  *)
(* one deployment.                                                         *)
(***************************************************************************)
CONSTANT Build

VARIABLE outcome

Init == outcome \in [Build -> {"QUEUED", "SUCCEEDED", "FAILED"}]

Finish(b) ==
    /\ outcome[b] = "QUEUED"
    /\ \E s \in {"SUCCEEDED", "FAILED"} : outcome' = [outcome EXCEPT ![b] = s]

Spec == Init /\ [][\E b \in Build : Finish(b)]_outcome
==============================================================================
