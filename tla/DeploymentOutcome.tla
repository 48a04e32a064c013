-------------------------- MODULE DeploymentOutcome --------------------------
(***************************************************************************)
(* What a deployment promises to whoever asked for it, with no watches, no  *)
(* caches and no queue: it is accepted, it ends once, and it ends Complete   *)
(* only on the evidence of a deployer that did its work.                     *)
(***************************************************************************)

CONSTANT Deployments

VARIABLES outcome, evidence

vars == <<outcome, evidence>>

Outcomes == {"absent", "inflight", "complete", "failed"}

OutcomeTypeOK ==
    /\ outcome \in [Deployments -> Outcomes]
    /\ evidence \in [Deployments -> BOOLEAN]

Init ==
    /\ outcome = [d \in Deployments |-> "absent"]
    /\ evidence \in [Deployments -> BOOLEAN]

Becomes(d, from, to) ==
    /\ outcome[d] = from
    /\ outcome' = [outcome EXCEPT ![d] = to]
    /\ evidence' = evidence

\* Its deployer reports success.
Report(d) ==
    /\ evidence' = [evidence EXCEPT ![d] = TRUE]
    /\ outcome' = outcome

Accept(d) == Becomes(d, "absent", "inflight")
Complete(d) == evidence[d] /\ Becomes(d, "inflight", "complete")
Fail(d) == Becomes(d, "inflight", "failed")
Retry(d) == Becomes(d, "failed", "inflight")
Remove(d) == \E from \in Outcomes : Becomes(d, from, "absent")

Next ==
    \E d \in Deployments :
        \/ Report(d) \/ Accept(d) \/ Complete(d) \/ Fail(d) \/ Retry(d)
        \/ Remove(d)

Spec == Init /\ [][Next]_vars
===============================================================================
