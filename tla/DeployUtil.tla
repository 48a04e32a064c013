------------------------------ MODULE DeployUtil ------------------------------
(***************************************************************************)
(* The pure functions of pkg/deploy/util that the deployment controllers   *)
(* share.  A deployment is a ReplicationController whose annotations hold   *)
(* its phase; a view of the deployments of one config is a function from    *)
(* versions to records with a "phase" field, "Absent" standing for a        *)
(* version that has no ReplicationController.                               *)
(***************************************************************************)
EXTENDS Integers, FiniteSets

Phases == {"New", "Pending", "Running", "Complete", "Failed"}

IsTerminatedPhase(phase) == phase \in {"Complete", "Failed"}

IsInFlightPhase(phase) == phase \in {"New", "Pending", "Running"}

\* Mutant: a phase follows whatever the deployer pod shows.
CanTransitionAnywhere(current, next) == current # next

\* The phase machine: New < Pending < Running < {Complete, Failed}.
CanTransitionPhase(current, next) ==
    \/ current = "New" /\ next \in {"Pending", "Running", "Failed", "Complete"}
    \/ current = "Pending" /\ next \in {"Running", "Failed", "Complete"}
    \/ current = "Running" /\ next \in {"Failed", "Complete"}

-------------------------------------------------------------------------------
\* Views: [Versions -> record].

Existing(view) == {v \in DOMAIN view : view[v].phase # "Absent"}

HighestOf(versions) == CHOOSE v \in versions : \A w \in versions : w <= v

\* The deployment of the latest version exists: the highest version found
\* is the one the config asks for.
LatestIsDeployed(latestVersion, view) ==
    /\ latestVersion # 0
    /\ Existing(view) # {}
    /\ HighestOf(Existing(view)) = latestVersion

CompleteVersions(view) == {v \in DOMAIN view : view[v].phase = "Complete"}

\* Mutant: the latest deployment is the active one, whatever its outcome.
ActiveVersionIgnoringOutcome(view) ==
    IF Existing(view) = {} THEN 0 ELSE HighestOf(Existing(view))

\* The active deployment is the complete one of highest version; 0 for none.
ActiveVersion(view) ==
    IF CompleteVersions(view) = {} THEN 0 ELSE HighestOf(CompleteVersions(view))

\* Mutant: without an active deployment all of them count.
DeploymentsForCleanupAll(latestVersion, view) ==
    IF ActiveVersion(view) = 0
    THEN Existing(view)
    ELSE {v \in Existing(view) : v < ActiveVersion(view)}

\* The versions that count against the revision history limit.
DeploymentsForCleanup(latestVersion, view) ==
    IF ActiveVersion(view) = 0
    THEN Existing(view) \ {latestVersion}
    ELSE {v \in Existing(view) : v < ActiveVersion(view)}

\* cleanupOldDeployments deletes the oldest of them beyond the limit, and
\* passes over (without replacing) those that still have replicas.
Prunable(latestVersion, view, limit) ==
    LET relevant == DeploymentsForCleanup(latestVersion, view)
        older(v) == Cardinality({w \in relevant : w < v})
    IN  {v \in relevant : /\ older(v) < Cardinality(relevant) - limit
                          /\ view[v].replicas = 0}
===============================================================================
