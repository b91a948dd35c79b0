---------------------------- MODULE OperatorStatus ----------------------------
(***************************************************************************)
(* What a manual collection leaves behind (analysis/operator/engine.py,    *)
(* OperatorCollectEngine.record, with the validation of ObservationScope   *)
(* and PipelineRun in analysis/state_history/models.py) and what status    *)
(* makes of it (OperatorStatusEngine).                                     *)
(*                                                                         *)
(* Abstraction: one site; a result is the status of one connector in one   *)
(* run, with "disabled" for what was skipped as such and "placement" for   *)
(* an execution mode mismatch.                                             *)
(***************************************************************************)
EXTENDS FiniteSets

CONSTANT DomainsOf  \* the observation domains of each connector

Skips == {"skipped", "placement"}
Results == Skips \cup {"success", "failed", "disabled"}

With(results, statuses) == {c \in DOMAIN results : results[c] \in statuses}

-----------------------------------------------------------------------------

\* Mutant: what was skipped does not count against a scope.
CompletenessBlind(failed, skipped, observed) ==
    IF failed # {} /\ observed = {} THEN "failed"
    ELSE IF failed # {} THEN "partial" ELSE "complete"

Completeness(failed, skipped, observed) ==
    IF failed # {} /\ observed = {} THEN "failed"
    ELSE IF skipped # {} /\ observed = {} THEN "skipped"
    ELSE IF failed \cup skipped # {} THEN "partial" ELSE "complete"

\* The scopes of a run: one for each domain of the connectors it was about.
Scopes(results, enabled) ==
    {LET expected == {c \in enabled : d \in DomainsOf[c]}
         observed == expected \cap With(results, {"success"})
         failed == expected \cap With(results, {"failed"})
         skipped == expected \cap With(results, Skips)
     IN [domain |-> d, expected |-> expected, observed |-> observed, failed |-> failed,
         skipped |-> skipped, completeness |-> Completeness(failed, skipped, observed)] :
     d \in UNION {DomainsOf[c] : c \in enabled}}

\* ObservationScope.__post_init__.
Valid(scope) ==
    /\ scope.observed \cup scope.failed \cup scope.skipped \subseteq scope.expected
    /\ scope.completeness = "complete" =>
          scope.failed = {} /\ scope.skipped = {} /\ scope.observed = scope.expected

Overall(results, enabled) ==
    LET observed == With(results, {"success"})
        failed == With(results, {"failed"})
        skipped == With(results, Skips)
    IN IF failed # {} /\ observed = {} THEN "failed"
       ELSE IF failed \cup skipped # {} /\ observed # {} THEN "partial"
       ELSE IF skipped # {} \/ enabled = {} THEN "skipped" ELSE "success"

\* A run is recorded unless one of its scopes is refused.
Accepted(results, enabled) == \A scope \in Scopes(results, enabled) : Valid(scope)

-----------------------------------------------------------------------------

\* What status knows of each connector is its latest result among the recorded runs.
Remembered(latest, results) ==
    [c \in DOMAIN latest |-> IF c \in DOMAIN results THEN {results[c]} ELSE latest[c]]

\* OperatorStatusEngine.run: the readiness of a connector comes first, then its
\* latest recorded run.
HealthOf(readiness, seen) ==
    IF readiness = "disabled" THEN "Disabled"
    ELSE IF readiness \in {"execution mode mismatch", "pending configuration",
                           "pending credentials"} THEN "Warning"
    ELSE IF seen = {"failed"} THEN "Failed"
    ELSE IF seen = {"success"} THEN "Healthy"
    ELSE "Warning"

===============================================================================
