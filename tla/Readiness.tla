------------------------------- MODULE Readiness -------------------------------
(***************************************************************************)
(* Readiness (analysis/readiness/engine.py): one state for every enabled   *)
(* collector, one for observability, one for the infrastructure, and their *)
(* aggregate.  The demo profile is left out.                               *)
(*                                                                         *)
(* A collector record is [status, attempted, succeeded, age, points];      *)
(* points is 1 for an unstated number.  The words of a label are joined by *)
(* underscores, here and in the modules that show them.                    *)
(***************************************************************************)
EXTENDS Naturals, FiniteSets

\* READINESS_PRECEDENCE.
Precedence ==
    [healthy |-> 0, not_configured |-> 1, waiting_first_collection |-> 2,
     warning |-> 3, unavailable |-> 4, critical |-> 5]

\* aggregate_readiness: the state of the highest precedence, the first of equals.
Aggregate(first, second) ==
    IF Precedence[first.state] >= Precedence[second.state] THEN first ELSE second

-----------------------------------------------------------------------------
\* The record of one enabled collector: from its manifest when there is a
\* manifest file, and else from the infrastructure state.
NoRecord == [status |-> "unknown", attempted |-> FALSE, succeeded |-> FALSE, age |-> 0, points |-> 1]

StatusOf(execution) ==
    CASE execution = "collected" -> "healthy"
      [] execution = "partial" -> "warning"
      [] execution = "failed" -> "failed"
      [] OTHER -> "unknown"

FromManifest(manifest, c) ==
    IF c \notin DOMAIN manifest THEN NoRecord
    ELSE [status |-> StatusOf(manifest[c].execution), attempted |-> manifest[c].attempted,
          succeeded |-> manifest[c].succeeded, age |-> manifest[c].age,
          points |-> manifest[c].points]

Record(manifest, collectors, c) ==
    IF DOMAIN manifest # {} THEN FromManifest(manifest, c)
    ELSE IF c \in DOMAIN collectors THEN collectors[c] ELSE NoRecord

CollectorState(r, stale) ==
    IF r.status = "failed" \/ (r.attempted /\ r.age > stale) THEN "unavailable"
    ELSE IF r.status = "warning" THEN "warning"
    ELSE IF (r.status = "healthy" \/ r.succeeded) /\ r.points # 0 THEN "healthy"
    ELSE "waiting_first_collection"

-----------------------------------------------------------------------------
Observability(enabled, states, succeeded) ==
    LET seen == {states[c] : c \in enabled}
    IN  IF enabled = {} THEN [state |-> "not_configured", label |-> "Monitoring_not_started"]
        ELSE IF seen = {"unavailable"}
             THEN [state |-> "unavailable", label |-> "Collectors_unavailable"]
        ELSE IF seen \cap {"unavailable", "warning"} # {}
             THEN [state |-> "warning", label |-> "Warning"]
        ELSE IF ~succeeded /\ "healthy" \notin seen
             THEN [state |-> "waiting_first_collection", label |-> "Awaiting_first_collection"]
        ELSE [state |-> "healthy", label |-> "Healthy"]

Infrastructure(observability, assets) ==
    CASE observability.state = "not_configured" ->
           [state |-> "not_configured", label |-> "Discovery_not_configured"]
      [] observability.state = "waiting_first_collection" ->
           [state |-> "waiting_first_collection", label |-> "Waiting_for_inventory"]
      [] observability.state = "unavailable" ->
           [state |-> "unavailable", label |-> "Inventory_unavailable"]
      [] OTHER ->
           IF assets = {} THEN [state |-> "waiting_first_collection", label |-> "Waiting_for_inventory"]
           ELSE [state |-> "healthy", label |-> "Healthy"]

\* evaluate_readiness.
Evaluate(enabled, manifest, collectors, assets, stale) ==
    LET record == [c \in enabled |-> Record(manifest, collectors, c)]
        states == [c \in enabled |-> CollectorState(record[c], stale)]
        observability ==
            Observability(enabled, states, \E c \in enabled : record[c].succeeded)
        infrastructure == Infrastructure(observability, assets)
    IN  [collectors |-> states, observability |-> observability,
         infrastructure |-> infrastructure,
         overall |-> Aggregate(observability, infrastructure)]

===============================================================================
