---------------------------- MODULE MCStateHistory ----------------------------
(***************************************************************************)
(* Instances of StateHistory for TLC: one scope, and two scopes whose      *)
(* pointers move one after the other.                                      *)
(***************************************************************************)
EXTENDS StateHistory

CONSTANTS r1, r2, sydney, perth, ap, switch, up, down, pipeline, cli

OneScope == <<sydney>>
TwoScopes == <<sydney, perth>>
TwoRuns == {r1, r2}
OneEntity == {ap}
TwoEntities == {ap, switch}
OneValue == {up}
TwoValues == {up, down}
OneWriter == {pipeline}

\* State constraint: the second scope only ever tells of one entity, completely;
\* the first one keeps every combination.
SecondScopePlain ==
    \A r \in Runs : inputs[r] # None =>
        /\ inputs[r].coverage[perth] # "partial"
        /\ inputs[r].observed[perth][switch] = Gone

===============================================================================
