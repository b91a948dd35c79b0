----------------------------- MODULE CaptureLedger -----------------------------
(***************************************************************************)
(* What state history promises its readers: the captured content of all    *)
(* scopes and the results of pipeline runs change together, in one step    *)
(* per run, and the result of a run tells how every scope came to the      *)
(* content it has afterwards.                                              *)
(***************************************************************************)
CONSTANTS
    Runs,      \* pipeline run identifiers
    Scopes,    \* site/domain pairs
    Contents,  \* what a scope may hold
    Nothing    \* no content captured, no change told

VARIABLES
    content,   \* what each scope holds
    recorded   \* of each run, the old and the new content of each scope

Init ==
    /\ content = [s \in Scopes |-> Nothing]
    /\ recorded = [r \in Runs |-> Nothing]

\* A run leaves some scopes alone and is silent about them.
Record(r) ==
    /\ recorded[r] = Nothing
    /\ \E new \in [Scopes -> Contents \cup {Nothing}], told \in SUBSET Scopes :
         /\ \A s \in Scopes \ told : new[s] = content[s]
         /\ content' = new
         /\ recorded' = [recorded EXCEPT ![r] =
              [s \in Scopes |-> IF s \in told THEN <<content[s], new[s]>> ELSE Nothing]]

\* A step in which no run is recorded leaves everything as it is.
Next ==
    \/ UNCHANGED <<content, recorded>>
    \/ \E r \in Runs : Record(r)

Spec == Init /\ [][Next]_<<content, recorded>>

===============================================================================
