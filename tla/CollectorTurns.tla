----------------------------- MODULE CollectorTurns -----------------------------
(***************************************************************************)
(* What the scheduler promises a collector, whatever the entry point, the  *)
(* timing, the failures and the restarts: its calls come one at a time,    *)
(* and it is asked to collect only after a discovery of the same process   *)
(* has succeeded.                                                          *)
(***************************************************************************)
CONSTANT Connectors

VARIABLES
    turn,    \* the phase each collector is serving, or "free"
    known    \* the collectors this process has discovered

vars == <<turn, known>>

AllFree == [c \in Connectors |-> "free"]

Init == turn = AllFree /\ known = {}

Begin(c, ph) ==
    /\ turn[c] = "free"
    /\ ph = "collect" => c \in known
    /\ turn' = [turn EXCEPT ![c] = ph]
    /\ UNCHANGED known

End(c) ==
    /\ turn[c] # "free"
    /\ turn' = [turn EXCEPT ![c] = "free"]
    /\ known' \in {known} \cup (IF turn[c] = "discover" THEN {known \cup {c}} ELSE {})

Restart == turn' = AllFree /\ known' = {}

Next ==
    \/ \E c \in Connectors : End(c) \/ \E ph \in {"discover", "collect"} : Begin(c, ph)
    \/ Restart

Spec == Init /\ [][Next]_vars

=============================================================================
