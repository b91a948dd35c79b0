------------------------------ MODULE MCDaemonLock ------------------------------
(***************************************************************************)
(* Instances of DaemonLock for TLC.                                        *)
(***************************************************************************)
EXTENDS DaemonLock

CONSTANTS p1, p2, p3, p4

Two == {p1, p2}
Four == {p1, p2, p3, p4}

=============================================================================
