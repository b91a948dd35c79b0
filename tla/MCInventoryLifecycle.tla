------------------------- MODULE MCInventoryLifecycle -------------------------
(***************************************************************************)
(* Instances of InventoryLifecycle for TLC: one asset, two assets of one  *)
(* source, and one asset of each of two sources.                           *)
(***************************************************************************)
EXTENDS InventoryLifecycle, TLC

CONSTANTS mist, snmp, ap, switch

OneSource == {mist}
TwoSources == {mist, snmp}
OneAsset == {ap}
Alone == (ap :> mist)

===============================================================================
