---------------------------- MODULE MCNotifications ----------------------------
(***************************************************************************)
(* Instances of Notifications for TLC.                                     *)
(***************************************************************************)
EXTENDS Notifications

CONSTANTS collection_failed, doctor_failed, webhook

Both == {collection_failed, doctor_failed}
CollectionOnly == {collection_failed}
DoctorOnly == {doctor_failed}
Nothing == {}
OneChannel == {webhook}

===============================================================================
