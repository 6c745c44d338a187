-------------------------- MODULE MCCloudDeletion --------------------------
(***************************************************************************)
(* The instance of CloudDeletion for TLC.                                  *)
(***************************************************************************)
EXTENDS CloudDeletion
=============================================================================
