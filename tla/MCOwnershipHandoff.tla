------------------------ MODULE MCOwnershipHandoff ------------------------
(***************************************************************************)
(* The instance of OwnershipHandoff for TLC.                               *)
(***************************************************************************)
EXTENDS OwnershipHandoff
=============================================================================
