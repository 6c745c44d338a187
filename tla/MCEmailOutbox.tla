--------------------------- MODULE MCEmailOutbox ---------------------------
(***************************************************************************)
(* The instance of EmailOutbox for TLC.                                    *)
(***************************************************************************)
EXTENDS EmailOutbox
=============================================================================
