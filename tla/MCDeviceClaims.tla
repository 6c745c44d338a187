--------------------------- MODULE MCDeviceClaims ---------------------------
(***************************************************************************)
(* Instances of DeviceClaims for TLC.                                      *)
(***************************************************************************)
EXTENDS DeviceClaims, TLC

ClaimSymmetry == Permutations(Tokens) \cup Permutations(Operators)
=============================================================================
