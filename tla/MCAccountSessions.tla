------------------------- MODULE MCAccountSessions -------------------------
(***************************************************************************)
(* Instances of AccountSessions for TLC.                                   *)
(***************************************************************************)
EXTENDS AccountSessions, TLC

AccountSymmetry == Permutations(Requests) \cup Permutations(AuthTokens) \cup Permutations(Refresh)
=============================================================================
