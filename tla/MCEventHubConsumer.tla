------------------------ MODULE MCEventHubConsumer ------------------------
(***************************************************************************)
(* Instances of EventHubConsumer for TLC.                                  *)
(***************************************************************************)
EXTENDS EventHubConsumer

MCRefused == {<<1, 3>>}
MCUndecodable == {<<2, 3>>}
=============================================================================
