------------------------- MODULE MCBrokerLifecycle -------------------------
(***************************************************************************)
(* Instances of BrokerLifecycle for TLC: results r1 and r2 answer the one  *)
(* provision of device d1.                                                 *)
(***************************************************************************)
EXTENDS BrokerLifecycle, TLC

MCDevices == {"d1"}
MCActivities == {"a1", "a2"}
MCTypeOf == [o \in Ops |-> "provision"]
MCDeviceOf == [o \in Ops |-> "d1"]
MCActivityOf == [o \in Ops |-> "a1"]
MCOpOf == [r \in Results |-> "prov1"]
AgentSymmetry == Permutations(Agents)
=============================================================================
