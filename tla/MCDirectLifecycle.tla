------------------------- MODULE MCDirectLifecycle -------------------------
(***************************************************************************)
(* Instances of DirectLifecycle for TLC.  Operation ids name their type;   *)
(* every operation is about the one device d1.                             *)
(***************************************************************************)
EXTENDS DirectLifecycle

MCDevices == {"d1"}
MCActivities == {"a1", "a2"}
MCTypeOf == [o \in Ops |->
  CASE o \in {"prov1", "prov2"} -> "provision"
    [] o = "deact" -> "deactivate"
    [] o = "unprov" -> "unprovision"
    [] o = "entl" -> "entitlement_update"]
MCDeviceOf == [o \in Ops |-> "d1"]
MCActivityOf == [o \in Ops |-> IF o = "prov2" THEN "a2" ELSE "a1"]
MCResultOf == [o \in Ops |-> o]
=============================================================================
