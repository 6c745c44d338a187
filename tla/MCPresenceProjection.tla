------------------------ MODULE MCPresenceProjection ------------------------
(***************************************************************************)
(* Instances of PresenceProjection for TLC: two observations of the same   *)
(* time that disagree, an earlier and a later one, and one of another      *)
(* Video Cloud device.                                                     *)
(***************************************************************************)
EXTENDS PresenceProjection, TLC

MCMessages == {"on1", "on2", "off2", "on3", "other3"}
MCStatusOf == [m \in Messages |-> IF m = "off2" THEN "offline" ELSE "online"]
MCTimeOf == [m \in Messages |->
  CASE m = "on1" -> 1 [] m \in {"on2", "off2"} -> 2 [] OTHER -> 3]
MCDevidOf == [m \in Messages |-> IF m = "other3" THEN "v2" ELSE "v1"]
MCDevids == {"v1", "v2"}
HandlerSymmetry == Permutations(Handlers)
=============================================================================
