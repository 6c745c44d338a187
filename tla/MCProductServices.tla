------------------------- MODULE MCProductServices -------------------------
(***************************************************************************)
(* An instance of ProductServices for TLC: two services next to "mqtt"     *)
(* that, published in their second versions together, would require each   *)
(* other, and of which one may also offer the other's option.              *)
(***************************************************************************)
EXTENDS ProductServices, TLC

MCContents ==
  [s \in {"mqtt", "video", "ota"} |->
     CASE s = "mqtt" -> {"mqtt" :> {}}
       [] s = "video" -> {"video" :> {"mqtt"}, "video" :> {"mqtt", "ota"}}
       [] s = "ota" -> {"ota" :> {"mqtt"}, "ota" :> {"mqtt", "video"},
                        "video" :> {"mqtt"} @@ "ota" :> {"mqtt"}}]

\* Each behaviour is long in one part and short in the others.
Start(known, legacy, catalog, reads, prod, cld, factory, device, faults, jobs) ==
  [known |-> known, legacy |-> legacy,
   calls |-> [catalog |-> catalog, reads |-> reads, product |-> prod, cloud |-> cld,
              factory |-> factory, device |-> device, faults |-> faults, jobs |-> jobs]]

All == {"mqtt", "video", "ota"}
MCStarts == {Start({"mqtt"}, {}, 4, 0, 0, 0, 0, 0, 0, 0),
             Start(All, {}, 4, 0, 0, 0, 0, 0, 0, 0),
             Start(All, {}, 3, 1, 2, 0, 0, 0, 0, 0),
             Start(All, {"mqtt", "video"}, 1, 2, 2, 0, 0, 0, 0, 0),
             Start({"mqtt", "video"}, {}, 0, 1, 2, 0, 6, 1, 0, 0),
             Start({"mqtt", "video"}, {}, 0, 1, 1, 1, 6, 1, 0, 0),
             Start({"mqtt", "video"}, {}, 0, 3, 2, 0, 0, 2, 1, 6),
             Start({"mqtt", "video"}, {}, 0, 2, 2, 0, 0, 3, 1, 6)}

ProductSymmetry == Permutations(Runs) \cup Permutations(Enrollments) \cup Permutations(Jobs)
=============================================================================
