--------------------------- MODULE MCGlobalCorpus ---------------------------
(* Instances of GlobalCorpus.  Four contents of sizes 1 to 3 over three    *)
(* features: "a" has two features that "b" and "c" take from it one at a   *)
(* time, "d" ties with "b" in size, so takeovers, an eviction by two       *)
(* different inputs and a rejected tie all happen.  The initial seeds "a"  *)
(* and "d" come from two directories and have the same base name.          *)
EXTENDS GlobalCorpus, TLC

MCContents == {"a", "b", "c", "d"}
MCFeatures == {"f", "g", "h"}
MCSizeOf == "a" :> 3 @@ "b" :> 2 @@ "c" :> 1 @@ "d" :> 2
MCFeaturesOf == "a" :> {"f", "g"} @@ "b" :> {"f"} @@ "c" :> {"g"} @@ "d" :> {"f", "h"}
MCSeedName == [c \in {"a", "d"} |-> "seed"]
=============================================================================
