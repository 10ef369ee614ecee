--------------------------- MODULE MCMergeControl ---------------------------
(* Small instances of MergeControl: two contents of one size that share a  *)
(* feature, a large one that has the features of both, and one between    *)
(* them that crashes the target.  The first corpus is empty or holds one.  *)
EXTENDS MergeControl, TLC

MCSizeOf == ("a" :> 1) @@ ("b" :> 1) @@ ("c" :> 3) @@ ("d" :> 2)
MCFeaturesOf == ("a" :> {1, 2}) @@ ("b" :> {2, 3}) @@ ("c" :> {1, 2, 3}) @@ ("d" :> {3})
MCOutDirs == {{}, {"a"}, {"c"}}
=============================================================================
