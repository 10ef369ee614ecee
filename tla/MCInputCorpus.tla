--------------------------- MODULE MCInputCorpus ---------------------------
(* Two large units with a feature each, a smaller one that has both, and a *)
(* still smaller one; a rejected unit; no seed files, a rejected one with   *)
(* two alike from which the target finds nothing, or two alike of which    *)
(* one is in the output corpus.  -shrink is taken only together with       *)
(* -reduce_inputs, to bound the states; the proofs are about every         *)
(* combination.                                                            *)
EXTENDS InputCorpus, TLC

MCSizeOf == ("n" :> 1) @@ ("w" :> 2) @@ ("v" :> 3) @@ ("a" :> 4) @@ ("b" :> 5) @@ ("r" :> 2)
MCFeaturesOf ==
  ("n" :> {}) @@ ("w" :> {0}) @@ ("v" :> {0, 1}) @@ ("a" :> {0}) @@ ("b" :> {1}) @@ ("r" :> {})
MCSeedCorpora ==
  {[list |-> <<>>, own |-> {}], [list |-> <<"r", "n", "n">>, own |-> {}],
   [list |-> <<"b", "b">>, own |-> {1}]}
MCNoSeeds == {[list |-> <<>>, own |-> {}]}
MCOptionSets ==
  {o \in [shrink : BOOLEAN, reduce : BOOLEAN, keep : BOOLEAN] : o.shrink => o.reduce}
MCDefaultOptions == {[shrink |-> FALSE, reduce |-> TRUE, keep |-> FALSE]}
=============================================================================
