----------------------------- MODULE MCMutation -----------------------------
(* Units of four bytes, of three values: a space, a digit and one that is  *)
(* not ASCII.  A behaviour draws from the mutators of bytes, from those of *)
(* parts of units, or from those of dictionaries.                          *)
EXTENDS Mutation, TLC

MCASCII == ("_" :> "_") @@ ("0" :> "0") @@ ("x" :> "_")
MCManualDictionary == <<<<"_", "x">>>>
MCCompares == {<<<<"0", "_">>, <<"x", "0">>>>}
MCMutations == [w \in {<<"0", "_">>, <<"x", "0">>} |-> {w}]
MCMemMemWords == {<<"0">>}
MCCases ==
  {[mutators |-> {"ShuffleBytes", "InsertByte", "ChangeByte", "EraseBytes"},
    units |-> {<<"_", "_", "0", "_">>, <<"0", "x">>},
    masks |-> {<<>>, <<FALSE, TRUE, TRUE>>}],
   [mutators |-> {"InsertRepeatedBytes", "ChangeASCIIInt", "ChangeBinInt", "CopyPart", "CrossOver"},
    units |-> {<<"_", "_", "0", "_">>, <<"0", "x">>},
    masks |-> {<<>>, <<FALSE, TRUE, TRUE>>}],
   [mutators |-> {"ManualDict", "PersAutoDict", "CMP"},
    units |-> {<<"0", "_", "_", "_">>},
    masks |-> {<<>>, <<FALSE, TRUE, TRUE>>}]}
=============================================================================
