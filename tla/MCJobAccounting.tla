-------------------------- MODULE MCJobAccounting --------------------------
(* Two functions: f with one more block, g with none.  The file of g is    *)
(* not interesting.  One seed is smaller than another that covers more;    *)
(* when "w" runs, the counter of the entry of f wraps to zero.             *)
EXTENDS JobAccounting, TLC

MCEntryOf == ("f" :> "f") @@ ("f1" :> "f") @@ ("g" :> "g")
MCTrace == ("x" :> {"f"}) @@ ("y" :> {"f", "f1"}) @@ ("z" :> {"f", "g"}) @@ ("w" :> {"f1"})
MCSizeOf == ("x" :> 1) @@ ("y" :> 2) @@ ("z" :> 3) @@ ("w" :> 2)
MCEngineLists == {<<>>, <<"afl">>, <<"afl", "entropic">>, <<"afl", "afl", "entropic">>}
=============================================================================
