----------------------------- MODULE MCDataFlow -----------------------------
(* Two labels for units of two bytes, of three and of five: one, two and   *)
(* three runs, with and without a tail. In the first program function 1 is *)
(* called by function 0, which compares after it returned; in the second   *)
(* one some units compare nothing, and function 2 runs with one unit only. *)
EXTENDS DataFlow

MCLengths == ("u2" :> 2) @@ ("u3" :> 3) @@ ("u5" :> 5)
MCBlocks == (0 :> 2) @@ (1 :> 3) @@ (2 :> 1)

Call(u) ==
  LET n == MCLengths[u]
  IN <<<<"block", 0, 0>>, <<"cmp", {0}>>, <<"block", 1, 0>>, <<"cmp", 0..n - 1>>>> \o
     IF n > 2 THEN <<<<"block", 1, 2>>, <<"block", 0, 1>>, <<"cmp", {n - 1}>>>> ELSE <<>>

Branch(u) ==
  LET n == MCLengths[u]
  IN IF n = 5 THEN <<<<"block", 0, 0>>, <<"cmp", {1, 4}>>, <<"block", 2, 0>>, <<"cmp", {2, 3}>>,
                     <<"block", 0, 0>>, <<"cmp", {0}>>>>
     ELSE <<<<"block", 0, 0>>>> \o IF n = 3 THEN <<<<"block", 0, 1>>, <<"cmp", {2}>>>> ELSE <<>>

MCPrograms == <<[u \in DOMAIN MCLengths |-> Call(u)], [u \in DOMAIN MCLengths |-> Branch(u)]>>
=============================================================================
