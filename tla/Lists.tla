-------------------------------- MODULE Lists --------------------------------
(* What the loops leave of a list that erase or skip some of its elements. *)
EXTENDS Naturals, Sequences

(* The elements of s that are in S, in their order.                        *)
Only(s, S) ==
  LET kept[k \in 0..Len(s)] ==
        IF k = 0 THEN <<>>
        ELSE IF s[k] \in S THEN Append(kept[k - 1], s[k]) ELSE kept[k - 1]
  IN kept[Len(s)]
=============================================================================
