------------------------------- MODULE RunOnce -------------------------------
(***************************************************************************)
(* What the control file of the merge promises, whoever crashes: an input  *)
(* on the list is executed at most once; the coverage of an input is       *)
(* recorded or, when its execution was cut short, lost; nothing recorded   *)
(* is forgotten and no input is given up while the list is in use; and a   *)
(* list is only replaced when all its inputs have had their turn.          *)
(***************************************************************************)
CONSTANT Files

VARIABLE fate  \* of every file: what its execution has come to

Init == fate = [f \in Files |-> "unlisted"]

(* A new list of inputs.                                                   *)
List ==
  /\ \A f \in Files : fate[f] # "waiting"
  /\ fate' \in [Files -> {"waiting", "unlisted"}]

(* An input is executed; if another one still was, its coverage is lost.   *)
Start(f) ==
  /\ fate[f] = "waiting"
  /\ fate' = [g \in Files |-> IF g = f THEN "running"
                              ELSE IF fate[g] = "running" THEN "lost" ELSE fate[g]]

Record(f) ==
  /\ fate[f] = "running"
  /\ fate' = [fate EXCEPT ![f] = "recorded"]

Next ==
  \/ List
  \/ \E f \in Files : Start(f) \/ Record(f)

Spec == Init /\ [][Next]_fate
=============================================================================
