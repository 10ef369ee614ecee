------------------------------ MODULE MCDriver ------------------------------
(* Combinations of three of the flags that select a mode, with the input   *)
(* file, with two directories or without inputs, alone and before          *)
(* arguments that belong to the target; fuzzing, jobs and fork mode with a *)
(* budget, and jobs with a number of workers. Targets that fail by what a  *)
(* unit contains, by two things together, and only without a space in      *)
(* front.                                                                  *)
EXTENDS Driver

MCFlags == {Arg("jobs", 2), Arg("fork", 1), Arg("merge", 1), Arg("minimize_crash", 1),
            Arg("cleanse_crash", 1), Arg("exact_artifact_path", <<"exact">>)}
MCInputs == {<<Path(<<"input">>)>>, <<Path(<<"old">>), Path(<<"new">>)>>, <<>>}
MCBehind == {<<>>, <<IgnoreRemainingArgs, Arg("jobs", 2), Path(<<"input">>)>>}
MCSubsets == {s \in SUBSET MCFlags : Cardinality(s) <= 3}
MCOthers == {<<Arg("help", 1)>>, <<Arg("collect_data_flow", <<"dft">>), Arg("data_flow_trace", <<"dir">>)>>,
             <<Path(<<"missing">>)>>, <<Arg("analyze_dict", 1), Path(<<"old">>)>>,
             <<Arg("fork", 1), Arg("collect_data_flow", <<"dft">>), Arg("data_flow_trace", <<"dir">>),
               Path(<<"old">>), Path(<<"new">>)>>}

MCLimited ==
  {SetToSeq(s) \o <<l, Path(<<"old">>), Path(<<"new">>)>> :
     s \in {{}, {Arg("jobs", 2)}, {Arg("fork", 1)}, {Arg("jobs", 2), Arg("fork", 1)}},
     l \in {Arg("runs", 0), Arg("runs", 5), Arg("max_total_time", 60), Arg("workers", 1)}}

MCCommandLines ==
  {SetToSeq(s) \o i \o b : s \in MCSubsets, i \in MCInputs, b \in MCBehind}
    \cup MCOthers \cup MCLimited

MCDirs == {<<"old">>, <<"new">>, <<"output">>}
MCBytes == {"a", "x", "_", "~"}
MCFileUnits == UNION {[1..n -> MCBytes] : n \in 1..3}
MCContents ==
  {(<<"input">> :> u) @@ (<<"exact">> :> <<"a", "x", "x">>) : u \in {<<"a", "a", "x">>, <<"x", "a", "x">>}}

MCTargets ==
  <<[u \in MCFileUnits |-> IF "x" \in ToSet(u) THEN "X" ELSE "ok"],
   [u \in MCFileUnits |-> IF Len(u) > 1 /\ (u[1] = u[2] \/ (Len(u) = 3 /\ u[2] = "_")) THEN "A"
                      ELSE IF "x" \in ToSet(u) THEN "X" ELSE "ok"],
   [u \in MCFileUnits |-> IF u[1] # "_" THEN "none" ELSE "ok"]>>
MCReplacementBytes == <<"_", "~">>
=============================================================================
