------------------------------- MODULE Driver -------------------------------
(***************************************************************************)
(* FuzzerDriver.cpp: what a process makes of its command line, and the     *)
(* modes in which it drives other processes of the same program: -jobs,    *)
(* -minimize_crash, -cleanse_crash, and as far as their command lines go   *)
(* -fork and -merge, which ForkMode and MergeControl model.                *)
(*                                                                         *)
(* The command line of a child is made by the operations of                *)
(* FuzzerCommand.h, and the child does what the same parser and the same   *)
(* dispatch make of it.  Its result is one of those that the target, which *)
(* is deterministic, allows; a child may also be killed from outside.      *)
(***************************************************************************)
EXTENDS Lists, Integers, FiniteSets, SequencesExt, TLC

CONSTANTS
  CommandLines,  \* of the process that the user starts
  Dirs,          \* the directories that exist
  Contents,      \* of the files when it starts
  FileUnits,     \* what files and artifacts can hold
  Targets,       \* programs: by unit OK, or the DEDUP_TOKEN of the failure or NoToken
  OK, NoToken,
  Cores,         \* NumberOfCpuCores
  ReplacementBytes,
  CleanseRounds, \* 5 in the code
  MaxKills       \* bound: children killed from outside

ASSUME DriverAssumption ==
  /\ Cores \in Nat \ {0} /\ CleanseRounds \in Nat \ {0} /\ MaxKills \in Nat
  /\ OK # NoToken
  /\ ReplacementBytes \in Seq(ToSet(ReplacementBytes)) /\ ReplacementBytes # <<>>
  /\ \A u \in FileUnits : u \in Seq(ToSet(u))
  /\ \A a \in CommandLines :
       /\ a \in Seq(ToSet(a))
       /\ \A x \in ToSet(a) : x.flag \in {"jobs", "workers"} => x.value \in Nat  \* unsigned
  /\ <<"output">> \in Dirs  \* that of the corpus of fork mode
  /\ \A fs \in Contents :
       /\ \A p \in DOMAIN fs : p \notin Dirs /\ fs[p] \in FileUnits
       /\ \A p \in DOMAIN fs : p # <<"minimized-from", fs[p]>>  \* that file is for shorter units

VARIABLES
  args,    \* of the process
  files,   \* the units in files, by path
  target,
  mode,
  local,   \* the locals of the mode
  child,   \* the command line and the mode of the last child
  exit,    \* exit code, or Running
  kills,
  input    \* history: the unit in the input file at the start

driverVars == <<args, files, target, mode, local, child, exit, kills, input>>

Running == -1
None == <<>>
Outcome(u) == Targets[target][u]
Fails(u) == Outcome(u) # OK
-----------------------------------------------------------------------------
(* FuzzerCommand.h.  An argument is a flag with its value, or a path.  All *)
(* operations stop at -ignore_remaining_args=1.                            *)
Arg(flag, value) == [flag |-> flag, value |-> value]
Path(p) == Arg("path", p)
IgnoreRemainingArgs == Arg("ignore_remaining_args", 1)

EndMutableArgs(a) ==
  LET i == SelectInSeq(a, LAMBDA x : x = IgnoreRemainingArgs) IN IF i = 0 THEN Len(a) + 1 ELSE i

(* ParseFlags reads nothing behind the mark either.                        *)
ReadArgs(a) == SubSeq(a, 1, EndMutableArgs(a) - 1)
IgnoredArgs(a) == SubSeq(a, EndMutableArgs(a), Len(a))

AddArguments(a, xs) == ReadArgs(a) \o xs \o IgnoredArgs(a)
AddArgument(a, x) == AddArguments(a, <<x>>)

RemovePaths(a, ps) ==
  Only(ReadArgs(a), {x \in ToSet(a) : x.flag # "path" \/ x.value \notin ps}) \o IgnoredArgs(a)

KeepFlags(a, flags) == a  \* mutant
RemoveFlags(a, flags) == Only(ReadArgs(a), {x \in ToSet(a) : x.flag \notin flags}) \o IgnoredArgs(a)

Given(a, flag) == Only(ReadArgs(a), {x \in ToSet(a) : x.flag = flag})

(* The last value counts.                                                  *)
ValueOf(a, flag, default) ==
  IF Given(a, flag) = <<>> THEN default ELSE Last(Given(a, flag)).value

Num(a, flag) == ValueOf(a, flag, 0)
Str(a, flag) == ValueOf(a, flag, None)

Inputs(a) == [k \in DOMAIN Given(a, "path") |-> Given(a, "path")[k].value]
-----------------------------------------------------------------------------
(* FuzzerDriver: the checks and modes in the order of the code.            *)
Workers(a) ==
  IF Num(a, "jobs") > 0 /\ Num(a, "workers") = 0
    THEN Min({Cores \div 2, Num(a, "jobs")}) ELSE Num(a, "workers")

Merges(a) == Num(a, "merge") # 0 \/ Num(a, "set_cover_merge") # 0

AllInputsAreFiles(a, fs) == Inputs(a) # <<>> /\ ToSet(Inputs(a)) \subseteq DOMAIN fs

(* The first input is to be a file, a directory or one that is made.       *)
NoOutputCorpus(a, fs) ==
  /\ Inputs(a) # <<>> /\ Num(a, "minimize_crash_internal_step") = 0
  /\ Inputs(a)[1] \notin DOMAIN fs \cup Dirs /\ Num(a, "create_missing_dirs") = 0

Modes == <<"help", "jobs", "invalid", "collect_data_flow", "minimize_crash",
           "minimize_crash_internal_step", "cleanse_crash", "files", "fork", "merge",
           "merge_inner", "analyze_dict", "loop">>

Selects(m, a, fs) ==
  CASE m = "jobs" -> Workers(a) > 0 /\ Num(a, "jobs") > 0
    [] m = "invalid" -> NoOutputCorpus(a, fs)
    [] m = "collect_data_flow" ->
         /\ Str(a, "collect_data_flow") # None /\ Str(a, "data_flow_trace") # None
         /\ Num(a, "fork") = 0 /\ ~Merges(a)
    [] m = "files" -> AllInputsAreFiles(a, fs)
    [] m = "merge" -> Merges(a)
    [] m = "loop" -> TRUE
    [] OTHER -> Num(a, m) # 0

Rank(m) == CHOOSE i \in DOMAIN Modes : Modes[i] = m
ModeOf(a, fs) == Modes[Min({i \in DOMAIN Modes : Selects(Modes[i], a, fs)})]

(* ParseSeedInuts: the list is empty or its file does not exist.           *)
NoSeedList == <<"@">>
SeedList == <<"@", "seeds">>
-----------------------------------------------------------------------------
(* What a child may do once it ends: exit code, 1 for every failure, token *)
(* in its output, the files after.                                         *)
Write(fs, p, u) == [q \in DOMAIN fs \cup {p} |-> IF q = p THEN u ELSE fs[q]]
Ends(code, fs) == [exit |-> code, token |-> NoToken, files |-> fs, killed |-> FALSE]
Crashes(u, fs) == [exit |-> 1, token |-> Outcome(u), files |-> fs, killed |-> FALSE]

(* RunOneTest on each input; no artifacts are saved.                       *)
RunFiles(a, fs) ==
  LET bad == {k \in DOMAIN Inputs(a) : Fails(fs[Inputs(a)[k]])}
  IN IF bad = {} THEN {Ends(0, fs)} ELSE {Crashes(fs[Inputs(a)[Min(bad)]], fs)}

(* MinimizeCrashInputInternalStep and MinimizeCrashLoop: a shorter unit    *)
(* that fails becomes the artifact, a slow one as well.                    *)
MutationsOf(u) == {v \in FileUnits : Len(v) <= Len(u) - 1}

SlowUnits(a, fs) ==
  {fs} \cup {Write(fs, Str(a, "exact_artifact_path"), v) :
               v \in {w \in MutationsOf(fs[Inputs(a)[1]]) : ~Fails(w)}}

HasBudget(a) == ValueOf(a, "runs", -1) >= 0 \/ Num(a, "max_total_time") > 0

InternalStep(a, fs) ==
  LET u == fs[Inputs(a)[1]]
  IN IF Len(u) < 2 THEN {Ends(0, fs)}
     ELSE (IF HasBudget(a) THEN {Ends(0, s) : s \in SlowUnits(a, fs)} ELSE {}) \cup
          {Crashes(v, Write(fs, Str(a, "exact_artifact_path"), v)) :
             v \in {w \in MutationsOf(u) : Fails(w)}}

Results(a, fs) ==
  CASE ModeOf(a, fs) = "files" -> RunFiles(a, fs)
    [] ModeOf(a, fs) = "minimize_crash_internal_step" -> InternalStep(a, fs)
    [] ModeOf(a, fs) = "loop" /\ Str(a, "seed_inputs") = NoSeedList -> {Ends(1, fs)}
    [] OTHER -> {Ends(code, fs) : code \in {0, 1}}

(* What ends by itself only within a budget: fuzzing and the steps of a    *)
(* minimisation.  Fork mode counts the runs that its engines report, so    *)
(* that only a time is sure to end it.                                     *)
Endless(a, fs) ==
  \/ ModeOf(a, fs) \in {"loop", "minimize_crash_internal_step"} /\ ~HasBudget(a)
  \/ ModeOf(a, fs) = "fork" /\ Num(a, "max_total_time") <= 0

Killed(a, fs) ==
  {[Ends(1, s) EXCEPT !.killed = TRUE] :
     s \in IF ModeOf(a, fs) = "minimize_crash_internal_step" /\ Len(fs[Inputs(a)[1]]) > 1
             THEN SlowUnits(a, fs) ELSE {fs}}

(* ExecuteCommand on a with the files fs, of which r is a result.          *)
Executions(a, fs) == Results(a, fs) \cup (IF kills < MaxKills THEN Killed(a, fs) ELSE {})

Execute(a, fs, r) ==
  /\ child' = [args |-> a, mode |-> ModeOf(a, fs)]
  /\ kills' = IF r.killed THEN kills + 1 ELSE kills
-----------------------------------------------------------------------------
InputFile == Inputs(args)[1]
ExactPath == Str(args, "exact_artifact_path")

DriverInit ==
  /\ args \in CommandLines /\ files \in Contents /\ target \in DOMAIN Targets
  /\ mode = "start" /\ local = None /\ child = None /\ exit = Running /\ kills = 0
  /\ input = IF AllInputsAreFiles(args, files) THEN files[InputFile] ELSE None

(* -minimize_crash and -cleanse_crash take one file, the latter also the   *)
(* path of its result; FileToVector ends the process if it cannot read it. *)
WrongInputs(m) ==
  \/ m = "minimize_crash" /\ Len(Inputs(args)) # 1
  \/ m = "cleanse_crash" /\ (Len(Inputs(args)) # 1 \/ ExactPath = None)
  \/ m \in {"minimize_crash", "cleanse_crash"} /\ InputFile \notin DOMAIN files

LocalOf(m) ==
  CASE m = "jobs" -> [counter |-> 0, job |-> [w \in 1..Workers(args) |-> None],
                      done |-> <<>>, hasErrors |-> FALSE]
    [] m = "minimize_crash" -> [current |-> InputFile, unit |-> None, token |-> NoToken, checked |-> FALSE]
    [] m = "cleanse_crash" -> [unit |-> files[InputFile], idx |-> 1, byte |-> 1,
                               round |-> 1, changed |-> FALSE]
    [] m = "fork" -> [seeds |-> None]
    [] OTHER -> None

Start ==
  /\ mode = "start"
  /\ LET m == ModeOf(args, files)
     IN /\ mode' = m
        /\ IF m = "invalid" \/ WrongInputs(m) THEN exit' = 1 /\ local' = None
           ELSE local' = LocalOf(m) /\ UNCHANGED exit
  /\ UNCHANGED <<args, files, target, child, kills, input>>

In(m) == mode = m /\ exit = Running

(* The modes that start no process of this program.                        *)
RunItself ==
  /\ exit = Running /\ mode \notin {"start", "jobs", "minimize_crash", "cleanse_crash", "fork", "merge"}
  /\ \E r \in Results(args, files) : exit' = r.exit /\ files' = r.files
  /\ UNCHANGED <<args, target, mode, local, child, kills, input>>
-----------------------------------------------------------------------------
(* RunInMultipleProcesses and its WorkerThread; a worker that finds no job *)
(* left ends.                                                              *)
JobArgs == RemoveFlags(args, {"jobs", "workers"})

NoMoreJobs == <<-1>>

JobLeft(c) == c < Num(args, "jobs")
CounterOfWorker(c) == c  \* mutant: each worker counts for itself
NextCounter(c) == c + 1

TakeJob(w) ==
  /\ In("jobs") /\ local.job[w] = None
  /\ local' = [local EXCEPT !.counter = NextCounter(@),
                            !.job[w] = IF JobLeft(local.counter) THEN <<local.counter>> ELSE NoMoreJobs]
  /\ UNCHANGED <<args, files, target, mode, child, exit, kills, input>>

RunJob(w) ==
  /\ In("jobs") /\ local.job[w] \notin {None, NoMoreJobs}
  /\ \E a \in {JobArgs} : \E r \in Executions(a, files) :
       /\ Execute(a, files, r)
       /\ local' = [local EXCEPT !.job[w] = None, !.hasErrors = @ \/ r.exit # 0,
                                 !.done = Append(@, <<local.job[w][1], r.exit>>)]
  /\ UNCHANGED <<args, files, target, mode, exit, input>>

JoinWorkers ==
  /\ In("jobs") /\ \A w \in DOMAIN local.job : local.job[w] = NoMoreJobs
  /\ exit' = IF local.hasErrors THEN 1 ELSE 0
  /\ UNCHANGED <<args, files, target, mode, local, child, kills, input>>
-----------------------------------------------------------------------------
(* MinimizeCrashInput.                                                     *)
DefaultBudget(a) ==
  IF Num(a, "runs") <= 0 /\ Num(a, "max_total_time") = 0
    THEN AddArgument(a, Arg("max_total_time", 600)) ELSE a

MinimizeArgs ==
  DefaultBudget(RemovePaths(RemoveFlags(args, {"minimize_crash", "exact_artifact_path"}), {InputFile}))

CurrentArgs == AddArgument(MinimizeArgs, Path(local.current))
ArtifactPath == IF ExactPath # None THEN ExactPath ELSE <<"minimized-from", local.unit>>
StepArgs == AddArguments(CurrentArgs, <<Arg("minimize_crash_internal_step", 1),
                                        Arg("exact_artifact_path", ArtifactPath)>>)

(* The current file must be there and fail.                                *)
MinimizeCheck ==
  /\ In("minimize_crash") /\ ~local.checked
  /\ IF local.current \notin DOMAIN files THEN exit' = 1 /\ UNCHANGED <<local, child, kills>>
     ELSE \E a \in {CurrentArgs} : \E r \in Executions(a, files) :
            /\ Execute(a, files, r)
            /\ IF r.exit = 0 THEN exit' = 1 /\ UNCHANGED local
               ELSE /\ local' = [local EXCEPT !.unit = files[local.current], !.token = r.token, !.checked = TRUE]
                    /\ UNCHANGED exit
  /\ UNCHANGED <<args, files, target, mode, input>>

(* Without a shorter unit, or with another bug, the unit itself goes to    *)
(* the exact path.                                                         *)
ShrunkToAnyBug(r) == r.exit # 0  \* mutant: tokens are not compared
ShrunkIfSilent(r) == r.token = local.token  \* mutant: the exit code is not looked at
Shrunk(r) == r.exit # 0 /\ r.token = local.token
WriteBack(fs) == files' = IF ExactPath # None THEN Write(fs, ExactPath, local.unit) ELSE fs

MinimizeStep ==
  /\ In("minimize_crash") /\ local.checked
  /\ \E a \in {StepArgs} : \E r \in Executions(a, files) :
       /\ Execute(a, files, r)
       /\ IF Shrunk(r)
            THEN /\ files' = r.files
                 /\ local' = [local EXCEPT !.current = ArtifactPath, !.checked = FALSE]
                 /\ UNCHANGED exit
            ELSE /\ WriteBack(r.files)
                 /\ local' = IF ExactPath # None THEN [local EXCEPT !.current = ExactPath] ELSE local
                 /\ exit' = 0
  /\ UNCHANGED <<args, target, mode, input>>
-----------------------------------------------------------------------------
(* CleanseCrashInput: one trial, of one replacement for one byte.  The     *)
(* unit is written to a temporary file for the child.                      *)
CleanseArgs == AddArgument(RemovePaths(RemoveFlags(args, {"cleanse_crash"}), {InputFile}), Path(<<"tmp">>))

Trial == [local.unit EXCEPT ![local.idx] = ReplacementBytes[local.byte]]

Move(i, b) == [local EXCEPT !.idx = i, !.byte = b]

(* What failed stays replaced and is written to the exact path, otherwise  *)
(* the next replacement is tried on the original byte.                     *)
KeepTrial(r) == Move(local.idx + 1, 1)  \* mutant: goes on with the unit as it was
AfterFailure(r) == [Move(local.idx + 1, 1) EXCEPT !.unit = Trial, !.changed = TRUE]

CleanseTry ==
  /\ In("cleanse_crash") /\ local.idx <= Len(local.unit)
  /\ local.unit[local.idx] \notin ToSet(ReplacementBytes)
  /\ LET fs == Write(files, <<"tmp">>, Trial)
     IN \E a \in {CleanseArgs} : \E r \in Executions(a, fs) :
          /\ Execute(a, fs, r)
          /\ IF r.exit # 0 THEN local' = AfterFailure(r) /\ files' = Write(files, ExactPath, Trial)
             ELSE /\ local' = IF local.byte = Len(ReplacementBytes) THEN Move(local.idx + 1, 1)
                              ELSE Move(local.idx, local.byte + 1)
                  /\ UNCHANGED files
  /\ UNCHANGED <<args, target, mode, exit, input>>

CleanseSkip ==
  /\ In("cleanse_crash") /\ local.idx <= Len(local.unit)
  /\ local.unit[local.idx] \in ToSet(ReplacementBytes)
  /\ local' = Move(local.idx + 1, 1)
  /\ UNCHANGED <<args, files, target, mode, child, exit, kills, input>>

CleanseRound ==
  /\ In("cleanse_crash") /\ local.idx > Len(local.unit)
  /\ IF local.changed /\ local.round < CleanseRounds
       THEN local' = [Move(1, 1) EXCEPT !.round = @ + 1, !.changed = FALSE] /\ UNCHANGED exit
       ELSE exit' = 0 /\ UNCHANGED local
  /\ UNCHANGED <<args, files, target, mode, child, kills, input>>
-----------------------------------------------------------------------------
(* CrashResistantMerge, of -merge and of the corpora of -fork.             *)
MergeArgs ==
  AddArguments(RemoveFlags(args, {"merge", "set_cover_merge", "fork", "collect_data_flow"}),
               <<Arg("merge_control_file", <<"control">>),
                 Arg("merge_inner", IF Num(args, "set_cover_merge") # 0 THEN 2 ELSE 1)>>)

RunMerge ==
  /\ In("merge")
  /\ IF Len(Inputs(args)) < 2 THEN exit' = 0 /\ UNCHANGED <<child, kills>>
     ELSE \E a \in {MergeArgs} : \E r \in Executions(a, files) : Execute(a, files, r) /\ exit' = r.exit
  /\ UNCHANGED <<args, files, target, mode, local, input>>

(* The main corpus may be empty after it, and is without corpora.          *)
RunForkMerge ==
  /\ In("fork") /\ local.seeds = None
  /\ IF Inputs(args) = <<>> THEN local' = [seeds |-> NoSeedList] /\ UNCHANGED <<child, kills>>
     ELSE /\ \E a \in {MergeArgs} : \E r \in Executions(a, files) : Execute(a, files, r)
          /\ local' \in [seeds : {NoSeedList, SeedList}]
  /\ UNCHANGED <<args, files, target, mode, exit, input>>

(* GetFuzzerCmd for the engines that are this program.                     *)
EngineArgs ==
  AddArguments(RemovePaths(RemoveFlags(args, {"fork", "runs"}), ToSet(Inputs(args))),
               <<Arg("max_total_time", 20), Arg("seed_inputs", local.seeds), Path(<<"output">>)>>)

RunEngine ==
  /\ In("fork") /\ local.seeds # None
  /\ \E a \in {EngineArgs} : \E r \in Executions(a, files) : Execute(a, files, r) /\ exit' = r.exit
  /\ UNCHANGED <<args, files, target, mode, local, input>>

DriverExited == exit # Running /\ UNCHANGED driverVars

DriverNext ==
  \/ Start \/ RunItself
  \/ \E w \in 1..Workers(args) : TakeJob(w) \/ RunJob(w)
  \/ JoinWorkers \/ MinimizeCheck \/ MinimizeStep
  \/ CleanseTry \/ CleanseSkip \/ CleanseRound
  \/ RunMerge \/ RunForkMerge \/ RunEngine
  \/ DriverExited

(* A process goes on until it ends, unless it is endless or its jobs are.  *)
(* All other children end: engines and the steps of a minimisation by the  *)
(* budget that the driver gives them, units by -timeout.  The command line *)
(* tells at the start; unless -jobs selects them, its flags do not matter. *)
(* As there is no deadlock the consequence is WF_driverVars(DriverNext).   *)
EndsItself == mode = "start" /\ ~Endless(JobArgs, files)

DriverFairness == EndsItself => []<>(exit # Running) \/ []<><<DriverNext>>_driverVars

DriverSpec == DriverInit /\ [][DriverNext]_driverVars /\ DriverFairness
-----------------------------------------------------------------------------
(* A process never starts one in its own mode or one that comes before it  *)
(* in the dispatch, whatever flags are combined and whatever stands behind *)
(* -ignore_remaining_args: no command line forks without end.  There is    *)
(* one exception: the dispatch passes over -collect_data_flow for -fork,   *)
(* which makes nothing of it (FuzzerFork.cpp:368), and engines are started *)
(* with the former and without the latter.                                 *)
ChildrenDescend ==
  child # None => \/ Rank(child.mode) > Rank(mode)
                  \/ mode = "fork" /\ child.mode = "collect_data_flow"

(* A process that is asked for jobs runs each of them once, never two at a *)
(* time under one number, whose log they would share, and its exit code    *)
(* tells of any failure.  Only on a machine with one core, where -workers  *)
(* is needed, it passes over -jobs and does the work of one itself.        *)
JobsRunOnce ==
  /\ Num(args, "jobs") > 0 /\ mode \notin {"start", "help", "jobs"} =>
       Cores = 1 /\ Num(args, "workers") = 0
  /\ mode = "jobs" =>
       /\ \A v, w \in DOMAIN local.job :
            v # w /\ local.job[v] = local.job[w] => local.job[v] \in {None, NoMoreJobs}
       /\ exit # Running =>
            /\ Len(local.done) = Num(args, "jobs")
            /\ {d[1] : d \in ToSet(local.done)} = 0..Num(args, "jobs") - 1
            /\ exit = 1 <=> \E d \in ToSet(local.done) : d[2] # 0

(* FuzzerFlags.def:109-111: "If jobs >= 1 we spawn this number of jobs in  *)
(* separate worker processes".                                             *)
JobsSpawned ==
  Num(args, "jobs") >= 1 /\ Num(args, "help") = 0 /\ exit # Running =>
    mode = "jobs" /\ Len(local.done) = Num(args, "jobs")

(* FuzzerFlags.def:79-84: when no child was killed the result of           *)
(* -minimize_crash fails like the input, with the same token, and is no    *)
(* longer, whatever lay at the paths of artifacts before and whatever slow *)
(* units were written there; no flag of another mode is given as well.     *)
MinimizedFails ==
  mode = "minimize_crash" /\ exit = 0 /\ kills = 0
  /\ Num(args, "minimize_crash_internal_step") = 0 /\ Num(args, "cleanse_crash") = 0 =>
    LET result == files[local.current]
    IN Fails(result) /\ Outcome(result) = Outcome(input) /\ Len(result) <= Len(input)

(* FuzzerFlags.def:86-88: what -cleanse_crash writes fails and differs     *)
(* from the input in replaced bytes only; if it ended with a round that    *)
(* changed nothing, none of the other bytes can be replaced.               *)
CleansedFails ==
  mode = "cleanse_crash" /\ local # None /\ kills = 0 =>
    /\ \A i \in DOMAIN input : local.unit[i] \in {input[i]} \cup ToSet(ReplacementBytes)
    /\ local.unit # input => Fails(local.unit) /\ files[ExactPath] = local.unit
    /\ exit = 0 /\ ~local.changed =>
         \A i \in DOMAIN input : \A b \in ToSet(ReplacementBytes) :
           local.unit[i] \in ToSet(ReplacementBytes) \/ ~Fails([local.unit EXCEPT ![i] = b])

(* What does not fuzz without a budget comes to an end: minimisations and  *)
(* cleansing by themselves, jobs if each of them does.                     *)
DriverEnds == EndsItself => <>(exit # Running)

(* PrintHelp, FuzzerDriver.cpp:95: "To run fuzzing pass 0 or more          *)
(* directories": an engine that fork mode starts gets to fuzz.             *)
JobsStart ==
  child # None /\ mode = "fork" /\ child.mode = "loop" => Str(child.args, "seed_inputs") # NoSeedList
=============================================================================
