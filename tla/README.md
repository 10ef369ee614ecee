# TLA+ verification of pfuzzer

pfuzzer is libFuzzer with a fork mode that schedules several fuzzing engines
(entropic, AFL, AFL++, radamsa, hongfuzz, ...) over one corpus. This directory
holds TLA+ modules for its core logic, the TLC configurations that check them on small
instances, and theorems checked by TLAPS that hold for every value of the
constants. All paths and line numbers are those of `src/`.

1. [The system](#1-the-system)
2. [Modules](#2-modules)
3. [Runs](#3-runs)
4. [Fairness](#4-fairness)
5. [Proofs](#5-proofs)
6. [Disagreements found](#6-disagreements-between-code-and-documentation)
7. [What is not modelled](#7-what-is-not-modelled)
8. [Plan](#8-plan)

How to run: `tlc -config GlobalCorpus.cfg MCGlobalCorpus`,
`tlapm GlobalCorpus_proofs.tla`, and so on. `PROJECT.json` lists the runs, the
mutation that shows each property to be falsifiable, the source lines behind
every definition, the hazards and the theorems.

## 1. The system

### Components

| Component | Source | State | Operations | What is hard | What makes it correct |
|---|---|---|---|---|---|
| Global corpus of fork mode | `FuzzerFork.h` (`GlobalCorpusInfo`), `FuzzerFork.cpp` | `Inputs`, smallest size and owner per feature, `DeleteNums`, feature frequencies, main corpus directory | `AddFeature`, `AddToCorpus`, `DeleteFile`, `GetLiveInputsSize`, `GetJobSeeds`, `CopyMultipleFiles` | creators read sizes and copy files without `Env.Mtx` while a merge evicts inputs, in three writes each of them can see; owners point at an input that is not in `Inputs` yet | ownership counts are exact; no input twice; evictions lose no coverage; a job misses only seeds that have been or are being evicted |
| Fork mode: jobs and threads | `FuzzerFork.cpp` (`FuzzWithFork`) | `FuzzQ`, `MergeQ`, workers, `JobId`, temporary directories, `ExitCode` | main loop, `WorkerThread`, detached merge and creator threads, `StopJobs`, clean-up | raw job pointers pass through four kinds of threads; detached threads outlive the join; `JobId` is read after the unlock | a job is in one place; the pool never runs dry; stopping ends, and runs what was queued |
| Engine selection and feedback | `FuzzerFork.cpp` (`CreateNewJob`, `RunOneMergeJob`, `GetFuzzerName`), `FuzzerTracePC.cpp` | `Cov`, `CoverageInfos`, `FuzzerStatuses` | select an engine, execute a local corpus, refresh function records, credit | one job goes through several critical sections, interleaved with those of others; 8-bit counters hide function entries; engines are looked up by name | the two records of coverage agree; records are exact unless a counter wrapped; a PC is credited once; engines named once get a turn |
| Command lines of the engines | `FuzzerFork.h` (`GetFuzzerCmd`, `GetLocalCorpusDir`), `FuzzerCommand.h` | arguments | build a command | engines without a time budget, engines with their own directory; flags that are inherited | each child ends; no process starts one like itself |
| Crash-resistant merge | `FuzzerMerge.cpp`, `Merge` of `FuzzerDriver.cpp` | control file, known files, selection | outer and inner process, parse, resume, `Merger::Merge`, `SetCoverMerge`, copy | both processes die at any step and the merge is repeated with the same control file | inputs run once; no recorded coverage is lost; it ends |
| In-process corpus | `FuzzerCorpus.h` | `Inputs`, `Hashes`, owner and size per feature, distribution, rare features | `AddToCorpus`, `Replace`, `AddFeature`, `DeleteInput`, `ChooseUnitToMutate`, energies | evicted inputs keep their index; a file is shared by equal units; rare features are dropped while inputs count them | ownership is exact; the draw never yields an evicted input; files cover the features found; local frequencies stay within the global ones |
| Fuzzing loop and callbacks | `FuzzerLoop.cpp` | current unit, options, timers, observed units | `Loop`, `RunOne`, `MutateAndTestOne`, `RereadOutputCorpus`, crash, alarm, RSS and leak callbacks | signals and the RSS thread interrupt an execution; another process writes to the same directory and removes from it | when the process ends, only features of the unit it has not reported yet are lost with it; files that inputs share, or that other processes remove, are lost in every case |
| Driver and `-jobs` | `FuzzerDriver.cpp`, `FuzzerCommand.h` | the command line, atomic job counter, files, the unit being minimised | `ParseFlags`, the dispatch, `RunInMultipleProcesses`, `MinimizeCrashInput`, `CleanseCrashInput` | children get an edited copy of the command line; workers take jobs from one counter; artifacts of one child are the input of the next | no process starts one like itself; each job once, or none on one core; the minimised input still crashes |
| Coverage feedback | `FuzzerTracePC.cpp`, `FuzzerTracePC.h`, `FuzzerValueBitMap.h` | inline counters, observed PCs, function frequencies, value profile | `CollectFeatures`, `UpdateObservedPCs`, `GetFuncFreqsUncoveredInfo` | saturation, counter boundaries, features of different sources must not overlap | feature numbering is injective |
| Mutations and dictionaries | `FuzzerMutate.cpp`, `FuzzerCrossOver.cpp`, `FuzzerDictionary.h` | the buffer, the sequence of mutators and entries, three dictionaries, a ring of entries | mutate, mutate by a mask, cross over, record a successful sequence | boundaries of sizes and indices; entries are remembered by address while dictionaries and ring change | results stay in the buffer; what is recorded is what was applied |
| Data flow traces | `FuzzerDataFlowTrace.cpp`, `dataflow/` | labels per run, trace files, coverage counters, the focus function, traces | `CollectDataFlow`, the instrumented program, `AppendCoverage`, `DataFlowTrace::Init` | a unit is traced in several runs; the process that writes a file may be killed | traces are exact; counters count files; the focus function was executed |
| File and process utilities | `FuzzerIO*.cpp`, `FuzzerUtil*.cpp`, `FuzzerSHA1.cpp` | none of their own | system calls, hash | partial failures | modelled where a caller depends on them |
| Interceptors, external functions | `FuzzerInterceptors.cpp`, `FuzzerExt*.cpp` | none of their own | linker glue | - | - |
| AFL driver, standalone main | `afl/`, `standalone/` | none of their own | call the target in a loop | - | - |
| Tests and scripts | `tests/`, `scripts/` | - | read as a reference | - | - |

### How they interact

The driver parses the flags and starts one of: the loop of one process, several
processes (`-jobs`), a merge, or fork mode. Fork mode does not fuzz in its own process. It
launches children through `ExecuteCommand`: the same binary, or another engine. A
child is a *job*: it gets an input directory with seeds copied from the main
corpus and leaves a local corpus behind. Jobs travel as raw `FuzzJob` pointers:

```
            FuzzQ                          MergeQ
 creator ---------> worker --(child)----> ------> main --+--> detached merge: execute the local corpus,
 (detached, one per                                      |      offer inputs to GlobalCorpusInfo, delete Job
  job merged)  <-----------------------------------------+--> detached creator: choose an engine, draw and copy seeds
```

Merge and creator threads share `GlobalCorpusInfo`, `Cov`, `CoverageInfos` and
`FuzzerStatuses` under `Env.Mtx`; some reads happen outside it. The merge
process and its children share the control file. The processes of `-jobs` or
`-fork` share the corpus directory only.

`PROJECT.json` ("hazards") lists what a test would hardly reach, each at its
line, with the properties that would catch it.

## 2. Modules

| Module | Models | Builds on |
|---|---|---|
| `GlobalCorpus` | `GlobalCorpusInfo` and its three users | - |
| `GlobalCorpus_proofs` | theorems | `GlobalCorpus` |
| `ForkMode` | main, workers, detached threads, stopping | - |
| `ForkMode_proofs` | theorems | `ForkMode` |
| `JobAccounting` | selection of engines, coverage tables, credits | - |
| `JobAccounting_proofs` | theorems | `JobAccounting` |
| `RunOnce` | abstract: what the control file of a merge promises | - |
| `MergeControl` | outer and inner merge process, control file | refines `RunOnce` |
| `MergeControl_proofs` | theorems, the refinement of `RunOnce` among them | `MergeControl` |
| `InputCorpus` | `InputCorpus` of one process under `Fuzzer::Loop` | - |
| `InputCorpus_proofs` | theorems | `InputCorpus` |
| `Entropic` | the entropic schedule of that corpus: rare features, frequencies, energies | - |
| `Entropic_proofs` | theorems | `Entropic` |
| `Mutation` | mutators, masks, dictionaries, under the fuzzing loop and the minimisation | - |
| `Mutation_proofs` | theorems | `Mutation` |
| `UnitExecution` | one execution of the target, and what crash, alarm, RSS, malloc, exit and leak callbacks do to it | - |
| `Driver` | command lines, choice of the mode, `-jobs`, `-minimize_crash`, `-cleanse_crash` and the children of `-merge` and `-fork` | - |
| `DataFlow` | collecting and reading data flow traces | - |
| `Lists` | what a loop that erases or skips elements leaves of a list | - |
| `Process_proofs` | theorems about one process: execution of a unit, driver, data flow traces | `UnitExecution`, `Driver`, `DataFlow` |
| `MC...` | the instances TLC checks | |

`GlobalCorpus`, `ForkMode` and `JobAccounting` describe one running fork mode from three sides.
What one of them leaves out is a free choice in it: in `ForkMode` a merge is an action that
may end the process; in `GlobalCorpus` any sequence of candidates may be
offered; in `JobAccounting` a job may leave any set of inputs. A product of the three
would be far beyond TLC and would add no interaction, because the only things they
share are the mutex (each critical section is one action, or is bracketed by
`mtx`) and the job pointer.

Definitions marked `\* mutant` are plausible bugs of the definition below them. They
are used by no specification.

`Process_proofs` extends three modules at once, so the names of their variables, operators and
specifications are distinct (`Spec`, `DriverSpec`, `FlowSpec`).

### GlobalCorpus

State. `inputs` is `Inputs` (a record is never removed; `live` and `locked` are
its flags), `sizeFor` and `owner` are `InputSizesPerFeature` and
`SmallestElementPerFeature`, `disk` is the set of contents whose `<hash>` file is in the
main corpus directory, `mtx` is who holds `Env.Mtx`, `cand` is the candidate
that `AddFeature` is called for, and `creator` holds the locals of a creator thread.

Actions. `LoadSeed` and `OfferCandidate` start an iteration of the loops over
candidates, `AddFeature(f)` is one call of it with the frequency update behind it,
`AddToCorpus` ends the iteration (the file is written before the record is
appended). When the candidate takes the last feature of an input, the three writes that evict it are steps of their
own, in the order of the code: `EvictFile` unlinks the file (`FuzzerFork.h:325`), `EvictLive` clears `Live` (`:326`),
and `AddFeature` then counts it in `DeleteNums` (`:346`); `evicting` is the feature between the first and the last of them.
They are separate steps although the merge holds the mutex, since a
creator reads this state without it. `CreateNewJob` calls `GetLiveInputsSize` twice (`FuzzerFork.cpp:89`), so
`ReadInputsSize` and `ReadDeleteNums` happen twice each, four loads with anything in between: a size is torn (any
number below `Word`) while the vector grows, and the unsigned difference wraps modulo `Word`. `SeedsNum` is the smaller of one count and of
the root of the other one. `GetJobSeeds` is under the mutex, and
`CheckLive` / `CopyFile` are the test of `SI->Live` and the copy: a seed that is live may have no file any more. Candidates'
features are taken in any order: the code takes them in the
order in which `CollectFeatures` reported them, one of these.

Abstractions. A content stands for its hash; the target is deterministic;
seed scores only order the draws, so `Drawable` and `Fallback` give every
result the draw loops can have. `SeedFactor = 1`, `Word = 8`, `MaxFreq = 2` in the
instance make the boundaries `10 * sqrt(n + 2)`, `2^64` and `0xFFFF` reachable.

### ForkMode

A job pointer is a number. `stage` says where each job is, `fuzzQ` and `mergeQ` are the
queues, `worker` the worker threads, `pc`, `n`, `hand`, `exitCode` the locals of
main, `dirs` which job made the directories of an id, and `late` is a history
of the jobs pushed after main decided to stop. One action per step of main
(`PopFinished`, `StopAndLeak`, `StopAndMerge`, `Continue`, the `StopJobs` loop,
`LastMerge`, `JoinWorkers`, `RemoveTempDir`), two per worker, and one per step
of a detached thread between two points another thread can see: the increment of
`JobId` and its second read, by reference, outside the lock are
`IncrementJobId` and `ReadJobId`.
`UseAfterFree` is the undefined behaviour of a detached thread that uses
the deleted corpus: among its outcomes the process may crash, so no liveness is
claimed to depend on it and no safety property talks about what follows.

### JobAccounting

One action per critical section of `Env.Mtx`: `LoadSeed` (a round of the preprocess
loop), `SelectEngine` (`CreateNewJob` with `GetFuzzerName`), `Merge` (the execution of a
local corpus, with the records refreshed at the end), `Credit`. `infos` is
`CoverageInfos`; with at most one engine there is one table, and it plays both parts, as in the code.
The UCB1 scores and the feedback value are floating point and only decide which engine
comes next once all were tried: a free choice.

`ParseFuzzers` accepts an engine twice. Statuses and tables are looked up by name (`FindByName`), so jobs of the second
place count for the first one; the second place never counts as tried and gets every job from then on.

Inline counters have 8 bits (`FuzzerTracePC.cpp:189-191`). An execution that hits the entry of a function 256 times reports blocks
behind it without the entry, and `GetFuncFreqsUncoveredInfo` then passes over the function (`:417-419`). `Trace` may be any set of PCs therefore, and
the history `blind` holds the functions that were reached so since their entry was seen last.

### MergeControl and RunOnce

The outer process is `pc`, the inner one `inner`, the control file `cf` a list
of names with a log of `STARTED`, `FT` and `COV` lines. `FT` and `COV` of an
input are in the stream's buffer (`buf`) until the flush; with `LongLines` the buffer
may have been written in part when the process is killed (`TornLogs`), and a
line without an end swallows the next one (`AppendLine`).
Every step of either process is an action, kills and reruns are actions of
their own. The list of files is sorted by size with an unstable sort over a
directory listing, so files of equal size come in any order, and in another one
after a rerun (`Listings`).

`RunOnce` is the abstract specification: an input on the list is run at most
once, a recorded result is never forgotten while the list is in use, and a list
is only replaced once all its inputs had their turn. The refinement mapping `Fate` reads it off
the log: the input of the last `STARTED` line without an `FT` is running, those
before it without one are lost. `Promise!Spec` is a property of the run `merge`.

### InputCorpus

`inputs`, `sizes`, `owner`, `hashes` are the tables of `InputCorpus`; `files` is
the output corpus directory; `run` holds the
locals of `RunOne`. The seeds are a list of files, in which units may be equal; `own` are those in the output corpus under their hash, the others lie
`Elsewhere`. `CollectFeature` is one call of the callback of
`CollectFeatures`, in the order of the features; `AddToCorpus`,
`Replace` and `NothingNew` are the three ways `RunOne` ends;
`ReportNewCoverage` writes the file. `Exit` may come anywhere: the loop ends by itself, a leak is looked for before the report, and
signals, crashes and limits that other threads watch end the process in the middle of an execution. `run` then stays, to tell
what had not been written.

Other processes that share the directory write units (`OtherWrites`) and evict or replace theirs and ours (`OtherRemoves`).
`gone` is a history of the units whose file was removed by another process, or by this one while another input held the same unit.

If no input has a feature, all weights are zero. `UpdateCorpusDistribution` then divides by their sum, and what is drawn is not a number;
as an index that is 0 or out of range, so `ChooseUnitToMutate` draws the first input or the assertion fails (`DrawFails`, `FuzzerCorpus.h:322`).

Abstractions. Energies and weights are reduced to which inputs can be drawn
(`Pickable`). A mutation may give any unit. Truncation to `MaxInputLen`, focus
functions, feature files and data flow traces are left out. `MaxOthers` bounds what other processes write and remove.

### Entropic

The other half of `FuzzerCorpus.h`. `corpus` is one record with the tables of the schedule: `rare`
and `isRare` are `RareFeatures` and `IsRareFeature` (a list and the marks beside it, which the code is to keep
in step), `freq` and `most` are `GlobalFeatureFreqs` and `FreqOfMostAbundantRareFeature`, and every
input has `freqs`, its `FeatureFreqs`. `AddRareFeature`, `UpdateFeatureFrequency`, `RunOne` and
`UpdateCorpusDistribution` are operators from one such record to the next, in the order of the calls;
`ExecuteSeed`, `SeedsDone`, `UpdateCorpusDistribution`, `ChooseUnitToMutate` and `MutateAndTestOne` are
the actions. `IsRareFeature[Delete] = false` is translated as written, with the position. `keep` is `-keep_seed` with seed files: the seeds are then
added without a feature too. If the corpus is empty after the seeds, `SeedsDone` adds the fake input.

Abstractions. An energy is its sign, as if it were a real number; what the logarithms give is decided where it can be zero. A fresh input has energy 1 while no feature is rare. Units are
the sets of features they report. With `FeatureFrequencyThreshold = 1` and one rare feature, dropping features happens
after two runs; `MaxFreq = 3` makes counts saturate.

### Mutation

`data` is `CurrentUnitData`, `work` the buffer `MutateImpl` is called for (the data, or a copy of the masked bytes),
`entries` is `CurrentDictionaryEntrySequence` as references, for the code keeps pointers there: into the
manual dictionary, the automatic one, or the ring `CmpDictionaryEntriesDeque`. Every mutator is an operator that
gives all results its random numbers can have: buffer, size and entry. `Try` is an iteration of `MutateImpl`;
a try that is rejected may have changed the buffer and has remembered its entry, as in the code. `Fallback` is what follows
the last one. `StartFuzz` / `RunNewCoverage` / `RunNothingNew` / `RunLast` are `MutateAndTestOne`, `StartMinimize` is `MinimizeCrashLoop`, which a unit of fewer than two bytes does not reach.
`Masked` are the places `MutateWithMask` copies from and puts back to.

Abstractions. A byte is one of three values (a space, a digit, one that is not ASCII); arithmetic on bytes
gives any value it could. `Tries`, 100 in the code, is 2, and the ring has two places. The two
tables of compares are constants.

### Driver

`args` is the command line: a sequence of flags with values and of paths, edited by the operations of
`FuzzerCommand.h`, which stop at `-ignore_remaining_args=1`. `ModeOf` is the dispatch of `FuzzerDriver`,
and it is used for the process and for every child alike: a child does what the same program makes of the
command line it was given. `Executions` are the results it can have then, on a target that is deterministic.
`files` maps paths to units, `local` holds the locals of the mode. One action per round of a loop: `TakeJob`,
`RunJob`, `JoinWorkers`; `MinimizeCheck`, `MinimizeStep`; `CleanseTry`, `CleanseSkip`, `CleanseRound`;
`RunMerge`; `RunForkMerge`, `RunEngine`.

There is one exception to "no process starts one like itself": the dispatch passes over `-collect_data_flow` when `-fork` is given, fork mode makes
nothing of the flag (the line that would is commented out, `FuzzerFork.cpp:368`), and the engines get it, since `FuzzerFork.h:213-217` copies all flags but its own:
they collect traces and do not fuzz. They start no children, so nothing forks without end; `ChildrenDescend` names the case.

`-jobs` without `-workers` takes half the number of cores; on one core that is none, and the process goes on as if the flag were not there
(`FuzzerDriver.cpp:695-700`). `Endless` tells which processes end within a budget only.

Abstractions. Slow units may be written as artifacts by any internal step; a dedup token is a
model value; in `-fork` and `-merge` only the command lines of children are modelled here. `HandleAlrm` and the
other options the driver copies have no effect in this module.

### DataFlow

First the instrumented process: `NextFile` starts it for a file, `Iterate` is one execution of the target, with
labels on `NumLabels` bytes of the unit (`labels` is `FuncLabelsPerIter`), `WriteTrace` writes the `F` and `C` lines. `KillInstrumented` ends it at any
time, and what it has written until then is any prefix of the file (`Cuts`), a line cut in the middle
included (between two words of it). Then a fuzzing process with any part of these units as its corpus: `ReadCoverage`, `ChooseFocus`, `ReadTrace`, in the order of `DataFlowTrace::Init`, with the ways
it gives up (`abort`, `Readable`).

Abstractions. A program is what it does for each unit: which blocks it enters, and which bytes it compares. Two labels
at a time instead of eight make units of two, three and five bytes take one, two and three executions.

### UnitExecution

`cur` is `CurrentUnitData`, `CurrentUnitSize` and `RunningUserCallback`; `main` is where the
fuzzing thread is and with which data; `clock` counts half seconds since `UnitStartTime`
(`elapsed`), since the unit was chosen (`busy`, a history) and to the next SIGALRM. The
assignments of `ExecuteCallback` are one action each, since SIGALRM and other threads see them in between.
Each callback is an action up to the point where it has the crash state, and two more for
the artifact and for the exit. `sanitizer` tells whether `__sanitizer_acquire_crash_state` is there: without it
callbacks overtake each other.

Abstractions. A unit is a model value; `Mixed` is a buffer being written. What another
thread dumps while the fuzzing thread goes on is unknown (`Mixed`). Leak detection is given up after
more than 1000 futile attempts; here, after any of them. SIGINT and SIGTERM
end the process at once without a report and are left out.

## 3. Runs

All runs use deadlock checking; where a process may end, a named action
(`Terminated`, `Done`, `Stopped`, `Exited`, `DriverExited`, `FlowEnded`) stutters explicitly.

| Run | States | Shows |
|---|---|---|
| `global_corpus` | 2,089,359 | four contents over three features, seeds of one base name, one creator with four unlocked loads against merges that evict in three steps: all safety properties |
| `fork_mode` | 363,657 | two workers, four jobs, an engine that may leave no directory, every kind of exit code: safety, and that stopping ends |
| `job_accounting` | 86,941 | two seeds, four jobs in two slots, no, one, two or repeated engines, an input that wraps the counter of an entry |
| `merge` | 199,321 | four inputs (one crashes), two kills, a rerun: safety, termination, refinement of `RunOnce` |
| `input_corpus` | 1,415,956 | six of the eight combinations of `-shrink`, `-reduce_inputs`, `-keep_seed` (`-shrink` only together with `-reduce_inputs`; the proofs cover all eight), three lists of seeds, another process that writes or removes, a kill anywhere |
| `entropic` | 773,739 | three features, one rare feature wanted, with and without `-keep_seed`, the fake input, every sequence of five runs |
| `mutation` | 1,492,598 | all mutators in three groups, units of up to four bytes, masks, `-only_ascii`, both callers |
| `unit_execution` | 452,064 | two units, mutated in place or copied, with and without a sanitizer, every failure of the target and a failing thread: safety, and that problems end the process |
| `driver` | 93,228 | command lines with up to three of the flags that select modes, with and without budgets and arguments behind `-ignore_remaining_args`, several targets, one child killed: safety, and that the driver ends |
| `data_flow` | 175,806 | two programs, three units of one, two and three executions, one kill, every corpus, every focus function |
| `entropic_rare`, `input_corpus_reduce` | violation | see section 6 |

Why the bounds are enough:

* `global_corpus`. "a" has two features, which "b" and "c" take one at a time, so an input loses
  one feature, then the last one, to two different inputs; "d" ties with "b" in size, and the tie is
  refused. Batches are unbounded: TLC closes the state space because an input is
  kept only if it shrinks some size. With `Word = 8` a torn size is any of eight numbers, more than there are inputs. One creator is enough for its interaction with merges;
  two creators only interact by the `locked` flags, and a lock that is set
  makes fewer seeds drawable, which the choice in `Drawable` has already.
* `fork_mode`. With two workers both queues hold two jobs at once,
  nullptrs and late jobs mix, and one worker can end while another runs a child. With four
  jobs each worker's first job is succeeded once, and two creators overlap (this is how two jobs
  come to share an id). The proofs cover all larger numbers for safety.
* `job_accounting`. Two slots give all interleavings of the sections of two jobs; four jobs make
  the engines be selected again after both were tried. "x" is smaller than "z" and covers less, so
  a seed may be executed without being kept. "w" covers a block of f while the counter of f's entry is zero, before or after f was seen. A list of engines names one twice in front of another one.
* `merge`. Two kills are enough for a resumed inner process to be killed again; two runs for each
  pair of (how the first ended, how the second starts). Of the four
  files two have one size and share a feature, so their order in the listing decides what the second one adds; a larger one has the features
  of both, and the one between them crashes. The first corpus is empty or holds one of them.
* `input_corpus`. Two features let a unit lose one and then the other; five
  accepted units of different sizes give chains of replacements. A depth of two gives a mutation of
  a unit that was just replaced. The seed files are none; a rejected one with two equal ones without features (all weights zero with `-keep_seed`); and two equal ones
  with a feature, of which one is in the output corpus and can be removed. One write or removal by another process is enough for each of its effects on a file;
  the proofs cover any number.
* `entropic`. Two features in the list and a third that displaces one are the smallest case of `AddRareFeature`; five runs add
  three inputs, displace a feature and count the displaced one again, or mutate the fake input before the first feature is found and after it.
* `mutation`. Four bytes with a mask of two set bytes; two tries, so that an accepted try follows a rejected one; two mutations and two places in the ring,
  so the ring comes round within a sequence. The groups of mutators share no state but the buffer, whose contents are
  free anyway.
* `driver`. Three flags give every pair of modes with one that modifies them; units of up to three bytes of four values let a
  minimisation take two steps and a cleansing two rounds; one killed child shows what a wrong exit code does. Four cores give two workers for two jobs; with one
  core `JobsSpawned` fails (section 6).
* `data_flow`. The unit of five bytes has a last group that is shorter. Function 1 has three blocks, one of which is
  never entered; in the second program a block is entered twice by one unit, and function 2 by one unit only.
* `unit_execution`. Two units, so that the one before can be mistaken for the current one; a timeout
  of one second and the SIGALRM period that belongs to it, so a unit sees an alarm that comes too early and one that does not.
  Time is not counted beyond what the properties tell apart.

Properties and what they say:

* `GlobalCorpus`: `Ownership` (the assertion at `FuzzerFork.h:342` holds), `AddedOnce`,
  `DiskCoversFeatures` (no sequence of evictions removes the last file with a feature), `DrawsSound`
  (the draw finds a seed though the counts were read without the lock, two counts of dead inputs agree, and the unlocked copy
  misses only seeds that have been or are being evicted), `NonZeroOnce` (16-bit saturation).
* `ForkMode`: `JobInOnePlace` (no double run, no use after delete), `InCirculation` (main never
  waits for nothing), `QueuedBeforeStopRuns`, `StopEnds` (liveness, hence every worker gets its
  nullptr). That a job's directories are its own is not claimed, because it
  does not hold: two creators can increment `JobId` one after the other and both read the
  second value, so two jobs get one id, and the second creator empties the directories of
  the first. No comment, test or doc of the repository says that ids are unique.
* `JobAccounting`: `CovIsObserved` (two records of coverage, kept in different ways, agree),
  `SizesExact` (a function's record is exact, or behind after inputs that reached the function with its entry counter wrapped), `HitsCounted` (exactly once with several
  engines; up to twice with one table), `CreditsRight` (a PC is credited once, and every engine gets a job before one gets two, as far as the list repeats none).
* `MergeControl`: `ControlFileRight` (whatever died, the control file parses, and the attempts are enough),
  `MergeRight` (no recorded feature is lost by the selection; by sizes no input is copied whose features smaller recorded ones all have, and by
  set cover none that adds nothing to the first corpus and to those copied before it),
  `MergeEnds` (liveness), `RunsInputsOnce` (refinement).
* `InputCorpus`: `OwnersRight` (the counts of features are exact over any sequence of takeovers, owners have
  their features and are the smallest that do), `AlwaysPickable` (the assertion of
  `ChooseUnitToMutate` that the input is not evicted; all weights are zero only with `-keep_seed` and no feature found), `OneUnitEach` (without replacement no unit is
  in the corpus twice, but for equal seed files with `-keep_seed`), `DiskCovers` (whenever the process ends, and for all options, every feature
  found is in a file, or was in one that another process removed or two inputs shared, or belongs to the unit of the mutation that is
  not reported yet; files are shared only after a replacement). The features of the unit that is executed are the price of removing the file of
  an evicted or replaced input first; `KillPreserves` and `ReducePreserves` say that nothing is lost with the default options and do not hold (section 6).
* `Entropic`: `LocalWithinGlobal` (an input never counts a feature more often than it was found at all, although one
  count saturates and both are reset on their own), `RareAtLeast` (dropping the most abundant feature
  never leaves fewer than wanted), `EnergyStays` (once a feature is found no input loses its energy; before that the fake input and featureless seeds do, at the first
  update after a mutation; none ever gets it back).
* `Mutation`: `WithinBuffer` (no mutator, accepted or not, writes behind its buffer, and what is executed has 1 to `MaxSize` bytes), `OnlyASCII`,
  `MaskKept`, `EntriesAreApplied` (the pointers of the sequence still name the words that were applied), `RecordedOnce`.
* `UnitExecution`: `ArtifactsRight` (what the fuzzing thread dumps is the unit it executed, whole, also after
  a second execution and for leaks; whichever of the racing reports ends the
  process, the file that belongs to its exit code exists), `TimeoutsRight` (no timeout for the time of an earlier
  unit, and none later than one period), `ProblemsEnd` (liveness: no callback takes the
  crash state and then returns).
* `Driver`: `ChildrenDescend` (a child's mode always comes later in the dispatch, but for the exception above, so no command line
  forks without end), `JobsRunOnce` (each job once, and `-jobs` is passed over only on one core without `-workers`), `MinimizedFails` (whatever slow units and old artifacts lie at the artifact
  path, the result fails like the input), `CleansedFails` (what is written fails, and after a round without a change no byte
  can be replaced), `DriverEnds` (liveness, for command lines that do not ask for fuzzing without a budget).
* `DataFlow`: `TracesExact` (traces are the bytes that flow to the focus function, whatever the number of executions; a cut file gives a
  part of them), `CountersRight` (counters count files; too low after a kill, never too high), `FocusExecuted`.

Each of these has a mutation of a mapped definition that TLC finds to violate it.

## 4. Fairness

* `ForkMode!FairSpec`: weak fairness of main, of every worker's pop, and of the end of a child
  whose engine has a time budget or polls the STOP file. Threads are scheduled by the operating system, and
  main and the workers wait for nothing else. Nothing is assumed of the
  detached threads, which nobody joins: `StopEnds` holds without them. Engines in
  `Endless` get none (`aflfast` and `aflgo`, since `GetFuzzerCmd` gives them no budget); the run has no such engine.
* `MergeControl!FairSpec`: weak fairness of the steps of the two processes together
  (`Progress`); at any time only one of them can move. Kills, graceful exits and reruns
  have none.
* `Driver!DriverSpec`: the process takes steps as long as it can, if it ends by itself (`EndsItself`). Fuzzing does not: with `-runs=-1`, the default, and without
  `-max_total_time` the loop is infinite (`FuzzerDriver.cpp:736-737`), and so are the jobs of `-jobs` then; fork mode counts the runs its engines report, so only
  a time budget is sure to end it. For these command lines nothing is assumed, and `DriverEnds` claims nothing. In the other modes children end: `MinimizeCrashInput`
  gives each step a budget (`FuzzerDriver.cpp:423-428`), and a unit that hangs is ended by `-timeout`. Which results children have
  is not restricted by fairness.
* `UnitExecution!FairSpec`: weak fairness of time, of the delivery of SIGALRM, of RssThread and of the
  steps of a report; nothing of the target. That SIGALRM is handled within half a second, and that less than
  that passes between taking the start time and entering the target, is assumed in `Tick`.

## 5. Proofs

Eight modules hold 50 theorems that TLAPS checks for every value of the constants, in 21 772 obligations
(counted by `tlapm --summary`) proved by SMT, Zenon and PTL. For each component the first theorem is the inductive invariant, and the
others state the invariants of the runs (`Process_proofs` has three components).

| Module | Theorem | States |
|---|---|---|
| `GlobalCorpus_proofs` | `CorpusConsistent` | `[]IInv` |
| | `TypesHold`, `OwnershipHolds`, `FilesHold`, `CoverageKept` | `TypeOK`; `Ownership` and `LiveCount`; `AddedOnce` and `LiveOnDisk`; `DiskCoversFeatures` |
| | `ReadersConsistent` | `[]DrawIInv`, which adds the creators and the frequencies |
| | `DrawsHold`, `FrequentHold` | `DrawsSound`; `NonZeroOnce` |
| `ForkMode_proofs` | `ForkConsistent` | `[]IInv` |
| | `JobsNotShared`, `JobsConserved`, `QueuedJobsRun`, `NullsEnough` | `JobInOnePlace`; `InCirculation`; `QueuedBeforeStopRuns`; `NullsSuffice` |
| `JobAccounting_proofs` | `AccountingConsistent` | `[]IInv` |
| | `CovAgrees`, `RecordsExact`, `HitsHold`, `EnginesTried`, `CreditsHold` | `CovIsObserved`; `SizesExact`; `HitsCounted`; `TriedOnce`; `CreditsRight` |
| `MergeControl_proofs` | `MergeConsistent` | `~LongLines => (Spec => []IInv)` |
| | `ControlFileHolds`, `MergeHolds` | `ControlFileRight`; `MergeRight` |
| | `RunsOnce` | `Spec => Promise!Spec`: `MergeControl` implements `RunOnce` |
| `InputCorpus_proofs` | `CorpusConsistent` | `[]IInv` |
| | `OwnersHold`, `PickHolds`, `UnitsHold`, `CoverageKept` | `OwnersRight`; `AlwaysPickable`; `OneUnitEach`; `DiskCovers` |
| `Process_proofs` | `ExecutionConsistent` | `[]IInv` of `UnitExecution` |
| | `ArtifactsHold`, `TimeoutsHold` | `ArtifactsRight`; `TimeoutsRight` |
| | `DriverDispatch`, `DriverChildren` | `[]DispatchInv`; `ChildrenDescend` |
| | `DriverJobs`, `DriverMinimizes`, `DriverCleanses` | `JobsRunOnce`; `MinimizedFails`; `CleansedFails` |
| | `FlowConsistent` | `[]FlowInv` |
| | `FlowTraces`, `FlowCounters`, `FlowFocus` | `TracesExact`; `CountersRight`; `FocusExecuted` |
| `Entropic_proofs` | `ScheduleConsistent` | `[]IInv` |
| | `LocalHolds`, `RareHold`, `EnergyKept` | `LocalWithinGlobal`; `RareAtLeast`; the action property `EnergyStays` |
| `Mutation_proofs` | `MutationConsistent` | `[]IInv` |
| | `NeverOverrun`, `ExecutesASCII` | `WithinBuffer`; `OnlyASCII` |
| | `AddressesHold`, `RecordsApplied` | `EntriesAreApplied`; `RecordedOnce` |
| | `MaskAlwaysKept` | the action property `MaskKept` |

### Assumptions

They are the `ASSUME`s of the modules; TLC evaluates them for the instances.

* `CorpusAssumption` (`GlobalCorpus`): finitely many features, sizes are positive (empty files are
  skipped), the features are a function of the content, and a seed file that is named by a hash is
  named by its own.
* `ForkAssumption`: at least one worker, at least as many jobs as workers.
* `AccountingAssumption`: finite sets; the entry of a function is its own entry; sizes are positive. Nothing is assumed of traces, in which a block may be without its
  entry, or of the list of engines, which may repeat one.
* `MergeAssumption`: the directories are finite and the one to merge is not empty (without inputs the code does
  nothing). `NoFileAssumption`: the value for "no file" is not a file. The theorems have the hypothesis `~LongLines`,
  the buffer of the stream holds the lines of an input: without it `ControlFileRight` is false (section 6).
* `InputCorpusAssumption`: finitely many features; sizes are positive, and no unit is smaller than the newline that
  stands for an empty corpus; two seed files in the output corpus have different names, hence different units. Other seed files may be equal.
* `ExecutionAssumption`: the timeout is positive (with `-timeout=0` there is no timer).
* `EntropicAssumption`: features are numbered from 0, and the counters hold more than the threshold of a rare feature.
* `MutationAssumption`: converting a byte to ASCII twice is converting it once, and a space is ASCII; units have between one byte and
  the capacity of the buffer; words are sequences of bytes, masks sequences of booleans; the sizes are positive. The
  mutators of a case are any of the default ones.
* `DriverAssumption`: there is a core, a replacement byte and a round of cleansing (constants of the code); units and command lines are
  sequences; the values of `-jobs` and `-workers` are natural numbers (they are unsigned flags, parsed by `std::stoul`); a directory is not a file, and the corpus directory that fork mode makes is one.
  A file is not named `minimized-from-<hash>` after the unit it holds itself: `-minimize_crash` gives that
  name to files that are shorter than the unit it is made from, and would overwrite its input.
* `DataFlowAssumption`: finitely many files and functions, functions are numbered from 0 and have an entry block; units are not empty
  (`GetSizedFilesFromDir` lists no empty file) and only their own bytes are compared; a block of a function is only entered through its entry.

### Arguments

`GlobalCorpus`. The invariants are not inductive as they stand, because in the
middle of an `AddFeature` loop the index of an input that does not exist yet is
stored as an owner. `OwnerOK` says what every owner means, that index included; `CandOK`
says that the candidate's count is the number of features stored with its future index, and
that a content that is in the corpus takes no feature a second time (each is owned at its
size or below, by `SmallestOwner`). `EvictOK` says that a feature whose takeover is evicting its owner is the last one of that owner and still to
be taken by the candidate, so between the writes the owner has one feature left, and `Ownership`, `LiveOnDisk` and `LiveCount` except or include it (`EvictFileInv`, `EvictLiveInv`). From these: a feature that is taken over has an owner in `Inputs`
that owns it, so its count is positive (`LoserFacts`, `TakenInv`); a new record starts with the right count
(`KeepInv`); and coverage is kept because the owner of every feature is live
(`OwnersCover`). Creators only change locks, so they disturb none of it (`DrawInv`).

That a creator always draws a seed (`DrawsSound`) although it counted twice without the lock is a matter of order:
`AsksAfterFeature` says that a creator for which either count is not zero, torn or wrapped, comes after the first feature was found, and
from then on some input is live. `CopiesRight` follows the unlocked copy: an
input that was looked at and not copied has been evicted or is being evicted, or shares its
name with one that was copied, or is the one in hand. `FrequentOnce` needs that listed features have a count above one, so the
one increment that lists a feature, from one to two, happens once, saturation included.

`ForkMode`. `JobInOnePlace` needs that each job in a queue has the stage of that
queue, and once; `MainOK` relates main's counters to the numbers of jobs in each
stage (`CountsMove`: a job moving within the flight does not change the sum); `StopOK` says that
what is behind a nullptr in the FIFO queue was pushed late, so when a worker has taken a
nullptr only late jobs are left. `NullsSuffice` counts: the nullptrs in the queue and the workers that have taken one together are what `StopJobs` has pushed
(`Pushed`), through a bijection between them.

`JobAccounting`. Between critical sections every function has been looked at with its present counter
(`Consistent`: `last = hits`, and each record is at most `Behind`), so a counter that has moved is a sound test for staleness, but for the functions in `blind`: an input
that enters a function makes its record exact again (`RefreshExact`), one that reaches its blocks only leaves the record behind (`ExactBehind`), and one that does not reach
it leaves both alone (`UpdateLoose`, `ExactLoose`). While seeds are loaded a PC is in `Cov` exactly when some kept seed
has it, so a seed that is not kept covers nothing new. `TriedOnce` holds since the first place of every name is chosen once before it
counts (`FoundByName`). `CreditsRight` is a balance of sums
over engines and jobs: a merge and a credit change one summand each, and a job owes PCs between these two only (`OwedWhenMerged`).

`MergeControl`. The control file is described line by line: every line is whole and
belongs to the input started last (`LinesRight`), the list has the files of the first corpus first and the others by size (`NamesRight`), and
the features of a recorded input are written down for it or for one before it (`FeaturesRight`), because what an inner process
has seen is in the file or in its buffer (`SeenRight`) and a kill loses both or none.
`AttemptsRight` says that there is an attempt for every input left. `SelectionRight` says that features that count as had are those of files in the first corpus or selected for it, and that a
file that is left out adds none. The refinement maps a name to its fate by the `STARTED` and `FT`
lines: each step of either process changes the fate of at most one name (or of all, when a list is replaced), in
the way `RunOnce` allows.

`InputCorpus`. As in `GlobalCorpus`, the unit being executed takes features for an input
that does not exist yet (`Collected`), or for the base it will replace; `Counted` says that `FoundUniqFeatures` counts the features the base was
added for among those the unit has shown, and `AddedFor` that an input can own nothing else. So
when the numbers agree the replacement owns all the features of the base (`OwnersRight`), and when the base has lost its last one
the unit has taken it, is added, and there is an input to draw (`BaseRight`). `TakesOnce` excludes that a unit in the corpus takes a feature
when it is read again; `KeptSeeds` says which inputs can be without features, so that the weights are all zero only when no feature is found (`NoWeight`).
`FilesKept` says that the unit of a live input is on disk, or gone for one of the reasons that `gone` records, or in hand between its addition and its report; an own file is only
removed with its last holder unless something was replaced (`OwnersOnDisk`).

`UnitExecution`. A report begins while buffer and size are those of the unit, and
nothing touches them once it has begun (`UnitInPlace`); whoever is about to exit has written its file (`ReportsFiled`); and as long as
nobody reports, the time to the next SIGALRM is less than what remains to one period after the timeout (`ClocksAgree`).

`Entropic`. The operators fold over features and over positions of the list. A fold is defined by a
function that `CHOOSE` picks; `FoldExists` shows that there is one and `OneByOne` that what each step keeps
is kept to the end, both from the least position where it could fail. The energy of an input is recomputed after a feature was dropped or counted for it or it was mutated. Once the list is not empty it is positive again (`EnergyPositive`); as long as no
feature was found only a mutation marks an input for it, which is what the invariant says of `update` (`KeptFaded`, by way of what an execution leaves of the inputs). `Enough` says that a feature is dropped only when the list is long enough.

`Mutation`. Each mutator, with every random number it can draw, returns a result that `Fits` (one lemma each, `AllFit` for all):
the buffer is as long as before, nothing behind the new size has changed, and a size that was within the maximum still is. A mutator that rejects its
arguments returns size 0, and the next try goes on with the buffer as it left it; `WorkRight` and `ASCIIKept` say that this buffer can
still be put back through the mask, and that its bytes are ASCII. `EntriesRight` is about the addresses:
the places of the ring are given out in order, so the place of an entry and the number of entries put there after it
add up to `ringIdx`, or to `ringIdx` and one round (`RingTurns`); a place is written again only when it is a round old. The success that records words looks
each one up first, so `KnownOnce` goes through its loop (`RecordRight`).

The library's theorems for induction take an operator and cannot be used here. Where an argument needs induction, over the positions
of a fold or over a finite set of numbers, it is done on the particular set: if some place fails, there is a first one (`WFMin`), and its
predecessor does not fail.

`Driver`. A command line is a list, and `Only` is what every operation on it is made of (`OnlyType`, `OnlyNone`,
`OnlyAppend`): a flag that was removed is not given any more, one that was added is given with its value, and what stands behind
`-ignore_remaining_args` is never read. So for each mode the command line of its children selects none of the modes up to it
(`Passed`, by `RemoveFlags` of the flags that select them, or because the dispatch got to this mode without them), and the mode of a child comes later.
`JobsGood` says that the jobs below the counter are held by one worker or done, once each (`JobsTaken`, `JobsApart`); when every worker has met a number that is too high,
all are done. A process that was asked for jobs and is in a later mode has no workers, which is half of one core (`JobsRunOnce`). `MinimizeGood` says that the file of the current unit is not the one the next step writes to (`Apart`: its name is made of the unit
itself, the artifact's of a longer one), so whatever a step leaves at the artifact path, the unit that is returned to is still there;
what is accepted has the token of the input (`Like`). `CleanseTried` says which replacements have been tried on the unit since it
last changed, as places before `idx` and bytes before `byte`, and what was changed is at the exact path.

`DataFlow`. `RunInv` says what the iterations of the instrumented process have labelled: those of iteration k are the bytes of the
unit in the k-th group that flow to the function (`LabelsAt`). From division with remainder (`Euclid`, `Iterations`, `PlaceOf`): when all
iterations are done every byte has its place in one of the groups, and the length printed is that of the unit. So a complete file is `RightFile` and
`WholeFile`, and a file that was cut is `RightFile`: its lines are right as far as they go, in their order, one `C` line for a function
(`PrintedRight`, `CutRight`). `CovInv` says that the counters are those of the files read so far (`Counted`, and `ExactOf` if no process was killed).
In the middle of a file a function counts it if its `C` line was read (`Reading`); a line adds one to the counters of the blocks it names and to
the entry, each once because its numbers ascend, and a line whose number of blocks does not fit ends the file (`LineStep`, `FileCounted`).
`TraceInv` says the same of the traces: the first line of the focus function is a prefix of the exact bits, and a whole file has one exactly if something flows there (`FirstOfFocus`).
That the focus is executed follows as functions with a weight are those with counters (`WeightIs`), and these have a file that entered them.

### Only model-checked

`StopEnds`, `MergeEnds`, `ProblemsEnd` and `DriverEnds`, since liveness is beyond the prover; `MergeControl` with
`LongLines`, where `ControlFileRight` does not hold. That no state is stuck, in the runs with the deadlock check, is `ENABLED` and rests on TLC too.

## 6. Disagreements between code and documentation

Shown by a run:

| Run | Code | Says otherwise |
|---|---|---|
| `entropic_rare` | a rare feature that is dropped is unmarked by its position in the list and not by itself (`FuzzerCorpus.h:386`): inputs go on counting it, and another feature is not counted any more | `FuzzerCorpus.h:365-367`: "Remove all other features." |
| `input_corpus_reduce` | two inputs can be reduced to one unit; the file they share is removed when one of them is reduced again (`FuzzerCorpus.h:292`) | `FuzzerFlags.def:107-108`: inputs are reduced "while preserving their full feature sets" |

Stated in the modules as definitions that do not hold, without a run of their own:

| Definition | Code | Says otherwise |
|---|---|---|
| `ForkMode!StopEnds` with `Endless = {"afl"}` | `FuzzerFork.h:261`: aflfast and aflgo get no `-V`; afl-fuzz does not read the STOP file, so the join waits for ever | `FuzzerFork.cpp:553-555`: "other jobs need to finish" |
| `ForkMode!CleanupUnraced` | merge and creator threads are detached (`FuzzerFork.cpp:578,589`) and not waited for before `RmDirRecursive` | `FuzzerFork.cpp:600-601`: the directory is not removed before the workers terminate, "to avoid a race condition" |
| `MergeControl!CompletedBefore` | completeness is read from the `STARTED` lines, but the new files are copied after the last of them | `FuzzerMerge.cpp:461`: "merge has been completed before" |
| `MergeControl!OnlyNewCoverage` | known files of the first corpus count as new files (`FuzzerMerge.cpp:529`) | `FuzzerMerge.h:10-11`: "only inputs with new coverage are added" |
| `MergeControl!OnlyNewCoverage`, for files of one size | an inner process writes down of a file only what it has not seen (`FuzzerMerge.cpp:246-250`), while the selection prefers the file with more features written down (`FuzzerMerge.cpp:167-172`): a = {1, 2} is run first, b = {1, 2, 3, 4, 5} of the same size is written down as {3, 4, 5} and picked first, and a is copied too though b has all it has. `OnlyNewCoverageAdded` states what holds | `FuzzerMerge.h:10-11`, as above |
| `MergeControl!ToleratesKills` with `LongLines = TRUE` | a line longer than the stream's buffer can be torn by a kill, and the merge then fails to parse its file | `FuzzerMerge.h:13`: "tolerate the crashes, OOMs, leaks" |
| `JobAccounting!TriedFirst` without its exception for repeated names | an engine named twice gets every job once its second place is reached (`FuzzerFork.cpp:711-715`), and those behind it none | `FuzzerFlags.def:213`: "A comma-separated list of fuzzers to use" |
| `InputCorpus!IndexDrawn` | two seeds without features and `-keep_seed`: all weights are zero, and the index drawn is out of range | the assertion `FuzzerCorpus.h:322` |
| `InputCorpus!KillPreserves` | the file of a replaced input is removed before the smaller unit is written, with the leak check in between (`FuzzerLoop.cpp:767-770`) | `FuzzerFlags.def:107-108`, as above |
| `Driver!JobsStart` | fork mode without seeds gives its engines an empty `-seed_inputs` (`FuzzerFork.h:234`), at which they exit | `FuzzerDriver.cpp:95`: "To run fuzzing pass 0 or more directories." |
| `Driver!JobsSpawned` with one core | with one core and no `-workers` there are 0 workers (`FuzzerDriver.cpp:695`), and `-jobs` is passed over | `FuzzerFlags.def:109-111`: "If jobs >= 1 we spawn this number of jobs in separate worker processes" |
| `Entropic!RareKept` | the second most abundant feature is found by a scan that misses it when it comes after the first (`FuzzerCorpus.h:375-383`); when the list starts with the first, the bound stays that of the feature just dropped, and infrequent ones are dropped too (constants of `EntropicRare.cfg`) | `FuzzerCorpus.h:366`: "all features with a frequency below ConsideredRare" |
| `Entropic!FreshHasEnergy` | the energy of a new input is `log(1) = 0` when there is one rare feature (`FuzzerCorpus.h:230`) | `FuzzerCorpus.h:69`: "fresh seeds maximum entropy" |
| `DataFlow!FocusIsFunction` | with no weight but zero the draw gives no index of a function (`FuzzerDataFlowTrace.cpp:198`) | the assertion that follows it |

And one that `OnlyASCII` of `Mutation` leaves out: with `-only_ascii`, a focus function and a seed that is not ASCII, a mutation by a mask
leaves the bytes outside the mask, and the assertion of `FuzzerLoop.cpp:634` fails.

## 7. What is not modelled

* Scores and UCB1 values, the size of energies: floating point that orders random draws; replaced by the set of
  possible outcomes.
* The race on `FuncsInfo` in `CalculateJobFeedback` (`FuzzerFork.cpp:193`): the value only weights engines.
* `-cross_over_uniform_dist` with `-shrink` (`FuzzerCorpus.h:313`), which may draw an evicted input.
* The collection of features from counters, value profiles and extra counters (`FuzzerTracePC.cpp`): a feature is an abstract
  value everywhere. Its hazards are arithmetic of ranges, not order of events.
* `AnalyzeDictionary`, `ParseDictionaryFile`, custom mutators, feature files, `InterruptCallback`.
* Command lines of engines other than this program, statistics, logging, symbolisation.
* File and process utilities, interceptors, SHA1, the platform ports, the AFL driver and the
  standalone main: system calls or glue without state of their own. Where a caller depends on a
  failure (a missing directory, an existing file) the caller's module models it.

## 8. Plan

Done: all modules of section 2 are model-checked; every invariant and action property that a run checks is proved, and so is the
refinement of `RunOnce` by `MergeControl`. What the runs check and no theorem states is liveness.

What could follow:

1. Two abstract specifications with their refinements: a corpus as a map from features to the smallest input, which `GlobalCorpus` and
   `InputCorpus` with `-shrink` should implement, and a bag of jobs that `ForkMode` implements.
2. `FeatureMap` (`FuzzerTracePC.cpp`, `FuzzerTracePC.h`): counters to features, boundaries and
   disjoint ranges as pure operators against a reference definition.
3. One module of lemmas: the least-element lemmas and the folds are the same in `Entropic_proofs`, `Mutation_proofs` and `Process_proofs`,
   and so are some on cardinalities.

Each proof module is about one component but for `Process_proofs`, and they are the longest part to check.
