----------------------------- MODULE InputCorpus -----------------------------
(***************************************************************************)
(* The corpus of one fuzzing process (FuzzerCorpus.h) under the loop that  *)
(* fills it (FuzzerLoop.cpp): seeds are executed, inputs are mutated, and  *)
(* units that other processes wrote to the output corpus are read; those   *)
(* processes remove files from it too.  The process may die anywhere.  An  *)
(* input is added when it updates a feature, replaced by a smaller one     *)
(* that has all the features it was added for (-reduce_inputs), and        *)
(* evicted when smaller inputs have taken its features (-shrink); its file *)
(* in the output corpus comes and goes with it.                            *)
(*                                                                         *)
(* The execution of a unit is one action per feature that CollectFeatures  *)
(* reports; the weights of entropic and vanilla schedules are abstracted   *)
(* to the set of inputs with a positive one.                               *)
(***************************************************************************)
EXTENDS Integers, Sequences, FiniteSets, FiniteSetsExt

CONSTANTS
  Units,        \* units of at most MaxInputLen bytes, not empty
  Features,     \* feature indices; their order is that of CollectFeatures
  SizeOf,       \* the size of a unit
  FeaturesOf,   \* the features the execution of a unit reports
  Rejected,     \* units for which the target returns -1
  NewLine,      \* the unit "\n"
  NoUnit,       \* an empty U
  SeedCorpora,  \* what the seed corpora may hold: the list of their files, and
                \* which of them are in the output corpus under their hash
  OptionSets,   \* combinations of -shrink, -reduce_inputs, -keep_seed
  MutateDepth,  \* -mutate_depth
  MaxOthers     \* bound on files other processes write or remove

ASSUME InputCorpusAssumption ==
  /\ NoUnit \notin Units /\ NewLine \in Units
  /\ IsFiniteSet(Features) /\ Features \subseteq Nat /\ 0 \in Features
  /\ SizeOf \in [Units -> Nat \ {0}]
  /\ \A u \in Units : SizeOf[u] >= SizeOf[NewLine]
  /\ FeaturesOf \in [Units -> SUBSET Features]
  /\ Rejected \subseteq Units
  /\ \A corpus \in SeedCorpora :
       /\ corpus.list \in Seq(Units) /\ corpus.own \subseteq DOMAIN corpus.list
       /\ \A k, l \in corpus.own : corpus.list[k] = corpus.list[l] => k = l
  /\ OptionSets \subseteq [shrink : BOOLEAN, reduce : BOOLEAN, keep : BOOLEAN]
  /\ MutateDepth \in Nat \ {0} /\ MaxOthers \in Nat

VARIABLES
  options,
  pc,        \* seeds, loop, mutate, reload, feature, report, exited, aborted
  toLoad,    \* places of the seeds not executed yet
  inputs,    \* Inputs
  sizes,     \* InputSizesPerFeature, 0 for none
  owner,     \* SmallestElementPerFeature
  hashes,    \* Hashes
  files,     \* the output corpus directory
  unread,    \* files written since it was read last
  pending,   \* AdditionalCorpus of RereadOutputCorpus
  run,       \* the RunOne that goes on
  base,      \* the input chosen to be mutated, 0 for none
  depth,     \* mutations of it so far
  seeds,     \* history: the seed corpora
  fake,      \* history: the corpus had to be started with a fake input
  others,    \* files other processes wrote or removed
  gone       \* history: units of files that another process removed, or this
             \* one while another input held the same unit

corpusVars == <<inputs, sizes, owner, hashes>>
diskVars == <<files, unread, others, gone>>
vars == <<options, pc, toLoad, corpusVars, diskVars, pending, run, base, depth, seeds, fake>>

NoRun == [unit |-> NoUnit, from |-> "none", ii |-> 0, todo |-> {}, uniq |-> {}, found |-> 0]

NextIdx == Len(inputs) + 1
Live == {i \in DOMAIN inputs : inputs[i].unit # NoUnit}
Owned(i) == {f \in Features : sizes[f] # 0 /\ owner[f] = i}
Weighted == {i \in DOMAIN inputs : inputs[i].num > 0}

(* Without seed files the unit "\n" is the only seed.                      *)
SeedList == IF seeds.list = <<>> THEN <<NewLine>> ELSE seeds.list
Elsewhere == {SeedList[k] : k \in DOMAIN SeedList \ seeds.own}
OnDisk == files \cup Elsewhere
-----------------------------------------------------------------------------
(* Seed files may hold equal units; those in the output corpus may be read *)
(* again by the first reload, depending on the times of the files.         *)
Init ==
  /\ options \in OptionSets /\ seeds \in SeedCorpora
  /\ pc = "seeds" /\ toLoad = DOMAIN SeedList
  /\ inputs = <<>> /\ hashes = {}
  /\ sizes = [f \in Features |-> 0] /\ owner = [f \in Features |-> 0]
  /\ files = {seeds.list[k] : k \in seeds.own} /\ unread \in SUBSET files
  /\ others = 0 /\ gone = {} /\ pending = {}
  /\ run = NoRun /\ base = 0 /\ depth = 0 /\ fake = FALSE

NewInput(unit, num, uniq, mayDelete, never) ==
  [unit |-> unit, num |-> num, uniq |-> uniq, mayDelete |-> mayDelete,
   never |-> never, reduced |-> FALSE]

(* RunOne executes the unit; a unit the target rejects has no effect.      *)
Executes(unit, from, ii) ==
  /\ unit \notin Rejected
  /\ run' = [NoRun EXCEPT !.unit = unit, !.from = from, !.ii = ii, !.todo = FeaturesOf[unit]]
  /\ pc' = "feature"

(* ReadAndExecuteSeedCorpora, in any order of the files; a file that has   *)
(* been removed since they were listed reads as an empty unit.             *)
Readable(k) == k \notin seeds.own \/ SeedList[k] \in files

ExecuteSeed(k) ==
  /\ pc = "seeds" /\ k \in toLoad
  /\ toLoad' = toLoad \ {k}
  /\ \/ Readable(k) /\ Executes(SeedList[k], "seed", 0)
     \/ (~Readable(k) \/ SeedList[k] \in Rejected) /\ UNCHANGED <<pc, run>>
  /\ UNCHANGED <<options, corpusVars, diskVars, pending, base, depth, seeds, fake>>

(* The rest of the loop needs an input: a fake one that owns nothing.      *)
SeedsDone ==
  /\ pc = "seeds" /\ toLoad = {}
  /\ pc' = "loop"
  /\ fake' = (inputs = <<>>)
  /\ IF inputs = <<>>
       THEN /\ inputs' = <<NewInput(NewLine, 1, {0}, TRUE, FALSE)>>
            /\ hashes' = hashes \cup {NewLine}
       ELSE UNCHANGED <<inputs, hashes>>
  /\ UNCHANGED <<options, toLoad, sizes, owner, diskVars, pending, run, base, depth, seeds>>
-----------------------------------------------------------------------------
(* UpdateCorpusDistribution gives no weight to an input without features.  *)
(* Entropic may give none to others too, but not to all of them.  When no  *)
(* input has a feature, the weights are divided by their sum zero and what *)
(* is drawn is not a number: as an index it is 0 or out of range, and then *)
(* the assertion of ChooseUnitIdxToMutate fails.                           *)
PickableAll == DOMAIN inputs  \* mutant
Pickable == IF Weighted = {} THEN {1} ELSE Weighted

ChooseUnitToMutate ==
  /\ pc = "loop"
  /\ base' \in Pickable
  /\ depth' = 0
  /\ pc' = "mutate"
  /\ UNCHANGED <<options, toLoad, corpusVars, diskVars, pending, run, seeds, fake>>

DrawFails ==
  /\ pc = "loop" /\ Weighted = {}
  /\ pc' = "aborted"
  /\ UNCHANGED <<options, toLoad, corpusVars, diskVars, pending, run, base, depth, seeds, fake>>

(* A mutation, crossed over with another input or not, may give any unit.  *)
Mutate(u) ==
  /\ pc = "mutate" /\ depth < MutateDepth
  /\ depth' = depth + 1
  /\ Executes(u, "mutation", base) \/ (u \in Rejected /\ run' = NoRun /\ UNCHANGED pc)
  /\ UNCHANGED <<options, toLoad, corpusVars, diskVars, pending, base, seeds, fake>>

(* With -reduce_depth a mutation without a feature of the base is the last.*)
MutationsDone ==
  /\ pc = "mutate" /\ depth > 0
  /\ depth = MutateDepth \/ run.found = 0
  /\ pc' = "loop" /\ base' = 0 /\ depth' = 0 /\ run' = NoRun
  /\ UNCHANGED <<options, toLoad, corpusVars, diskVars, pending, seeds, fake>>

(* RereadOutputCorpus: the files changed since the last time, ...          *)
Reload ==
  /\ pc = "loop" /\ unread # {}
  /\ pending' = unread \cap files
  /\ unread' = {}
  /\ pc' = "reload"
  /\ UNCHANGED <<options, toLoad, corpusVars, files, others, gone, run, base, depth, seeds, fake>>

(* ... each executed unless its hash is known.                             *)
ReloadUnit(u) ==
  /\ pc = "reload" /\ u \in pending
  /\ pending' = pending \ {u}
  /\ \/ u \notin hashes /\ Executes(u, "reload", 0)
     \/ (u \in hashes \/ u \in Rejected) /\ UNCHANGED <<pc, run>>
  /\ UNCHANGED <<options, toLoad, corpusVars, diskVars, base, depth, seeds, fake>>

ReloadDone ==
  /\ pc = "reload" /\ pending = {}
  /\ pc' = "loop"
  /\ UNCHANGED <<options, toLoad, corpusVars, diskVars, pending, run, base, depth, seeds, fake>>
-----------------------------------------------------------------------------
(* The file of an input goes, which another input may need as well.        *)
DeleteFile(i) ==
  LET removed == IF inputs[i].mayDelete THEN files \cap {inputs[i].unit} ELSE {}
  IN /\ files' = files \ removed
     /\ gone' = gone \cup (removed \cap {inputs[j].unit : j \in Live \ {i}})

(* AddFeature takes a feature that is new or, with -shrink, one whose      *)
(* smallest input is larger.                                               *)
TakesLarger(f) == sizes[f] = 0 \/ (options.shrink /\ sizes[f] < SizeOf[run.unit])  \* mutant
Takes(f) == sizes[f] = 0 \/ (options.shrink /\ sizes[f] > SizeOf[run.unit])

(* The previous owner loses it, and is evicted with its file when it was   *)
(* the last one.                                                           *)
LastFeatureTooEarly(i) == inputs[i].num <= 2  \* mutant
LastFeature(i) == inputs[i].num = 1

DropFeature(i) ==
  /\ inputs' = [inputs EXCEPT ![i].num = @ - 1,
                              ![i].unit = IF LastFeature(i) THEN NoUnit ELSE @]
  /\ IF LastFeature(i) THEN DeleteFile(i) ELSE UNCHANGED <<files, gone>>

(* Features the base was added for are counted to see if it can be reduced.*)
Counts(f) ==
  IF /\ options.reduce /\ run.ii # 0
     /\ ~inputs[run.ii].never /\ f \in inputs[run.ii].uniq
    THEN 1 ELSE 0

(* The callback of CollectFeatures for the next feature.                   *)
CollectFeature ==
  /\ pc = "feature" /\ run.todo # {}
  /\ LET f == Min(run.todo)
         rest == [run EXCEPT !.todo = @ \ {f}, !.found = @ + Counts(f)]
     IN IF Takes(f)
          THEN /\ IF sizes[f] > 0 THEN DropFeature(owner[f]) ELSE UNCHANGED <<inputs, files, gone>>
               /\ owner' = [owner EXCEPT ![f] = NextIdx]
               /\ sizes' = [sizes EXCEPT ![f] = SizeOf[run.unit]]
               /\ run' = [rest EXCEPT !.uniq = @ \cup {f}]
          ELSE run' = rest /\ UNCHANGED <<inputs, files, gone, owner, sizes>>
  /\ UNCHANGED <<options, pc, toLoad, hashes, unread, others, pending, base, depth, seeds, fake>>

Forced == run.from = "seed" /\ options.keep /\ seeds.list # <<>>
AddsWithFeature == FeaturesOf[run.unit] # {} \/ Forced  \* mutant: not only new ones
Adds == run.uniq # {} \/ Forced

Reduces ==
  /\ run.ii # 0 /\ run.found > 0
  /\ run.found = Cardinality(inputs[run.ii].uniq)
  /\ inputs[run.ii].unit # NoUnit /\ SizeOf[inputs[run.ii].unit] > SizeOf[run.unit]

(* A mutation that changed the corpus is reported; after the others the    *)
(* callers of RunOne go on.                                                *)
After(result) ==
  /\ pc' = CASE run.from = "seed" -> "seeds"
             [] run.from = "reload" -> "reload"
             [] run.from = "mutation" /\ result -> "report"
             [] run.from = "mutation" /\ ~result -> "mutate"
  /\ run' = IF run.from = "mutation" THEN run ELSE NoRun

AddToCorpus ==
  /\ pc = "feature" /\ run.todo = {} /\ Adds
  /\ inputs' = Append(inputs, NewInput(run.unit, Cardinality(run.uniq), run.uniq,
                                       run.from = "mutation", Forced))
  /\ hashes' = hashes \cup {run.unit}
  /\ After(TRUE)
  /\ UNCHANGED <<options, toLoad, sizes, owner, diskVars, pending, base, depth, seeds, fake>>

Replace ==
  /\ pc = "feature" /\ run.todo = {} /\ ~Adds /\ Reduces
  /\ hashes' = (hashes \ {inputs[run.ii].unit}) \cup {run.unit}
  /\ DeleteFile(run.ii)
  /\ inputs' = [inputs EXCEPT ![run.ii].unit = run.unit, ![run.ii].reduced = TRUE]
  /\ After(TRUE)
  /\ UNCHANGED <<options, toLoad, sizes, owner, unread, others, pending, base, depth, seeds, fake>>

NothingNew ==
  /\ pc = "feature" /\ run.todo = {} /\ ~Adds /\ ~Reduces
  /\ After(FALSE)
  /\ UNCHANGED <<options, toLoad, corpusVars, diskVars, pending, base, depth, seeds, fake>>

(* ReportNewCoverage writes the unit to the output corpus.                 *)
ReportNewCoverage ==
  /\ pc = "report"
  /\ files' = files \cup {run.unit} /\ unread' = unread \cup {run.unit}
  /\ pc' = "loop" /\ run' = NoRun /\ base' = 0 /\ depth' = 0
  /\ UNCHANGED <<options, toLoad, corpusVars, others, gone, pending, seeds, fake>>

(* The loop ends by itself, or the process by a signal, a crash, a limit   *)
(* watched by another thread, or a leak, which is looked for before the    *)
(* unit is reported: anywhere.                                             *)
Exit ==
  /\ pc \notin {"exited", "aborted"}
  /\ pc' = "exited"
  /\ toLoad' = {} /\ unread' = {} /\ pending' = {} /\ base' = 0 /\ depth' = 0
  /\ run' = IF pc \in {"feature", "report"} THEN run ELSE NoRun
  /\ UNCHANGED <<options, corpusVars, files, others, gone, seeds, fake>>

(* Another process finds a unit and writes it to the common corpus, ...    *)
OtherWrites(u) ==
  /\ pc \notin {"exited", "aborted"} /\ others < MaxOthers /\ u \notin files
  /\ files' = files \cup {u} /\ unread' = unread \cup {u}
  /\ others' = others + 1
  /\ UNCHANGED <<options, pc, toLoad, corpusVars, gone, pending, run, base, depth, seeds, fake>>

(* ... or evicts or replaces one there, whoever wrote it.                  *)
OtherRemoves(u) ==
  /\ pc \notin {"exited", "aborted"} /\ others < MaxOthers /\ u \in files
  /\ files' = files \ {u} /\ gone' = gone \cup {u}
  /\ others' = others + 1
  /\ UNCHANGED <<options, pc, toLoad, corpusVars, unread, pending, run, base, depth, seeds, fake>>

Exited == pc \in {"exited", "aborted"} /\ UNCHANGED vars

Next ==
  \/ \E k \in DOMAIN SeedList : ExecuteSeed(k)
  \/ \E u \in Units : Mutate(u) \/ ReloadUnit(u) \/ OtherWrites(u) \/ OtherRemoves(u)
  \/ SeedsDone \/ ChooseUnitToMutate \/ DrawFails \/ MutationsDone \/ Reload \/ ReloadDone
  \/ CollectFeature \/ AddToCorpus \/ Replace \/ NothingNew
  \/ ReportNewCoverage \/ Exit \/ Exited

Spec == Init /\ [][Next]_vars
-----------------------------------------------------------------------------
InputType ==
  [unit : Units \cup {NoUnit}, num : Nat, uniq : SUBSET Features,
   mayDelete : BOOLEAN, never : BOOLEAN, reduced : BOOLEAN]

RunType ==
  [unit : Units \cup {NoUnit}, from : {"none", "seed", "mutation", "reload"},
   ii : Nat, todo : SUBSET Features, uniq : SUBSET Features, found : Nat]

TypeOK ==
  /\ options \in OptionSets /\ seeds \in SeedCorpora /\ fake \in BOOLEAN
  /\ pc \in {"seeds", "loop", "mutate", "reload", "feature", "report", "exited", "aborted"}
  /\ toLoad \subseteq DOMAIN SeedList /\ pending \subseteq Units
  /\ inputs \in Seq(InputType)
  /\ sizes \in [Features -> Nat] /\ owner \in [Features -> 0..NextIdx]
  /\ hashes \subseteq Units /\ files \subseteq Units /\ unread \subseteq Units
  /\ gone \subseteq Units
  /\ others \in 0..MaxOthers
  /\ base \in 0..Len(inputs) /\ depth \in 0..MutateDepth
  /\ run \in RunType /\ run.ii \in 0..Len(inputs)
  /\ run.found \in 0..(IF run.ii = 0 THEN 0 ELSE Cardinality(inputs[run.ii].uniq))

Fake(i) == fake /\ i = 1

(* NumFeatures is the number of features whose smallest input this is, so  *)
(* the assertion of AddFeature holds; an input is evicted exactly when it  *)
(* has none left, and one without any is only kept with -keep_seed.        *)
Ownership ==
  \A i \in DOMAIN inputs :
    /\ ~Fake(i) => inputs[i].num = Cardinality(Owned(i))
    /\ inputs[i].num = 0 <=> (i \notin Live \/ (inputs[i].never /\ inputs[i].uniq = {}))

(* Every feature found is one of the unit that counts as its smallest      *)
(* input, also after that unit was replaced by a smaller one that was only *)
(* compared by the features it was added for (FuzzerLoop.cpp:549).         *)
OwnersHave ==
  \A f \in Features :
    sizes[f] # 0 =>
      IF owner[f] = NextIdx
        THEN pc \in {"feature", "exited"} /\ f \in run.uniq
        ELSE owner[f] \in Live /\ f \in FeaturesOf[inputs[owner[f]].unit]

(* With -shrink a feature belongs to the smallest input of the corpus that *)
(* has it (FuzzerCorpus.h:33), and the size recorded is the size of that   *)
(* input.  That is so because nothing is ever replaced then: what could    *)
(* replace an input takes its features first.                              *)
SmallestOwner ==
  options.shrink =>
    \A i \in Live :
      /\ ~inputs[i].reduced
      /\ ~Fake(i) => \A f \in FeaturesOf[inputs[i].unit] :
                       /\ sizes[f] \in 1..SizeOf[inputs[i].unit]
                       /\ owner[f] = i => sizes[f] = SizeOf[inputs[i].unit]

(* The tables of the corpus agree: the input that counts as the smallest   *)
(* one with a feature, its size, and how many features an input owns.      *)
OwnersRight == TypeOK /\ Ownership /\ OwnersHave /\ SmallestOwner

(* What the loop draws is not an input that was evicted (the assertion of  *)
(* ChooseUnitToMutate), the input stays in the corpus as long as it is     *)
(* mutated, and there is one to draw: weights of zero only, and with them  *)
(* an index out of range, are possible only as long as the process has     *)
(* found no feature and -keep_seed has filled the corpus.                  *)
AlwaysPickable ==
  /\ Weighted \subseteq Live
  /\ pc = "mutate" => base \in Live
  /\ pc = "aborted" => Weighted = {}
  /\ pc \in {"loop", "mutate", "aborted"} /\ Weighted = {} =>
       /\ options.keep /\ seeds.list # <<>>
       /\ \A i \in DOMAIN inputs : inputs[i].never
       /\ \A f \in Features : sizes[f] = 0

(* FuzzerCorpus.h:322: assert(Idx < Inputs.size()), whatever the options.  *)
IndexDrawn == pc # "aborted"

NothingReplaced == ~options.reduce \/ options.shrink

(* No unit is in the corpus twice, and every unit in it is known by its    *)
(* hash: a reload does not execute it again.  Only -reduce_inputs can make *)
(* two inputs alike, or -keep_seed for two seed files that are.            *)
OneUnitEach ==
  NothingReplaced =>
    /\ \A i, j \in Live :
         inputs[i].unit = inputs[j].unit =>
           i = j \/ Fake(i) \/ Fake(j) \/ (inputs[i].never /\ inputs[j].never)
    /\ \A i \in Live : inputs[i].unit \in hashes

(* Whenever the process is killed, each feature it has found is had by a   *)
(* unit that is in a file: evictions do not lose it, although the file of  *)
(* an evicted or replaced input is removed before the smaller unit is      *)
(* written.  Excepted are the features that belong to the unit of a        *)
(* mutation between its execution and its report, and units of files that  *)
(* another process has removed or two inputs shared; inputs share a file   *)
(* only after a replacement.                                               *)
Covered(S) == UNION {FeaturesOf[u] : u \in S \ {NoUnit}}

Unwritten(f) ==
  /\ pc \in {"feature", "report", "exited"} /\ run.from = "mutation"
  /\ owner[f] = NextIdx \/ inputs[owner[f]].unit = run.unit

SharedWhenReplaced == others = 0 /\ NothingReplaced => gone = {}

DiskCovers ==
  /\ SharedWhenReplaced
  /\ \A f \in Features : sizes[f] # 0 => f \in Covered(OnDisk \cup gone) \/ Unwritten(f)

(* FuzzerFlags.def:107-108: inputs are reduced "while preserving their full*)
(* feature sets": between two mutations the features found are on disk, ...*)
ReducePreserves ==
  options.reduce /\ pc = "loop" =>
    \A f \in Features : sizes[f] # 0 => f \in Covered(OnDisk)

(* ... and when the process ends, all but those that the unit it executed  *)
(* has just taken.                                                         *)
KillPreserves ==
  options.reduce /\ pc = "exited" =>
    \A f \in Features : sizes[f] # 0 /\ f \notin run.uniq => f \in Covered(OnDisk)
-----------------------------------------------------------------------------
(* The inductive invariant behind the properties above.                    *)
Seeding == pc = "seeds" \/ (pc = "feature" /\ run.from = "seed")

(* The features collected so far have an owner that is not larger, and     *)
(* those the unit took are the ones the next input will own.               *)
Collected ==
  IF pc = "feature"
    THEN /\ run.unit \in Units /\ run.from # "none"
         /\ run.todo \subseteq FeaturesOf[run.unit]
         /\ run.uniq \subseteq FeaturesOf[run.unit] \ run.todo
         /\ run.uniq = Owned(NextIdx)
         /\ \A f \in FeaturesOf[run.unit] \ run.todo :
              sizes[f] # 0 /\ (options.shrink => sizes[f] <= SizeOf[run.unit])
         /\ \A f \in run.uniq : sizes[f] = SizeOf[run.unit]
    ELSE pc # "exited" => Owned(NextIdx) = {}

(* FoundUniqFeatures counts the features the base was added for.           *)
Counted ==
  /\ pc \in {"feature", "report"} =>
       run.unit \in Units /\ run.ii = (IF run.from = "mutation" THEN base ELSE 0)
  /\ pc = "report" => run.from = "mutation"
  /\ run.ii # 0 => run.unit \in Units /\ run.todo \subseteq FeaturesOf[run.unit]
  /\ run.found =
       IF run.ii # 0 /\ options.reduce /\ ~inputs[run.ii].never
         THEN Cardinality(inputs[run.ii].uniq \cap (FeaturesOf[run.unit] \ run.todo))
         ELSE 0

(* What an input was added for has been found, and is all it can own.      *)
AddedFor ==
  \A i \in DOMAIN inputs :
    /\ Owned(i) \subseteq inputs[i].uniq
    /\ Fake(i) => inputs[i] = NewInput(NewLine, 1, {0}, TRUE, FALSE) /\ Owned(i) = {}
    /\ ~Fake(i) => \A f \in inputs[i].uniq : sizes[f] # 0
    /\ i \notin Live \/ (~options.keep /\ ~Fake(i)) => inputs[i].uniq # {}
    /\ i \in Live /\ ~Fake(i) => \A f \in FeaturesOf[inputs[i].unit] : sizes[f] # 0

(* The loop runs on a corpus that is not empty, and the base is live until *)
(* a mutation of it takes a feature.                                       *)
BaseRight ==
  /\ fake => (~Seeding /\ inputs # <<>>)
  /\ ~Seeding /\ pc # "exited" => inputs # <<>>
  /\ pc = "mutate" => base \in Live
  /\ pc = "feature" /\ run.from = "mutation" =>
       base \in DOMAIN inputs /\ (base \in Live \/ run.uniq # {})
  /\ pc = "aborted" => Weighted = {}

(* A unit that is in the corpus takes nothing when it is executed again;   *)
(* with -keep_seed a second input with it is a seed like the first.        *)
TakesOnce ==
  /\ Seeding /\ options.keep /\ seeds.list # <<>> =>
       \A i \in DOMAIN inputs : inputs[i].never
  /\ NothingReplaced /\ pc = "feature" =>
       \A i \in Live : inputs[i].unit = run.unit /\ ~Fake(i) => run.uniq = {}

(* The input a feature belongs to was forced into the corpus, or added for *)
(* features; with -keep_seed only is there one without.                    *)
KeptSeeds ==
  \A i \in DOMAIN inputs :
    /\ inputs[i].uniq = {} => inputs[i].never /\ options.keep /\ seeds.list # <<>>
    /\ inputs[i].never => ~inputs[i].mayDelete

(* The unit of an input is in a seed file or in the output corpus, or it   *)
(* was there, or is about to be written; so is a unit that was read there. *)
Kept == OnDisk \cup gone

FilesKept ==
  /\ SharedWhenReplaced
  /\ pc = "feature" /\ run.from \in {"seed", "reload"} => run.unit \in Kept
  /\ pc = "feature" /\ run.from = "reload" => run.unit \notin hashes
  /\ pc = "exited" /\ run.from # "mutation" /\ run.uniq # {} =>
       run.unit \in Kept \cap Units /\ run.uniq \subseteq FeaturesOf[run.unit]
  /\ pending \ hashes \subseteq Kept
  /\ pending # {} => pc = "reload" \/ (pc = "feature" /\ run.from = "reload")
  /\ \A i \in Live : ~Fake(i) =>
       \/ inputs[i].unit \in Kept
       \/ /\ pc \in {"report", "exited"} /\ run.from = "mutation"
          /\ inputs[i].unit = run.unit

IInv ==
  OwnersRight /\ Collected /\ Counted /\ AddedFor /\ BaseRight /\ OneUnitEach /\ TakesOnce
    /\ KeptSeeds /\ FilesKept
=============================================================================
