---------------------------- MODULE JobAccounting ----------------------------
(***************************************************************************)
(* What fork mode learns from its jobs (FuzzerFork.cpp, FuzzerTracePC.cpp):*)
(* which engine a job gets, which PCs and functions its inputs covered,    *)
(* and how many of them the engine is credited with.  Several merge        *)
(* threads and creator threads share these tables; every action below is   *)
(* one critical section of Env.Mtx, and a job goes through its sections in *)
(* order while others go through theirs.                                   *)
(*                                                                         *)
(* CoverageInfos[1] is the global table; with more than one engine, entry  *)
(* e + 1 belongs to engine e, otherwise the global one is the only one.    *)
(***************************************************************************)
EXTENDS Integers, Sequences, FiniteSets, FiniteSetsExt, Functions

CONSTANTS
  EngineLists,  \* what -fuzzers may name, in the order of ParseFuzzers, or <<>>
  PCs,          \* instrumented PCs
  EntryOf,      \* for every PC: the PC its function begins with
  Interesting,  \* the entries of functions in interesting files
  Inputs,       \* inputs a seed corpus or a job may hold
  Trace,        \* the PCs whose counters are not zero after an execution
  SizeOf,       \* the size of an input
  Seeds,        \* the initial corpus
  Jobs,         \* slots for jobs that are alive at the same time
  MaxJobs       \* bound on the number of jobs created

Entries == {EntryOf[p] : p \in PCs}

(* A list may name an engine twice.  An inline counter has 8 bits and can  *)
(* be zero again after 256 hits, so that blocks of a function may be in a  *)
(* trace without its entry.                                                *)
ASSUME AccountingAssumption ==
  /\ IsFiniteSet(PCs) /\ IsFiniteSet(Inputs) /\ IsFiniteSet(Jobs)
  /\ EntryOf \in [PCs -> PCs] /\ \A p \in PCs : EntryOf[EntryOf[p]] = EntryOf[p]
  /\ Interesting \subseteq Entries
  /\ Trace \in [Inputs -> SUBSET PCs]
  /\ SizeOf \in [Inputs -> Nat \ {0}]
  /\ Seeds \subseteq Inputs
  /\ \A list \in EngineLists : list \in Seq(Range(list))
  /\ MaxJobs \in Nat

VARIABLES
  engines,     \* the list of this session
  toLoad,      \* seeds not preprocessed yet
  smallest,    \* the size of the smallest input that covers a PC, 0 for none
  cov,         \* Env.Cov
  infos,       \* CoverageInfos: [observed, hits, last, sizes], and as history
               \* in blind the functions whose blocks were reached by the inputs
               \* since their entry was seen last
  selections,  \* FuzzerStatuses[e].Selections
  credited,    \* FuzzerStatuses[e].CoveredBranches
  created,     \* number of jobs created
  job,         \* per slot: [stage, engine, newCov]
  initial,     \* history: Cov after the preprocessing of the seeds
  executed     \* history: how many executed inputs entered a function

vars == <<engines, toLoad, smallest, cov, infos, selections, credited, created, job, initial, executed>>

NumInfos == IF Len(engines) > 1 THEN Len(engines) + 1 ELSE 1
Global == 1

NoSizes == [hits |-> 0, uncovered |-> 0, covered |-> 0]
NoInfo ==
  [observed |-> {}, hits |-> [f \in Entries |-> 0], last |-> [f \in Entries |-> 0],
   sizes |-> [f \in Interesting |-> NoSizes], blind |-> {}]
Free == [stage |-> "free", engine |-> 0, newCov |-> {}]
Started(e) == [stage |-> "runs", engine |-> e, newCov |-> {}]

Body(f) == {p \in PCs : EntryOf[p] = f}
-----------------------------------------------------------------------------
Init ==
  /\ engines \in EngineLists
  /\ toLoad = Seeds
  /\ smallest = [p \in PCs |-> 0]
  /\ cov = {}
  /\ infos = [i \in 1..NumInfos |-> NoInfo]
  /\ selections = [e \in DOMAIN engines |-> 0]
  /\ credited = [e \in DOMAIN engines |-> 0]
  /\ created = 0
  /\ job = [j \in Jobs |-> Free]
  /\ initial = {} /\ executed = [f \in Entries |-> 0]

(* UpdateObservedPCs after the execution of every input in S: their PCs    *)
(* are observed, and each adds one to the counter of a function it entered.*)
Entering(S, f) == Cardinality({x \in S : f \in Trace[x]})
Covered(S) == UNION {Trace[x] : x \in S}

Blind(known, S) ==
  {f \in Entries : /\ Entering(S, f) = 0
                   /\ f \in known \/ Body(f) \cap Covered(S) # {}}

UpdateObservedPCs(info, S) ==
  [info EXCEPT !.observed = @ \cup Covered(S),
               !.hits = [f \in Entries |-> @[f] + Entering(S, f)],
               !.blind = Blind(@, S)]

(* GetFuncFreqsUncoveredInfo: the record of a function is computed again   *)
(* when its counter has changed since the last time.                       *)
FreshSizes(info, f) ==
  [hits |-> info.hits[f],
   uncovered |-> Cardinality(Body(f) \ info.observed),
   covered |-> Cardinality(Body(f) \cap info.observed)]

ChangedIfNew(info, f) == info.hits[f] # 0 /\ info.last[f] = 0  \* mutant
Changed(info, f) == info.hits[f] # 0 /\ info.last[f] # info.hits[f]

GetFuncFreqsUncoveredInfo(info) ==
  [info EXCEPT !.sizes = [f \in Interesting |->
                            IF Changed(info, f) THEN FreshSizes(info, f) ELSE @[f]],
               !.last = [f \in Entries |-> IF Changed(info, f) THEN info.hits[f] ELSE @[f]]]

(* The seed is kept if it is the first or the smallest input with one of   *)
(* its features.  Every covered PC gives a feature of its own as long as   *)
(* the target has fewer than 2^21 / 8 of them (kFeatureSetSize); a seed    *)
(* with the same PCs and other hit counts is one with other features too,  *)
(* and does not change what follows.                                       *)
KeepsSmaller(x) == \E p \in Trace[x] : smallest[p] > SizeOf[x]  \* mutant
Keeps(x) == \E p \in Trace[x] : smallest[p] = 0 \/ smallest[p] > SizeOf[x]

Offer(x) ==
  smallest' = [p \in PCs |->
                 IF p \in Trace[x] /\ (smallest[p] = 0 \/ smallest[p] > SizeOf[x])
                   THEN SizeOf[x] ELSE smallest[p]]

Count(S) == executed' = [f \in Entries |-> executed[f] + Entering(S, f)]

(* The preprocessing of a seed: only the PCs of a seed that is kept go     *)
(* into Cov.                                                               *)
LoadSeed(x) ==
  /\ x \in toLoad
  /\ toLoad' = toLoad \ {x}
  /\ Offer(x)
  /\ infos' = [infos EXCEPT ![Global] = GetFuncFreqsUncoveredInfo(UpdateObservedPCs(@, {x}))]
  /\ cov' = IF Keeps(x) THEN cov \cup Trace[x] ELSE cov
  /\ initial' = cov'
  /\ Count({x})
  /\ UNCHANGED <<engines, selections, credited, created, job>>
-----------------------------------------------------------------------------
(* GetFuzzerName: the first engine that was never selected, and when there *)
(* is none, any (a draw by UCB1 scores).                                   *)
Untried == {e \in DOMAIN engines : selections[e] = 0}
Candidates ==
  IF Untried = {} THEN DOMAIN engines ELSE {e \in Untried : \A d \in Untried : e <= d}

(* FindByName: statuses and tables are looked up by the name of an engine, *)
(* so all that an engine does goes to the first one with its name.         *)
FindByName(e) ==
  Min({d \in DOMAIN engines : engines[d] = engines[e]})

(* CreateNewJob; without -fuzzers the engine is entropic and no status is  *)
(* kept (engine 0).                                                        *)
SelectEngine(j) ==
  /\ toLoad = {} /\ job[j].stage = "free" /\ created < MaxJobs
  /\ created' = created + 1
  /\ IF engines = <<>>
       THEN job' = [job EXCEPT ![j] = Started(0)] /\ UNCHANGED selections
       ELSE \E e \in Candidates :
              /\ job' = [job EXCEPT ![j] = Started(FindByName(e))]
              /\ selections' = [selections EXCEPT ![FindByName(e)] = @ + 1]
  /\ UNCHANGED <<engines, toLoad, smallest, cov, infos, credited, initial, executed>>

(* The table of an engine; the global one when it has none.  Mutant: the   *)
(* look-up by name finds none.                                             *)
InfoOfNone(e) == Global
InfoOf(e) == IF NumInfos = 1 THEN Global ELSE e + 1

(* The section of RunOneMergeJob that executes the local corpus S of the   *)
(* job.  Cov is shared by all jobs: a PC is new for one of them.  At the   *)
(* end the function records of both tables are brought up to date.         *)
NewCovAll(S) == Covered(S)  \* mutant: the result of the insertion is ignored
NewCov(S) == Covered(S) \ cov

Executed(e, S) ==
  LET one == [infos EXCEPT ![InfoOf(e)] = UpdateObservedPCs(@, S)]
  IN [one EXCEPT ![Global] = UpdateObservedPCs(@, S)]

Refreshed(tables, e) ==
  LET one == [tables EXCEPT ![Global] = GetFuncFreqsUncoveredInfo(@)]
  IN [one EXCEPT ![InfoOf(e)] = GetFuncFreqsUncoveredInfo(@)]

Merge(j, S) ==
  /\ job[j].stage = "runs"
  /\ LET e == job[j].engine IN infos' = Refreshed(Executed(e, S), e)
  /\ job' = [job EXCEPT ![j].stage = "merged", ![j].newCov = NewCov(S)]
  /\ cov' = cov \cup Covered(S)
  /\ Count(S)
  /\ UNCHANGED <<engines, toLoad, smallest, selections, credited, created, initial>>

(* Later, in another section, the engine is credited; then the job is      *)
(* deleted and its slot can be used again.                                 *)
Credit(j) ==
  /\ job[j].stage = "merged"
  /\ credited' = IF job[j].engine = 0 THEN credited
                 ELSE [credited EXCEPT ![job[j].engine] = @ + Cardinality(job[j].newCov)]
  /\ job' = [job EXCEPT ![j] = Free]
  /\ UNCHANGED <<engines, toLoad, smallest, cov, infos, selections, created, initial, executed>>

Done == created = MaxJobs /\ (\A j \in Jobs : job[j] = Free) /\ UNCHANGED vars

Next ==
  \/ \E x \in Seeds : LoadSeed(x)
  \/ \E j \in Jobs : \/ SelectEngine(j) \/ Credit(j)
                     \/ \E S \in SUBSET Inputs : Merge(j, S)
  \/ Done

Spec == Init /\ [][Next]_vars
-----------------------------------------------------------------------------
TypeOK ==
  /\ engines \in EngineLists /\ toLoad \subseteq Seeds
  /\ smallest \in [PCs -> Nat]
  /\ cov \subseteq PCs /\ initial \subseteq PCs
  /\ infos \in [1..NumInfos ->
       [observed : SUBSET PCs, hits : [Entries -> Nat], last : [Entries -> Nat],
        sizes : [Interesting -> [hits : Nat, uncovered : Nat, covered : Nat]],
        blind : SUBSET Entries]]
  /\ selections \in [DOMAIN engines -> Nat] /\ credited \in [DOMAIN engines -> Nat]
  /\ created \in 0..MaxJobs
  /\ job \in [Jobs -> [stage : {"free", "runs", "merged"}, engine : 0..Len(engines),
                       newCov : SUBSET PCs]]
  /\ executed \in [Entries -> Nat]

(* Two records of what has been covered are kept in different ways: Cov,   *)
(* from the seeds that were kept and from all inputs of jobs, and the      *)
(* observed PCs of the global table, from everything executed.  A PC that  *)
(* is in one of them only would be credited to a job that found nothing.   *)
CovIsObserved == cov = infos[Global].observed

(* The global table knows what the table of an engine knows.               *)
GlobalKnowsMost == \A i \in 1..NumInfos : infos[i].observed \subseteq infos[Global].observed

(* A record is only computed again when the counter of its function has    *)
(* moved.  The numbers of covered and uncovered PCs, on which the weights  *)
(* of seeds and of jobs rest, are still those of the table it belongs to,  *)
(* unless the inputs that reached blocks of the function since had its     *)
(* entry counter wrapped to zero: then the record is behind, with the      *)
(* right counter and no PC that is not covered, until the entry is seen.   *)
Behind(info, f) ==
  /\ info.sizes[f].hits = info.hits[f]
  /\ info.sizes[f].covered <= Cardinality(Body(f) \cap info.observed)

SizesExact ==
  \A i \in 1..NumInfos : \A f \in Interesting :
    IF f \in infos[i].blind
      THEN Behind(infos[i], f)
      ELSE infos[i].sizes[f] =
             IF infos[i].hits[f] = 0 THEN NoSizes ELSE FreshSizes(infos[i], f)

(* With several engines the global counter of a function is the number of  *)
(* inputs executed that entered it.  With one table for both, every input  *)
(* of a job counts twice in it.                                            *)
HitsCounted ==
  \A f \in Entries :
    IF NumInfos > 1
      THEN infos[Global].hits[f] = executed[f]
      ELSE executed[f] <= infos[Global].hits[f] /\ infos[Global].hits[f] <= 2 * executed[f]

(* Every PC that became covered after the start is credited to one engine, *)
(* now or when the job that found it is accounted for, whatever the order  *)
(* of the merges.                                                          *)
Pending == [j \in Jobs |-> Cardinality(job[j].newCov)]

CreditedOnce ==
  engines # <<>> =>
    Cardinality(cov) = Cardinality(initial) + SumFunction(credited) + SumFunction(Pending)

(* No engine is selected a second time while another one waits for its     *)
(* first job, and every job counts, so that the scores GetFuzzerName       *)
(* divides by Selections are those of engines that have run.  The second   *)
(* place of an engine that is named twice never counts as tried, and gets  *)
(* every job from then on: what comes after it is not tried at all.        *)
Repeated(d) == \E c \in 1..(d - 1) : engines[c] = engines[d]

TriedOnce ==
  \A e, d \in DOMAIN engines :
    selections[e] > 1 => selections[d] > 0 \/ \E c \in 1..d : Repeated(c)

TriedFirst ==
  /\ TriedOnce
  /\ engines # <<>> => SumFunction(selections) = created

(* What the choice of an engine rests on, its score by its jobs, counts    *)
(* every PC for one engine and every job for the engine that ran it.       *)
CreditsRight == CreditedOnce /\ TriedFirst

(* The inductive invariant: besides, the records are up to date between    *)
(* the critical sections, a PC is in Cov when a kept seed covers it, and   *)
(* no job exists before the last seed is loaded.                           *)
Consistent(info) == info.last = info.hits /\ \A f \in Interesting : Behind(info, f)

IInv ==
  /\ TypeOK
  /\ CovIsObserved /\ GlobalKnowsMost /\ SizesExact
  /\ \A i \in 1..NumInfos : Consistent(infos[i])
  /\ toLoad # {} => /\ \A p \in PCs : smallest[p] > 0 <=> p \in cov
                    /\ \A j \in Jobs : job[j] = Free
  /\ \A j \in Jobs : job[j].stage # "free" /\ engines # <<>> => job[j].engine # 0

(* Behind CreditsRight: a job has new PCs between its merge and its credit *)
(* only, and no engine is credited before the last seed is loaded.         *)
OwedWhenMerged ==
  /\ \A j \in Jobs : job[j].stage # "merged" => job[j].newCov = {}
  /\ toLoad # {} => \A e \in DOMAIN engines : credited[e] = 0

CreditsIInv == IInv /\ OwedWhenMerged /\ CreditsRight
=============================================================================
