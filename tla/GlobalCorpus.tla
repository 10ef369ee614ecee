---------------------------- MODULE GlobalCorpus ----------------------------
(***************************************************************************)
(* The corpus of fork mode: GlobalCorpusInfo (FuzzerFork.h), which keeps,  *)
(* for every coverage feature, the smallest input seen to have it, and     *)
(* evicts an input (from memory and from the main corpus directory) when   *)
(* its last feature is taken over.  Three parties work on it:              *)
(*   - the start-up code, which loads the initial seeds;                   *)
(*   - merge threads, which offer the inputs a finished job produced and   *)
(*     hold Env.Mtx during the whole batch;                                *)
(*   - creator threads, which read the number of live inputs twice WITHOUT *)
(*     the mutex, draw the seeds of a job under it, and copy their files   *)
(*     into the job's input directory WITHOUT it again.                    *)
(* A write that another thread can observe is a step of its own.           *)
(***************************************************************************)
EXTENDS Integers, Sequences, FiniteSets

CONSTANTS
  Contents,      \* the byte strings that can become inputs (named by their hash)
  Features,      \* feature indices, already taken modulo kFeatureSetSize
  SizeOf,        \* the size in bytes of every content
  FeaturesOf,    \* the features an execution of every content reports
  InitialSeeds,  \* the contents of the seed corpus
  SeedName,      \* the base name of the file an initial seed was read from
  Creators,      \* threads that may be creating a job
  SeedFactor,    \* the factor 10 in the number of seeds given to a job
  Word,          \* 2^64: size_t wraps
  MaxFreq,       \* the saturation value 0xFFFF of GlobalFeatureFreqs
  NoContent      \* not a content: no candidate is being added

(* The target is deterministic (FeaturesOf is a function of the content)   *)
(* and no file is empty: GetSizedFilesFromDir skips empty files.  A seed   *)
(* file may bear its hash as name, but not the hash of another content.    *)
ASSUME CorpusAssumption ==
  /\ IsFiniteSet(Features)
  /\ SizeOf \in [Contents -> Nat \ {0}]
  /\ FeaturesOf \in [Contents -> SUBSET Features]
  /\ InitialSeeds \subseteq Contents
  /\ \A c \in InitialSeeds : SeedName[c] \in Contents => SeedName[c] = c
  /\ NoContent \notin Contents
  /\ SeedFactor \in Nat \ {0}
  /\ Word \in Nat \ {0}
  /\ MaxFreq \in Nat \ {0}

VARIABLES
  inputs,      \* Inputs: one record per input ever added, never removed
  sizeFor,     \* InputSizesPerFeature: 0 while the feature is unseen
  owner,       \* SmallestElementPerFeature: an index into inputs, 0 at start
  deleteNums,  \* DeleteNums
  features,    \* Env.Features
  freqs,       \* GlobalFeatureFreqs
  nonZero,     \* NonZeroFeatures
  disk,        \* contents whose <hash> file is in the main corpus directory
  evicting,    \* the feature, if any, whose takeover is evicting its owner
  toLoad,      \* initial seeds not loaded yet
  mtx,         \* Env.Mtx: "load" during start-up, then "free" or "merge"
  cand,        \* the input being added: [content, initial, todo, updates]
  creator      \* per creator thread: [pc, num, first, seeds, checked, cur, dir]

corpusVars ==
  <<inputs, sizeFor, owner, deleteNums, features, freqs, nonZero, disk, evicting>>
vars == <<corpusVars, toLoad, mtx, cand, creator>>

NoCand == [content |-> NoContent, initial |-> FALSE, todo |-> {}, updates |-> 0]
Adding == cand.content # NoContent
Idle == [pc |-> "idle", num |-> 0, first |-> 0,
         seeds |-> {}, checked |-> {}, cur |-> 0, dir |-> {}]

Live == {i \in DOMAIN inputs : inputs[i].live}
Unlocked == {i \in Live : ~inputs[i].locked}
Owned(i) == {f \in Features : owner[f] = i}

(* The input that is being evicted, if there is one.                       *)
Victims == {owner[f] : f \in evicting}

(* The index the input being added will get: Inputs.size() in AddFeature.  *)
Next1 == Len(inputs) + 1
-----------------------------------------------------------------------------
Init ==
  /\ inputs = <<>>
  /\ sizeFor = [f \in Features |-> 0]
  /\ owner = [f \in Features |-> 0]
  /\ deleteNums = 0
  /\ features = {}
  /\ freqs = [f \in Features |-> 0]
  /\ nonZero = <<>>
  /\ evicting = {}
  /\ disk \in SUBSET InitialSeeds  \* seed files that already bear their hash as name
  /\ toLoad \in SUBSET InitialSeeds  \* those the first merge kept
  /\ mtx = "load"
  /\ cand = NoCand
  /\ creator = [k \in Creators |-> Idle]

Offer(c, isInitial) ==
  cand' = [content |-> c, initial |-> isInitial, todo |-> FeaturesOf[c], updates |-> 0]

(* One round of the corpus preprocess loop of FuzzWithFork starts.         *)
LoadSeed(c) ==
  /\ mtx = "load" /\ ~Adding
  /\ c \in toLoad
  /\ toLoad' = toLoad \ {c}
  /\ Offer(c, TRUE)
  /\ UNCHANGED <<corpusVars, mtx, creator>>

DoneLoading ==
  /\ mtx = "load" /\ ~Adding /\ toLoad = {}
  /\ mtx' = "free"
  /\ UNCHANGED <<corpusVars, toLoad, cand, creator>>

(* RunOneMergeJob takes Env.Mtx for its whole batch of candidates.         *)
BeginMerge ==
  /\ mtx = "free"
  /\ mtx' = "merge"
  /\ UNCHANGED <<corpusVars, toLoad, cand, creator>>

OfferCandidate(c) ==
  /\ mtx = "merge" /\ ~Adding
  /\ Offer(c, FALSE)
  /\ UNCHANGED <<corpusVars, toLoad, mtx, creator>>

EndMerge ==
  /\ mtx = "merge" /\ ~Adding
  /\ mtx' = "free"
  /\ UNCHANGED <<corpusVars, toLoad, cand, creator>>
-----------------------------------------------------------------------------
(* Saturated count; a feature enters NonZeroFeatures when its count goes   *)
(* from one to two, since the old value is tested after the increment.     *)
UpdateFeatureFrequencyWrapping(f) ==  \* mutant
  /\ freqs' = [freqs EXCEPT ![f] = (@ + 1) % (MaxFreq + 1)]
  /\ nonZero' = IF freqs[f] = 1 THEN Append(nonZero, f) ELSE nonZero
UpdateFeatureFrequency(f) ==
  IF freqs[f] = MaxFreq
    THEN UNCHANGED <<freqs, nonZero>>
    ELSE /\ freqs' = [freqs EXCEPT ![f] = @ + 1]
         /\ nonZero' = IF freqs[f] = 1 THEN Append(nonZero, f) ELSE nonZero

(* DeleteFile unlinks OutputCorpus/File.  For an input a merge added, File *)
(* is the hash; for an initial seed it is the path the seed was read from, *)
(* so the name built does not exist and nothing is removed.                *)
DeleteFile(i) == disk' = IF inputs[i].initial THEN disk ELSE disk \ {inputs[i].content}

LastFeatureTooEarly(i) == inputs[i].num <= 2  \* mutant
LastFeature(i) == inputs[i].num = 1

TakesTies(f, size) == sizeFor[f] = 0 \/ sizeFor[f] >= size  \* mutant
Takes(f, size) == sizeFor[f] = 0 \/ sizeFor[f] > size

(* The candidate takes the last feature of another input.                  *)
Evicts(f) ==
  Takes(f, SizeOf[cand.content]) /\ sizeFor[f] > 0 /\ LastFeature(owner[f])

(* Creators hold no lock while they look at an input that AddFeature       *)
(* evicts, so they see its three writes one by one: DeleteInput unlinks    *)
(* the file, ...                                                           *)
EvictFile(f) ==
  /\ Adding /\ evicting = {}
  /\ f \in cand.todo /\ Evicts(f)
  /\ DeleteFile(owner[f])
  /\ evicting' = {f}
  /\ UNCHANGED <<inputs, sizeFor, owner, deleteNums, features, freqs, nonZero,
                 toLoad, mtx, cand, creator>>

(* ... then clears Live, and then AddFeature counts it in DeleteNums (the  *)
(* NumFeatures it decremented first is only read under the mutex).         *)
EvictLive(f) ==
  /\ f \in evicting /\ inputs[owner[f]].live
  /\ inputs' = [inputs EXCEPT ![owner[f]].live = FALSE]
  /\ UNCHANGED <<sizeFor, owner, deleteNums, features, freqs, nonZero, disk, evicting,
                 toLoad, mtx, cand, creator>>

(* The previous owner of a feature loses it, and is counted as deleted     *)
(* when that was its last one.                                             *)
DropFeature(i) ==
  /\ inputs' = [inputs EXCEPT ![i].num = @ - 1]
  /\ deleteNums' = IF LastFeature(i) THEN deleteNums + 1 ELSE deleteNums

(* GlobalCorpusInfo::AddFeature, and the frequency update that follows it. *)
AddFeature(f) ==
  /\ Adding
  /\ f \in cand.todo
  /\ IF Evicts(f) THEN f \in evicting /\ ~inputs[owner[f]].live ELSE evicting = {}
  /\ LET size == SizeOf[cand.content] IN
     IF Takes(f, size)
       THEN /\ IF sizeFor[f] > 0
                 THEN DropFeature(owner[f]) /\ UNCHANGED features
                 ELSE features' = features \cup {f} /\ UNCHANGED <<inputs, deleteNums>>
            /\ owner' = [owner EXCEPT ![f] = Next1]
            /\ sizeFor' = [sizeFor EXCEPT ![f] = size]
            /\ cand' = [cand EXCEPT !.todo = @ \ {f}, !.updates = @ + 1]
       ELSE /\ cand' = [cand EXCEPT !.todo = @ \ {f}]
            /\ UNCHANGED <<inputs, deleteNums, features, owner, sizeFor>>
  /\ UpdateFeatureFrequency(f)
  /\ evicting' = {}
  /\ UNCHANGED <<disk, toLoad, mtx, creator>>

Kept == cand.updates > 0

NewInputAllFeatures ==  \* mutant
  [content |-> cand.content, initial |-> cand.initial,
   num |-> Cardinality(FeaturesOf[cand.content]), live |-> TRUE, locked |-> FALSE]
NewInput ==
  [content |-> cand.content, initial |-> cand.initial,
   num |-> cand.updates, live |-> TRUE, locked |-> FALSE]

(* The candidate is kept when it took at least one feature.  Its file is   *)
(* written before the record is appended.                                  *)
AddToCorpus ==
  /\ Adding
  /\ cand.todo = {}
  /\ IF Kept
       THEN disk' = disk \cup {cand.content} /\ inputs' = Append(inputs, NewInput)
       ELSE UNCHANGED <<disk, inputs>>
  /\ cand' = NoCand
  /\ UNCHANGED <<sizeFor, owner, deleteNums, features, freqs, nonZero, evicting,
                 toLoad, mtx, creator>>
-----------------------------------------------------------------------------
GetLiveInputsSize == Len(inputs) - deleteNums

Isqrt(n) == Cardinality({r \in 1..n : r * r <= n})

SeedsNum(n, m) ==
  LET most == SeedFactor * Isqrt((m + 2) % Word) IN IF n <= most THEN n ELSE most

(* CreateNewJob calls GetLiveInputsSize twice with no lock held.  A call   *)
(* loads the size of Inputs, which is torn (any number) while a merge      *)
(* makes the vector grow, ...                                              *)
SeenSizes ==
  {Len(inputs)} \cup
    IF Adding /\ cand.todo = {} /\ Kept THEN 0..(Word - 1) ELSE {}

ReadInputsSize(k) ==
  /\ mtx # "load"
  /\ \E n \in SeenSizes :
       \/ /\ creator[k].pc = "idle"
          /\ creator' = [creator EXCEPT ![k].pc = "sizing", ![k].num = n]
       \/ /\ creator[k].pc = "counted"
          /\ creator' = [creator EXCEPT ![k].pc = "resizing", ![k].num = n]
  /\ UNCHANGED <<corpusVars, toLoad, mtx, cand>>

(* ... then DeleteNums, which may have grown since: the unsigned           *)
(* difference can wrap.  One of the two results bounds the number of       *)
(* seeds, the root of the other one does too; C++ leaves open which of the *)
(* arguments of std::min is evaluated first.                               *)
ReadDeleteNums(k) ==
  /\ LET n == (creator[k].num - deleteNums) % Word IN
     \/ /\ creator[k].pc = "sizing"
        /\ creator' = [creator EXCEPT ![k].pc = "counted", ![k].num = 0, ![k].first = n]
     \/ /\ creator[k].pc = "resizing"
        /\ \E m \in {SeedsNum(creator[k].first, n), SeedsNum(n, creator[k].first)} :
             creator' = [creator EXCEPT ![k].pc = "sized", ![k].num = m, ![k].first = 0]
  /\ UNCHANGED <<corpusVars, toLoad, mtx, cand>>

(* What the draw loop can return: unlocked live inputs, at most n of them. *)
(* A draw is wasted on a locked input, the ones just drawn included, and   *)
(* the number of draws is bounded, so it may stop with fewer; it returns   *)
(* nothing only when some live input was locked before.                    *)
Drawable(n) ==
  {S \in SUBSET Unlocked :
     /\ Cardinality(S) <= n
     /\ S = {} => n = 0 \/ Unlocked # Live \/ Live = {}}

(* The fallback, when the loop drew at most one: n more draws from all     *)
(* live inputs, locked or not, repetitions allowed.                        *)
Fallback(S, n) ==
  IF Cardinality(S) > 1 \/ n = 0
    THEN {S}
    ELSE {S \cup T : T \in {U \in SUBSET Live : U # {} /\ Cardinality(U) <= n}}

(* GetJobSeeds, under the mutex.  Scores only order the draws.  A drawn    *)
(* input stays Locked for ever: nothing resets the flag.                   *)
GetJobSeeds(k) ==
  /\ creator[k].pc = "sized" /\ mtx = "free"
  /\ \E S \in Drawable(creator[k].num) : \E T \in Fallback(S, creator[k].num) :
       /\ creator' = [creator EXCEPT ![k].pc = "copy", ![k].seeds = T]
       /\ inputs' = [i \in DOMAIN inputs |->
                       IF i \in T THEN [inputs[i] EXCEPT !.locked = TRUE] ELSE inputs[i]]
  /\ UNCHANGED <<sizeFor, owner, deleteNums, features, freqs, nonZero, disk, evicting,
                 toLoad, mtx, cand>>

(* CopyMultipleFiles reads SI->Live with no lock held ...                  *)
CheckLive(k, i) ==
  /\ creator[k].pc = "copy" /\ i \in creator[k].seeds \ creator[k].checked
  /\ creator' = [creator EXCEPT ![k].checked = @ \cup {i},
                                ![k].pc = IF inputs[i].live THEN "file" ELSE "copy",
                                ![k].cur = i]
  /\ UNCHANGED <<corpusVars, toLoad, mtx, cand>>

(* The name of the copy: the hash, or the base name of an initial seed.    *)
Name(i) == IF inputs[i].initial THEN SeedName[inputs[i].content] ELSE inputs[i].content

(* The file read is FilePath, <hash> in the main corpus directory, for an  *)
(* initial seed too.                                                       *)
SourceExistsByFile(i) == inputs[i].initial  \* mutant: FilePath and File confused
SourceExists(i) == inputs[i].content \in disk

(* ... and CopyFile then fails if the file is gone or a copy has its name. *)
CopyFile(k) ==
  /\ creator[k].pc = "file"
  /\ LET i == creator[k].cur IN
     creator' = [creator EXCEPT ![k].pc = "copy",
                                ![k].dir = IF SourceExists(i) /\ \A j \in @ : Name(j) # Name(i)
                                             THEN @ \cup {i} ELSE @]
  /\ UNCHANGED <<corpusVars, toLoad, mtx, cand>>

(* No seeds at all: a made-up file "nullseed" (0) is put in the directory. *)
CopyDone(k) ==
  /\ creator[k].pc = "copy" /\ creator[k].seeds = creator[k].checked
  /\ creator' = [creator EXCEPT ![k].pc = "ready",
                                ![k].dir = IF creator[k].seeds = {} THEN {0} ELSE @]
  /\ UNCHANGED <<corpusVars, toLoad, mtx, cand>>

(* The job is pushed; the slot stands for the next creator thread.         *)
PushJob(k) ==
  /\ creator[k].pc = "ready"
  /\ creator' = [creator EXCEPT ![k] = Idle]
  /\ UNCHANGED <<corpusVars, toLoad, mtx, cand>>
-----------------------------------------------------------------------------
Next ==
  \/ \E c \in Contents : LoadSeed(c) \/ OfferCandidate(c)
  \/ DoneLoading \/ BeginMerge \/ EndMerge
  \/ \E f \in Features : EvictFile(f) \/ EvictLive(f) \/ AddFeature(f)
  \/ AddToCorpus
  \/ \E k \in Creators : \/ ReadInputsSize(k) \/ ReadDeleteNums(k) \/ GetJobSeeds(k)
                         \/ CopyFile(k) \/ CopyDone(k) \/ PushJob(k)
                         \/ \E i \in DOMAIN inputs : CheckLive(k, i)

Spec == Init /\ [][Next]_vars
-----------------------------------------------------------------------------
InputType ==
  [content : Contents, initial : BOOLEAN, num : Nat, live : BOOLEAN, locked : BOOLEAN]

CandType ==
  [content : Contents \cup {NoContent}, initial : BOOLEAN,
   todo : SUBSET Features, updates : Nat]

CreatorType ==
  [pc : {"idle", "sizing", "counted", "resizing", "sized", "copy", "file", "ready"},
   num : Nat, first : Nat, seeds : SUBSET Nat, checked : SUBSET Nat, cur : Nat, dir : SUBSET Nat]

CreatorOK(r, dom) ==
  /\ r.seeds \subseteq dom
  /\ r.checked \subseteq r.seeds /\ r.dir \subseteq r.checked \cup {0}
  /\ r.pc = "file" => r.cur \in r.checked
  /\ r.pc \notin {"copy", "file", "ready"} => r.checked = {} /\ r.dir = {}

CorpusTypes ==
  /\ inputs \in Seq(InputType)
  /\ sizeFor \in [Features -> Nat]
  /\ owner \in [Features -> Nat]
  /\ deleteNums \in Nat
  /\ features \in SUBSET Features
  /\ freqs \in [Features -> 0..MaxFreq]
  /\ nonZero \in Seq(Features)
  /\ disk \in SUBSET Contents
  /\ evicting \in SUBSET Features
  /\ toLoad \in SUBSET InitialSeeds
  /\ mtx \in {"load", "free", "merge"}
  /\ cand \in CandType

CreatorTypes ==
  /\ creator \in [Creators -> CreatorType]
  /\ \A k \in Creators : CreatorOK(creator[k], DOMAIN inputs)

(* Every variable has its type (the counts fit 16 bits), and the indices a *)
(* creator holds while merges go on point at inputs that exist.            *)
TypeOK == CorpusTypes /\ CreatorTypes

(* The number stored with an input is the number of features it owns, and  *)
(* an input is live exactly while it owns one, but for the input that is   *)
(* losing its last one.  The assertion SI.NumFeatures > 0 of AddFeature    *)
(* rests on this (FuzzerFork.h:342).                                       *)
Ownership ==
  \A i \in DOMAIN inputs :
    /\ inputs[i].num = Cardinality(Owned(i))
    /\ i \notin Victims => (inputs[i].live <=> inputs[i].num > 0)

(* Two different places count the dead inputs: the Live flags and          *)
(* DeleteNums.  GetLiveInputsSize subtracts unsigned numbers and must be   *)
(* the number of live inputs even in the middle of a merge; it counts an   *)
(* input that is being evicted.                                            *)
LiveCount == GetLiveInputsSize = Cardinality(Live \cup Victims)

(* A content enters the corpus at most once, however often jobs report it: *)
(* once it is in, each of its features is owned at its size or below.  Two *)
(* inputs with one file would lose it when the first of them is evicted.   *)
AddedOnce ==
  \A i, j \in DOMAIN inputs : inputs[i].content = inputs[j].content => i = j

(* The size recorded for a feature is that of its owner, and no input ever *)
(* added has the feature at a smaller size.                                *)
SmallestOwner ==
  \A i \in DOMAIN inputs : \A f \in FeaturesOf[inputs[i].content] :
    /\ sizeFor[f] \in 1..SizeOf[inputs[i].content]
    /\ owner[f] = i => sizeFor[f] = SizeOf[inputs[i].content]

(* A live input can be copied: its file is in the main corpus directory,   *)
(* unless DeleteInput is between the two writes that evict the input.      *)
LiveOnDisk == \A i \in Live \ Victims : inputs[i].content \in disk

(* No feature counted as found is lost from the corpus directory: whenever *)
(* no candidate is half added, some file there has it.                     *)
DiskCoversFeatures ==
  ~Adding => \A f \in features : \E c \in disk : f \in FeaturesOf[c]

(* A creator that decided to draw seeds finds a live input to draw, though *)
(* it counted them before it took the mutex, from reads that may be stale, *)
(* torn or wrapped: SortedSeeds[0] must exist (FuzzerFork.h:478).          *)
NoEmptyDraw ==
  \A k \in Creators :
    creator[k].pc = "sized" /\ creator[k].num > 0 /\ mtx = "free" => Live # {}

(* When a job is pushed, a live seed that was drawn for it is in its input *)
(* directory: the unlocked copy misses only what a merge has evicted since *)
(* the draw or is evicting now (its file goes while it still is Live), and *)
(* an initial seed whose base name another one has.                        *)
MissingSeedWasEvicted ==
  \A k \in Creators : creator[k].pc = "ready" =>
    \A i \in (creator[k].seeds \ creator[k].dir) \ Victims : inputs[i].live =>
      \E j \in creator[k].dir :
        Name(j) = Name(i) /\ inputs[i].initial /\ inputs[j].initial

(* What creators do with counts and inputs that they read while merges go  *)
(* on: the count is right when the mutex is free, the draw has something   *)
(* to draw, and what it drew is copied unless a merge has evicted it.      *)
DrawsSound == LiveCount /\ NoEmptyDraw /\ MissingSeedWasEvicted

(* NonZeroFeatures lists a feature at most once although the counts are    *)
(* 16 bits wide: they saturate and never come by one again.                *)
NonZeroOnce == \A i, j \in DOMAIN nonZero : nonZero[i] = nonZero[j] => i = j

-----------------------------------------------------------------------------
(* What makes the invariants above inductive.  The index of the input      *)
(* being added is already stored as an owner, so the bookkeeping must also *)
(* hold for the candidate.                                                 *)
OwnerOK ==
  \A f \in Features :
    /\ owner[f] \in 0..Next1
    /\ owner[f] = 0 <=> sizeFor[f] = 0
    /\ f \in features <=> sizeFor[f] # 0
    /\ owner[f] \in DOMAIN inputs =>
         /\ f \in FeaturesOf[inputs[owner[f]].content]
         /\ sizeFor[f] = SizeOf[inputs[owner[f]].content]
    /\ owner[f] = Next1 =>
         /\ Adding
         /\ f \in FeaturesOf[cand.content] \ cand.todo
         /\ sizeFor[f] = SizeOf[cand.content]

(* A feature under way is the last one of its owner and the candidate's.   *)
EvictOK ==
  \A f \in evicting :
    /\ Adding /\ evicting = {f}
    /\ f \in cand.todo /\ Evicts(f)

CandOK ==
  Adding =>
    /\ cand.todo \subseteq FeaturesOf[cand.content]
    /\ cand.updates = Cardinality(Owned(Next1))
    /\ \A f \in FeaturesOf[cand.content] \ cand.todo : sizeFor[f] \in 1..SizeOf[cand.content]
    /\ \A i \in DOMAIN inputs : inputs[i].content = cand.content => cand.updates = 0

(* All the tables of GlobalCorpusInfo agree with each other after every    *)
(* step, in the middle of an AddFeature loop too.                          *)
CorpusInv ==
  /\ CorpusTypes /\ OwnerOK /\ CandOK /\ EvictOK
  /\ Ownership /\ SmallestOwner /\ AddedOnce /\ LiveOnDisk /\ LiveCount

(* The inductive invariant behind the theorems about this module.          *)
IInv == CorpusInv /\ CreatorTypes

(* What follows holds beside it: NonZeroFeatures holds features that were  *)
(* counted twice.                                                          *)
FrequentOnce == NonZeroOnce /\ \A i \in DOMAIN nonZero : freqs[nonZero[i]] > 1

(* Candidates are offered under the mutex; an input was kept for a feature *)
(* it has, and an initial one is a seed.                                   *)
Origins ==
  /\ Adding => mtx # "free" /\ (cand.initial => cand.content \in InitialSeeds)
  /\ \A i \in DOMAIN inputs :
       /\ FeaturesOf[inputs[i].content] # {}
       /\ inputs[i].initial => inputs[i].content \in InitialSeeds

(* A creator asks for seeds only when a feature has been found: what it    *)
(* read was not zero, or it has read numbers that do not belong together,  *)
(* and inputs came in between.                                             *)
AsksAfterFeature ==
  \A k \in Creators :
    /\ creator[k].pc \notin {"copy", "file", "ready"}
    /\ creator[k].num > 0 \/ creator[k].first > 0
    => features # {}

(* A seed that was looked at and not copied has been or is being evicted,  *)
(* or a copy has its name, or it is the one being copied.                  *)
MissedFor(i, dir) ==
  \E j \in dir : Name(j) = Name(i) /\ inputs[i].initial /\ inputs[j].initial

CopiedBy(r) ==
  /\ 0 \in r.dir => r.pc = "ready" /\ r.checked = {}
  /\ r.pc = "ready" => r.seeds = r.checked
  /\ \A i \in (r.checked \ r.dir) \ Victims :
       inputs[i].live => (r.pc = "file" /\ r.cur = i) \/ MissedFor(i, r.dir)

CopiesRight == \A k \in Creators : CopiedBy(creator[k])

(* The inductive invariant behind DrawsSound and NonZeroOnce.              *)
DrawIInv == IInv /\ FrequentOnce /\ Origins /\ AsksAfterFeature /\ CopiesRight
=============================================================================
