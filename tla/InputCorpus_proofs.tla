------------------------- MODULE InputCorpus_proofs -------------------------
(* Proofs about InputCorpus for every set of units and features.           *)
EXTENDS InputCorpus, FiniteSetTheorems, WellFoundedInduction, TLAPS

(* A set of natural numbers has a least element.                           *)
LEMMA LeastNat ==
  ASSUME NEW T, T \subseteq Nat, T # {}
  PROVE  \E m \in T : \A n \in T : m <= n
<1> DEFINE R == {r \in Nat \X Nat : r[1] < r[2]}
<1>1. IsWellFoundedOn(R, Nat)
  <2>1. R = OpToRel(<, Nat)
    BY DEF OpToRel
  <2> QED  BY <2>1, NatLessThanWellFounded
<1>2. PICK m \in T : \A n \in T : <<n, m>> \notin R
  <2> HIDE DEF R
  <2> QED  BY <1>1, WFMin
<1>3. ASSUME NEW n \in T PROVE m <= n
  <2>1. m \in Nat /\ n \in Nat /\ <<n, m>> \notin R
    BY <1>2, <1>3
  <2> QED  BY <2>1
<1> QED  BY <1>2, <1>3

(* CollectFeatures reports one of the features that are left.              *)
LEMMA NextFeature ==
  ASSUME NEW T, T \subseteq Nat, T # {}
  PROVE  Min(T) \in T
BY LeastNat DEF Min

LEMMA OwnedFinite ==
  ASSUME NEW i
  PROVE  IsFiniteSet(Owned(i)) /\ Cardinality(Owned(i)) \in Nat
<1>1. IsFiniteSet(Owned(i))
  BY InputCorpusAssumption, FS_Subset DEF Owned
<1> QED  BY <1>1, FS_CardinalityType

LEMMA FeaturesFinite ==
  ASSUME NEW S, S \subseteq Features
  PROVE  IsFiniteSet(S) /\ Cardinality(S) \in Nat
<1>1. IsFiniteSet(S)
  BY InputCorpusAssumption, FS_Subset
<1> QED  BY <1>1, FS_CardinalityType

LEMMA OneFewer ==
  ASSUME NEW S \in SUBSET Features, NEW f \in S
  PROVE  Cardinality(S \ {f}) = Cardinality(S) - 1
BY FeaturesFinite, FS_RemoveElement

(* The types of the parts of the state.                                    *)
LEMMA InputTypes ==
  ASSUME TypeOK
  PROVE  /\ inputs \in Seq(InputType) /\ Len(inputs) \in Nat /\ DOMAIN inputs = 1..Len(inputs)
         /\ NextIdx \in Nat /\ NextIdx \notin DOMAIN inputs
         /\ \A i \in DOMAIN inputs :
              /\ inputs[i] \in InputType /\ inputs[i].num \in Nat
              /\ inputs[i].uniq \subseteq Features
              /\ inputs[i].unit \in Units \cup {NoUnit}
         /\ \A i \in Live : i \in DOMAIN inputs /\ inputs[i].unit \in Units
<1>1. inputs \in Seq(InputType)
  BY DEF TypeOK
<1>2. Len(inputs) \in Nat /\ DOMAIN inputs = 1..Len(inputs)
  BY <1>1
<1>3. \A i \in DOMAIN inputs : inputs[i] \in InputType
  BY <1>1
<1>4. \A i \in DOMAIN inputs :
        /\ inputs[i].num \in Nat /\ inputs[i].uniq \subseteq Features
        /\ inputs[i].unit \in Units \cup {NoUnit}
  BY <1>3 DEF InputType
<1> QED  BY <1>1, <1>2, <1>3, <1>4 DEF NextIdx, Live

LEMMA RunTypes ==
  ASSUME run \in RunType
  PROVE  /\ run.unit \in Units \cup {NoUnit} /\ run.ii \in Nat
         /\ run.from \in {"none", "seed", "mutation", "reload"}
         /\ run.todo \subseteq Features /\ run.uniq \subseteq Features /\ run.found \in Nat
BY DEF RunType

LEMMA NoRunType ==
  /\ NoRun \in RunType /\ NoRun.unit = NoUnit /\ NoRun.from = "none" /\ NoRun.ii = 0
  /\ NoRun.todo = {} /\ NoRun.uniq = {} /\ NoRun.found = 0
BY DEF NoRun, RunType

(* A step that leaves the tables alone leaves what is said of them only.   *)
LEMMA SameCorpus ==
  ASSUME UNCHANGED <<options, corpusVars, seeds, fake>>
  PROVE  /\ UNCHANGED <<Live, NextIdx, NothingReplaced, SeedList, Elsewhere, Weighted>>
         /\ \A i : Owned(i)' = Owned(i)
         /\ \A i : Fake(i)' <=> Fake(i)
         /\ IInv => Ownership' /\ SmallestOwner' /\ AddedFor' /\ OneUnitEach' /\ KeptSeeds'
<1>1. UNCHANGED <<options, inputs, sizes, owner, hashes, seeds, fake>>
  BY DEF corpusVars
<1>2. UNCHANGED <<Live, NextIdx, NothingReplaced>>
  BY <1>1 DEF Live, NextIdx, NothingReplaced
<1>3. \A i : Owned(i)' = Owned(i)
  BY <1>1 DEF Owned
<1>4. \A i : Fake(i)' <=> Fake(i)
  BY <1>1 DEF Fake
<1>5. ASSUME IInv PROVE Ownership'
  BY <1>1, <1>2, <1>3, <1>4, <1>5 DEF IInv, OwnersRight, Ownership
<1>6. ASSUME IInv PROVE SmallestOwner'
  BY <1>1, <1>2, <1>3, <1>4, <1>6 DEF IInv, OwnersRight, SmallestOwner
<1>7. ASSUME IInv PROVE AddedFor'
  BY <1>1, <1>2, <1>3, <1>4, <1>7 DEF IInv, AddedFor
<1>8. ASSUME IInv PROVE OneUnitEach'
  BY <1>1, <1>2, <1>3, <1>4, <1>8 DEF IInv, OneUnitEach
<1>9. ASSUME IInv PROVE KeptSeeds'
  BY <1>1, <1>9 DEF IInv, KeptSeeds
<1>10. UNCHANGED <<SeedList, Elsewhere, Weighted>>
  BY <1>1 DEF SeedList, Elsewhere, Weighted
<1> QED  BY <1>2, <1>3, <1>4, <1>5, <1>6, <1>7, <1>8, <1>9, <1>10

(* The seeds are units, and one that can be read is in a file.             *)
LEMMA SeedTypes ==
  ASSUME seeds \in SeedCorpora
  PROVE  /\ SeedList \in Seq(Units) /\ Elsewhere \subseteq Units
         /\ \A k \in DOMAIN SeedList : SeedList[k] \in Units
         /\ \A k \in DOMAIN SeedList : Readable(k) => SeedList[k] \in OnDisk
<1>1. seeds.list \in Seq(Units) /\ NewLine \in Units
  BY InputCorpusAssumption
<1>2. SeedList \in Seq(Units)
  BY <1>1 DEF SeedList
<1>3. \A k \in DOMAIN SeedList : SeedList[k] \in Units
  BY <1>2
<1>4. Elsewhere \subseteq Units
  BY <1>3 DEF Elsewhere
<1>5. \A k \in DOMAIN SeedList : Readable(k) => SeedList[k] \in OnDisk
  BY DEF Readable, OnDisk, Elsewhere
<1> QED  BY <1>2, <1>3, <1>4, <1>5

(* A unit that was in a file remains known to have been, unless this       *)
(* process removes the file of an input of its own.                        *)
LEMMA KeptGrows ==
  ASSUME UNCHANGED seeds, files \cup gone \subseteq files' \cup gone'
  PROVE  Kept \subseteq Kept'
<1>1. UNCHANGED Elsewhere
  BY DEF Elsewhere, SeedList
<1> QED  BY <1>1 DEF Kept, OnDisk

(* Initially there is no input.                                            *)
LEMMA InitIInv == Init => IInv
<1> SUFFICES ASSUME Init PROVE IInv
  OBVIOUS
<1> USE InputCorpusAssumption
<1>1. inputs = <<>> /\ DOMAIN inputs = {} /\ Live = {} /\ Len(inputs) = 0 /\ NextIdx = 1
  BY DEF Init, Live, NextIdx
<1>2. \A i : Owned(i) = {}
  BY DEF Init, Owned
<1>3. TypeOK
  <2>1. inputs \in Seq(InputType)
    BY <1>1
  <2>2. run \in RunType /\ run.ii = 0 /\ run.found = 0
    BY NoRunType DEF Init
  <2>3. sizes \in [Features -> Nat] /\ owner \in [Features -> 0..NextIdx]
    BY <1>1 DEF Init
  <2>4. seeds \in SeedCorpora /\ toLoad \subseteq DOMAIN SeedList
    BY DEF Init
  <2>8. files \subseteq Units /\ unread \subseteq Units /\ gone = {}
    <3>1. seeds.list \in Seq(Units) /\ seeds.own \subseteq DOMAIN seeds.list
      BY <2>4
    <3>2. \A k \in seeds.own : seeds.list[k] \in Units
      BY <3>1
    <3> QED  BY <3>2 DEF Init
  <2>5. others \in 0..MaxOthers /\ depth \in 0..MutateDepth /\ base \in 0..Len(inputs)
    BY <1>1 DEF Init
  <2>6. run.ii \in 0..Len(inputs) /\ run.found \in 0..(IF run.ii = 0 THEN 0 ELSE Cardinality(inputs[run.ii].uniq))
    BY <1>1, <2>2
  <2>7. options \in OptionSets /\ fake \in BOOLEAN /\ pc = "seeds"
        /\ pending \subseteq Units /\ hashes \subseteq Units
    BY DEF Init
  <2> QED  BY <2>1, <2>2, <2>3, <2>4, <2>5, <2>6, <2>7, <2>8 DEF TypeOK
<1>4. OwnersRight
  BY <1>1, <1>2, <1>3 DEF Init, OwnersRight, Ownership, OwnersHave, SmallestOwner
<1>5. Collected /\ AddedFor /\ OneUnitEach
  BY <1>1, <1>2 DEF Init, Collected, AddedFor, OneUnitEach
<1>6. Counted
  BY NoRunType DEF Init, Counted
<1>7. BaseRight /\ TakesOnce /\ KeptSeeds /\ FilesKept
  BY <1>1 DEF Init, BaseRight, Seeding, TakesOnce, KeptSeeds, FilesKept, SharedWhenReplaced
<1> QED  BY <1>4, <1>5, <1>6, <1>7 DEF IInv

(* What counts the features the base was added for stays in its range.     *)
LEMMA FoundRange ==
  ASSUME NEW S \in SUBSET Features, NEW T
  PROVE  Cardinality(S \cap T) \in 0..Cardinality(S)
<1>1. IsFiniteSet(S) /\ S \cap T \subseteq S
  BY FeaturesFinite
<1>2. Cardinality(S) \in Nat /\ Cardinality(S \cap T) \in Nat /\ Cardinality(S \cap T) <= Cardinality(S)
  BY <1>1, FS_CardinalityType, FS_Subset
<1> QED  BY <1>2

(* Steps that leave the tables of the corpus alone.                        *)
LEMMA SameTypes ==
  ASSUME TypeOK, UNCHANGED <<options, corpusVars, seeds, fake>>,
         pc' \in {"seeds", "loop", "mutate", "reload", "feature", "report", "exited", "aborted"},
         toLoad' \subseteq DOMAIN SeedList, pending' \subseteq Units, files' \subseteq Units, unread' \subseteq Units,
         gone' \subseteq Units,
         others' \in 0..MaxOthers, base' \in 0..Len(inputs), depth' \in 0..MutateDepth,
         run' \in RunType, run'.ii \in 0..Len(inputs),
         run'.ii = 0 => run'.found = 0,
         run'.ii # 0 => run'.found \in 0..Cardinality(inputs[run'.ii].uniq)
  PROVE  TypeOK'
<1>1. UNCHANGED <<options, seeds, fake, inputs, sizes, owner, hashes, NextIdx, SeedList>>
  BY DEF corpusVars, NextIdx, SeedList
<1>2. (run.found \in 0..(IF run.ii = 0 THEN 0 ELSE Cardinality(inputs[run.ii].uniq)))'
  BY <1>1
<1> QED  BY <1>1, <1>2 DEF TypeOK

(* RunOne starts: nothing is collected and nothing counted.                *)
LEMMA StartRun ==
  ASSUME IInv, UNCHANGED <<options, corpusVars, seeds, fake>>, pc \notin {"feature", "exited"},
         NEW u \in Units, NEW from \in {"seed", "mutation", "reload"}, NEW ii \in 0..Len(inputs),
         Executes(u, from, ii)
  PROVE  /\ run' \in RunType /\ run'.unit = u /\ run'.from = from /\ run'.ii = ii
         /\ run'.todo = FeaturesOf[u] /\ run'.uniq = {} /\ run'.found = 0 /\ pc' = "feature"
         /\ OwnersHave' /\ Collected'
         /\ ii = (IF from = "mutation" THEN base' ELSE 0) => Counted'
<1> USE InputCorpusAssumption
<1>1. run' = [NoRun EXCEPT !.unit = u, !.from = from, !.ii = ii, !.todo = FeaturesOf[u]] /\ pc' = "feature"
  BY DEF Executes
<1>2. Len(inputs) \in Nat /\ TypeOK /\ FeaturesOf[u] \subseteq Features
  BY InputTypes DEF IInv, OwnersRight
<1>3. /\ run'.unit = u /\ run'.from = from /\ run'.ii = ii
      /\ run'.todo = FeaturesOf[u] /\ run'.uniq = {} /\ run'.found = 0
  BY <1>1 DEF NoRun
<1>4. run' \in RunType
  <2>1. run' = [unit |-> u, from |-> from, ii |-> ii, todo |-> FeaturesOf[u], uniq |-> {}, found |-> 0]
    BY <1>1 DEF NoRun
  <2>2. ii \in Nat
    BY <1>2
  <2> QED  BY <1>2, <2>1, <2>2 DEF RunType
<1>5. Owned(NextIdx) = {}
  BY DEF IInv, Collected
<1>6. UNCHANGED <<inputs, sizes, owner, options, NextIdx, Live>> /\ Owned(NextIdx)' = {}
  BY <1>5, SameCorpus DEF corpusVars
<1>7. OwnersHave'
  BY <1>6 DEF IInv, OwnersRight, OwnersHave
<1>8. Collected'
  BY <1>1, <1>3, <1>6 DEF Collected
<1>9. ASSUME ii = (IF from = "mutation" THEN base' ELSE 0) PROVE Counted'
  <2>1. \A S : Cardinality(S \cap (FeaturesOf[u] \ FeaturesOf[u])) = 0
    <3>1. \A S : S \cap (FeaturesOf[u] \ FeaturesOf[u]) = {}
      OBVIOUS
    <3> QED  BY <3>1, FS_EmptySet
  <2> QED  BY <1>1, <1>3, <1>6, <1>9, <2>1 DEF Counted
<1> QED  BY <1>1, <1>3, <1>4, <1>7, <1>8, <1>9

LEMMA ExecuteSeedInv ==
  ASSUME IInv, NEW k \in DOMAIN SeedList, ExecuteSeed(k)
  PROVE  IInv'
<1> USE InputCorpusAssumption
<1>1. /\ pc = "seeds" /\ k \in toLoad /\ toLoad' = toLoad \ {k}
      /\ UNCHANGED <<options, corpusVars, diskVars, pending, base, depth, seeds, fake>>
  BY DEF ExecuteSeed
<1>2. UNCHANGED <<options, corpusVars, seeds, fake, Live, NextIdx, files, unread, others, gone, hashes, inputs>>
  BY <1>1, SameCorpus DEF diskVars, corpusVars
<1>3. Ownership' /\ SmallestOwner' /\ AddedFor' /\ OneUnitEach' /\ KeptSeeds'
  BY <1>2, SameCorpus
<1>4. \A i : Fake(i)' <=> Fake(i)
  BY <1>2, SameCorpus
<1>5. TypeOK /\ inputs \in Seq(InputType) /\ Len(inputs) \in Nat
  BY InputTypes DEF IInv, OwnersRight
<1>0. PICK u : u = SeedList[k]
  OBVIOUS
<1>9. u \in Units /\ (Readable(k) => u \in Kept)
  BY <1>0, <1>5, SeedTypes DEF TypeOK, Kept
<1>10. Kept' = Kept
  BY <1>2, SameCorpus DEF Kept, OnDisk
<1>6. CASE Readable(k) /\ Executes(u, "seed", 0)
  <2>1. /\ run' \in RunType /\ run'.unit = u /\ run'.from = "seed" /\ run'.ii = 0
        /\ run'.uniq = {} /\ run'.found = 0 /\ pc' = "feature" /\ OwnersHave' /\ Collected' /\ Counted'
    <3>1. 0 \in 0..Len(inputs)
      BY <1>5
    <3> QED  BY <1>1, <1>2, <1>6, <1>9, <3>1, StartRun
  <2>2. TypeOK'
    <3>1. /\ toLoad' \subseteq DOMAIN SeedList /\ pending' \subseteq Units /\ files' \subseteq Units /\ unread' \subseteq Units /\ gone' \subseteq Units
          /\ others' \in 0..MaxOthers /\ base' \in 0..Len(inputs) /\ depth' \in 0..MutateDepth
      BY <1>1, <1>2, <1>5 DEF TypeOK
    <3>2. run'.ii \in 0..Len(inputs)
      BY <1>5, <2>1
    <3> QED  BY <1>2, <1>5, <2>1, <3>1, <3>2, SameTypes
  <2>3. BaseRight'
    BY <1>1, <1>2, <2>1 DEF IInv, BaseRight, Seeding
  <2>4. TakesOnce'
    BY <1>1, <1>2, <1>4, <2>1 DEF IInv, TakesOnce, Seeding, NothingReplaced
  <2>5. FilesKept'
    BY <1>1, <1>2, <1>4, <1>6, <1>9, <1>10, <2>1 DEF IInv, FilesKept, NothingReplaced,
       SharedWhenReplaced
  <2> QED  BY <1>3, <2>1, <2>2, <2>3, <2>4, <2>5 DEF IInv, OwnersRight
<1>7. CASE UNCHANGED <<pc, run>>
  <2>1. TypeOK'
    <3>1. toLoad' \subseteq DOMAIN SeedList /\ SeedList' = SeedList
      BY <1>1, <1>2, <1>5, SameCorpus DEF TypeOK
    <3> QED  BY <1>1, <1>2, <1>5, <1>7, <3>1 DEF TypeOK, corpusVars
  <2>2. OwnersHave' /\ Collected' /\ Counted'
    BY <1>1, <1>2, <1>7, SameCorpus DEF IInv, OwnersRight, OwnersHave, Collected, Counted,
       corpusVars
  <2>3. BaseRight' /\ TakesOnce'
    BY <1>1, <1>2, <1>4, <1>7 DEF IInv, BaseRight, TakesOnce, Seeding, NothingReplaced, Weighted
  <2>4. FilesKept'
    BY <1>1, <1>2, <1>4, <1>7, <1>10 DEF IInv, FilesKept, NothingReplaced, SharedWhenReplaced
  <2> QED  BY <1>3, <2>1, <2>2, <2>3, <2>4 DEF IInv, OwnersRight
<1> QED  BY <1>0, <1>6, <1>7 DEF ExecuteSeed

LEMMA SeedsDoneInv ==
  ASSUME IInv, SeedsDone
  PROVE  IInv'
<1> USE InputCorpusAssumption
<1>1. /\ pc = "seeds" /\ toLoad = {} /\ pc' = "loop"
      /\ UNCHANGED <<options, toLoad, sizes, owner, files, unread, others, gone, pending, run, base,
                     depth, seeds>>
  BY DEF SeedsDone, diskVars
<1>2. CASE inputs # <<>>
  <2>1. fake' = FALSE /\ fake = FALSE /\ UNCHANGED <<inputs, hashes>>
    <3>1. fake' = (inputs = <<>>) /\ UNCHANGED <<inputs, hashes>>
      BY <1>2 DEF SeedsDone
    <3>2. (inputs = <<>>) = FALSE
      BY <1>2
    <3>3. ~fake /\ fake \in BOOLEAN
      BY <1>1 DEF IInv, BaseRight, Seeding, OwnersRight, TypeOK
    <3> QED  BY <3>1, <3>2, <3>3
  <2>2. UNCHANGED <<options, corpusVars, seeds, fake>>
    BY <1>1, <2>1 DEF corpusVars
  <2>3. /\ UNCHANGED <<Live, NextIdx, NothingReplaced, SeedList, Elsewhere, Weighted>>
        /\ Owned(NextIdx)' = Owned(NextIdx)
        /\ Ownership' /\ SmallestOwner' /\ AddedFor' /\ OneUnitEach' /\ KeptSeeds'
    BY <2>2, SameCorpus
  <2>4. TypeOK'
    BY <1>1, <2>1, <2>3 DEF IInv, OwnersRight, TypeOK
  <2>5. OwnersHave' /\ Collected' /\ Counted'
    BY <1>1, <2>1, <2>3 DEF IInv, OwnersRight, OwnersHave, Collected, Counted
  <2>6. BaseRight' /\ TakesOnce' /\ FilesKept'
    BY <1>1, <1>2, <2>1, <2>3 DEF IInv, BaseRight, TakesOnce, FilesKept, Seeding, Kept, OnDisk,
       NothingReplaced, SharedWhenReplaced, Fake
  <2> QED  BY <2>3, <2>4, <2>5, <2>6 DEF IInv, OwnersRight
<1>3. CASE inputs = <<>>
  <2> DEFINE new == NewInput(NewLine, 1, {0}, TRUE, FALSE)
  <2>1. fake' = TRUE /\ inputs' = <<new>> /\ hashes' = hashes \cup {NewLine}
    BY <1>3 DEF SeedsDone
  <2>2. NextIdx = 1 /\ NextIdx' = 2 /\ DOMAIN inputs' = {1} /\ inputs'[1] = new /\ Len(inputs') = 1
    BY <1>3, <2>1 DEF NextIdx
  <2>3. new \in InputType /\ new.unit = NewLine /\ new.num = 1 /\ new.uniq = {0} /\ ~new.reduced
    BY DEF NewInput, InputType
  <2>4. Live = {} /\ Live' = {1}
    <3> HIDE DEF new
    <3>1. DOMAIN inputs = {}
      BY <1>3
    <3>2. inputs'[1].unit # NoUnit
      BY <2>2, <2>3
    <3> QED  BY <2>2, <3>1, <3>2 DEF Live
  <2>5. Owned(1) = {}
    BY <1>1, <2>2 DEF IInv, Collected
  <2>6. \A i : Owned(i)' = Owned(i) /\ Owned(2) = {}
    <3>1. \A f \in Features : owner[f] \in 0..1
      BY <2>2 DEF IInv, OwnersRight, TypeOK
    <3>2. \A f \in Features : owner[f] # 2
      BY <3>1
    <3> QED  BY <1>1, <3>2 DEF Owned
  <2>7. \A f \in Features : sizes[f] = 0
    BY <1>1, <2>2, <2>4 DEF IInv, OwnersRight, OwnersHave
  <2>8. Fake(1)'
    BY <2>1 DEF Fake
  <2>9. TypeOK'
    <3>1. inputs' \in Seq(InputType)
      <4> HIDE DEF new
      <4> QED  BY <2>1, <2>3
    <3>2. run'.ii = 0 /\ run'.found = 0
      BY <1>1, <1>3 DEF IInv, OwnersRight, TypeOK, Counted
    <3>3. base' \in 0..Len(inputs') /\ run'.ii \in 0..Len(inputs')
      BY <1>1, <1>3, <2>2, <3>2 DEF IInv, OwnersRight, TypeOK
    <3>4. owner' \in [Features -> 0..NextIdx']
      BY <1>1, <2>2 DEF IInv, OwnersRight, TypeOK
    <3>5. run'.found \in 0..(IF run'.ii = 0 THEN 0 ELSE Cardinality(inputs'[run'.ii].uniq))
      BY <3>2
    <3>6. SeedList' = SeedList
      BY <1>1 DEF SeedList
    <3> QED  BY <1>1, <2>1, <3>1, <3>3, <3>4, <3>5, <3>6 DEF IInv, OwnersRight, TypeOK
  <2>10. Ownership' /\ OwnersHave' /\ SmallestOwner'
    <3>1. Ownership'
      <4> HIDE DEF new
      <4>1. inputs'[1].num = 1 /\ inputs'[1].uniq # {} /\ DOMAIN inputs' = {1} /\ 1 \in Live'
        BY <2>2, <2>3, <2>4
      <4> QED  BY <2>8, <4>1 DEF Ownership
    <3>2. OwnersHave'
      BY <1>1, <2>7 DEF OwnersHave
    <3>3. SmallestOwner'
      BY <2>2, <2>3, <2>4, <2>8 DEF SmallestOwner
    <3> QED  BY <3>1, <3>2, <3>3
  <2>11. Collected' /\ AddedFor'
    BY <1>1, <2>1, <2>2, <2>3, <2>4, <2>5, <2>6, <2>8 DEF Collected, AddedFor
  <2>12. Counted'
    <3>1. run.ii = 0 /\ run.found = 0
      BY <1>1, <1>3 DEF IInv, OwnersRight, TypeOK, Counted
    <3> QED  BY <1>1, <3>1 DEF Counted
  <2>13. BaseRight' /\ OneUnitEach' /\ TakesOnce'
    BY <1>1, <2>1, <2>2, <2>3, <2>4 DEF IInv, BaseRight, OneUnitEach, TakesOnce, Seeding
  <2>14. FilesKept'
    <3>1. pending = {}
      BY <1>1 DEF IInv, FilesKept
    <3> QED
      BY <1>1, <2>1, <2>4, <2>8, <3>1 DEF IInv, FilesKept, NothingReplaced, SharedWhenReplaced
  <2>15. KeptSeeds'
    <3>1. inputs'[1].uniq # {} /\ inputs'[1].never = FALSE /\ DOMAIN inputs' = {1}
      BY <2>2 DEF NewInput
    <3> QED  BY <3>1 DEF KeptSeeds
  <2> QED  BY <2>9, <2>10, <2>11, <2>12, <2>13, <2>14, <2>15 DEF IInv, OwnersRight
<1> QED  BY <1>2, <1>3

(* An evicted input had features, and whoever took one of them still owns  *)
(* it: with no weight left anywhere, no input was evicted.                 *)
LEMMA OwnerHasWeight ==
  ASSUME IInv, pc \notin {"feature", "exited"}, NEW f \in Features, sizes[f] # 0
  PROVE  owner[f] \in Live /\ ~Fake(owner[f]) /\ inputs[owner[f]].num > 0
<1>1. owner[f] \in Live /\ f \in Owned(owner[f])
  BY DEF IInv, OwnersRight, OwnersHave, Owned
<1>2. owner[f] \in DOMAIN inputs
  BY <1>1 DEF Live
<1>3. ~Fake(owner[f])
  BY <1>1, <1>2 DEF IInv, AddedFor
<1>4. inputs[owner[f]].num = Cardinality(Owned(owner[f]))
  BY <1>2, <1>3 DEF IInv, OwnersRight, Ownership
<1>5. Cardinality(Owned(owner[f])) # 0 /\ Cardinality(Owned(owner[f])) \in Nat
  BY <1>1, OwnedFinite, FS_EmptySet
<1> QED  BY <1>1, <1>3, <1>4, <1>5

LEMMA PickableLive ==
  ASSUME IInv, pc = "loop", NEW i \in Pickable
  PROVE  i \in Live
<1>1. i \in DOMAIN inputs
  <2>1. inputs # <<>> /\ inputs \in Seq(InputType)
    BY DEF IInv, OwnersRight, TypeOK, BaseRight, Seeding
  <2>2. 1 \in DOMAIN inputs
    BY <2>1
  <2> QED  BY <2>2 DEF Pickable, Weighted
<1>2. CASE i \in Weighted
  BY <1>1, <1>2 DEF IInv, OwnersRight, Ownership, Weighted
<1>3. CASE i \notin Weighted
  <2>1. Weighted = {}
    BY <1>3 DEF Pickable
  <2>2. SUFFICES ASSUME i \notin Live PROVE FALSE
    OBVIOUS
  <2>3. PICK f : f \in inputs[i].uniq
    BY <1>1, <2>2 DEF IInv, AddedFor
  <2>4. f \in Features
    BY <1>1, <2>3, InputTypes DEF IInv, OwnersRight
  <2>5. ~Fake(i)
    BY <1>1, <2>2, InputCorpusAssumption DEF IInv, AddedFor, NewInput, Live
  <2>6. sizes[f] # 0
    BY <1>1, <2>3, <2>5 DEF IInv, AddedFor
  <2>7. owner[f] \in Weighted
    BY <2>4, <2>6, OwnerHasWeight DEF Live, Weighted
  <2> QED  BY <2>1, <2>7
<1> QED  BY <1>2, <1>3

(* Steps between two executions.                                           *)
LEMMA BetweenRuns ==
  ASSUME IInv, UNCHANGED <<options, corpusVars, seeds, fake>>, pc \notin {"feature", "exited"},
         pc' \in {"seeds", "loop", "mutate", "reload", "exited", "aborted"}, run' \in {run, NoRun},
         toLoad' \subseteq DOMAIN SeedList, pending' \subseteq Units, files' \subseteq Units, unread' \subseteq Units,
         gone' \subseteq Units,
         others' \in 0..MaxOthers, base' \in 0..Len(inputs), depth' \in 0..MutateDepth
  PROVE  TypeOK' /\ OwnersHave' /\ Collected' /\ Counted'
<1>1. UNCHANGED <<options, inputs, sizes, owner, Live, NextIdx>> /\ \A i : Owned(i)' = Owned(i)
  BY SameCorpus DEF corpusVars
<1>2. Owned(NextIdx)' = {}
  BY <1>1 DEF IInv, Collected
<1>3. OwnersHave' /\ Collected'
  BY <1>1, <1>2 DEF IInv, OwnersRight, OwnersHave, Collected
<1>4. run' = run \/ (run' \in RunType /\ run'.ii = 0 /\ run'.found = 0)
  BY NoRunType
<1>5. Counted'
  <2>1. CASE run' = run
    BY <1>1, <2>1 DEF IInv, Counted
  <2>2. CASE run'.ii = 0 /\ run'.found = 0
    BY <2>2 DEF Counted
  <2> QED  BY <1>4, <2>1, <2>2
<1>6. TypeOK'
  <2>1. TypeOK /\ Len(inputs) \in Nat
    BY InputTypes DEF IInv, OwnersRight
  <2>2. CASE run' = run
    <3>1. run' \in RunType /\ run'.ii \in 0..Len(inputs) /\ (run'.ii = 0 => run'.found = 0)
          /\ (run'.ii # 0 => run'.found \in 0..Cardinality(inputs[run'.ii].uniq))
      BY <2>1, <2>2 DEF TypeOK
    <3> QED  BY <2>1, <3>1, SameTypes
  <2>3. CASE run' \in RunType /\ run'.ii = 0 /\ run'.found = 0
    <3>1. run'.ii \in 0..Len(inputs)
      BY <2>1, <2>3
    <3> QED  BY <2>1, <2>3, <3>1, SameTypes
  <2> QED  BY <1>4, <2>2, <2>3
<1> QED  BY <1>3, <1>5, <1>6

LEMMA ChooseUnitToMutateInv ==
  ASSUME IInv, ChooseUnitToMutate
  PROVE  IInv'
<1> USE InputCorpusAssumption
<1>1. /\ pc = "loop" /\ pc' = "mutate" /\ base' \in Pickable /\ depth' = 0
      /\ UNCHANGED <<options, toLoad, corpusVars, diskVars, pending, run, seeds, fake>>
  BY DEF ChooseUnitToMutate
<1>2. UNCHANGED <<options, corpusVars, seeds, fake, Live, NextIdx, files, unread, others, gone, hashes, inputs>>
  BY <1>1, SameCorpus DEF diskVars, corpusVars
<1>3. /\ Ownership' /\ SmallestOwner' /\ AddedFor' /\ OneUnitEach' /\ KeptSeeds'
      /\ \A i : Fake(i)' <=> Fake(i)
  BY <1>2, SameCorpus
<1>4. TypeOK /\ Len(inputs) \in Nat /\ DOMAIN inputs = 1..Len(inputs)
  BY InputTypes DEF IInv, OwnersRight
<1>5. base' \in Live /\ base' \in 0..Len(inputs)
  BY <1>1, <1>4, PickableLive DEF Live
<1>6. TypeOK' /\ OwnersHave' /\ Collected' /\ Counted'
  <2>1. /\ toLoad' \subseteq DOMAIN SeedList /\ pending' \subseteq Units /\ files' \subseteq Units /\ unread' \subseteq Units /\ gone' \subseteq Units
        /\ others' \in 0..MaxOthers /\ depth' \in 0..MutateDepth
    BY <1>1, <1>2, <1>4 DEF TypeOK
  <2> QED  BY <1>1, <1>2, <1>5, <2>1, BetweenRuns
<1>7. BaseRight' /\ TakesOnce'
  BY <1>1, <1>2, <1>5 DEF IInv, BaseRight, TakesOnce, Seeding, NothingReplaced, Weighted
<1>8. FilesKept'
  BY <1>1, <1>2, <1>3 DEF IInv, FilesKept, NothingReplaced, SharedWhenReplaced, Kept, OnDisk, Elsewhere, SeedList
<1> QED  BY <1>3, <1>6, <1>7, <1>8 DEF IInv, OwnersRight

LEMMA MutateInv ==
  ASSUME IInv, NEW u \in Units, Mutate(u)
  PROVE  IInv'
<1> USE InputCorpusAssumption
<1>1. /\ pc = "mutate" /\ depth < MutateDepth /\ depth' = depth + 1
      /\ UNCHANGED <<options, toLoad, corpusVars, diskVars, pending, base, seeds, fake>>
  BY DEF Mutate
<1>2. UNCHANGED <<options, corpusVars, seeds, fake, Live, NextIdx, files, unread, others, gone, hashes, inputs>>
  BY <1>1, SameCorpus DEF diskVars, corpusVars
<1>3. /\ Ownership' /\ SmallestOwner' /\ AddedFor' /\ OneUnitEach' /\ KeptSeeds'
      /\ \A i : Fake(i)' <=> Fake(i)
  BY <1>2, SameCorpus
<1>4. TypeOK /\ Len(inputs) \in Nat /\ DOMAIN inputs = 1..Len(inputs)
  BY InputTypes DEF IInv, OwnersRight
<1>5. base \in Live /\ base \in DOMAIN inputs /\ base \in 0..Len(inputs)
  BY <1>1, <1>4 DEF IInv, BaseRight, Live
<1>6. /\ toLoad' \subseteq DOMAIN SeedList /\ pending' \subseteq Units /\ files' \subseteq Units /\ unread' \subseteq Units /\ gone' \subseteq Units
      /\ others' \in 0..MaxOthers /\ base' \in 0..Len(inputs) /\ depth' \in 0..MutateDepth
  BY <1>1, <1>2, <1>4 DEF TypeOK
<1>7. CASE Executes(u, "mutation", base)
  <2>1. /\ run' \in RunType /\ run'.unit = u /\ run'.from = "mutation" /\ run'.ii = base
        /\ run'.uniq = {} /\ run'.found = 0 /\ pc' = "feature" /\ OwnersHave' /\ Collected' /\ Counted'
    BY <1>1, <1>2, <1>5, <1>7, StartRun
  <2>2. TypeOK'
    <3>1. Cardinality(inputs[base].uniq) \in Nat
      BY <1>4, <1>5, InputTypes, FeaturesFinite
    <3>2. /\ run'.ii \in 0..Len(inputs) /\ (run'.ii = 0 => run'.found = 0)
          /\ (run'.ii # 0 => run'.found \in 0..Cardinality(inputs[run'.ii].uniq))
      BY <1>5, <2>1, <3>1
    <3> QED  BY <1>2, <1>4, <1>6, <2>1, <3>2, SameTypes
  <2>3. BaseRight'
    BY <1>1, <1>2, <1>5, <2>1 DEF IInv, BaseRight, Seeding
  <2>4. TakesOnce' /\ FilesKept'
    BY <1>1, <1>2, <1>3, <2>1 DEF IInv, TakesOnce, FilesKept, Seeding, NothingReplaced,
       SharedWhenReplaced, Kept, OnDisk, Elsewhere, SeedList
  <2> QED  BY <1>3, <2>1, <2>2, <2>3, <2>4 DEF IInv, OwnersRight
<1>8. CASE run' = NoRun /\ UNCHANGED pc
  <2>1. TypeOK' /\ OwnersHave' /\ Collected' /\ Counted'
    BY <1>1, <1>2, <1>6, <1>8, BetweenRuns
  <2>2. BaseRight' /\ TakesOnce' /\ FilesKept'
    BY <1>1, <1>2, <1>3, <1>8 DEF IInv, BaseRight, TakesOnce, FilesKept, Seeding,
       NothingReplaced, SharedWhenReplaced, Kept, OnDisk, Elsewhere, SeedList
  <2> QED  BY <1>3, <2>1, <2>2 DEF IInv, OwnersRight
<1> QED  BY <1>7, <1>8 DEF Mutate

LEMMA MutationsDoneInv ==
  ASSUME IInv, MutationsDone
  PROVE  IInv'
<1> USE InputCorpusAssumption
<1>1. /\ pc = "mutate" /\ pc' = "loop" /\ base' = 0 /\ depth' = 0 /\ run' = NoRun
      /\ UNCHANGED <<options, toLoad, corpusVars, diskVars, pending, seeds, fake>>
  BY DEF MutationsDone
<1>2. UNCHANGED <<options, corpusVars, seeds, fake, Live, NextIdx, files, unread, others, gone, hashes, inputs>>
  BY <1>1, SameCorpus DEF diskVars, corpusVars
<1>3. /\ Ownership' /\ SmallestOwner' /\ AddedFor' /\ OneUnitEach' /\ KeptSeeds'
      /\ \A i : Fake(i)' <=> Fake(i)
  BY <1>2, SameCorpus
<1>4. TypeOK' /\ OwnersHave' /\ Collected' /\ Counted'
  <2>1. TypeOK /\ Len(inputs) \in Nat
    BY InputTypes DEF IInv, OwnersRight
  <2>2. /\ toLoad' \subseteq DOMAIN SeedList /\ pending' \subseteq Units /\ files' \subseteq Units /\ unread' \subseteq Units /\ gone' \subseteq Units
        /\ others' \in 0..MaxOthers /\ base' \in 0..Len(inputs) /\ depth' \in 0..MutateDepth
    BY <1>1, <1>2, <2>1 DEF TypeOK
  <2> QED  BY <1>1, <1>2, <2>2, BetweenRuns
<1>5. BaseRight' /\ TakesOnce' /\ FilesKept'
  BY <1>1, <1>2, <1>3 DEF IInv, BaseRight, TakesOnce, FilesKept, Seeding, NothingReplaced,
     SharedWhenReplaced, Kept, OnDisk, Elsewhere, SeedList
<1> QED  BY <1>3, <1>4, <1>5 DEF IInv, OwnersRight

LEMMA ReloadInv ==
  ASSUME IInv, Reload \/ ReloadDone
  PROVE  IInv'
<1> USE InputCorpusAssumption
<1>1. /\ pc \in {"loop", "reload"} /\ pc' \in {"loop", "reload"}
      /\ UNCHANGED <<options, toLoad, corpusVars, files, others, gone, run, base, depth, seeds, fake>>
      /\ unread' \subseteq unread
      /\ \/ pending' = pending /\ pending = {}
         \/ pending' = unread \cap files /\ pc' = "reload"
  BY DEF Reload, ReloadDone, diskVars
<1>2. UNCHANGED <<options, corpusVars, seeds, fake, Live, NextIdx, hashes, inputs>>
  BY <1>1, SameCorpus DEF corpusVars
<1>3. /\ Ownership' /\ SmallestOwner' /\ AddedFor' /\ OneUnitEach' /\ KeptSeeds'
      /\ \A i : Fake(i)' <=> Fake(i)
  BY <1>2, SameCorpus
<1>4. TypeOK' /\ OwnersHave' /\ Collected' /\ Counted'
  <2>1. TypeOK /\ Len(inputs) \in Nat
    BY InputTypes DEF IInv, OwnersRight
  <2>2. /\ toLoad' \subseteq DOMAIN SeedList /\ pending' \subseteq Units /\ files' \subseteq Units /\ unread' \subseteq Units /\ gone' \subseteq Units
        /\ others' \in 0..MaxOthers /\ base' \in 0..Len(inputs) /\ depth' \in 0..MutateDepth
    BY <1>1, <1>2, <2>1 DEF TypeOK
  <2> QED  BY <1>1, <1>2, <2>2, BetweenRuns
<1>5. BaseRight' /\ TakesOnce'
  BY <1>1, <1>2, <1>3 DEF IInv, BaseRight, TakesOnce, Seeding, NothingReplaced, Weighted
<1>6. FilesKept'
  BY <1>1, <1>2, <1>3 DEF IInv, FilesKept, NothingReplaced, SharedWhenReplaced, Kept, OnDisk, Elsewhere, SeedList
<1> QED  BY <1>3, <1>4, <1>5, <1>6 DEF IInv, OwnersRight

LEMMA ReloadUnitInv ==
  ASSUME IInv, NEW u \in Units, ReloadUnit(u)
  PROVE  IInv'
<1> USE InputCorpusAssumption
<1>1. /\ pc = "reload" /\ u \in pending /\ pending' = pending \ {u}
      /\ UNCHANGED <<options, toLoad, corpusVars, diskVars, base, depth, seeds, fake>>
  BY DEF ReloadUnit
<1>2. UNCHANGED <<options, corpusVars, seeds, fake, Live, NextIdx, files, unread, others, gone, hashes, inputs>>
  BY <1>1, SameCorpus DEF diskVars, corpusVars
<1>3. /\ Ownership' /\ SmallestOwner' /\ AddedFor' /\ OneUnitEach' /\ KeptSeeds'
      /\ \A i : Fake(i)' <=> Fake(i)
  BY <1>2, SameCorpus
<1>4. TypeOK /\ Len(inputs) \in Nat
  BY InputTypes DEF IInv, OwnersRight
<1>5. /\ toLoad' \subseteq DOMAIN SeedList /\ pending' \subseteq Units /\ files' \subseteq Units /\ unread' \subseteq Units /\ gone' \subseteq Units
      /\ others' \in 0..MaxOthers /\ base' \in 0..Len(inputs) /\ depth' \in 0..MutateDepth
  BY <1>1, <1>2, <1>4 DEF TypeOK
<1>6. CASE u \notin hashes /\ Executes(u, "reload", 0)
  <2>1. /\ run' \in RunType /\ run'.unit = u /\ run'.from = "reload" /\ run'.ii = 0
        /\ run'.uniq = {} /\ run'.found = 0 /\ pc' = "feature" /\ OwnersHave' /\ Collected' /\ Counted'
    <3>1. 0 \in 0..Len(inputs)
      BY <1>4
    <3> QED  BY <1>1, <1>2, <1>6, <3>1, StartRun
  <2>2. TypeOK'
    <3>1. run'.ii \in 0..Len(inputs)
      BY <1>4, <2>1
    <3> QED  BY <1>2, <1>4, <1>5, <2>1, <3>1, SameTypes
  <2>3. BaseRight' /\ TakesOnce'
    BY <1>1, <1>2, <2>1 DEF IInv, BaseRight, TakesOnce, Seeding, NothingReplaced, Weighted
  <2>4. FilesKept'
    BY <1>1, <1>2, <1>3, <1>6, <2>1 DEF IInv, FilesKept, NothingReplaced, SharedWhenReplaced, Kept, OnDisk, Elsewhere, SeedList
  <2> QED  BY <1>3, <2>1, <2>2, <2>3, <2>4 DEF IInv, OwnersRight
<1>7. CASE UNCHANGED <<pc, run>>
  <2>1. TypeOK' /\ OwnersHave' /\ Collected' /\ Counted'
    BY <1>1, <1>2, <1>5, <1>7, BetweenRuns
  <2>2. BaseRight' /\ TakesOnce'
    BY <1>1, <1>2, <1>3, <1>7 DEF IInv, BaseRight, TakesOnce, Seeding, NothingReplaced
  <2>3. Kept' = Kept /\ SharedWhenReplaced'
    BY <1>1, <1>2 DEF IInv, FilesKept, NothingReplaced, SharedWhenReplaced, Kept, OnDisk, Elsewhere, SeedList
  <2>4. FilesKept'
    BY <1>1, <1>2, <1>3, <1>7, <2>3 DEF IInv, FilesKept
  <2> QED  BY <1>3, <2>1, <2>2, <2>4 DEF IInv, OwnersRight
<1> QED  BY <1>6, <1>7 DEF ReloadUnit

LEMMA ReportNewCoverageInv ==
  ASSUME IInv, ReportNewCoverage
  PROVE  IInv'
<1> USE InputCorpusAssumption
<1>1. /\ pc = "report" /\ pc' = "loop" /\ run' = NoRun /\ base' = 0 /\ depth' = 0
      /\ files' = files \cup {run.unit} /\ unread' = unread \cup {run.unit}
      /\ UNCHANGED <<options, toLoad, corpusVars, others, gone, pending, seeds, fake>>
  BY DEF ReportNewCoverage
<1>2. UNCHANGED <<options, corpusVars, seeds, fake, Live, NextIdx, hashes, inputs>>
  BY <1>1, SameCorpus DEF corpusVars
<1>3. /\ Ownership' /\ SmallestOwner' /\ AddedFor' /\ OneUnitEach' /\ KeptSeeds'
      /\ \A i : Fake(i)' <=> Fake(i)
  BY <1>2, SameCorpus
<1>4. run.unit \in Units /\ run.from = "mutation"
  BY <1>1 DEF IInv, Counted
<1>5. TypeOK' /\ OwnersHave' /\ Collected' /\ Counted'
  <2>1. TypeOK /\ Len(inputs) \in Nat
    BY InputTypes DEF IInv, OwnersRight
  <2>2. /\ toLoad' \subseteq DOMAIN SeedList /\ pending' \subseteq Units /\ files' \subseteq Units /\ unread' \subseteq Units /\ gone' \subseteq Units
        /\ others' \in 0..MaxOthers /\ base' \in 0..Len(inputs) /\ depth' \in 0..MutateDepth
    BY <1>1, <1>2, <1>4, <2>1 DEF TypeOK
  <2> QED  BY <1>1, <1>2, <2>2, BetweenRuns
<1>6. BaseRight' /\ TakesOnce'
  BY <1>1, <1>2, <1>3 DEF IInv, BaseRight, TakesOnce, Seeding, NothingReplaced, Weighted
<1>7. FilesKept'
  BY <1>1, <1>2, <1>3 DEF IInv, FilesKept, NothingReplaced, SharedWhenReplaced, Kept, OnDisk, Elsewhere, SeedList
<1> QED  BY <1>3, <1>5, <1>6, <1>7 DEF IInv, OwnersRight

LEMMA ExitInv ==
  ASSUME IInv, Exit
  PROVE  IInv'
<1> USE InputCorpusAssumption
<1>1. /\ pc \notin {"exited", "aborted"} /\ pc' = "exited" /\ base' = 0 /\ depth' = 0
      /\ toLoad' = {} /\ unread' = {} /\ pending' = {}
      /\ run' = IF pc \in {"feature", "report"} THEN run ELSE NoRun
      /\ UNCHANGED <<options, corpusVars, files, others, gone, seeds, fake>>
  BY DEF Exit
<1>2. UNCHANGED <<options, corpusVars, seeds, fake, Live, NextIdx, hashes, inputs, sizes, owner>>
  BY <1>1, SameCorpus DEF corpusVars
<1>3. /\ Ownership' /\ SmallestOwner' /\ AddedFor' /\ OneUnitEach' /\ KeptSeeds'
      /\ \A i : Fake(i)' <=> Fake(i)
  BY <1>2, SameCorpus
<1>4. TypeOK' /\ OwnersHave' /\ Collected' /\ Counted'
  <2>1. TypeOK /\ Len(inputs) \in Nat
    BY InputTypes DEF IInv, OwnersRight
  <2>2. /\ toLoad' \subseteq DOMAIN SeedList /\ pending' \subseteq Units /\ files' \subseteq Units /\ unread' \subseteq Units /\ gone' \subseteq Units
        /\ others' \in 0..MaxOthers /\ base' \in 0..Len(inputs) /\ depth' \in 0..MutateDepth
    BY <1>1, <1>2, <2>1 DEF TypeOK
  <2>3. CASE pc # "feature"
    BY <1>1, <1>2, <2>2, <2>3, BetweenRuns
  <2>4. CASE pc = "feature"
    <3>1. run' = run
      BY <1>1, <2>4
    <3>2. /\ run' \in RunType /\ run'.ii \in 0..Len(inputs) /\ (run'.ii = 0 => run'.found = 0)
          /\ (run'.ii # 0 => run'.found \in 0..Cardinality(inputs[run'.ii].uniq))
      BY <2>1, <3>1 DEF TypeOK
    <3>3. TypeOK'
      BY <1>1, <1>2, <2>1, <2>2, <3>2, SameTypes
    <3>4. OwnersHave'
      BY <1>1, <1>2, <2>4, <3>1 DEF IInv, OwnersRight, OwnersHave
    <3>5. Collected' /\ Counted'
      BY <1>1, <1>2, <2>4, <3>1 DEF IInv, Collected, Counted
    <3> QED  BY <3>3, <3>4, <3>5
  <2> QED  BY <2>3, <2>4
<1>5. BaseRight' /\ TakesOnce'
  BY <1>1, <1>2, <1>3 DEF IInv, BaseRight, TakesOnce, Seeding, NothingReplaced, Weighted
<1>6. FilesKept'
  <2>1. Kept' = Kept /\ SharedWhenReplaced'
    BY <1>1, <1>2 DEF IInv, FilesKept, NothingReplaced, SharedWhenReplaced, Kept, OnDisk, Elsewhere, SeedList
  <2>2. ASSUME run'.from # "mutation", run'.uniq # {}
        PROVE  run'.unit \in Kept \cap Units /\ run'.uniq \subseteq FeaturesOf[run'.unit]
    <3>1. run' = run /\ pc = "feature"
      BY <1>1, <2>2, NoRunType DEF IInv, Counted
    <3>2. run.from \in {"seed", "reload"}
      BY <2>2, <3>1, RunTypes DEF IInv, OwnersRight, TypeOK, Collected
    <3> QED  BY <3>1, <3>2 DEF IInv, Collected, FilesKept
  <2>3. ASSUME NEW i \in Live, ~Fake(i), inputs[i].unit \notin Kept
        PROVE  run'.from = "mutation" /\ inputs[i].unit = run'.unit
    BY <1>1, <2>3 DEF IInv, FilesKept
  <2> QED  BY <1>1, <1>2, <1>3, <2>1, <2>2, <2>3 DEF FilesKept
<1> QED  BY <1>3, <1>4, <1>5, <1>6 DEF IInv, OwnersRight

(* No weight is left: the process aborts.                                  *)
LEMMA DrawFailsInv ==
  ASSUME IInv, DrawFails
  PROVE  IInv'
<1> USE InputCorpusAssumption
<1>1. /\ pc = "loop" /\ Weighted = {} /\ pc' = "aborted"
      /\ UNCHANGED <<options, toLoad, corpusVars, diskVars, pending, run, base, depth, seeds, fake>>
  BY DEF DrawFails
<1>2. UNCHANGED <<options, corpusVars, seeds, fake, Live, NextIdx, files, unread, others, gone, hashes, inputs>>
  BY <1>1, SameCorpus DEF diskVars, corpusVars
<1>3. /\ Ownership' /\ SmallestOwner' /\ AddedFor' /\ OneUnitEach' /\ KeptSeeds'
      /\ Weighted' = Weighted /\ \A i : Fake(i)' <=> Fake(i)
  BY <1>2, SameCorpus
<1>4. TypeOK' /\ OwnersHave' /\ Collected' /\ Counted'
  <2>1. TypeOK /\ Len(inputs) \in Nat
    BY InputTypes DEF IInv, OwnersRight
  <2>2. /\ toLoad' \subseteq DOMAIN SeedList /\ pending' \subseteq Units /\ files' \subseteq Units /\ unread' \subseteq Units /\ gone' \subseteq Units
        /\ others' \in 0..MaxOthers /\ base' \in 0..Len(inputs) /\ depth' \in 0..MutateDepth
    BY <1>1, <1>2, <2>1 DEF TypeOK
  <2> QED  BY <1>1, <1>2, <2>2, BetweenRuns
<1>5. BaseRight' /\ TakesOnce'
  BY <1>1, <1>2, <1>3 DEF IInv, BaseRight, TakesOnce, Seeding, NothingReplaced
<1>6. FilesKept'
  BY <1>1, <1>2, <1>3 DEF IInv, FilesKept, NothingReplaced, SharedWhenReplaced, Kept, OnDisk, Elsewhere, SeedList
<1> QED  BY <1>3, <1>4, <1>5, <1>6 DEF IInv, OwnersRight

(* Files that other processes write or remove do no harm to the tables,    *)
(* also during an execution.                                               *)
LEMMA OtherProcessInv ==
  ASSUME IInv, NEW u \in Units, OtherWrites(u) \/ OtherRemoves(u)
  PROVE  IInv'
<1> USE InputCorpusAssumption
<1>1. /\ pc \notin {"exited", "aborted"} /\ others < MaxOthers /\ others' = others + 1
      /\ files' \subseteq files \cup {u} /\ unread' \subseteq unread \cup {u} /\ gone' \subseteq gone \cup {u}
      /\ files \cup gone \subseteq files' \cup gone'
      /\ UNCHANGED <<options, pc, toLoad, corpusVars, pending, run, base, depth, seeds, fake>>
  BY DEF OtherWrites, OtherRemoves
<1>2. UNCHANGED <<options, corpusVars, seeds, fake, Live, NextIdx, SeedList, Weighted, hashes, inputs, sizes, owner>>
  BY <1>1, SameCorpus DEF corpusVars
<1>3. /\ Ownership' /\ SmallestOwner' /\ AddedFor' /\ OneUnitEach' /\ KeptSeeds'
      /\ \A i : Fake(i)' <=> Fake(i)
  BY <1>2, SameCorpus
<1>4. TypeOK'
  <2>1. files' \subseteq Units /\ unread' \subseteq Units /\ gone' \subseteq Units /\ others' \in 0..MaxOthers
    BY <1>1 DEF IInv, OwnersRight, TypeOK
  <2> QED  BY <1>1, <1>2, <2>1 DEF IInv, OwnersRight, TypeOK
<1>5. OwnersHave' /\ Collected' /\ Counted'
  BY <1>1, <1>2, SameCorpus DEF IInv, OwnersRight, OwnersHave, Collected, Counted
<1>6. BaseRight' /\ TakesOnce'
  BY <1>1, <1>2, <1>3 DEF IInv, BaseRight, TakesOnce, Seeding, NothingReplaced
<1>7. FilesKept'
  <2>1. Kept \subseteq Kept'
    BY <1>1, KeptGrows
  <2>2. SharedWhenReplaced'
    <3>1. others' # 0
      BY <1>1 DEF IInv, OwnersRight, TypeOK
    <3> QED  BY <3>1 DEF SharedWhenReplaced
  <2> QED  BY <1>1, <1>2, <1>3, <2>1, <2>2 DEF IInv, FilesKept
<1> QED  BY <1>3, <1>4, <1>5, <1>6, <1>7 DEF IInv, OwnersRight

(* Where the callers of RunOne go on.                                      *)
LEMMA AfterRun ==
  ASSUME pc = "feature", IInv, NEW result \in BOOLEAN, After(result)
  PROVE  /\ run.from = "seed" => pc' = "seeds" /\ run' = NoRun
         /\ run.from = "reload" => pc' = "reload" /\ run' = NoRun
         /\ run.from = "mutation" => pc' = (IF result THEN "report" ELSE "mutate") /\ run' = run
         /\ run.from \in {"seed", "mutation", "reload"} /\ run.unit \in Units
<1>1. run \in RunType /\ run.from # "none" /\ run.unit \in Units
  BY DEF IInv, OwnersRight, TypeOK, Collected
<1>2. run.from \in {"seed", "mutation", "reload"}
  BY <1>1, RunTypes
<1> QED  BY <1>1, <1>2 DEF After

LEMMA NothingNewInv ==
  ASSUME IInv, NothingNew
  PROVE  IInv'
<1> USE InputCorpusAssumption
<1>1. /\ pc = "feature" /\ run.todo = {} /\ ~Adds /\ After(FALSE)
      /\ UNCHANGED <<options, toLoad, corpusVars, diskVars, pending, base, depth, seeds, fake>>
  BY DEF NothingNew
<1>2. UNCHANGED <<options, corpusVars, seeds, fake, Live, NextIdx, files, unread, others, gone, hashes, inputs, sizes, owner>>
  BY <1>1, SameCorpus DEF diskVars, corpusVars
<1>3. /\ Ownership' /\ SmallestOwner' /\ AddedFor' /\ OneUnitEach' /\ KeptSeeds'
      /\ \A i : Fake(i)' <=> Fake(i)
  BY <1>2, SameCorpus
<1>4. TypeOK /\ Len(inputs) \in Nat
  BY InputTypes DEF IInv, OwnersRight
<1>5. run.uniq = {} /\ Owned(NextIdx) = {} /\ Owned(NextIdx)' = {}
  BY <1>1, <1>2, SameCorpus DEF Adds, IInv, Collected
<1>6. /\ run.from = "seed" => pc' = "seeds" /\ run' = NoRun
      /\ run.from = "reload" => pc' = "reload" /\ run' = NoRun
      /\ run.from = "mutation" => pc' = "mutate" /\ run' = run
      /\ run.from \in {"seed", "mutation", "reload"} /\ run.unit \in Units
  BY <1>1, AfterRun
<1>7. OwnersHave' /\ Collected'
  BY <1>2, <1>5, <1>6 DEF IInv, OwnersRight, OwnersHave, Collected
<1>8. Counted'
  <2>1. CASE run' = run
    BY <1>2, <1>6, <2>1 DEF IInv, Counted
  <2>2. CASE run' = NoRun
    BY <1>6, <2>2, NoRunType DEF Counted
  <2> QED  BY <1>6, <2>1, <2>2
<1>9. TypeOK'
  <2>1. /\ toLoad' \subseteq DOMAIN SeedList /\ pending' \subseteq Units /\ files' \subseteq Units /\ unread' \subseteq Units /\ gone' \subseteq Units
        /\ others' \in 0..MaxOthers /\ base' \in 0..Len(inputs) /\ depth' \in 0..MutateDepth
        /\ pc' \in {"seeds", "loop", "mutate", "reload", "feature", "report", "exited", "aborted"}
    BY <1>1, <1>2, <1>4, <1>6 DEF TypeOK
  <2>2. CASE run' = run
    <3>1. run' \in RunType /\ run'.ii \in 0..Len(inputs) /\ (run'.ii = 0 => run'.found = 0)
          /\ (run'.ii # 0 => run'.found \in 0..Cardinality(inputs[run'.ii].uniq))
      BY <1>4, <2>2 DEF TypeOK
    <3> QED  BY <1>2, <1>4, <2>1, <3>1, SameTypes
  <2>3. CASE run' = NoRun
    <3>1. run' \in RunType /\ run'.ii = 0 /\ run'.found = 0 /\ run'.ii \in 0..Len(inputs)
      BY <1>4, <2>3, NoRunType
    <3> QED  BY <1>2, <1>4, <2>1, <3>1, SameTypes
  <2> QED  BY <1>6, <2>2, <2>3
<1>10. BaseRight' /\ TakesOnce'
  BY <1>1, <1>2, <1>3, <1>5, <1>6 DEF IInv, BaseRight, TakesOnce, Seeding, NothingReplaced, Weighted
<1>11. FilesKept'
  BY <1>1, <1>2, <1>3, <1>6 DEF IInv, FilesKept, NothingReplaced, SharedWhenReplaced, Kept, OnDisk, Elsewhere, SeedList
<1> QED  BY <1>3, <1>7, <1>8, <1>9, <1>10, <1>11 DEF IInv, OwnersRight

(* The feature CollectFeatures reports next.                               *)
LEMMA CollectFacts ==
  ASSUME IInv, pc = "feature", run.todo # {}, NEW f, f = Min(run.todo)
  PROVE  /\ f \in run.todo /\ f \in Features /\ f \in FeaturesOf[run.unit] /\ f \notin run.uniq
         /\ run.unit \in Units /\ SizeOf[run.unit] \in Nat \ {0} /\ run \in RunType
         /\ run.todo \subseteq FeaturesOf[run.unit] /\ FeaturesOf[run.unit] \subseteq Features
         /\ sizes \in [Features -> Nat] /\ owner \in [Features -> 0..NextIdx] /\ NextIdx \in Nat
         /\ \A g \in Features : sizes[g] \in Nat
<1>1. TypeOK
  BY DEF IInv, OwnersRight
<1>2. run \in RunType /\ run.todo \subseteq Features
  BY <1>1, RunTypes DEF TypeOK
<1>3. run.todo \subseteq Nat
  BY <1>2, InputCorpusAssumption
<1>4. f \in run.todo
  BY <1>3, NextFeature
<1>5. /\ run.unit \in Units /\ run.todo \subseteq FeaturesOf[run.unit]
      /\ run.uniq \subseteq FeaturesOf[run.unit] \ run.todo
  BY DEF IInv, Collected
<1>6. SizeOf[run.unit] \in Nat \ {0} /\ FeaturesOf[run.unit] \subseteq Features
  BY <1>5, InputCorpusAssumption
<1>7. sizes \in [Features -> Nat] /\ owner \in [Features -> 0..NextIdx] /\ NextIdx \in Nat
  BY <1>1, InputTypes DEF TypeOK
<1> QED  BY <1>2, <1>4, <1>5, <1>6, <1>7

(* Counting one feature more.                                              *)
CountIn(S, F, T) == Cardinality(S \cap (F \ T))

LEMMA CountOne ==
  ASSUME NEW S \in SUBSET Features, NEW F \in SUBSET Features, NEW T \in SUBSET F, NEW f \in T
  PROVE  CountIn(S, F, T \ {f}) = CountIn(S, F, T) + (IF f \in S THEN 1 ELSE 0)
<1> USE DEF CountIn
<1>1. IsFiniteSet(S \cap (F \ T)) /\ Cardinality(S \cap (F \ T)) \in Nat
  BY FeaturesFinite
<1>2. CASE f \in S
  <2>1. S \cap (F \ (T \ {f})) = (S \cap (F \ T)) \cup {f} /\ f \notin S \cap (F \ T)
    BY <1>2
  <2> QED  BY <1>1, <1>2, <2>1, FS_AddElement
<1>3. CASE f \notin S
  <2>1. S \cap (F \ (T \ {f})) = S \cap (F \ T)
    BY <1>3
  <2>2. Cardinality(S \cap (F \ (T \ {f}))) = Cardinality(S \cap (F \ T))
    BY <2>1
  <2> QED  BY <1>1, <1>3, <2>2
<1> QED  BY <1>2, <1>3

(* What CollectFeature does to the run, and that its count is right, as    *)
(* long as no input is added and what inputs were added for stays.         *)
LEMMA CollectRun ==
  ASSUME IInv, pc = "feature", run.todo # {}, NEW f, f = Min(run.todo),
         NEW uniq \in SUBSET Features, UNCHANGED <<pc, options, base>>,
         run' = [unit |-> run.unit, from |-> run.from, ii |-> run.ii, todo |-> run.todo \ {f},
                 uniq |-> uniq, found |-> run.found + Counts(f)],
         DOMAIN inputs' = DOMAIN inputs,
         \A i \in DOMAIN inputs : inputs'[i].uniq = inputs[i].uniq /\ inputs'[i].never = inputs[i].never
  PROVE  /\ run' \in RunType /\ run'.unit = run.unit /\ run'.from = run.from /\ run'.ii = run.ii
         /\ run'.todo = run.todo \ {f} /\ run'.uniq = uniq
         /\ run'.found \in 0..(IF run'.ii = 0 THEN 0 ELSE Cardinality(inputs'[run'.ii].uniq))
         /\ Counted'
<1>1. /\ f \in run.todo /\ f \in Features /\ run \in RunType /\ run.unit \in Units
      /\ run.todo \subseteq FeaturesOf[run.unit] /\ FeaturesOf[run.unit] \subseteq Features
  BY CollectFacts
<1>2. /\ run.unit \in Units \cup {NoUnit} /\ run.from \in {"none", "seed", "mutation", "reload"}
      /\ run.ii \in Nat /\ run.todo \subseteq Features /\ run.uniq \subseteq Features /\ run.found \in Nat
  BY <1>1, RunTypes
<1>3. Counts(f) \in {0, 1} /\ run.found + Counts(f) \in Nat
  BY <1>2 DEF Counts
<1>5. /\ run'.unit = run.unit /\ run'.from = run.from /\ run'.ii = run.ii
      /\ run'.todo = run.todo \ {f} /\ run'.uniq = uniq /\ run'.found = run.found + Counts(f)
  OBVIOUS
<1>6. run' \in RunType
  BY <1>2, <1>3 DEF RunType
<1>7. TypeOK /\ run.ii \in 0..Len(inputs) /\ Len(inputs) \in Nat /\ DOMAIN inputs = 1..Len(inputs)
  BY InputTypes DEF IInv, OwnersRight, TypeOK
<1>8. run.ii # 0 => run.ii \in DOMAIN inputs /\ inputs[run.ii].uniq \in SUBSET Features
  BY <1>7, InputTypes
<1> DEFINE S == inputs[run.ii].uniq
           F == FeaturesOf[run.unit]
           counting == run.ii # 0 /\ options.reduce /\ ~inputs[run.ii].never
<1>9. run.found = IF counting THEN Cardinality(S \cap (F \ run.todo)) ELSE 0
  BY DEF IInv, Counted
<1>10. run'.found = IF counting THEN Cardinality(S \cap (F \ (run.todo \ {f}))) ELSE 0
  <2>1. CASE counting
    <3>1. Counts(f) = IF f \in S THEN 1 ELSE 0
      BY <2>1 DEF Counts
    <3>2. Cardinality(S \cap (F \ (run.todo \ {f}))) = Cardinality(S \cap (F \ run.todo)) + Counts(f)
      <4>1. S \in SUBSET Features /\ F \in SUBSET Features /\ run.todo \in SUBSET F /\ f \in run.todo
        BY <1>1, <1>8, <2>1
      <4> HIDE DEF S, F
      <4>2. Cardinality(S \cap (F \ (run.todo \ {f}))) =
              Cardinality(S \cap (F \ run.todo)) + (IF f \in S THEN 1 ELSE 0)
        <5>1. CountIn(S, F, run.todo \ {f}) = CountIn(S, F, run.todo) + (IF f \in S THEN 1 ELSE 0)
          BY <4>1, CountOne
        <5> QED  BY <5>1 DEF CountIn
      <4> QED  BY <3>1, <4>2
    <3> QED  BY <1>5, <1>9, <2>1, <3>2
  <2>2. CASE ~counting
    <3>1. Counts(f) = 0
      BY <2>2 DEF Counts
    <3> QED  BY <1>5, <1>9, <2>2, <3>1
  <2> QED  BY <2>1, <2>2
<1>11. run.ii # 0 => inputs'[run.ii].uniq = S /\ inputs'[run.ii].never = inputs[run.ii].never
  BY <1>8
<1>12. Counted'
  <2>1. /\ run.ii = (IF run.from = "mutation" THEN base ELSE 0)
        /\ run.ii # 0 => run.unit \in Units /\ run.todo \subseteq FeaturesOf[run.unit]
    BY DEF IInv, Counted
  <2>2. run'.found =
          IF run'.ii # 0 /\ options'.reduce /\ ~inputs'[run'.ii].never
            THEN Cardinality(inputs'[run'.ii].uniq \cap (FeaturesOf[run'.unit] \ run'.todo))
            ELSE 0
    BY <1>5, <1>10, <1>11
  <2> QED  BY <1>1, <1>5, <2>1, <2>2 DEF Counted
<1>13. run'.found \in 0..(IF run'.ii = 0 THEN 0 ELSE Cardinality(inputs'[run'.ii].uniq))
  <2>1. CASE run.ii = 0
    BY <1>5, <1>10, <2>1
  <2>2. CASE run.ii # 0
    <3>1. Cardinality(S) \in Nat /\ Cardinality(S \cap (F \ (run.todo \ {f}))) \in 0..Cardinality(S)
      BY <1>8, <2>2, FoundRange, FeaturesFinite
    <3> QED  BY <1>5, <1>10, <1>11, <2>2, <3>1
  <2> QED  BY <2>1, <2>2
<1> QED  BY <1>5, <1>6, <1>12, <1>13

(* A feature that has an owner which is not larger, ...                    *)
LEMMA RefusedInv ==
  ASSUME IInv, CollectFeature, ~Takes(Min(run.todo))
  PROVE  IInv'
<1> USE InputCorpusAssumption
<1> DEFINE f == Min(run.todo)
<1>1. /\ pc = "feature" /\ run.todo # {}
      /\ run' = [run EXCEPT !.todo = @ \ {f}, !.found = @ + Counts(f)]
      /\ UNCHANGED <<options, pc, toLoad, corpusVars, diskVars, pending, base, depth, seeds, fake>>
  BY DEF CollectFeature, corpusVars, diskVars
<1> HIDE DEF f
<1>2. f = Min(run.todo) /\ ~Takes(f)
  BY DEF f
<1>3. UNCHANGED <<options, corpusVars, seeds, fake, Live, NextIdx, files, unread, others, gone, hashes, inputs, sizes, owner>>
  BY <1>1, SameCorpus DEF diskVars, corpusVars
<1>4. /\ Ownership' /\ SmallestOwner' /\ AddedFor' /\ OneUnitEach' /\ KeptSeeds'
      /\ \A i : Fake(i)' <=> Fake(i)
      /\ \A i : Owned(i)' = Owned(i)
  BY <1>3, SameCorpus
<1>5. TypeOK /\ Len(inputs) \in Nat
  BY InputTypes DEF IInv, OwnersRight
<1>6. /\ f \in run.todo /\ f \in Features /\ f \in FeaturesOf[run.unit] /\ sizes[f] \in Nat
      /\ run.unit \in Units /\ SizeOf[run.unit] \in Nat \ {0} /\ run \in RunType
  BY <1>1, <1>2, CollectFacts
<1>7. run' = [unit |-> run.unit, from |-> run.from, ii |-> run.ii, todo |-> run.todo \ {f},
              uniq |-> run.uniq, found |-> run.found + Counts(f)]
  BY <1>1, <1>6 DEF RunType
<1>8. /\ run' \in RunType /\ run'.unit = run.unit /\ run'.from = run.from /\ run'.ii = run.ii
      /\ run'.todo = run.todo \ {f} /\ run'.uniq = run.uniq
      /\ run'.found \in 0..(IF run'.ii = 0 THEN 0 ELSE Cardinality(inputs'[run'.ii].uniq))
      /\ Counted'
  <2>1. run.uniq \in SUBSET Features /\ UNCHANGED <<pc, options, base>> /\ DOMAIN inputs' = DOMAIN inputs
    BY <1>1, <1>3, <1>6, RunTypes
  <2>2. \A i \in DOMAIN inputs : inputs'[i].uniq = inputs[i].uniq /\ inputs'[i].never = inputs[i].never
    BY <1>3
  <2> QED  BY <1>1, <1>2, <1>7, <2>1, <2>2, CollectRun, ZenonT(40)
<1>9. TypeOK'
  BY <1>1, <1>3, <1>5, <1>8 DEF TypeOK, diskVars, SeedList
<1>10. sizes[f] # 0 /\ (options.shrink => sizes[f] <= SizeOf[run.unit])
  BY <1>2, <1>6 DEF Takes
<1>11. OwnersHave' /\ Collected'
  <2>1. OwnersHave'
    BY <1>1, <1>3, <1>8 DEF IInv, OwnersRight, OwnersHave
  <2>2. Collected'
    BY <1>1, <1>3, <1>4, <1>8, <1>10 DEF IInv, Collected
  <2> QED  BY <2>1, <2>2
<1>12. BaseRight' /\ TakesOnce'
  BY <1>1, <1>3, <1>4, <1>8 DEF IInv, BaseRight, TakesOnce, Seeding, NothingReplaced, Weighted
<1>13. FilesKept'
  BY <1>1, <1>3, <1>4, <1>8 DEF IInv, FilesKept, NothingReplaced, SharedWhenReplaced, Kept, OnDisk, Elsewhere, SeedList
<1> QED  BY <1>4, <1>8, <1>9, <1>11, <1>12, <1>13 DEF IInv, OwnersRight

(* No input that is live is the unit that takes the feature.               *)
LEMMA TakerIsNew ==
  ASSUME IInv, pc = "feature", NEW f \in FeaturesOf[run.unit], Takes(f),
         NEW i \in Live, inputs[i].unit = run.unit, ~Fake(i)
  PROVE  FALSE
<1>1. i \in DOMAIN inputs /\ sizes[f] # 0
  BY DEF IInv, AddedFor, Live
<1>2. /\ run.unit \in Units /\ f \in Features /\ SizeOf[run.unit] \in Nat
      /\ sizes[f] \in Nat
  BY InputCorpusAssumption DEF IInv, OwnersRight, TypeOK, Collected
<1>3. options.shrink /\ sizes[f] > SizeOf[run.unit]
  BY <1>1 DEF Takes
<1>4. sizes[f] <= SizeOf[run.unit]
  BY <1>2, <1>3 DEF IInv, OwnersRight, SmallestOwner
<1> QED  BY <1>2, <1>3, <1>4

(* What changes in the tables when the unit takes a feature.               *)
LEMMA TakenTables ==
  ASSUME IInv, CollectFeature, NEW f, f = Min(run.todo), Takes(f)
  PROVE  /\ owner' = [owner EXCEPT ![f] = NextIdx] /\ owner' \in [Features -> 0..NextIdx]
         /\ sizes' = [sizes EXCEPT ![f] = SizeOf[run.unit]] /\ sizes' \in [Features -> Nat]
         /\ run' = [unit |-> run.unit, from |-> run.from, ii |-> run.ii, todo |-> run.todo \ {f},
                    uniq |-> run.uniq \cup {f}, found |-> run.found + Counts(f)]
         /\ UNCHANGED <<options, pc, toLoad, hashes, unread, others, pending, base, depth, seeds, fake>>
         /\ pc = "feature" /\ run.todo # {}
         /\ owner[f] # NextIdx \/ sizes[f] = 0
         /\ \A i \in DOMAIN inputs : {g \in Features : sizes'[g] # 0 /\ owner'[g] = i} = Owned(i) \ {f}
         /\ {g \in Features : sizes'[g] # 0 /\ owner'[g] = NextIdx} = Owned(NextIdx) \cup {f}
         /\ \A g \in FeaturesOf[run.unit] \ (run.todo \ {f}) :
              sizes'[g] # 0 /\ (options.shrink => sizes'[g] <= SizeOf[run.unit])
<1> USE InputCorpusAssumption
<1>1. /\ pc = "feature" /\ run.todo # {}
      /\ run' = [[run EXCEPT !.todo = @ \ {f}, !.found = @ + Counts(f)] EXCEPT !.uniq = @ \cup {f}]
      /\ owner' = [owner EXCEPT ![f] = NextIdx]
      /\ sizes' = [sizes EXCEPT ![f] = SizeOf[run.unit]]
      /\ UNCHANGED <<options, pc, toLoad, hashes, unread, others, pending, base, depth, seeds, fake>>
  BY DEF CollectFeature
<1>2. /\ f \in run.todo /\ f \in Features /\ f \in FeaturesOf[run.unit] /\ f \notin run.uniq
      /\ run.unit \in Units /\ SizeOf[run.unit] \in Nat \ {0} /\ run \in RunType
      /\ sizes \in [Features -> Nat] /\ owner \in [Features -> 0..NextIdx] /\ NextIdx \in Nat
      /\ FeaturesOf[run.unit] \subseteq Features
  BY <1>1, CollectFacts
<1>3. run' = [unit |-> run.unit, from |-> run.from, ii |-> run.ii, todo |-> run.todo \ {f},
              uniq |-> run.uniq \cup {f}, found |-> run.found + Counts(f)]
  BY <1>1, <1>2 DEF RunType
<1>4. owner' \in [Features -> 0..NextIdx] /\ sizes' \in [Features -> Nat]
  BY <1>1, <1>2
<1>5. /\ owner'[f] = NextIdx /\ sizes'[f] = SizeOf[run.unit]
      /\ \A g \in Features \ {f} : owner'[g] = owner[g] /\ sizes'[g] = sizes[g]
  BY <1>1, <1>2
<1>6. owner[f] # NextIdx \/ sizes[f] = 0
  <2>1. f \notin Owned(NextIdx)
    BY <1>1, <1>2 DEF IInv, Collected
  <2> QED  BY <1>2, <2>1 DEF Owned
<1>7. NextIdx \notin DOMAIN inputs
  BY InputTypes DEF IInv, OwnersRight
<1>8. ASSUME NEW i \in DOMAIN inputs
      PROVE  {g \in Features : sizes'[g] # 0 /\ owner'[g] = i} = Owned(i) \ {f}
  <2>1. \A g \in Features : sizes'[g] # 0 /\ owner'[g] = i <=> g \in Owned(i) \ {f}
    BY <1>2, <1>5, <1>7, <1>8 DEF Owned
  <2>2. \A g \in Owned(i) : g \in Features
    BY DEF Owned
  <2> QED  BY <2>1, <2>2
<1>9. {g \in Features : sizes'[g] # 0 /\ owner'[g] = NextIdx} = Owned(NextIdx) \cup {f}
  <2>1. \A g \in Features : sizes'[g] # 0 /\ owner'[g] = NextIdx <=> g \in Owned(NextIdx) \cup {f}
    BY <1>2, <1>5 DEF Owned
  <2>2. \A g \in Owned(NextIdx) \cup {f} : g \in Features
    BY <1>2 DEF Owned
  <2> QED  BY <2>1, <2>2
<1>10. ASSUME NEW g \in FeaturesOf[run.unit] \ (run.todo \ {f})
       PROVE  sizes'[g] # 0 /\ (options.shrink => sizes'[g] <= SizeOf[run.unit])
  <2>1. CASE g = f
    BY <1>2, <1>5, <2>1
  <2>2. CASE g # f
    BY <1>1, <1>2, <1>5, <2>2 DEF IInv, Collected
  <2> QED  BY <2>1, <2>2
<1> QED  BY <1>1, <1>3, <1>4, <1>6, <1>8, <1>9, <1>10

(* ... one without an owner, ...                                           *)
LEMMA FreshInv ==
  ASSUME IInv, CollectFeature, Takes(Min(run.todo)), sizes[Min(run.todo)] = 0
  PROVE  IInv'
<1> USE InputCorpusAssumption
<1> DEFINE f == Min(run.todo)
<1>1. UNCHANGED <<inputs, files, gone>>
  BY DEF CollectFeature
<1> HIDE DEF f
<1>2. f = Min(run.todo) /\ Takes(f) /\ sizes[f] = 0
  BY DEF f
<1>3. /\ owner' = [owner EXCEPT ![f] = NextIdx] /\ owner' \in [Features -> 0..NextIdx]
      /\ sizes' = [sizes EXCEPT ![f] = SizeOf[run.unit]] /\ sizes' \in [Features -> Nat]
      /\ run' = [unit |-> run.unit, from |-> run.from, ii |-> run.ii, todo |-> run.todo \ {f},
                 uniq |-> run.uniq \cup {f}, found |-> run.found + Counts(f)]
      /\ UNCHANGED <<options, pc, toLoad, hashes, unread, others, pending, base, depth, seeds, fake>>
      /\ pc = "feature" /\ run.todo # {}
      /\ \A i \in DOMAIN inputs : {g \in Features : sizes'[g] # 0 /\ owner'[g] = i} = Owned(i) \ {f}
      /\ {g \in Features : sizes'[g] # 0 /\ owner'[g] = NextIdx} = Owned(NextIdx) \cup {f}
      /\ \A g \in FeaturesOf[run.unit] \ (run.todo \ {f}) :
           sizes'[g] # 0 /\ (options.shrink => sizes'[g] <= SizeOf[run.unit])
  BY <1>2, TakenTables
<1>4. UNCHANGED <<Live, NextIdx, Kept, NothingReplaced, SeedList, Weighted>> /\ \A i : Fake(i)' <=> Fake(i)
  BY <1>1, <1>3 DEF Live, NextIdx, Kept, OnDisk, Elsewhere, SeedList, NothingReplaced, Weighted, Fake
<1>5. /\ TypeOK /\ inputs \in Seq(InputType) /\ Len(inputs) \in Nat /\ DOMAIN inputs = 1..Len(inputs)
      /\ \A i \in Live : i \in DOMAIN inputs
      /\ NextIdx \notin DOMAIN inputs
  BY InputTypes DEF IInv, OwnersRight
<1>6. /\ f \in run.todo /\ f \in Features /\ f \in FeaturesOf[run.unit] /\ f \notin run.uniq
      /\ run.unit \in Units /\ SizeOf[run.unit] \in Nat \ {0} /\ run \in RunType
      /\ \A g \in Features : sizes[g] \in Nat
      /\ sizes \in [Features -> Nat] /\ owner \in [Features -> 0..NextIdx] /\ NextIdx \in Nat
  BY <1>2, <1>3, CollectFacts
<1>7. \A i \in DOMAIN inputs : Owned(i)' = Owned(i)
  BY <1>2, <1>3 DEF Owned
<1>8. Owned(NextIdx)' = run.uniq \cup {f}
  BY <1>3, <1>4 DEF IInv, Collected, Owned
<1>9. /\ \A g \in Features \ {f} : sizes'[g] = sizes[g] /\ owner'[g] = owner[g]
      /\ sizes'[f] = SizeOf[run.unit] /\ owner'[f] = NextIdx
      /\ \A g \in Features : sizes[g] # 0 => g # f
  BY <1>2, <1>3, <1>6
<1>10. /\ run' \in RunType /\ run'.unit = run.unit /\ run'.from = run.from /\ run'.ii = run.ii
       /\ run'.todo = run.todo \ {f} /\ run'.uniq = run.uniq \cup {f}
       /\ run'.found \in 0..(IF run'.ii = 0 THEN 0 ELSE Cardinality(inputs'[run'.ii].uniq))
       /\ Counted'
  <2> DEFINE uniq == run.uniq \cup {f}
  <2>1. /\ uniq \in SUBSET Features /\ UNCHANGED <<pc, options, base>>
        /\ DOMAIN inputs' = DOMAIN inputs
    BY <1>1, <1>3, <1>6, RunTypes
  <2>2. \A i \in DOMAIN inputs : inputs'[i].uniq = inputs[i].uniq /\ inputs'[i].never = inputs[i].never
    BY <1>1
  <2>3. run' = [unit |-> run.unit, from |-> run.from, ii |-> run.ii, todo |-> run.todo \ {f},
                uniq |-> uniq, found |-> run.found + Counts(f)]
    BY <1>3
  <2>4. pc = "feature" /\ run.todo # {} /\ f = Min(run.todo)
    BY <1>2, <1>3
  <2>5. /\ run' \in RunType /\ run'.unit = run.unit /\ run'.from = run.from /\ run'.ii = run.ii
        /\ run'.todo = run.todo \ {f} /\ run'.uniq = uniq
        /\ run'.found \in 0..(IF run'.ii = 0 THEN 0 ELSE Cardinality(inputs'[run'.ii].uniq))
        /\ Counted'
    <3> HIDE DEF uniq
    <3> QED  BY <2>1, <2>2, <2>3, <2>4, CollectRun
  <2> QED  BY <2>5
<1>11. TypeOK'
  BY <1>1, <1>3, <1>4, <1>5, <1>10 DEF TypeOK
<1>12. Ownership'
  BY <1>1, <1>3, <1>4, <1>7 DEF IInv, OwnersRight, Ownership
<1>13. OwnersHave'
  <2>1. ASSUME NEW g \in Features, sizes'[g] # 0, g # f
        PROVE  IF owner[g] = NextIdx THEN g \in run.uniq
                 ELSE owner[g] \in Live /\ g \in FeaturesOf[inputs[owner[g]].unit]
    BY <1>9, <2>1 DEF IInv, OwnersRight, OwnersHave
  <2> QED  BY <1>1, <1>3, <1>4, <1>9, <1>10, <2>1 DEF OwnersHave
<1>14. SmallestOwner'
  <2>1. ASSUME options.shrink, NEW i \in Live
        PROVE  /\ ~inputs[i].reduced
               /\ ~Fake(i) => \A g \in FeaturesOf[inputs[i].unit] :
                    /\ sizes'[g] \in 1..SizeOf[inputs[i].unit]
                    /\ owner'[g] = i => sizes'[g] = SizeOf[inputs[i].unit]
    <3>1. i \in DOMAIN inputs /\ inputs[i].unit \in Units
      BY <2>1, InputTypes DEF IInv, OwnersRight
    <3>2. ASSUME ~Fake(i), NEW g \in FeaturesOf[inputs[i].unit] PROVE g \in Features \ {f}
      BY <1>9, <3>1, <3>2 DEF IInv, AddedFor
    <3>3. /\ ~inputs[i].reduced
          /\ ~Fake(i) => \A g \in FeaturesOf[inputs[i].unit] :
               /\ sizes[g] \in 1..SizeOf[inputs[i].unit]
               /\ owner[g] = i => sizes[g] = SizeOf[inputs[i].unit]
      BY <2>1 DEF IInv, OwnersRight, SmallestOwner
    <3> QED  BY <1>9, <3>2, <3>3
  <2> QED  BY <1>1, <1>3, <1>4, <2>1 DEF SmallestOwner
<1>15. Collected'
  <2>1. /\ run'.todo \subseteq FeaturesOf[run.unit]
        /\ run'.uniq \subseteq FeaturesOf[run.unit] \ run'.todo
        /\ \A g \in run.uniq : sizes[g] = SizeOf[run.unit] /\ g \in Features
    BY <1>3, <1>6, <1>10 DEF IInv, Collected
  <2>2. \A g \in run'.uniq : sizes'[g] = SizeOf[run.unit]
    BY <1>6, <1>9, <1>10, <2>1
  <2> QED  BY <1>3, <1>4, <1>8, <1>10, <2>1, <2>2 DEF IInv, Collected
<1>16. AddedFor'
  <2>1. \A i \in DOMAIN inputs : inputs[i].uniq \subseteq Features
    BY <1>5, InputTypes
  <2>2. ASSUME NEW i \in Live, ~Fake(i)
        PROVE  \A g \in FeaturesOf[inputs[i].unit] : sizes'[g] # 0
    <3>1. i \in DOMAIN inputs /\ inputs[i].unit \in Units
      BY <2>2, InputTypes DEF IInv, OwnersRight
    <3>2. \A g \in FeaturesOf[inputs[i].unit] : g \in Features /\ sizes[g] # 0
      BY <2>2, <3>1 DEF IInv, AddedFor
    <3> QED  BY <1>9, <3>2
  <2>3. ASSUME NEW i \in DOMAIN inputs, ~Fake(i)
        PROVE  \A g \in inputs[i].uniq : sizes'[g] # 0
    BY <1>6, <1>9, <2>1, <2>3 DEF IInv, AddedFor
  <2>4. ASSUME NEW i \in DOMAIN inputs PROVE Owned(i)' \subseteq inputs[i].uniq
    BY <1>7, <2>4, ZenonT(40) DEF IInv, AddedFor
  <2>5. ASSUME NEW i \in DOMAIN inputs, Fake(i)
        PROVE  inputs[i] = NewInput(NewLine, 1, {0}, TRUE, FALSE) /\ Owned(i)' = {}
    BY <1>7, <2>5 DEF IInv, AddedFor
  <2>6. ASSUME NEW i \in DOMAIN inputs, i \notin Live \/ (~options.keep /\ ~Fake(i))
        PROVE  inputs[i].uniq # {}
    BY <2>6 DEF IInv, AddedFor
  <2> QED  BY <1>1, <1>3, <1>4, <2>2, <2>3, <2>4, <2>5, <2>6 DEF AddedFor
<1>17. BaseRight'
  BY <1>1, <1>3, <1>4, <1>10 DEF IInv, BaseRight, Seeding
<1>18. OneUnitEach'
  BY <1>1, <1>3, <1>4 DEF IInv, OneUnitEach
<1>19. TakesOnce'
  <2>1. \A i \in Live : inputs[i].unit = run.unit => Fake(i)
    BY <1>2, <1>3, <1>6, TakerIsNew
  <2> QED  BY <1>1, <1>3, <1>4, <1>10, <2>1 DEF IInv, TakesOnce, Seeding
<1>20. FilesKept' /\ KeptSeeds'
  BY <1>1, <1>3, <1>4, <1>10 DEF IInv, FilesKept, SharedWhenReplaced, KeptSeeds
<1> QED
  BY <1>10, <1>11, <1>12, <1>13, <1>14, <1>15, <1>16, <1>17, <1>18, <1>19, <1>20 DEF IInv,
     OwnersRight

(* ... and one of a larger input, which loses it and is evicted when it    *)
(* was the last one.                                                       *)
(* The file that goes is not needed by another input.                      *)
Loses(f, j) ==
  /\ options.shrink /\ j \in Live /\ j \in DOMAIN inputs /\ ~Fake(j) /\ f \in Owned(j)
  /\ inputs' \in Seq(InputType) /\ DOMAIN inputs' = DOMAIN inputs /\ Len(inputs') = Len(inputs)
  /\ \A i \in DOMAIN inputs : i # j => inputs'[i] = inputs[i]
  /\ inputs'[j].uniq = inputs[j].uniq /\ inputs'[j].never = inputs[j].never
  /\ inputs'[j].reduced = inputs[j].reduced /\ inputs'[j].num = inputs[j].num - 1
  /\ inputs'[j].mayDelete = inputs[j].mayDelete /\ gone' = gone
  /\ inputs'[j].unit = (IF inputs[j].num = 1 THEN NoUnit ELSE inputs[j].unit)
  /\ \/ files' = files
     \/ /\ inputs[j].num = 1 /\ files' = files \ {inputs[j].unit}
        /\ \A i \in Live \ {j} : inputs[i].unit # inputs[j].unit
  /\ SizeOf[run.unit] < SizeOf[inputs[j].unit]
  /\ inputs[j].num \in Nat \ {0} /\ Cardinality(Owned(j) \ {f}) = inputs[j].num - 1
  /\ inputs[j].num = 1 => Owned(j) = {f}

LEMMA LoserFacts ==
  ASSUME IInv, CollectFeature, NEW f, f = Min(run.todo), Takes(f), sizes[f] # 0,
         NEW j, j = owner[f]
  PROVE  Loses(f, j)
<1> USE InputCorpusAssumption
<1>1. pc = "feature" /\ run.todo # {}
  BY DEF CollectFeature
<1>2. /\ f \in Features /\ f \in FeaturesOf[run.unit] /\ f \notin run.uniq /\ sizes[f] \in Nat
      /\ owner \in [Features -> 0..NextIdx]
  BY <1>1, CollectFacts
<1>3. sizes[f] > 0 /\ DropFeature(j)
  BY <1>2 DEF CollectFeature
<1>4. options.shrink
  BY DEF Takes
<1>5. j \in Live /\ j \in DOMAIN inputs /\ f \in Owned(j)
  BY <1>1, <1>2 DEF IInv, OwnersRight, OwnersHave, Owned, Live
<1>6. ~Fake(j)
  BY <1>5 DEF IInv, AddedFor
<1>7. /\ inputs \in Seq(InputType) /\ inputs[j] \in InputType /\ inputs[j].num \in Nat
      /\ Len(inputs) \in Nat /\ DOMAIN inputs = 1..Len(inputs)
  BY <1>5, InputTypes DEF IInv, OwnersRight
<1>8. inputs[j].num = Cardinality(Owned(j))
  BY <1>5, <1>6 DEF IInv, OwnersRight, Ownership
<1>9. IsFiniteSet(Owned(j)) /\ Cardinality(Owned(j) \ {f}) = inputs[j].num - 1
  <2>1. IsFiniteSet(Owned(j))
    BY OwnedFinite
  <2>2. Cardinality(Owned(j) \ {f}) = Cardinality(Owned(j)) - 1
    <3>1. Owned(j) \in SUBSET Features /\ f \in Owned(j)
      BY <1>5 DEF Owned
    <3> QED  BY <3>1, OneFewer
  <2> QED  BY <1>8, <2>1, <2>2
<1>10. inputs[j].num # 0
  BY <1>5, <1>8, <1>9, FS_EmptySet
<1>11. inputs[j].num = 1 => Owned(j) = {f}
  <2>1. SUFFICES ASSUME inputs[j].num = 1 PROVE Owned(j) \ {f} = {}
    BY <1>5
  <2>2. IsFiniteSet(Owned(j) \ {f}) /\ Cardinality(Owned(j) \ {f}) = 0
    BY <1>9, <2>1, FS_Subset
  <2> QED  BY <2>2, FS_EmptySet
<1> DEFINE r == [inputs[j] EXCEPT !.num = @ - 1, !.unit = IF inputs[j].num = 1 THEN NoUnit ELSE @]
<1>12. /\ r.uniq = inputs[j].uniq /\ r.never = inputs[j].never /\ r.reduced = inputs[j].reduced
       /\ r.mayDelete = inputs[j].mayDelete
       /\ r.num = inputs[j].num - 1 /\ r.unit = (IF inputs[j].num = 1 THEN NoUnit ELSE inputs[j].unit)
  BY <1>7 DEF InputType
<1>13. r \in InputType
  <2>1. inputs[j].num - 1 \in Nat
    BY <1>7, <1>10
  <2> QED  BY <1>7, <2>1 DEF InputType
<1>14. inputs' = [inputs EXCEPT ![j] = r]
  BY <1>3, <1>5, <1>7 DEF DropFeature, LastFeature, InputType
<1>15. /\ inputs' \in Seq(InputType) /\ DOMAIN inputs' = DOMAIN inputs /\ Len(inputs') = Len(inputs)
       /\ inputs'[j] = r /\ \A i \in DOMAIN inputs : i # j => inputs'[i] = inputs[i]
  <2> HIDE DEF r
  <2> QED  BY <1>5, <1>7, <1>13, <1>14
<1>17. inputs[j].unit \in Units /\ sizes[f] = SizeOf[inputs[j].unit] /\ SizeOf[run.unit] < sizes[f]
  <2>1. inputs[j].unit \in Units /\ f \in FeaturesOf[inputs[j].unit]
    BY <1>1, <1>5, InputTypes DEF IInv, OwnersRight, OwnersHave, Owned
  <2>2. sizes[f] = SizeOf[inputs[j].unit]
    BY <1>4, <1>5, <1>6, <2>1 DEF IInv, OwnersRight, SmallestOwner
  <2>3. SizeOf[run.unit] < sizes[f]
    BY <1>1, <1>2, CollectFacts DEF Takes
  <2> QED  BY <2>1, <2>2, <2>3
<1>18. inputs[j].mayDelete => \A i \in Live \ {j} : inputs[i].unit # inputs[j].unit
  <2>1. SUFFICES ASSUME inputs[j].mayDelete, NEW i \in Live \ {j}, inputs[i].unit = inputs[j].unit
                 PROVE  FALSE
    OBVIOUS
  <2>2. ~inputs[j].never
    BY <1>5, <2>1 DEF IInv, KeptSeeds
  <2>3. Fake(i)
    BY <1>4, <1>5, <1>6, <2>1, <2>2 DEF IInv, OneUnitEach, NothingReplaced
  <2>4. inputs[j].unit = NewLine
    BY <2>1, <2>3 DEF IInv, AddedFor, NewInput, Live
  <2>5. run.unit \in Units /\ SizeOf[run.unit] \in Nat /\ SizeOf[NewLine] \in Nat
    BY <1>1, CollectFacts
  <2> QED  BY <1>17, <2>4, <2>5
<1>16. /\ gone' = gone
       /\ \/ files' = files
          \/ /\ inputs[j].num = 1 /\ files' = files \ {inputs[j].unit}
             /\ \A i \in Live \ {j} : inputs[i].unit # inputs[j].unit
  <2>1. CASE inputs[j].num # 1
    BY <1>3, <2>1 DEF DropFeature, LastFeature
  <2>2. CASE inputs[j].num = 1
    <3>1. DeleteFile(j)
      BY <1>3, <2>2 DEF DropFeature, LastFeature
    <3>2. CASE ~inputs[j].mayDelete
      BY <3>1, <3>2 DEF DeleteFile
    <3>3. CASE inputs[j].mayDelete
      <4>1. files' = files \ (files \cap {inputs[j].unit})
        BY <3>1, <3>3 DEF DeleteFile
      <4>2. gone' = gone \cup ((files \cap {inputs[j].unit}) \cap {inputs[i].unit : i \in Live \ {j}})
        BY <3>1, <3>3 DEF DeleteFile
      <4>3. inputs[j].unit \notin {inputs[i].unit : i \in Live \ {j}}
        BY <1>18, <3>3
      <4> QED  BY <1>18, <2>2, <3>3, <4>1, <4>2, <4>3
    <3> QED  BY <3>2, <3>3
  <2> QED  BY <2>1, <2>2
<1> HIDE DEF r
<1> QED
  BY <1>4, <1>5, <1>6, <1>7, <1>9, <1>10, <1>11, <1>12, <1>15, <1>16, <1>17 DEF Loses

LEMMA TakenInv ==
  ASSUME IInv, CollectFeature, Takes(Min(run.todo)), sizes[Min(run.todo)] # 0
  PROVE  IInv'
<1> USE InputCorpusAssumption
<1>0. PICK f : f = Min(run.todo)
  OBVIOUS
<1>1. PICK j : f = Min(run.todo) /\ Takes(f) /\ sizes[f] # 0 /\ j = owner[f]
  BY <1>0
<1>2. /\ options.shrink /\ j \in Live /\ j \in DOMAIN inputs /\ ~Fake(j) /\ f \in Owned(j)
      /\ inputs' \in Seq(InputType) /\ DOMAIN inputs' = DOMAIN inputs /\ Len(inputs') = Len(inputs)
      /\ \A i \in DOMAIN inputs : i # j => inputs'[i] = inputs[i]
      /\ inputs'[j].uniq = inputs[j].uniq /\ inputs'[j].never = inputs[j].never
      /\ inputs'[j].reduced = inputs[j].reduced /\ inputs'[j].num = inputs[j].num - 1
      /\ inputs'[j].mayDelete = inputs[j].mayDelete /\ gone' = gone
      /\ inputs'[j].unit = (IF inputs[j].num = 1 THEN NoUnit ELSE inputs[j].unit)
      /\ \/ files' = files
         \/ /\ inputs[j].num = 1 /\ files' = files \ {inputs[j].unit}
            /\ \A i \in Live \ {j} : inputs[i].unit # inputs[j].unit
      /\ SizeOf[run.unit] < SizeOf[inputs[j].unit]
      /\ inputs[j].num \in Nat \ {0} /\ Cardinality(Owned(j) \ {f}) = inputs[j].num - 1
      /\ inputs[j].num = 1 => Owned(j) = {f}
  <2>1. Loses(f, j)
    BY <1>1, LoserFacts
  <2> QED  BY <2>1 DEF Loses
<1>3. /\ owner' = [owner EXCEPT ![f] = NextIdx] /\ owner' \in [Features -> 0..NextIdx]
      /\ sizes' = [sizes EXCEPT ![f] = SizeOf[run.unit]] /\ sizes' \in [Features -> Nat]
      /\ run' = [unit |-> run.unit, from |-> run.from, ii |-> run.ii, todo |-> run.todo \ {f},
                 uniq |-> run.uniq \cup {f}, found |-> run.found + Counts(f)]
      /\ UNCHANGED <<options, pc, toLoad, hashes, unread, others, pending, base, depth, seeds, fake>>
      /\ pc = "feature" /\ run.todo # {}
      /\ \A i \in DOMAIN inputs : {g \in Features : sizes'[g] # 0 /\ owner'[g] = i} = Owned(i) \ {f}
      /\ {g \in Features : sizes'[g] # 0 /\ owner'[g] = NextIdx} = Owned(NextIdx) \cup {f}
      /\ \A g \in FeaturesOf[run.unit] \ (run.todo \ {f}) :
           sizes'[g] # 0 /\ (options.shrink => sizes'[g] <= SizeOf[run.unit])
  BY <1>1, TakenTables
<1>4. /\ UNCHANGED <<NextIdx, NothingReplaced>> /\ (\A i : Fake(i)' <=> Fake(i)) /\ NothingReplaced
      /\ pc = "feature"
  BY <1>2, <1>3 DEF NextIdx, NothingReplaced, Fake
<1>5. /\ TypeOK /\ inputs \in Seq(InputType) /\ Len(inputs) \in Nat /\ DOMAIN inputs = 1..Len(inputs)
      /\ \A i \in Live : i \in DOMAIN inputs /\ inputs[i].unit \in Units
      /\ NextIdx \notin DOMAIN inputs
      /\ \A i \in DOMAIN inputs : inputs[i].uniq \subseteq Features
  BY InputTypes DEF IInv, OwnersRight
<1>6. /\ f \in run.todo /\ f \in Features /\ f \in FeaturesOf[run.unit] /\ f \notin run.uniq
      /\ run.unit \in Units /\ SizeOf[run.unit] \in Nat \ {0} /\ run \in RunType
      /\ \A g \in Features : sizes[g] \in Nat
      /\ sizes \in [Features -> Nat] /\ owner \in [Features -> 0..NextIdx] /\ NextIdx \in Nat
  BY <1>1, <1>3, CollectFacts
<1>7. /\ \A i \in DOMAIN inputs : Owned(i)' = Owned(i) \ {f}
      /\ \A i \in DOMAIN inputs : i # j => f \notin Owned(i)
  BY <1>1, <1>3 DEF Owned
<1>8. Owned(NextIdx)' = run.uniq \cup {f}
  BY <1>3, <1>4 DEF IInv, Collected, Owned
<1>9. /\ \A g \in Features \ {f} : sizes'[g] = sizes[g] /\ owner'[g] = owner[g]
      /\ sizes'[f] = SizeOf[run.unit] /\ owner'[f] = NextIdx
      /\ SizeOf[run.unit] < sizes[f]
  BY <1>1, <1>3, <1>6 DEF Takes
<1>10. /\ run' \in RunType /\ run'.unit = run.unit /\ run'.from = run.from /\ run'.ii = run.ii
       /\ run'.todo = run.todo \ {f} /\ run'.uniq = run.uniq \cup {f}
       /\ run'.found \in 0..(IF run'.ii = 0 THEN 0 ELSE Cardinality(inputs'[run'.ii].uniq))
       /\ Counted'
  <2> DEFINE uniq == run.uniq \cup {f}
  <2>1. /\ uniq \in SUBSET Features /\ UNCHANGED <<pc, options, base>>
        /\ DOMAIN inputs' = DOMAIN inputs
    BY <1>2, <1>3, <1>6, RunTypes
  <2>2. \A i \in DOMAIN inputs : inputs'[i].uniq = inputs[i].uniq /\ inputs'[i].never = inputs[i].never
    BY <1>2
  <2>3. run' = [unit |-> run.unit, from |-> run.from, ii |-> run.ii, todo |-> run.todo \ {f},
                uniq |-> uniq, found |-> run.found + Counts(f)]
    BY <1>3
  <2>4. pc = "feature" /\ run.todo # {} /\ f = Min(run.todo)
    BY <1>1, <1>3
  <2>5. /\ run' \in RunType /\ run'.unit = run.unit /\ run'.from = run.from /\ run'.ii = run.ii
        /\ run'.todo = run.todo \ {f} /\ run'.uniq = uniq
        /\ run'.found \in 0..(IF run'.ii = 0 THEN 0 ELSE Cardinality(inputs'[run'.ii].uniq))
        /\ Counted'
    <3> HIDE DEF uniq
    <3> QED  BY <2>1, <2>2, <2>3, <2>4, CollectRun
  <2> QED  BY <2>5
<1>11. /\ \A i \in Live' : i \in Live /\ inputs'[i].unit = inputs[i].unit
       /\ \A i \in Live : i \in Live' \/ (i = j /\ inputs[j].num = 1)
       /\ inputs[j].num = 1 => j \notin Live'
       /\ \A i \in Live' : inputs'[i].reduced = inputs[i].reduced
       /\ \A i \in DOMAIN inputs : inputs'[i].never = inputs[i].never
  BY <1>2, <1>5 DEF Live
<1>12. TypeOK'
  <2>1. files' \subseteq Units /\ gone' \subseteq Units /\ SeedList' = SeedList
    BY <1>2, <1>3, <1>5 DEF TypeOK, SeedList
  <2>2. run'.ii \in 0..Len(inputs') /\ base' \in 0..Len(inputs')
    BY <1>2, <1>3, <1>5, <1>10 DEF TypeOK
  <2> QED  BY <1>2, <1>3, <1>4, <1>5, <1>10, <2>1, <2>2 DEF TypeOK
<1>13. Ownership'
  <2>1. ASSUME NEW i \in DOMAIN inputs, i # j
        PROVE  /\ ~Fake(i) => inputs'[i].num = Cardinality(Owned(i)')
               /\ inputs'[i].num = 0 <=> (i \notin Live' \/ (inputs'[i].never /\ inputs'[i].uniq = {}))
    <3>1. Owned(i)' = Owned(i)
      <4>1. Owned(i)' = Owned(i) \ {f} /\ f \notin Owned(i)
        BY <1>7, <2>1
      <4> QED  BY <4>1
    <3>2. inputs'[i] = inputs[i] /\ (i \in Live' <=> i \in Live)
      BY <1>2, <1>11, <2>1
    <3> QED  BY <2>1, <3>1, <3>2 DEF IInv, OwnersRight, Ownership
  <2>2. /\ inputs'[j].num = Cardinality(Owned(j)')
        /\ inputs'[j].num = 0 <=> (j \notin Live' \/ (inputs'[j].never /\ inputs'[j].uniq = {}))
    <3>1. inputs'[j].num = Cardinality(Owned(j)')
      <4>1. Owned(j)' = Owned(j) \ {f}
        BY <1>2, <1>7
      <4>2. Cardinality(Owned(j)') = Cardinality(Owned(j) \ {f})
        BY <4>1
      <4> QED  BY <1>2, <4>2
    <3>2. inputs'[j].num = 0 <=> inputs[j].num = 1
      BY <1>2
    <3>3. inputs'[j].uniq # {}
      BY <1>2 DEF IInv, AddedFor
    <3> QED  BY <1>2, <1>11, <3>1, <3>2, <3>3
  <2>3. \A i \in DOMAIN inputs :
          /\ ~Fake(i) => inputs'[i].num = Cardinality(Owned(i)')
          /\ inputs'[i].num = 0 <=> (i \notin Live' \/ (inputs'[i].never /\ inputs'[i].uniq = {}))
    BY <2>1, <2>2
  <2>4. DOMAIN inputs' = DOMAIN inputs /\ \A i : Fake(i)' <=> Fake(i)
    BY <1>2, <1>4
  <2> QED  BY <2>3, <2>4 DEF Ownership
<1>14. OwnersHave'
  <2>1. ASSUME NEW g \in Features, sizes'[g] # 0, g # f, owner[g] # NextIdx
        PROVE  owner[g] \in Live' /\ g \in FeaturesOf[inputs'[owner[g]].unit]
    <3>1. owner[g] \in Live /\ g \in FeaturesOf[inputs[owner[g]].unit] /\ g \in Owned(owner[g])
      BY <1>9, <2>1 DEF IInv, OwnersRight, OwnersHave, Owned
    <3>2. owner[g] \in Live'
      BY <1>2, <1>11, <2>1, <3>1
    <3> QED  BY <1>11, <3>1, <3>2
  <2>2. ASSUME NEW g \in Features, sizes'[g] # 0, g # f, owner[g] = NextIdx
        PROVE  g \in run.uniq
    BY <1>9, <2>2 DEF IInv, OwnersRight, OwnersHave
  <2> QED  BY <1>3, <1>4, <1>9, <1>10, <2>1, <2>2 DEF OwnersHave
<1>15. SmallestOwner'
  <2>1. ASSUME NEW i \in Live', ~Fake(i), NEW g \in FeaturesOf[inputs[i].unit]
        PROVE  /\ sizes'[g] \in 1..SizeOf[inputs[i].unit]
               /\ owner'[g] = i => sizes'[g] = SizeOf[inputs[i].unit]
    <3>1. i \in Live /\ i \in DOMAIN inputs /\ inputs[i].unit \in Units /\ g \in Features
      BY <1>5, <1>11, <2>1
    <3>2. /\ sizes[g] \in 1..SizeOf[inputs[i].unit] /\ SizeOf[inputs[i].unit] \in Nat
          /\ owner[g] = i => sizes[g] = SizeOf[inputs[i].unit]
      BY <1>2, <2>1, <3>1 DEF IInv, OwnersRight, SmallestOwner
    <3>3. CASE g # f
      BY <1>9, <3>1, <3>2, <3>3
    <3>4. CASE g = f
      BY <1>5, <1>6, <1>9, <3>1, <3>2, <3>4
    <3> QED  BY <3>3, <3>4
  <2>2. \A i \in Live' : ~inputs'[i].reduced
    BY <1>2, <1>11 DEF IInv, OwnersRight, SmallestOwner
  <2> QED  BY <1>4, <1>11, <2>1, <2>2 DEF SmallestOwner
<1>16. Collected'
  <2>1. /\ run'.todo \subseteq FeaturesOf[run.unit]
        /\ run'.uniq \subseteq FeaturesOf[run.unit] \ run'.todo
        /\ \A g \in run.uniq : sizes[g] = SizeOf[run.unit] /\ g \in Features
    BY <1>3, <1>6, <1>10 DEF IInv, Collected
  <2>2. \A g \in run'.uniq : sizes'[g] = SizeOf[run.unit]
    BY <1>6, <1>9, <1>10, <2>1
  <2> QED  BY <1>3, <1>4, <1>8, <1>10, <2>1, <2>2 DEF IInv, Collected
<1>17. AddedFor'
  <2>1. ASSUME NEW i \in Live', ~Fake(i)
        PROVE  \A g \in FeaturesOf[inputs[i].unit] : sizes'[g] # 0
    <3>1. i \in Live /\ i \in DOMAIN inputs /\ inputs[i].unit \in Units
      BY <1>5, <1>11, <2>1
    <3>2. \A g \in FeaturesOf[inputs[i].unit] : g \in Features /\ sizes[g] # 0
      BY <2>1, <3>1 DEF IInv, AddedFor
    <3> QED  BY <1>6, <1>9, <3>2
  <2>2. ASSUME NEW i \in DOMAIN inputs, ~Fake(i)
        PROVE  \A g \in inputs[i].uniq : sizes'[g] # 0
    BY <1>5, <1>6, <1>9, <2>2 DEF IInv, AddedFor
  <2>3. ASSUME NEW i \in DOMAIN inputs PROVE Owned(i)' \subseteq inputs[i].uniq
    <3>1. Owned(i)' = Owned(i) \ {f} /\ Owned(i) \subseteq inputs[i].uniq
      BY <1>7, <2>3 DEF IInv, AddedFor
    <3> QED  BY <3>1
  <2>4. ASSUME NEW i \in DOMAIN inputs, Fake(i)
        PROVE  inputs'[i] = NewInput(NewLine, 1, {0}, TRUE, FALSE) /\ Owned(i)' = {}
    BY <1>2, <1>7, <2>4 DEF IInv, AddedFor
  <2>5. ASSUME NEW i \in DOMAIN inputs, i \notin Live' \/ (~options.keep /\ ~Fake(i))
        PROVE  inputs[i].uniq # {}
    <3>1. CASE i = j
      BY <1>2, <3>1 DEF IInv, AddedFor
    <3>2. CASE i # j
      BY <1>11, <2>5, <3>2 DEF IInv, AddedFor
    <3> QED  BY <3>1, <3>2
  <2>6. \A i \in DOMAIN inputs : inputs'[i].uniq = inputs[i].uniq
    BY <1>2
  <2> QED  BY <1>2, <1>3, <1>4, <1>11, <2>1, <2>2, <2>3, <2>4, <2>5, <2>6, ZenonT(40) DEF AddedFor
<1>18. BaseRight'
  <2>1. inputs # <<>> /\ inputs' # <<>>
    BY <1>2, <1>5
  <2> QED  BY <1>2, <1>3, <1>4, <1>10, <2>1 DEF IInv, BaseRight, Seeding
<1>19. OneUnitEach'
  BY <1>3, <1>4, <1>5, <1>11 DEF IInv, OneUnitEach
<1>20. TakesOnce'
  <2>1. \A i \in Live : inputs[i].unit = run.unit => Fake(i)
    BY <1>1, <1>3, <1>6, TakerIsNew
  <2>2. \A i \in Live' : i \in Live /\ inputs'[i].unit = inputs[i].unit
    BY <1>11
  <2>3. Seeding' => Seeding
    BY <1>3, <1>10 DEF Seeding
  <2>4. DOMAIN inputs' = DOMAIN inputs /\ \A i \in DOMAIN inputs : inputs'[i].never = inputs[i].never
    BY <1>2, <1>11
  <2> QED  BY <1>3, <1>4, <1>10, <2>1, <2>2, <2>3, <2>4 DEF IInv, TakesOnce
<1>21. FilesKept'
  <2>1. inputs[j].unit \in hashes
    BY <1>2, <1>4 DEF IInv, OneUnitEach
  <2>2. \A u \in Kept : u \in Kept' \/ (u = inputs[j].unit /\ files' # files)
    BY <1>2, <1>3 DEF Kept, OnDisk, Elsewhere, SeedList
  <2>3. pending' \ hashes' \subseteq Kept'
    BY <1>3, <2>1, <2>2 DEF IInv, FilesKept
  <2>4. run.unit # inputs[j].unit
    BY <1>2, <1>5, <1>6
  <2>5. /\ run'.from \in {"seed", "reload"} => run'.unit \in Kept'
        /\ run'.from = "reload" => run'.unit \notin hashes'
    BY <1>3, <1>10, <2>2, <2>4 DEF IInv, FilesKept
  <2>6. ASSUME NEW i \in Live', ~Fake(i) PROVE inputs'[i].unit \in Kept'
    <3>1. i \in Live /\ inputs'[i].unit = inputs[i].unit /\ inputs[i].unit \in Kept
      BY <1>3, <1>11, <2>6 DEF IInv, FilesKept
    <3>2. files' # files => i # j
      BY <1>2, <1>11, <2>6
    <3> QED  BY <1>2, <2>2, <3>1, <3>2
  <2>7. SharedWhenReplaced'
    BY <1>2, <1>3, <1>4 DEF IInv, FilesKept, SharedWhenReplaced
  <2>8. pending' # {} => run'.from = "reload"
    BY <1>3, <1>10 DEF IInv, FilesKept
  <2>9. pc' = "feature" /\ \A i : Fake(i)' <=> Fake(i)
    BY <1>3, <1>4
  <2> QED  BY <2>3, <2>5, <2>6, <2>7, <2>8, <2>9 DEF FilesKept
<1>22. KeptSeeds'
  <2>1. \A i \in DOMAIN inputs : /\ inputs'[i].uniq = inputs[i].uniq
                                /\ inputs'[i].never = inputs[i].never
                                /\ inputs'[i].mayDelete = inputs[i].mayDelete
    BY <1>2
  <2>2. DOMAIN inputs' = DOMAIN inputs /\ options' = options /\ seeds' = seeds
    BY <1>2, <1>3
  <2> QED  BY <2>1, <2>2 DEF IInv, KeptSeeds
<1> QED
  BY <1>10, <1>12, <1>13, <1>14, <1>15, <1>16, <1>17, <1>18, <1>19, <1>20, <1>21, <1>22 DEF IInv,
     OwnersRight

LEMMA CollectFeatureInv ==
  ASSUME IInv, CollectFeature
  PROVE  IInv'
<1>1. CASE ~Takes(Min(run.todo))
  BY <1>1, RefusedInv
<1>2. CASE Takes(Min(run.todo)) /\ sizes[Min(run.todo)] = 0
  BY <1>2, FreshInv
<1>3. CASE Takes(Min(run.todo)) /\ sizes[Min(run.todo)] # 0
  BY <1>3, TakenInv
<1> QED  BY <1>1, <1>2, <1>3

LEMMA NewInputFacts ==
  ASSUME NEW u \in Units, NEW k \in Nat, NEW S \in SUBSET Features, NEW m \in BOOLEAN, NEW v \in BOOLEAN
  PROVE  /\ NewInput(u, k, S, m, v) \in InputType
         /\ NewInput(u, k, S, m, v).unit = u /\ NewInput(u, k, S, m, v).num = k
         /\ NewInput(u, k, S, m, v).uniq = S /\ (NewInput(u, k, S, m, v).never <=> v)
         /\ ~NewInput(u, k, S, m, v).reduced /\ (NewInput(u, k, S, m, v).mayDelete <=> m)
BY DEF NewInput, InputType

(* What an addition changes in the tables; the seed that is forced into    *)
(* the corpus without a feature is one of -keep_seed.                      *)
Added(n) ==
  /\ n = NextIdx /\ n \in Nat \ {0} /\ n \notin DOMAIN inputs /\ NextIdx' = n + 1
  /\ inputs' \in Seq(InputType) /\ DOMAIN inputs' = DOMAIN inputs \cup {n} /\ Len(inputs') = n
  /\ \A i \in DOMAIN inputs : inputs'[i] = inputs[i]
  /\ inputs'[n].unit = run.unit /\ inputs'[n].num = Cardinality(run.uniq)
  /\ inputs'[n].uniq = run.uniq /\ ~inputs'[n].reduced
  /\ inputs'[n].never <=> Forced
  /\ inputs'[n].mayDelete <=> run.from = "mutation"
  /\ run.uniq = {} => Forced
  /\ Live' = Live \cup {n} /\ ~Fake(n)

LEMMA AddedFacts ==
  ASSUME IInv, AddToCorpus, NEW n, n = NextIdx
  PROVE  Added(n)
<1> USE InputCorpusAssumption
<1> DEFINE new == NewInput(run.unit, Cardinality(run.uniq), run.uniq, run.from = "mutation", Forced)
<1>1. pc = "feature" /\ Adds /\ inputs' = Append(inputs, new)
  BY DEF AddToCorpus
<1>2. /\ inputs \in Seq(InputType) /\ Len(inputs) \in Nat /\ DOMAIN inputs = 1..Len(inputs)
      /\ n = Len(inputs) + 1 /\ run \in RunType /\ run.unit \in Units
  BY <1>1, InputTypes DEF IInv, OwnersRight, TypeOK, Collected, NextIdx
<1>3. run.uniq \in SUBSET Features /\ Cardinality(run.uniq) \in Nat
  BY <1>2, RunTypes, FeaturesFinite
<1>4. (run.from = "mutation") \in BOOLEAN /\ Forced \in BOOLEAN
  BY DEF Forced
<1>5. /\ new \in InputType /\ new.unit = run.unit /\ new.num = Cardinality(run.uniq) /\ new.uniq = run.uniq
      /\ (new.never <=> Forced) /\ ~new.reduced /\ (new.mayDelete <=> run.from = "mutation")
  <2>1. \A m \in BOOLEAN, v \in BOOLEAN :
          LET x == NewInput(run.unit, Cardinality(run.uniq), run.uniq, m, v)
          IN /\ x \in InputType /\ x.unit = run.unit /\ x.num = Cardinality(run.uniq) /\ x.uniq = run.uniq
             /\ (x.never <=> v) /\ ~x.reduced /\ (x.mayDelete <=> m)
    <3>1. TAKE m \in BOOLEAN, v \in BOOLEAN
    <3> QED  BY <1>2, <1>3, NewInputFacts
  <2> QED  BY <1>4, <2>1, Zenon
<1> HIDE DEF new
<1>6. /\ inputs' \in Seq(InputType) /\ Len(inputs') = n /\ inputs'[n] = new
      /\ DOMAIN inputs' = DOMAIN inputs \cup {n} /\ \A i \in DOMAIN inputs : inputs'[i] = inputs[i]
  BY <1>1, <1>2, <1>5
<1>7. run.uniq = {} => Forced
  BY <1>1 DEF Adds
<1>8. n \in Nat \ {0} /\ n \notin DOMAIN inputs /\ NextIdx' = n + 1
  BY <1>2, <1>6 DEF NextIdx
<1>9. Live' = Live \cup {n}
  BY <1>2, <1>5, <1>6, <1>8 DEF Live
<1>10. ~Fake(n)
  BY <1>2 DEF IInv, BaseRight, Fake
<1> QED  BY <1>5, <1>6, <1>7, <1>8, <1>9, <1>10 DEF Added

LEMMA AddToCorpusInv ==
  ASSUME IInv, AddToCorpus
  PROVE  IInv'
<1> USE InputCorpusAssumption
<1>1. PICK n : n = NextIdx
  OBVIOUS
<1>2. Added(n)
  BY <1>1, AddedFacts
<1>3. /\ pc = "feature" /\ run.todo = {} /\ Adds /\ hashes' = hashes \cup {run.unit}
      /\ UNCHANGED <<options, toLoad, sizes, owner, files, unread, others, gone, pending, base, depth, seeds, fake>>
  BY DEF AddToCorpus, diskVars
<1>4. /\ run.from = "seed" => pc' = "seeds" /\ run' = NoRun
      /\ run.from = "reload" => pc' = "reload" /\ run' = NoRun
      /\ run.from = "mutation" => pc' = "report" /\ run' = run
      /\ run.from \in {"seed", "mutation", "reload"} /\ run.unit \in Units
  BY <1>3, AfterRun DEF AddToCorpus
<1>5. /\ TypeOK /\ Len(inputs) \in Nat /\ DOMAIN inputs = 1..Len(inputs)
      /\ \A i \in Live : i \in DOMAIN inputs /\ inputs[i].unit \in Units
      /\ run \in RunType /\ sizes \in [Features -> Nat] /\ owner \in [Features -> 0..NextIdx]
  BY InputTypes DEF IInv, OwnersRight, TypeOK
<1>6. /\ run.uniq = Owned(n) /\ run.uniq \subseteq FeaturesOf[run.unit] /\ FeaturesOf[run.unit] \subseteq Features
      /\ \A f \in FeaturesOf[run.unit] :
           sizes[f] # 0 /\ (options.shrink => sizes[f] <= SizeOf[run.unit])
      /\ \A f \in run.uniq : sizes[f] = SizeOf[run.unit]
      /\ SizeOf[run.unit] \in Nat \ {0}
  BY <1>1, <1>3, <1>4 DEF IInv, Collected
<1>7. /\ UNCHANGED <<NothingReplaced, Kept, SeedList>> /\ (\A i : Fake(i)' <=> Fake(i)) /\ \A i : Owned(i)' = Owned(i)
  BY <1>3 DEF NothingReplaced, Kept, OnDisk, Elsewhere, SeedList, Fake, Owned
<1>8. TypeOK'
  <2>1. run' \in RunType /\ run'.ii \in 0..Len(inputs')
        /\ run'.found \in 0..(IF run'.ii = 0 THEN 0 ELSE Cardinality(inputs'[run'.ii].uniq))
    <3>1. CASE run' = run
      <4>1. run.ii \in 0..Len(inputs) /\ Len(inputs') = Len(inputs) + 1
        BY <1>1, <1>2, <1>5 DEF TypeOK, Added, NextIdx
      <4>2. run.ii # 0 => inputs'[run.ii] = inputs[run.ii]
        BY <1>2, <1>5, <4>1 DEF Added
      <4> QED  BY <1>5, <3>1, <4>1, <4>2 DEF TypeOK
    <3>2. CASE run' = NoRun
      BY <1>2, <3>2, NoRunType DEF Added
    <3> QED  BY <1>4, <3>1, <3>2
  <2>2. base' \in 0..Len(inputs') /\ owner' \in [Features -> 0..NextIdx']
    BY <1>1, <1>2, <1>3, <1>5 DEF TypeOK, Added, NextIdx
  <2>3. pc' \in {"seeds", "loop", "mutate", "reload", "feature", "report", "exited", "aborted"}
    BY <1>4
  <2>4. inputs' \in Seq(InputType) /\ hashes' \subseteq Units
    BY <1>2, <1>3, <1>4, <1>5 DEF TypeOK, Added
  <2> QED  BY <1>3, <1>5, <1>7, <2>1, <2>2, <2>3, <2>4 DEF TypeOK
<1>9. Ownership'
  <2>1. inputs'[n].num = Cardinality(Owned(n)) /\ (inputs'[n].num = 0 <=> inputs'[n].never /\ inputs'[n].uniq = {})
    <3>1. inputs'[n].num = Cardinality(run.uniq) /\ inputs'[n].uniq = run.uniq /\ (run.uniq = {} => inputs'[n].never)
      BY <1>2, Zenon DEF Added
    <3>2. Cardinality(run.uniq) = 0 <=> run.uniq = {}
      BY <1>6, OwnedFinite, FS_EmptySet
    <3> QED  BY <1>6, <3>1, <3>2
  <2>2. ASSUME NEW i \in DOMAIN inputs
        PROVE  /\ ~Fake(i) => inputs'[i].num = Cardinality(Owned(i))
               /\ inputs'[i].num = 0 <=> (i \notin Live' \/ (inputs'[i].never /\ inputs'[i].uniq = {}))
    <3>1. inputs'[i] = inputs[i] /\ (i \in Live' <=> i \in Live)
      BY <1>2, <2>2 DEF Added
    <3> QED  BY <2>2, <3>1 DEF IInv, OwnersRight, Ownership
  <2>3. DOMAIN inputs' = DOMAIN inputs \cup {n} /\ n \in Live'
    BY <1>2 DEF Added
  <2> QED  BY <1>7, <2>1, <2>2, <2>3 DEF Ownership
<1>10. OwnersHave'
  <2>1. ASSUME NEW f \in Features, sizes[f] # 0
        PROVE  owner[f] # n + 1 /\ owner[f] \in Live' /\ f \in FeaturesOf[inputs'[owner[f]].unit]
    <3>1. owner[f] # n + 1
      BY <1>1, <1>2, <1>5 DEF Added
    <3>2. CASE owner[f] = n
      BY <1>2, <1>6, <2>1, <3>2 DEF Added, Owned
    <3>3. CASE owner[f] # n
      BY <1>1, <1>2, <1>5, <2>1, <3>3 DEF Added, IInv, OwnersRight, OwnersHave
    <3> QED  BY <3>1, <3>2, <3>3
  <2> QED  BY <1>2, <1>3, <2>1 DEF OwnersHave, Added
<1>11. SmallestOwner'
  <2>1. ASSUME options.shrink, NEW f \in FeaturesOf[run.unit]
        PROVE  sizes[f] \in 1..SizeOf[run.unit] /\ (owner[f] = n => sizes[f] = SizeOf[run.unit])
    <3>1. sizes[f] \in Nat \ {0} /\ sizes[f] <= SizeOf[run.unit]
      BY <1>5, <1>6, <2>1
    <3> QED  BY <1>6, <3>1 DEF Owned
  <2>2. ASSUME options.shrink, NEW i \in Live
        PROVE  /\ ~inputs'[i].reduced
               /\ ~Fake(i) => \A f \in FeaturesOf[inputs'[i].unit] :
                    /\ sizes[f] \in 1..SizeOf[inputs'[i].unit]
                    /\ owner[f] = i => sizes[f] = SizeOf[inputs'[i].unit]
    <3>1. inputs'[i] = inputs[i]
      BY <1>2, <1>5, <2>2 DEF Added
    <3> QED  BY <2>2, <3>1 DEF IInv, OwnersRight, SmallestOwner
  <2>3. Live' = Live \cup {n} /\ inputs'[n].unit = run.unit /\ ~inputs'[n].reduced
    BY <1>2 DEF Added
  <2> QED  BY <1>3, <1>7, <2>1, <2>2, <2>3 DEF SmallestOwner
<1>12. Collected'
  <2>1. Owned(n + 1) = {}
    <3>1. \A f \in Features : owner[f] # n + 1
      BY <1>1, <1>2, <1>5 DEF Added
    <3> QED  BY <3>1 DEF Owned
  <2>2. NextIdx' = n + 1 /\ pc' # "feature"
    BY <1>2, <1>4 DEF Added
  <2>3. Owned(NextIdx)' = {}
    BY <1>3, <2>1, <2>2 DEF Owned
  <2> QED  BY <2>2, <2>3 DEF Collected
<1>13. Counted'
  <2>1. CASE run' = run
    <3>1. run.ii # 0 => run.ii \in DOMAIN inputs
      BY <1>5 DEF TypeOK
    <3>2. run.ii # 0 => inputs'[run.ii] = inputs[run.ii]
      BY <1>2, <3>1 DEF Added
    <3>3. pc' = "report" => run.from = "mutation"
      BY <1>4
    <3> QED  BY <1>3, <1>4, <2>1, <3>2, <3>3 DEF IInv, Counted
  <2>2. CASE run' = NoRun /\ pc' \in {"seeds", "reload"}
    BY <2>2, NoRunType DEF Counted
  <2> QED  BY <1>4, <2>1, <2>2
<1>14. AddedFor'
  <2>1. ASSUME NEW i \in DOMAIN inputs
        PROVE  /\ Owned(i) \subseteq inputs'[i].uniq
               /\ Fake(i) => inputs'[i] = NewInput(NewLine, 1, {0}, TRUE, FALSE) /\ Owned(i) = {}
               /\ ~Fake(i) => \A f \in inputs'[i].uniq : sizes[f] # 0
               /\ i \notin Live' \/ (~options.keep /\ ~Fake(i)) => inputs'[i].uniq # {}
               /\ i \in Live' /\ ~Fake(i) => \A f \in FeaturesOf[inputs'[i].unit] : sizes[f] # 0
    <3>1. inputs'[i] = inputs[i] /\ (i \in Live' <=> i \in Live)
      BY <1>2, <2>1 DEF Added
    <3> QED  BY <2>1, <3>1 DEF IInv, AddedFor
  <2>2. /\ Owned(n) = inputs'[n].uniq /\ ~Fake(n) /\ (\A f \in inputs'[n].uniq : sizes[f] # 0)
        /\ n \in Live' /\ (~options.keep => inputs'[n].uniq # {})
        /\ \A f \in FeaturesOf[inputs'[n].unit] : sizes[f] # 0
    BY <1>2, <1>6 DEF Added, Forced
  <2>3. DOMAIN inputs' = DOMAIN inputs \cup {n}
    BY <1>2 DEF Added
  <2> QED  BY <1>3, <1>7, <2>1, <2>2, <2>3 DEF AddedFor
<1>15. BaseRight'
  <2>1. inputs' # <<>>
    BY <1>2 DEF Added
  <2> QED  BY <1>3, <1>4, <2>1 DEF IInv, BaseRight, Seeding
<1>16. OneUnitEach'
  <2>1. ASSUME NothingReplaced, NEW i \in Live, inputs[i].unit = run.unit
        PROVE  Fake(i) \/ (inputs[i].never /\ inputs'[n].never)
    <3>1. CASE run.uniq = {}
      <4>1. Forced /\ inputs'[n].never
        BY <1>2, <3>1, Zenon DEF Added
      <4>2. Seeding /\ options.keep /\ seeds.list # <<>>
        BY <1>3, <4>1 DEF Seeding, Forced
      <4>3. inputs[i].never
        BY <1>5, <2>1, <4>2 DEF IInv, TakesOnce
      <4> QED  BY <4>1, <4>3
    <3>2. CASE run.uniq # {}
      BY <1>3, <2>1, <3>2 DEF IInv, TakesOnce
    <3> QED  BY <3>1, <3>2
  <2>2. Live' = Live \cup {n} /\ inputs'[n].unit = run.unit /\ \A i \in Live : inputs'[i] = inputs[i]
    BY <1>2, <1>5 DEF Added
  <2>3. ASSUME NothingReplaced, NEW i \in Live', NEW k \in Live', inputs'[i].unit = inputs'[k].unit
        PROVE  i = k \/ Fake(i) \/ Fake(k) \/ (inputs'[i].never /\ inputs'[k].never)
    <3>1. CASE i = n /\ k = n
      BY <3>1
    <3>2. CASE i = n /\ k # n
      <4>1. k \in Live /\ inputs'[k] = inputs[k] /\ inputs[k].unit = run.unit
        BY <2>2, <2>3, <3>2
      <4> QED  BY <2>1, <2>3, <3>2, <4>1
    <3>3. CASE i # n /\ k = n
      <4>1. i \in Live /\ inputs'[i] = inputs[i] /\ inputs[i].unit = run.unit
        BY <2>2, <2>3, <3>3
      <4> QED  BY <2>1, <2>3, <3>3, <4>1
    <3>4. CASE i # n /\ k # n
      <4>1. i \in Live /\ k \in Live /\ inputs'[i] = inputs[i] /\ inputs'[k] = inputs[k]
        BY <2>2, <2>3, <3>4
      <4> QED  BY <2>3, <4>1 DEF IInv, OneUnitEach
    <3> QED  BY <3>1, <3>2, <3>3, <3>4
  <2>4. ASSUME NothingReplaced, NEW i \in Live' PROVE inputs'[i].unit \in hashes'
    BY <1>3, <2>2, <2>4 DEF IInv, OneUnitEach
  <2> QED  BY <1>7, <2>3, <2>4 DEF OneUnitEach
<1>17. TakesOnce'
  <2>1. ASSUME Seeding', options.keep, seeds.list # <<>>, NEW i \in DOMAIN inputs'
        PROVE  inputs'[i].never
    <3>1. run.from = "seed" /\ Forced /\ Seeding
      BY <1>3, <1>4, <2>1 DEF Seeding, Forced
    <3>2. CASE i = n
      BY <1>2, <3>1, <3>2, Zenon DEF Added
    <3>3. CASE i # n
      <4>1. i \in DOMAIN inputs /\ inputs'[i] = inputs[i]
        BY <1>2, <2>1, <3>3 DEF Added
      <4> QED  BY <2>1, <3>1, <4>1 DEF IInv, TakesOnce
    <3> QED  BY <3>2, <3>3
  <2>2. pc' # "feature"
    BY <1>4
  <2> QED  BY <1>3, <2>1, <2>2 DEF TakesOnce
<1>18. FilesKept'
  <2>1. Live' = Live \cup {n} /\ inputs'[n].unit = run.unit /\ \A i \in Live : inputs'[i] = inputs[i]
    BY <1>2, <1>5 DEF Added
  <2>2. run.unit \in Kept \/ (pc' = "report" /\ run' = run /\ run.from = "mutation")
    BY <1>3, <1>4 DEF IInv, FilesKept
  <2>3. \A i \in Live : ~Fake(i) => inputs[i].unit \in Kept
    BY <1>3 DEF IInv, FilesKept
  <2>4. pending \ hashes' \subseteq Kept
    BY <1>3 DEF IInv, FilesKept
  <2>5. pending # {} => pc' = "reload"
    BY <1>3, <1>4 DEF IInv, FilesKept
  <2>6. SharedWhenReplaced'
    BY <1>3, <1>7 DEF IInv, FilesKept, SharedWhenReplaced
  <2>7. pc' \notin {"feature", "exited"}
    BY <1>4
  <2>8. ASSUME NEW i \in Live', ~Fake(i)
        PROVE  \/ inputs'[i].unit \in Kept
               \/ pc' = "report" /\ run'.from = "mutation" /\ inputs'[i].unit = run'.unit
    <3>1. CASE i = n
      BY <2>1, <2>2, <3>1
    <3>2. CASE i # n
      BY <2>1, <2>3, <2>8, <3>2
    <3> QED  BY <3>1, <3>2
  <2> QED  BY <1>3, <1>7, <2>4, <2>5, <2>6, <2>7, <2>8 DEF FilesKept
<1>19. KeptSeeds'
  <2>1. /\ inputs'[n].uniq = {} => inputs'[n].never /\ options.keep /\ seeds.list # <<>>
        /\ inputs'[n].never => ~inputs'[n].mayDelete
    <3>1. Forced => run.from = "seed" /\ options.keep /\ seeds.list # <<>>
      BY DEF Forced
    <3>2. inputs'[n].uniq = {} => Forced
      BY <1>2 DEF Added
    <3>3. inputs'[n].never => ~inputs'[n].mayDelete
      <4>1. (inputs'[n].never <=> Forced) /\ (inputs'[n].mayDelete <=> run.from = "mutation")
        BY <1>2, Zenon DEF Added
      <4>2. Forced => run.from # "mutation"
        BY <3>1
      <4> QED  BY <4>1, <4>2, Zenon
    <3>4. Forced => inputs'[n].never
      BY <1>2, Zenon DEF Added
    <3> QED  BY <3>1, <3>2, <3>3, <3>4
  <2>2. DOMAIN inputs' = DOMAIN inputs \cup {n} /\ \A i \in DOMAIN inputs : inputs'[i] = inputs[i]
    BY <1>2 DEF Added
  <2> QED  BY <1>3, <2>1, <2>2 DEF IInv, KeptSeeds
<1> QED
  BY <1>8, <1>9, <1>10, <1>11, <1>12, <1>13, <1>14, <1>15, <1>16, <1>17, <1>18, <1>19 DEF IInv,
     OwnersRight

(* What a replacement needs: the unit has all the features the base was    *)
(* added for, and, being smaller, would have taken one of them with        *)
(* -shrink.                                                                *)
Replaced(k) ==
  /\ k = run.ii /\ k \in Live /\ k \in DOMAIN inputs /\ ~Fake(k)
  /\ ~NothingReplaced /\ ~options.shrink
  /\ run.from = "mutation" /\ base = k
  /\ inputs[k].uniq \subseteq FeaturesOf[run.unit]
  /\ inputs' \in Seq(InputType) /\ DOMAIN inputs' = DOMAIN inputs /\ Len(inputs') = Len(inputs)
  /\ \A i \in DOMAIN inputs :
       /\ i # k => inputs'[i] = inputs[i]
       /\ inputs'[i].uniq = inputs[i].uniq /\ inputs'[i].num = inputs[i].num
       /\ inputs'[i].never = inputs[i].never /\ inputs'[i].mayDelete = inputs[i].mayDelete
  /\ inputs'[k].unit = run.unit
  /\ Live' = Live

LEMMA ReplacedFacts ==
  ASSUME IInv, Replace, NEW k, k = run.ii
  PROVE  Replaced(k)
<1> USE InputCorpusAssumption
<1>1. /\ pc = "feature" /\ run.todo = {} /\ k # 0 /\ run.found > 0
      /\ run.found = Cardinality(inputs[k].uniq)
      /\ inputs[k].unit # NoUnit /\ SizeOf[inputs[k].unit] > SizeOf[run.unit]
      /\ inputs' = [inputs EXCEPT ![k].unit = run.unit, ![k].reduced = TRUE]
  BY DEF Replace, Reduces
<1>2. /\ TypeOK /\ inputs \in Seq(InputType) /\ Len(inputs) \in Nat /\ DOMAIN inputs = 1..Len(inputs)
      /\ run.ii \in 0..Len(inputs) /\ run.unit \in Units
      /\ SizeOf[run.unit] \in Nat /\ FeaturesOf[run.unit] \subseteq Features
      /\ SizeOf[run.unit] >= SizeOf[NewLine] /\ SizeOf[NewLine] \in Nat
  BY <1>1, InputTypes DEF IInv, OwnersRight, TypeOK, Collected
<1>3. k \in DOMAIN inputs /\ k \in Live
  BY <1>1, <1>2 DEF Live
<1>4. inputs[k] \in InputType /\ inputs[k].uniq \in SUBSET Features /\ inputs[k].unit \in Units
  BY <1>2, <1>3, InputTypes
<1>5. ~Fake(k)
  <2>1. SUFFICES ASSUME Fake(k) PROVE inputs[k].unit = NewLine
    BY <1>1, <1>2
  <2> QED  BY <1>3, <2>1 DEF IInv, AddedFor, NewInput
<1>6. run.from = "mutation" /\ base = k
  BY <1>1 DEF IInv, Counted
<1>7. options.reduce /\ run.found = Cardinality(inputs[k].uniq \cap (FeaturesOf[run.unit] \ run.todo))
  BY <1>1 DEF IInv, Counted
<1>8. inputs[k].uniq \subseteq FeaturesOf[run.unit]
  <2> DEFINE common == inputs[k].uniq \cap (FeaturesOf[run.unit] \ run.todo)
  <2>1. IsFiniteSet(inputs[k].uniq) /\ common \in SUBSET inputs[k].uniq
    BY <1>4, FeaturesFinite
  <2>2. Cardinality(common) = Cardinality(inputs[k].uniq)
    BY <1>1, <1>7
  <2>3. common = inputs[k].uniq
    <3> HIDE DEF common
    <3> QED  BY <2>1, <2>2, FS_Subset
  <2> QED  BY <2>3
<1>9. ~options.shrink
  <2>1. SUFFICES ASSUME options.shrink PROVE FALSE
    OBVIOUS
  <2>2. inputs[k].num # 0
    <3>1. inputs[k].uniq # {}
      <4>1. Cardinality(inputs[k].uniq) # 0 /\ Cardinality({}) = 0
        BY <1>1, FS_EmptySet
      <4> QED  BY <4>1
    <3> QED  BY <1>3, <3>1 DEF IInv, OwnersRight, Ownership
  <2>3. PICK g : g \in Owned(k)
    <3>1. Cardinality(Owned(k)) # 0
      BY <1>3, <1>5, <2>2 DEF IInv, OwnersRight, Ownership
    <3> QED  BY <3>1, FS_EmptySet
  <2>4. g \in Features /\ sizes[g] # 0 /\ owner[g] = k /\ g \in FeaturesOf[run.unit]
    BY <1>3, <1>8, <2>3 DEF Owned, IInv, AddedFor
  <2>5. k # NextIdx
    BY <1>3, InputTypes DEF IInv, OwnersRight
  <2>6. g \in FeaturesOf[inputs[k].unit]
    BY <2>4, <2>5 DEF IInv, OwnersRight, OwnersHave
  <2>7. sizes[g] = SizeOf[inputs[k].unit]
    BY <1>3, <1>5, <2>1, <2>4, <2>6 DEF IInv, OwnersRight, SmallestOwner
  <2>8. sizes[g] <= SizeOf[run.unit]
    BY <1>1, <2>1, <2>4 DEF IInv, Collected
  <2>9. SizeOf[inputs[k].unit] \in Nat
    BY <1>4
  <2> QED  BY <1>1, <1>2, <2>7, <2>8, <2>9
<1> DEFINE r == [inputs[k] EXCEPT !.unit = run.unit, !.reduced = TRUE]
<1>10. /\ r \in InputType /\ r.unit = run.unit /\ r.num = inputs[k].num
       /\ r.uniq = inputs[k].uniq /\ r.never = inputs[k].never /\ r.mayDelete = inputs[k].mayDelete
  BY <1>2, <1>4 DEF InputType
<1>11. inputs' = [inputs EXCEPT ![k] = r]
  BY <1>1, <1>2, <1>3, <1>4 DEF InputType
<1> HIDE DEF r
<1>12. /\ inputs' \in Seq(InputType) /\ DOMAIN inputs' = DOMAIN inputs /\ Len(inputs') = Len(inputs)
       /\ inputs'[k] = r /\ \A i \in DOMAIN inputs : i # k => inputs'[i] = inputs[i]
  BY <1>2, <1>3, <1>10, <1>11
<1>13. Live' = Live
  BY <1>1, <1>2, <1>3, <1>10, <1>12 DEF Live
<1>14. ~NothingReplaced
  BY <1>7, <1>9 DEF NothingReplaced
<1> QED  BY <1>3, <1>5, <1>6, <1>8, <1>9, <1>10, <1>12, <1>13, <1>14 DEF Replaced

LEMMA ReplaceInv ==
  ASSUME IInv, Replace
  PROVE  IInv'
<1> USE InputCorpusAssumption
<1>1. PICK k : k = run.ii
  OBVIOUS
<1>2. Replaced(k)
  BY <1>1, ReplacedFacts
<1>3. /\ pc = "feature" /\ run.todo = {} /\ ~Adds /\ run.uniq = {}
      /\ hashes' = (hashes \ {inputs[k].unit}) \cup {run.unit} /\ DeleteFile(k)
      /\ UNCHANGED <<options, toLoad, sizes, owner, unread, others, pending, base, depth, seeds, fake>>
  BY <1>1 DEF Replace, Adds
<1>4. run.from = "mutation" /\ pc' = "report" /\ run' = run /\ run.unit \in Units
  BY <1>2, <1>3, AfterRun DEF Replace, Replaced
<1>5. /\ TypeOK /\ Len(inputs) \in Nat /\ DOMAIN inputs = 1..Len(inputs)
      /\ \A i \in Live : i \in DOMAIN inputs /\ inputs[i].unit \in Units
      /\ run \in RunType /\ sizes \in [Features -> Nat] /\ owner \in [Features -> 0..NextIdx]
  BY InputTypes DEF IInv, OwnersRight, TypeOK
<1>6. \A f \in FeaturesOf[run.unit] : sizes[f] # 0
  BY <1>3 DEF IInv, Collected
<1>7. /\ UNCHANGED <<NothingReplaced, NextIdx, SeedList>> /\ (\A i : Fake(i)' <=> Fake(i)) /\ \A i : Owned(i)' = Owned(i)
  BY <1>2, <1>3 DEF NothingReplaced, NextIdx, SeedList, Fake, Owned, Replaced
<1>17. /\ files' \subseteq Units /\ gone' \subseteq Units
       /\ \A i \in Live \ {k} : inputs[i].unit \in Kept => inputs[i].unit \in Kept'
  <2> DEFINE removed == IF inputs[k].mayDelete THEN files \cap {inputs[k].unit} ELSE {}
             shared == removed \cap {inputs[i].unit : i \in Live \ {k}}
  <2>1. files' = files \ removed /\ gone' = gone \cup shared /\ removed \subseteq files
    BY <1>3 DEF DeleteFile
  <2>2. \A i \in Live \ {k} : inputs[i].unit \in removed => inputs[i].unit \in shared
    OBVIOUS
  <2>3. shared \subseteq removed
    OBVIOUS
  <2> HIDE DEF removed, shared
  <2>4. files \subseteq Units /\ gone \subseteq Units
    BY <1>5 DEF TypeOK
  <2>5. Elsewhere' = Elsewhere
    BY <1>3 DEF Elsewhere, SeedList
  <2> QED  BY <2>1, <2>2, <2>3, <2>4, <2>5 DEF Kept, OnDisk
<1>8. TypeOK'
  <2>1. inputs' \in Seq(InputType) /\ Len(inputs') = Len(inputs)
    BY <1>2 DEF Replaced
  <2>2. run'.found \in 0..(IF run'.ii = 0 THEN 0 ELSE Cardinality(inputs'[run'.ii].uniq))
    BY <1>1, <1>2, <1>4, <1>5 DEF TypeOK, Replaced
  <2> QED  BY <1>3, <1>4, <1>5, <1>7, <1>17, <2>1, <2>2 DEF TypeOK
<1>9. Ownership'
  <2>1. ASSUME NEW i \in DOMAIN inputs
        PROVE  /\ ~Fake(i) => inputs'[i].num = Cardinality(Owned(i))
               /\ inputs'[i].num = 0 <=> (i \notin Live \/ (inputs'[i].never /\ inputs'[i].uniq = {}))
    <3>1. inputs'[i].num = inputs[i].num /\ inputs'[i].uniq = inputs[i].uniq /\ inputs'[i].never = inputs[i].never
      BY <1>2, <2>1 DEF Replaced
    <3> QED  BY <2>1, <3>1 DEF IInv, OwnersRight, Ownership
  <2>2. DOMAIN inputs' = DOMAIN inputs /\ Live' = Live
    BY <1>2 DEF Replaced
  <2> QED  BY <1>7, <2>1, <2>2 DEF Ownership
<1>10. OwnersHave'
  <2>1. ASSUME NEW f \in Features, sizes[f] # 0
        PROVE  owner[f] # NextIdx /\ owner[f] \in Live /\ f \in FeaturesOf[inputs'[owner[f]].unit]
    <3>1. owner[f] # NextIdx /\ owner[f] \in Live /\ f \in FeaturesOf[inputs[owner[f]].unit]
          /\ f \in Owned(owner[f]) /\ owner[f] \in DOMAIN inputs
      BY <1>3, <1>5, <2>1 DEF IInv, OwnersRight, OwnersHave, Owned
    <3>2. CASE owner[f] = k
      BY <1>2, <3>1, <3>2 DEF Replaced, IInv, AddedFor
    <3>3. CASE owner[f] # k
      BY <1>2, <3>1, <3>3 DEF Replaced
    <3> QED  BY <3>1, <3>2, <3>3
  <2> QED  BY <1>2, <1>3, <1>7, <2>1 DEF OwnersHave, Replaced
<1>11. SmallestOwner' /\ OneUnitEach'
  BY <1>2, <1>3, <1>7 DEF SmallestOwner, OneUnitEach, Replaced
<1>12. Collected'
  BY <1>3, <1>4, <1>7 DEF IInv, Collected
<1>13. Counted'
  <2>1. inputs'[k].uniq = inputs[k].uniq /\ inputs'[k].never = inputs[k].never
    BY <1>2 DEF Replaced
  <2> QED  BY <1>1, <1>3, <1>4, <2>1 DEF IInv, Counted
<1>14. AddedFor'
  <2>1. ASSUME NEW i \in DOMAIN inputs
        PROVE  /\ Owned(i) \subseteq inputs'[i].uniq
               /\ Fake(i) => inputs'[i] = NewInput(NewLine, 1, {0}, TRUE, FALSE) /\ Owned(i) = {}
               /\ ~Fake(i) => \A f \in inputs'[i].uniq : sizes[f] # 0
               /\ i \notin Live \/ (~options.keep /\ ~Fake(i)) => inputs'[i].uniq # {}
               /\ i \in Live /\ ~Fake(i) => \A f \in FeaturesOf[inputs'[i].unit] : sizes[f] # 0
    <3>1. CASE i # k
      <4>1. inputs'[i] = inputs[i]
        BY <1>2, <2>1, <3>1 DEF Replaced
      <4> QED  BY <2>1, <4>1 DEF IInv, AddedFor
    <3>2. CASE i = k
      <4>1. ~Fake(i) /\ inputs'[i].uniq = inputs[i].uniq /\ inputs'[i].unit = run.unit
        BY <1>2, <2>1, <3>2 DEF Replaced
      <4> QED  BY <1>6, <2>1, <4>1 DEF IInv, AddedFor
    <3> QED  BY <3>1, <3>2
  <2>2. DOMAIN inputs' = DOMAIN inputs /\ Live' = Live
    BY <1>2 DEF Replaced
  <2> QED  BY <1>3, <1>7, <2>1, <2>2 DEF AddedFor
<1>15. BaseRight'
  <2>1. inputs' # <<>> /\ inputs # <<>>
    BY <1>2 DEF Replaced
  <2> QED  BY <1>3, <1>4, <2>1 DEF IInv, BaseRight, Seeding
<1>16. TakesOnce' /\ FilesKept' /\ KeptSeeds'
  <2>1. ~NothingReplaced' /\ ~Seeding'
    BY <1>2, <1>4, <1>7 DEF Replaced, Seeding
  <2>2. TakesOnce'
    BY <1>4, <2>1 DEF TakesOnce
  <2>3. pending' = {}
    BY <1>3, <1>4 DEF IInv, FilesKept
  <2>4. ASSUME NEW i \in Live, ~Fake(i), i # k PROVE inputs'[i].unit \in Kept'
    <3>1. inputs'[i] = inputs[i]
      BY <1>2, <1>5, <2>4 DEF Replaced
    <3>2. inputs[i].unit \in Kept
      BY <1>3, <2>4 DEF IInv, FilesKept
    <3> QED  BY <1>17, <2>4, <3>1, <3>2
  <2>5. Live' = Live /\ inputs'[k].unit = run.unit
    BY <1>2 DEF Replaced
  <2>6. FilesKept'
    BY <1>4, <1>7, <2>1, <2>3, <2>4, <2>5 DEF FilesKept, SharedWhenReplaced
  <2>7. DOMAIN inputs' = DOMAIN inputs /\ \A i \in DOMAIN inputs :
          /\ inputs'[i].uniq = inputs[i].uniq /\ inputs'[i].never = inputs[i].never
          /\ inputs'[i].mayDelete = inputs[i].mayDelete
    BY <1>2 DEF Replaced
  <2>8. KeptSeeds'
    BY <1>3, <2>7 DEF IInv, KeptSeeds
  <2> QED  BY <2>2, <2>6, <2>8
<1> QED  BY <1>8, <1>9, <1>10, <1>11, <1>12, <1>13, <1>14, <1>15, <1>16 DEF IInv, OwnersRight

LEMMA NextIInv == IInv /\ [Next]_vars => IInv'
<1> SUFFICES ASSUME IInv, [Next]_vars PROVE IInv'
  OBVIOUS
<1>1. CASE UNCHANGED vars
  <2>1. UNCHANGED <<options, corpusVars, seeds, fake>>
    BY <1>1 DEF vars
  <2>2. Ownership' /\ SmallestOwner' /\ AddedFor' /\ OneUnitEach' /\ KeptSeeds'
    BY <2>1, SameCorpus
  <2>3. UNCHANGED <<options, pc, toLoad, inputs, sizes, owner, hashes, files, unread, others, gone, pending,
                    run, base, depth, seeds, fake>>
    BY <1>1 DEF vars, corpusVars, diskVars
  <2>4. UNCHANGED <<Live, NextIdx, NothingReplaced, SeedList, Elsewhere, Weighted>>
    BY <2>1, SameCorpus
  <2>5. TypeOK' /\ OwnersHave'
    BY <2>3, <2>4 DEF IInv, OwnersRight, TypeOK, OwnersHave
  <2>6. Collected' /\ Counted'
    BY <2>3, <2>4 DEF IInv, Collected, Counted, Owned
  <2>7. BaseRight' /\ TakesOnce' /\ FilesKept'
    BY <2>3, <2>4 DEF IInv, BaseRight, TakesOnce, FilesKept, SharedWhenReplaced, Seeding, Kept,
       OnDisk, Fake
  <2> QED  BY <2>2, <2>5, <2>6, <2>7 DEF IInv, OwnersRight
<1>13. ASSUME NEW k \in DOMAIN SeedList, ExecuteSeed(k) PROVE IInv'
  BY <1>13, ExecuteSeedInv
<1>2. ASSUME NEW u \in Units, Mutate(u) \/ ReloadUnit(u) \/ OtherWrites(u) \/ OtherRemoves(u)
      PROVE  IInv'
  BY <1>2, MutateInv, ReloadUnitInv, OtherProcessInv
<1>3. CASE SeedsDone
  BY <1>3, SeedsDoneInv
<1>4. CASE ChooseUnitToMutate
  BY <1>4, ChooseUnitToMutateInv
<1>5. CASE MutationsDone
  BY <1>5, MutationsDoneInv
<1>6. CASE Reload \/ ReloadDone
  BY <1>6, ReloadInv
<1>7. CASE CollectFeature
  BY <1>7, CollectFeatureInv
<1>8. CASE AddToCorpus
  BY <1>8, AddToCorpusInv
<1>9. CASE Replace
  BY <1>9, ReplaceInv
<1>10. CASE NothingNew
  BY <1>10, NothingNewInv
<1>11. CASE ReportNewCoverage
  BY <1>11, ReportNewCoverageInv
<1>12. CASE Exit
  BY <1>12, ExitInv
<1>14. CASE DrawFails
  BY <1>14, DrawFailsInv
<1> QED
  BY <1>1, <1>2, <1>3, <1>4, <1>5, <1>6, <1>7, <1>8, <1>9, <1>10, <1>11, <1>12, <1>13, <1>14
  DEF Next, Exited
-----------------------------------------------------------------------------
(* The tables of the corpus agree in every state: IInv is inductive.       *)
THEOREM CorpusConsistent == Spec => []IInv
<1> QED  BY InitIInv, NextIInv, PTL DEF Spec

(* What counts as the smallest input with a feature is one, is in the      *)
(* corpus and has it, and NumFeatures counts what an input owns: the       *)
(* assertion of AddFeature holds for every option and any number of units. *)
THEOREM OwnersHold == Spec => []OwnersRight
<1>1. IInv => OwnersRight
  BY DEF IInv
<1> QED  BY <1>1, CorpusConsistent, PTL

(* Without a weight there is no feature, and the inputs are seeds that     *)
(* -keep_seed has forced into the corpus.                                  *)
LEMMA NoWeight ==
  ASSUME IInv, pc \in {"loop", "mutate", "aborted"}, Weighted = {}
  PROVE  /\ options.keep /\ seeds.list # <<>>
         /\ \A i \in DOMAIN inputs : inputs[i].never
         /\ \A f \in Features : sizes[f] = 0
<1>1. 1 \in DOMAIN inputs
  <2>1. inputs # <<>> /\ inputs \in Seq(InputType) /\ Len(inputs) \in Nat /\ DOMAIN inputs = 1..Len(inputs)
    BY InputTypes DEF IInv, OwnersRight, BaseRight, Seeding
  <2>2. Len(inputs) # 0
    BY <2>1
  <2> QED  BY <2>1, <2>2
<1>2. ASSUME NEW f \in Features PROVE sizes[f] = 0
  BY <1>2, OwnerHasWeight DEF Live, Weighted
<1>3. ASSUME NEW i \in DOMAIN inputs PROVE inputs[i].uniq = {}
  <2>1. ~Fake(i)
    <3>1. SUFFICES ASSUME Fake(i) PROVE inputs[i].num = 1
      BY <1>3 DEF Weighted
    <3> QED  BY <1>3, <3>1 DEF IInv, AddedFor, NewInput
  <2>2. inputs[i].uniq \subseteq Features
    BY <1>3, InputTypes DEF IInv, OwnersRight
  <2> QED  BY <1>2, <1>3, <2>1, <2>2 DEF IInv, AddedFor
<1> QED  BY <1>1, <1>2, <1>3 DEF IInv, KeptSeeds

(* ChooseUnitToMutate never draws an evicted input, and the one it draws   *)
(* stays in the corpus while it is mutated.  There is one to draw, except  *)
(* when -keep_seed has filled the corpus with seeds and nothing at all has *)
(* been found yet: the assertion fails then only.                          *)
THEOREM PickHolds == Spec => []AlwaysPickable
<1>1. IInv => AlwaysPickable
  <2> SUFFICES ASSUME IInv PROVE AlwaysPickable
    OBVIOUS
  <2>1. Weighted \subseteq Live
    BY DEF IInv, OwnersRight, Ownership, Weighted
  <2>2. (pc = "mutate" => base \in Live) /\ (pc = "aborted" => Weighted = {})
    BY DEF IInv, BaseRight
  <2> QED  BY <2>1, <2>2, NoWeight DEF AlwaysPickable
<1> QED  BY <1>1, CorpusConsistent, PTL

(* Whatever the seed files hold, no unit is in the corpus twice unless both*)
(* are seeds of -keep_seed, and each is known by its hash, as long as      *)
(* nothing is replaced: with -shrink nothing ever is.                      *)
THEOREM UnitsHold == Spec => []OneUnitEach
<1>1. IInv => OneUnitEach
  BY DEF IInv
<1> QED  BY <1>1, CorpusConsistent, PTL

LEMMA OwnersOnDisk == IInv => DiskCovers
<1>1. SUFFICES ASSUME IInv, NEW f \in Features, sizes[f] # 0, ~Unwritten(f)
               PROVE  f \in Covered(OnDisk \cup gone)
  BY DEF DiskCovers, IInv, FilesKept
<1>2. CASE owner[f] = NextIdx
  <2>1. pc \in {"feature", "exited"} /\ f \in run.uniq
    BY <1>1, <1>2 DEF IInv, OwnersRight, OwnersHave
  <2>2. run.from # "mutation"
    BY <1>1, <1>2, <2>1 DEF Unwritten
  <2>3. pc = "feature" => run.from \in {"seed", "reload"}
    BY <1>1, <2>2, RunTypes DEF IInv, OwnersRight, TypeOK, Collected
  <2>4. run.unit \in Kept \cap Units /\ f \in FeaturesOf[run.unit]
    BY <1>1, <2>1, <2>2, <2>3 DEF IInv, Collected, FilesKept
  <2> QED  BY <2>4, InputCorpusAssumption DEF Covered, Kept
<1>3. CASE owner[f] # NextIdx
  <2>1. owner[f] \in Live /\ f \in FeaturesOf[inputs[owner[f]].unit] /\ f \in Owned(owner[f])
    BY <1>1, <1>3 DEF IInv, OwnersRight, OwnersHave, Owned
  <2>2. owner[f] \in DOMAIN inputs /\ inputs[owner[f]].unit # NoUnit
    BY <2>1 DEF Live
  <2>3. ~Fake(owner[f])
    BY <1>1, <2>1, <2>2 DEF IInv, AddedFor
  <2>4. inputs[owner[f]].unit \in Kept
    BY <1>1, <2>1, <2>3 DEF IInv, FilesKept, Unwritten
  <2> QED  BY <2>1, <2>2, <2>4 DEF Covered, Kept
<1> QED  BY <1>2, <1>3

(* Evictions, replacements and the deletion of their files lose no feature,*)
(* whenever the process is killed: only the features of a unit that waits  *)
(* for its report, and of files that others removed or two replaced inputs *)
(* had shared, may be on no disk.                                          *)
THEOREM CoverageKept == Spec => []DiskCovers
<1> QED  BY OwnersOnDisk, CorpusConsistent, PTL
=============================================================================
