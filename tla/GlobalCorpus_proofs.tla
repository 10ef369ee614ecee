------------------------ MODULE GlobalCorpus_proofs ------------------------
(* Proofs about GlobalCorpus for every set of contents and features.       *)
EXTENDS GlobalCorpus, FiniteSetTheorems, TLAPS

LEMMA OwnedFinite ==
  ASSUME NEW i
  PROVE  IsFiniteSet(Owned(i)) /\ Cardinality(Owned(i)) \in Nat
<1>1. IsFiniteSet(Owned(i))
  BY CorpusAssumption, FS_Subset DEF Owned
<1> QED  BY <1>1, FS_CardinalityType

LEMMA LiveFinite ==
  ASSUME inputs \in Seq(InputType)
  PROVE  IsFiniteSet(Live) /\ Cardinality(Live) \in Nat
<1>1. IsFiniteSet(1..Len(inputs))
  BY FS_Interval
<1>2. Live \in SUBSET (1..Len(inputs))
  BY DEF Live
<1>3. IsFiniteSet(Live)
  BY <1>1, <1>2, FS_Subset
<1> QED  BY <1>3, FS_CardinalityType

LEMMA InitInv == Init => CorpusInv
<1> SUFFICES ASSUME Init PROVE CorpusInv
  OBVIOUS
<1> USE CorpusAssumption DEF Init
<1>1. CorpusTypes
  <2>1. inputs \in Seq(InputType) /\ nonZero \in Seq(Features)
    OBVIOUS
  <2>2. cand \in CandType
    BY DEF CandType, NoCand
  <2> QED  BY <2>1, <2>2 DEF CorpusTypes, InputType
<1>2. ~Adding /\ Next1 = 1
  BY DEF Adding, NoCand, Next1
<1>3. OwnerOK
  BY <1>2 DEF OwnerOK
<1>4. CandOK
  BY <1>2 DEF CandOK
<1>5. Ownership /\ SmallestOwner /\ AddedOnce /\ LiveOnDisk /\ EvictOK
  BY DEF Ownership, SmallestOwner, AddedOnce, LiveOnDisk, Live, EvictOK
<1>6. LiveCount
  <2>1. Live \cup Victims = {} /\ GetLiveInputsSize = 0
    BY DEF Live, GetLiveInputsSize, Victims
  <2> QED  BY <2>1, FS_EmptySet DEF LiveCount
<1> QED  BY <1>1, <1>3, <1>4, <1>5, <1>6 DEF CorpusInv

(* Starting the loop over the features of a content leaves the tables      *)
(* alone; the candidate owns nothing yet.                                  *)
LEMMA OfferInv ==
  ASSUME CorpusInv, NEW c \in Contents, NEW b \in BOOLEAN, ~Adding, Offer(c, b),
         UNCHANGED corpusVars, toLoad' \in SUBSET InitialSeeds, mtx' \in {"load", "free", "merge"}
  PROVE  CorpusInv'
<1> USE CorpusAssumption
<1>1. CorpusTypes'
  BY DEF CorpusInv, CorpusTypes, Offer, corpusVars, CandType
<1>2. Owned(Next1) = {}
  BY DEF CorpusInv, OwnerOK, Owned
<1>3. UNCHANGED <<Next1, Owned(Next1), Live, Victims, GetLiveInputsSize>>
  BY DEF corpusVars, Next1, Owned, Live, Victims, GetLiveInputsSize
<1>4. OwnerOK'
  BY <1>3 DEF CorpusInv, OwnerOK, corpusVars
<1>5. CandOK'
  BY <1>2, <1>3, FS_EmptySet DEF Offer, CandOK, corpusVars
<1>6. Ownership'
  BY <1>3 DEF CorpusInv, Ownership, Owned, corpusVars
<1>7. SmallestOwner' /\ AddedOnce' /\ LiveOnDisk' /\ LiveCount'
  BY <1>3 DEF CorpusInv, SmallestOwner, AddedOnce, LiveOnDisk, LiveCount, corpusVars
<1>8. EvictOK'
  BY DEF CorpusInv, EvictOK, corpusVars
<1> QED  BY <1>1, <1>4, <1>5, <1>6, <1>7, <1>8 DEF CorpusInv

(* Steps that touch only Env.Mtx, the list of seeds to load or a creator.  *)
LEMMA OtherInv ==
  ASSUME CorpusInv, UNCHANGED <<corpusVars, cand>>,
         toLoad' \in SUBSET InitialSeeds, mtx' \in {"load", "free", "merge"}
  PROVE  CorpusInv'
<1>1. UNCHANGED <<Next1, Adding, Live, Victims, GetLiveInputsSize, Owned(Next1)>>
  BY DEF corpusVars, Next1, Adding, Live, Victims, GetLiveInputsSize, Owned
<1>2. CorpusTypes'
  BY DEF CorpusInv, CorpusTypes, corpusVars
<1>3. OwnerOK' /\ CandOK'
  BY <1>1 DEF CorpusInv, OwnerOK, CandOK, corpusVars
<1>4. Ownership'
  BY <1>1 DEF CorpusInv, Ownership, Owned, corpusVars
<1>5. SmallestOwner' /\ AddedOnce' /\ LiveOnDisk' /\ LiveCount'
  BY <1>1 DEF CorpusInv, SmallestOwner, AddedOnce, LiveOnDisk, LiveCount, corpusVars
<1>6. EvictOK'
  BY <1>1 DEF CorpusInv, EvictOK, Evicts, Takes, LastFeature, corpusVars
<1> QED  BY <1>2, <1>3, <1>4, <1>5, <1>6 DEF CorpusInv

(* The features a table of owners gives to one index.                      *)
Held(own, i) == {f \in Features : own[f] = i}

(* A feature whose owner changes leaves the set of the old owner and joins *)
(* that of the new one.                                                    *)
LEMMA HeldMoves ==
  ASSUME NEW own \in [Features -> Nat], NEW f \in Features, NEW n \in Nat, own[f] # n
  PROVE  /\ Cardinality(Held([own EXCEPT ![f] = n], n)) = Cardinality(Held(own, n)) + 1
         /\ Cardinality(Held([own EXCEPT ![f] = n], own[f])) = Cardinality(Held(own, own[f])) - 1
<1> DEFINE new == [own EXCEPT ![f] = n]
<1>1. f \notin Held(own, n) /\ f \in Held(own, own[f])
  BY DEF Held
<1>2. Held(new, n) = Held(own, n) \cup {f}
  BY DEF Held
<1>3. Held(new, own[f]) = Held(own, own[f]) \ {f}
  BY DEF Held
<1>4. \A i : IsFiniteSet(Held(own, i))
  BY CorpusAssumption, FS_Subset DEF Held
<1>5. Cardinality(Held(own, n) \cup {f}) = Cardinality(Held(own, n)) + 1
  BY <1>1, <1>4, FS_AddElement
<1>6. Cardinality(Held(own, own[f]) \ {f}) = Cardinality(Held(own, own[f])) - 1
  BY <1>1, <1>4, FS_RemoveElement
<1> QED  BY <1>2, <1>3, <1>5, <1>6

(* Nobody else's features change.                                          *)
LEMMA HeldStays ==
  ASSUME NEW own \in [Features -> Nat], NEW f \in Features, NEW n \in Nat,
         NEW i \in Nat, i # n, i # own[f]
  PROVE  Held([own EXCEPT ![f] = n], i) = Held(own, i)
BY DEF Held

(* The count of a feature stays within its width.                          *)
LEMMA FrequencyType ==
  ASSUME CorpusTypes, NEW f \in Features, UpdateFeatureFrequency(f)
  PROVE  freqs' \in [Features -> 0..MaxFreq] /\ nonZero' \in Seq(Features)
<1>1. CASE freqs[f] = MaxFreq
  BY <1>1 DEF UpdateFeatureFrequency, CorpusTypes
<1>2. CASE freqs[f] # MaxFreq
  <2>0. freqs[f] \in 0..MaxFreq /\ MaxFreq \in Nat
    BY CorpusAssumption DEF CorpusTypes
  <2>1. freqs[f] + 1 \in 0..MaxFreq /\ freqs' = [freqs EXCEPT ![f] = freqs[f] + 1]
    BY <1>2, <2>0 DEF UpdateFeatureFrequency
  <2>2. nonZero \in Seq(Features) /\ Append(nonZero, f) \in Seq(Features)
    BY DEF CorpusTypes
  <2>3. nonZero' \in Seq(Features)
    BY <1>2, <2>2 DEF UpdateFeatureFrequency
  <2> QED  BY <2>1, <2>3 DEF CorpusTypes
<1> QED  BY <1>1, <1>2

(* A feature that the candidate does not take leaves every table alone.    *)
LEMMA RefusedInv ==
  ASSUME CorpusInv, NEW f \in Features, AddFeature(f), ~Takes(f, SizeOf[cand.content])
  PROVE  CorpusInv'
<1> USE CorpusAssumption
<1>1. /\ Adding /\ f \in cand.todo /\ cand \in CandType /\ cand.content \in Contents
      /\ cand' = [cand EXCEPT !.todo = @ \ {f}]
      /\ evicting = {}
      /\ UNCHANGED <<inputs, disk, deleteNums, features, owner, sizeFor, evicting, toLoad, mtx>>
  BY DEF AddFeature, Evicts, CorpusInv, CorpusTypes, Adding, CandType
<1>2. CorpusTypes'
  <2>1. freqs' \in [Features -> 0..MaxFreq] /\ nonZero' \in Seq(Features)
    BY FrequencyType DEF AddFeature, CorpusInv
  <2>2. cand' \in CandType
    BY <1>1 DEF CandType
  <2> QED  BY <1>1, <2>1, <2>2 DEF CorpusInv, CorpusTypes
<1>3. sizeFor[f] \in 1..SizeOf[cand.content]
  BY <1>1 DEF Takes, CorpusInv, CorpusTypes
<1>4. UNCHANGED <<Next1, Adding, Live, Victims, GetLiveInputsSize, Owned(Next1)>>
  BY <1>1 DEF Next1, Adding, Live, Victims, GetLiveInputsSize, Owned, CandType
<1>5. OwnerOK'
  BY <1>1, <1>4 DEF CorpusInv, OwnerOK, CandType
<1>6. CandOK'
  BY <1>1, <1>3, <1>4 DEF CorpusInv, CandOK, CandType
<1>7. Ownership'
  BY <1>1, <1>4 DEF CorpusInv, Ownership, Owned
<1>8. SmallestOwner' /\ AddedOnce' /\ LiveOnDisk' /\ LiveCount' /\ EvictOK'
  BY <1>1, <1>4 DEF CorpusInv, SmallestOwner, AddedOnce, LiveOnDisk, LiveCount, EvictOK
<1> QED  BY <1>2, <1>5, <1>6, <1>7, <1>8 DEF CorpusInv

(* What a taken feature does to the tables, whoever owned it before.       *)
LEMMA TakenSizes ==
  ASSUME CorpusInv, NEW f \in Features, AddFeature(f), Takes(f, SizeOf[cand.content])
  PROVE  /\ Adding /\ f \in cand.todo /\ cand.content \in Contents
         /\ cand' = [cand EXCEPT !.todo = @ \ {f}, !.updates = @ + 1]
         /\ owner' = [owner EXCEPT ![f] = Next1]
         /\ sizeFor' = [sizeFor EXCEPT ![f] = SizeOf[cand.content]]
         /\ owner[f] # Next1
         /\ freqs' \in [Features -> 0..MaxFreq] /\ nonZero' \in Seq(Features)
         /\ cand' \in CandType
         /\ \A i \in DOMAIN inputs : inputs[i].content # cand.content
<1> USE CorpusAssumption
<1>1. /\ Adding /\ f \in cand.todo /\ cand \in CandType /\ cand.content \in Contents
      /\ cand' = [cand EXCEPT !.todo = @ \ {f}, !.updates = @ + 1]
      /\ owner' = [owner EXCEPT ![f] = Next1]
      /\ sizeFor' = [sizeFor EXCEPT ![f] = SizeOf[cand.content]]
  BY DEF AddFeature, CorpusInv, CorpusTypes, Adding, CandType
<1>2. freqs' \in [Features -> 0..MaxFreq] /\ nonZero' \in Seq(Features)
  BY FrequencyType DEF AddFeature, CorpusInv
<1>3. cand' \in CandType
  <2>1. /\ cand.todo \ {f} \in SUBSET Features /\ cand.updates + 1 \in Nat
        /\ cand.initial \in BOOLEAN
    BY <1>1 DEF CandType
  <2>2. cand' = [content |-> cand.content, initial |-> cand.initial,
                 todo |-> cand.todo \ {f}, updates |-> cand.updates + 1]
    BY <1>1 DEF CandType
  <2> QED  BY <1>1, <2>1, <2>2 DEF CandType
<1>4. owner[f] # Next1
  BY <1>1 DEF CorpusInv, OwnerOK
<1>5. \A i \in DOMAIN inputs : inputs[i].content # cand.content
  <2> SUFFICES ASSUME NEW i \in DOMAIN inputs, inputs[i].content = cand.content PROVE FALSE
    OBVIOUS
  <2>1. f \in FeaturesOf[inputs[i].content]
    BY <1>1 DEF CorpusInv, CandOK
  <2>2. sizeFor[f] \in 1..SizeOf[cand.content]
    BY <2>1 DEF CorpusInv, SmallestOwner
  <2> QED  BY <2>2, <1>1 DEF Takes
<1> QED  BY <1>1, <1>2, <1>3, <1>4, <1>5

(* A feature nobody had: only the candidate gains.                         *)
LEMMA FreshInv ==
  ASSUME CorpusInv, NEW f \in Features, AddFeature(f), sizeFor[f] = 0
  PROVE  CorpusInv'
<1> USE CorpusAssumption
<1>1. Takes(f, SizeOf[cand.content])
  BY DEF Takes
<1>2. /\ Adding /\ f \in cand.todo /\ cand.content \in Contents
      /\ cand' = [cand EXCEPT !.todo = @ \ {f}, !.updates = @ + 1]
      /\ owner' = [owner EXCEPT ![f] = Next1]
      /\ sizeFor' = [sizeFor EXCEPT ![f] = SizeOf[cand.content]]
      /\ owner[f] # Next1
      /\ freqs' \in [Features -> 0..MaxFreq] /\ nonZero' \in Seq(Features)
      /\ cand' \in CandType
      /\ \A i \in DOMAIN inputs : inputs[i].content # cand.content
  BY <1>1, TakenSizes
<1>3. /\ features' = features \cup {f} /\ evicting = {}
      /\ UNCHANGED <<inputs, disk, deleteNums, evicting, toLoad, mtx>>
  BY <1>1 DEF AddFeature, Takes, Evicts
<1>4. /\ inputs \in Seq(InputType) /\ owner \in [Features -> Nat] /\ sizeFor \in [Features -> Nat]
      /\ cand \in CandType /\ Next1 \in Nat /\ Next1 \notin DOMAIN inputs
      /\ owner[f] = 0 /\ SizeOf[cand.content] \in Nat \ {0}
  BY <1>2 DEF CorpusInv, CorpusTypes, OwnerOK, InputType, Next1
<1>5. UNCHANGED <<Next1, Adding, Live, Victims, GetLiveInputsSize>>
  BY <1>2, <1>3 DEF Next1, Adding, Live, Victims, GetLiveInputsSize, CandType
<1>6. /\ Cardinality(Owned(Next1))' = Cardinality(Owned(Next1)) + 1
      /\ \A i \in DOMAIN inputs : Owned(i)' = Owned(i)
  <2>1. /\ Cardinality(Held(owner', Next1)) = Cardinality(Held(owner, Next1)) + 1
        /\ \A i \in Nat : i # Next1 /\ i # owner[f] => Held(owner', i) = Held(owner, i)
    <3>1. /\ owner \in [Features -> Nat] /\ Next1 \in Nat
          /\ owner[f] # Next1 /\ owner' = [owner EXCEPT ![f] = Next1]
      BY <1>2, <1>4
    <3>2. Cardinality(Held(owner', Next1)) = Cardinality(Held(owner, Next1)) + 1
      BY <3>1, HeldMoves, ZenonT(40)
    <3>3. ASSUME NEW i \in Nat, i # Next1, i # owner[f]
          PROVE  Held(owner', i) = Held(owner, i)
      BY <3>1, <3>3 DEF Held
    <3> QED  BY <3>2, <3>3
  <2>2. \A i \in DOMAIN inputs : i \in Nat /\ i # 0 /\ i # Next1
    BY <1>4
  <2> QED  BY <2>1, <2>2, <1>4, <1>5 DEF Owned, Held
<1>7. CorpusTypes'
  BY <1>2, <1>3, <1>4 DEF CorpusInv, CorpusTypes
<1>8. OwnerOK'
  <2>1. f \in FeaturesOf[cand.content] /\ cand'.content = cand.content /\ cand'.todo = cand.todo \ {f}
    BY <1>2, <1>4 DEF CorpusInv, CandOK, CandType
  <2>2. ASSUME NEW g \in Features, g # f
        PROVE  /\ owner'[g] = owner[g] /\ sizeFor'[g] = sizeFor[g]
               /\ g \in features' <=> g \in features
    BY <1>2, <1>3, <1>4, <2>2
  <2>3. owner'[f] = Next1 /\ sizeFor'[f] = SizeOf[cand.content] /\ f \in features'
    BY <1>2, <1>3, <1>4
  <2>4. ASSUME NEW g \in Features PROVE OwnerOK!(g)'
    <3>1. CASE g = f
      BY <1>2, <1>3, <1>4, <1>5, <2>1, <2>3, <3>1
    <3>2. CASE g # f
      BY <1>2, <1>3, <1>4, <1>5, <2>1, <2>2, <3>2 DEF CorpusInv, OwnerOK
    <3> QED  BY <3>1, <3>2
  <2> QED  BY <2>4 DEF OwnerOK
<1>9. CandOK'
  BY <1>2, <1>3, <1>4, <1>5, <1>6 DEF CorpusInv, CandOK, CandType
<1>10. Ownership'
  BY <1>3, <1>5, <1>6 DEF CorpusInv, Ownership
<1>11. SmallestOwner'
  <2> SUFFICES ASSUME NEW i \in DOMAIN inputs, NEW g \in FeaturesOf[inputs[i].content]
               PROVE  SmallestOwner!(i)!(g)'
    BY <1>3 DEF SmallestOwner
  <2>1. inputs[i].content \in Contents /\ g \in Features
    <3>1. inputs[i] \in InputType
      BY <1>4
    <3> QED  BY <3>1 DEF InputType
  <2>3. sizeFor[g] \in 1..SizeOf[inputs[i].content]
    BY DEF CorpusInv, SmallestOwner
  <2>4. g # f
    BY <2>1, <2>3
  <2>2. owner'[g] = owner[g] /\ sizeFor'[g] = sizeFor[g]
    BY <1>2, <1>4, <2>1, <2>4
  <2> QED  BY <1>3, <2>2 DEF CorpusInv, SmallestOwner
<1>12. AddedOnce' /\ LiveOnDisk' /\ LiveCount' /\ EvictOK'
  BY <1>3, <1>5 DEF CorpusInv, AddedOnce, LiveOnDisk, LiveCount, EvictOK
<1> QED  BY <1>7, <1>8, <1>9, <1>10, <1>11, <1>12 DEF CorpusInv

(* The feature a smaller candidate takes has an owner, who has it counted. *)
LEMMA LoserExists ==
  ASSUME CorpusInv, NEW f \in Features, Adding, f \in cand.todo,
         Takes(f, SizeOf[cand.content]), sizeFor[f] # 0
  PROVE  LET p == owner[f] IN
         /\ p \in DOMAIN inputs /\ p # Next1
         /\ inputs[p] \in InputType /\ inputs[p].num \in Nat \ {0}
<1> DEFINE p == owner[f]
<1>1. /\ inputs \in Seq(InputType) /\ owner \in [Features -> Nat] /\ sizeFor \in [Features -> Nat]
      /\ Next1 = Len(inputs) + 1 /\ Len(inputs) \in Nat /\ DOMAIN inputs = 1..Len(inputs)
  BY DEF CorpusInv, CorpusTypes, Next1
<1>2. p \in DOMAIN inputs /\ p # Next1
  <2>1. owner[f] # Next1
    BY DEF CorpusInv, OwnerOK
  <2>2. owner[f] \in 0..Next1 /\ owner[f] # 0
    BY DEF CorpusInv, OwnerOK
  <2> QED  BY <1>1, <2>1, <2>2
<1>3. inputs[p] \in InputType
  BY <1>1, <1>2
<1>4. inputs[p].num \in Nat \ {0}
  <2>1. f \in Owned(p)
    BY DEF Owned
  <2>2. Cardinality(Owned(p)) # 0
    BY <2>1, OwnedFinite, FS_EmptySet
  <2>3. inputs[p].num = Cardinality(Owned(p))
    BY <1>2 DEF CorpusInv, Ownership
  <2>4. inputs[p].num \in Nat
    BY <1>3 DEF InputType
  <2> QED  BY <2>2, <2>3, <2>4
<1> QED  BY <1>2, <1>3, <1>4

(* The writes of DeleteInput, seen one by one: the feature under way stays *)
(* the last one of its owner.                                              *)
LEMMA EvictFileInv ==
  ASSUME CorpusInv, NEW f \in Features, EvictFile(f)
  PROVE  CorpusInv'
<1> USE CorpusAssumption
<1> DEFINE p == owner[f]
<1>1. /\ Adding /\ evicting = {} /\ evicting' = {f} /\ f \in cand.todo /\ Evicts(f)
      /\ disk' = IF inputs[p].initial THEN disk ELSE disk \ {inputs[p].content}
      /\ UNCHANGED <<inputs, sizeFor, owner, deleteNums, features, freqs, nonZero,
                     toLoad, mtx, cand>>
  BY DEF EvictFile, DeleteFile
<1>2. p \in DOMAIN inputs /\ inputs[p].num = 1
  <2>1. sizeFor[f] # 0 /\ Takes(f, SizeOf[cand.content]) /\ inputs[p].num = 1
    BY <1>1 DEF Evicts, LastFeature
  <2> QED  BY <1>1, <2>1, LoserExists
<1>3. p \in Live
  BY <1>1, <1>2 DEF CorpusInv, Ownership, Live, Victims
<1>4. Victims = {} /\ Victims' = {p}
  BY <1>1 DEF Victims
<1>5. UNCHANGED <<Next1, Adding, Live, GetLiveInputsSize, Owned(Next1)>>
  BY <1>1 DEF Next1, Adding, Live, GetLiveInputsSize, Owned
<1>6. CorpusTypes'
  BY <1>1 DEF CorpusInv, CorpusTypes
<1>7. OwnerOK' /\ CandOK'
  BY <1>1, <1>5 DEF CorpusInv, OwnerOK, CandOK
<1>8. Ownership'
  BY <1>1, <1>4 DEF CorpusInv, Ownership, Owned
<1>9. SmallestOwner' /\ AddedOnce'
  BY <1>1 DEF CorpusInv, SmallestOwner, AddedOnce
<1>10. LiveOnDisk'
  <2> SUFFICES ASSUME NEW i \in Live, i # p PROVE inputs[i].content \in disk'
    BY <1>1, <1>4, <1>5 DEF LiveOnDisk
  <2>1. inputs[i].content \in disk
    BY <1>4 DEF CorpusInv, LiveOnDisk
  <2>2. inputs[i].content # inputs[p].content
    BY <1>2 DEF CorpusInv, AddedOnce, Live
  <2> QED  BY <1>1, <2>1, <2>2
<1>11. LiveCount'
  <2>1. Live \cup Victims' = Live \cup Victims
    BY <1>3, <1>4
  <2> QED  BY <1>1, <1>5, <2>1 DEF CorpusInv, LiveCount
<1>12. EvictOK'
  BY <1>1, <1>5 DEF EvictOK, Evicts, Takes, LastFeature
<1> QED  BY <1>6, <1>7, <1>8, <1>9, <1>10, <1>11, <1>12 DEF CorpusInv

(* What clearing Live, or counting a feature less, makes of a record.      *)
Dead(r) ==
  [content |-> r.content, initial |-> r.initial, num |-> r.num,
   live |-> FALSE, locked |-> r.locked]

Without(r) ==
  [content |-> r.content, initial |-> r.initial, num |-> r.num - 1,
   live |-> r.live, locked |-> r.locked]

LEMMA RecordChanges ==
  ASSUME NEW r \in InputType
  PROVE  [r EXCEPT !.live = FALSE] = Dead(r) /\ Dead(r) \in InputType
<1>1. [r EXCEPT !.live = FALSE] = Dead(r)
  <2>1. \A b : [r EXCEPT !.live = b] = [content |-> r.content, initial |-> r.initial,
                                       num |-> r.num, live |-> b, locked |-> r.locked]
    BY DEF InputType
  <2> QED  BY <2>1 DEF Dead
<1>2. /\ r.content \in Contents /\ r.initial \in BOOLEAN /\ r.num \in Nat
      /\ r.locked \in BOOLEAN
  BY DEF InputType
<1>3. Dead(r) \in InputType
  BY <1>2 DEF Dead, InputType
<1> QED  BY <1>1, <1>3

LEMMA EvictLiveInv ==
  ASSUME CorpusInv, NEW f \in Features, EvictLive(f)
  PROVE  CorpusInv' /\ inputs' = [inputs EXCEPT ![owner[f]] = Dead(inputs[owner[f]])]
<1> USE CorpusAssumption
<1> DEFINE p == owner[f]
<1>1. /\ f \in evicting /\ inputs[p].live
      /\ inputs' = [inputs EXCEPT ![p].live = FALSE]
      /\ UNCHANGED <<sizeFor, owner, deleteNums, features, freqs, nonZero, disk, evicting,
                     toLoad, mtx, cand>>
  BY DEF EvictLive
<1>2. Adding /\ evicting = {f} /\ f \in cand.todo /\ Evicts(f)
  BY <1>1 DEF CorpusInv, EvictOK
<1>3. p \in DOMAIN inputs /\ inputs[p].num = 1 /\ inputs[p] \in InputType
  <2>1. sizeFor[f] # 0 /\ Takes(f, SizeOf[cand.content]) /\ inputs[p].num = 1
    BY <1>2 DEF Evicts, LastFeature
  <2> QED  BY <1>2, <2>1, LoserExists
<1>4. /\ inputs' = [inputs EXCEPT ![p] = Dead(inputs[p])]
      /\ Dead(inputs[p]) \in InputType
  <2>1. [inputs[p] EXCEPT !.live = FALSE] = Dead(inputs[p]) /\ Dead(inputs[p]) \in InputType
    BY <1>3, RecordChanges
  <2>2. inputs' = [inputs EXCEPT ![p] = [inputs[p] EXCEPT !.live = FALSE]]
    BY <1>1
  <2> QED  BY <2>1, <2>2
<1>5. /\ inputs \in Seq(InputType) /\ Len(inputs) \in Nat /\ DOMAIN inputs = 1..Len(inputs)
  BY DEF CorpusInv, CorpusTypes
<1>6. /\ inputs' \in Seq(InputType) /\ Len(inputs') = Len(inputs) /\ DOMAIN inputs' = DOMAIN inputs
      /\ Next1' = Next1 /\ (Adding' <=> Adding)
      /\ inputs'[p] = Dead(inputs[p])
      /\ \A j \in DOMAIN inputs : j # p => inputs'[j] = inputs[j]
  <2> HIDE DEF p
  <2>1. /\ inputs' \in Seq(InputType) /\ Len(inputs') = Len(inputs)
        /\ DOMAIN inputs' = DOMAIN inputs /\ inputs'[p] = Dead(inputs[p])
        /\ \A j \in DOMAIN inputs : j # p => inputs'[j] = inputs[j]
    BY <1>3, <1>4, <1>5
  <2> QED  BY <1>1, <2>1 DEF Next1, Adding
<1>7. /\ \A j \in DOMAIN inputs : /\ inputs'[j].content = inputs[j].content
                                  /\ inputs'[j].num = inputs[j].num
      /\ ~inputs'[p].live
  <2>1. /\ Dead(inputs[p]).content = inputs[p].content /\ Dead(inputs[p]).num = inputs[p].num
        /\ ~Dead(inputs[p]).live
    BY DEF Dead
  <2> QED  BY <1>6, <2>1
<1>8. Victims = {p} /\ Victims' = {p}
  BY <1>1, <1>2 DEF Victims
<1>9. Live' = Live \ {p}
  BY <1>6, <1>7 DEF Live
<1>10. CorpusTypes'
  BY <1>1, <1>6 DEF CorpusInv, CorpusTypes
<1>11. \A i : Owned(i)' = Owned(i)
  BY <1>1 DEF Owned
<1>12. OwnerOK'
  BY <1>1, <1>6, <1>7 DEF CorpusInv, OwnerOK
<1>13. CandOK'
  <2>1. Cardinality(Owned(Next1))' = Cardinality(Owned(Next1))
    BY <1>1, <1>6 DEF Owned
  <2> QED  BY <1>1, <1>6, <1>7, <2>1 DEF CorpusInv, CandOK
<1>14. Ownership'
  BY <1>6, <1>7, <1>8, <1>11 DEF CorpusInv, Ownership
<1>15. SmallestOwner' /\ AddedOnce'
  <2>1. SmallestOwner'
    BY <1>1, <1>6, <1>7 DEF CorpusInv, SmallestOwner
  <2>2. AddedOnce'
    BY <1>6, <1>7 DEF CorpusInv, AddedOnce
  <2> QED  BY <2>1, <2>2
<1>16. LiveOnDisk'
  BY <1>1, <1>6, <1>7, <1>8, <1>9 DEF CorpusInv, LiveOnDisk, Live
<1>17. LiveCount'
  <2>1. Live' \cup Victims' = Live \cup Victims
    BY <1>8, <1>9
  <2> QED  BY <1>1, <1>6, <2>1 DEF CorpusInv, LiveCount, GetLiveInputsSize
<1>18. EvictOK'
  BY <1>1, <1>2, <1>3, <1>6, <1>7 DEF EvictOK, Evicts, Takes, LastFeature
<1> QED  BY <1>4, <1>10, <1>12, <1>13, <1>14, <1>15, <1>16, <1>17, <1>18 DEF CorpusInv

(* The previous owner exists and loses one feature; when it was its last,  *)
(* it is the input being evicted, and no longer live.                      *)
LEMMA LoserFacts ==
  ASSUME CorpusInv, NEW f \in Features, AddFeature(f), Takes(f, SizeOf[cand.content]),
         sizeFor[f] # 0
  PROVE  LET p == owner[f] IN
         /\ p \in DOMAIN inputs /\ p # Next1
         /\ inputs[p] \in InputType /\ inputs[p].num \in Nat \ {0}
         /\ Without(inputs[p]) \in InputType
         /\ inputs' = [inputs EXCEPT ![p] = Without(inputs[p])]
         /\ deleteNums' = IF inputs[p].num = 1 THEN deleteNums + 1 ELSE deleteNums
         /\ evicting' = {}
         /\ inputs[p].num = 1 => Victims = {p} /\ ~inputs[p].live
         /\ inputs[p].num # 1 => Victims = {} /\ inputs[p].live
         /\ UNCHANGED <<features, disk, toLoad, mtx>>
<1> DEFINE p == owner[f]
<1>1. /\ Adding /\ f \in cand.todo /\ sizeFor[f] > 0 /\ evicting' = {}
      /\ DropFeature(p) /\ UNCHANGED <<features, disk, toLoad, mtx>>
  <2>1. sizeFor[f] > 0
    BY DEF CorpusInv, CorpusTypes
  <2> QED  BY <2>1 DEF AddFeature
<1>2. p \in DOMAIN inputs /\ p # Next1 /\ inputs[p] \in InputType /\ inputs[p].num \in Nat \ {0}
  BY <1>1, LoserExists
<1>3. Without(inputs[p]) \in InputType
  BY <1>2 DEF Without, InputType
<1>4. inputs' = [inputs EXCEPT ![p] = Without(inputs[p])]
  <2>1. [inputs[p] EXCEPT !.num = inputs[p].num - 1] = Without(inputs[p])
    BY <1>2 DEF Without, InputType
  <2>2. inputs' = [inputs EXCEPT ![p] = [inputs[p] EXCEPT !.num = inputs[p].num - 1]]
    BY <1>1 DEF DropFeature
  <2> QED  BY <2>1, <2>2
<1>5. deleteNums' = IF inputs[p].num = 1 THEN deleteNums + 1 ELSE deleteNums
  BY <1>1 DEF DropFeature, LastFeature
<1>6. CASE inputs[p].num = 1
  <2>1. f \in evicting /\ ~inputs[p].live
    BY <1>1, <1>6 DEF AddFeature, Evicts, LastFeature
  <2>2. evicting = {f}
    BY <2>1 DEF CorpusInv, EvictOK
  <2> QED  BY <1>1, <1>2, <1>3, <1>4, <1>5, <1>6, <2>1, <2>2 DEF Victims
<1>7. CASE inputs[p].num # 1
  <2>1. evicting = {}
    BY <1>7 DEF AddFeature, Evicts, LastFeature
  <2>2. Victims = {}
    BY <2>1 DEF Victims
  <2>3. inputs[p].live <=> inputs[p].num > 0
    BY <1>2, <2>2 DEF CorpusInv, Ownership
  <2> QED  BY <1>1, <1>2, <1>3, <1>4, <1>5, <1>7, <2>2, <2>3
<1> QED  BY <1>6, <1>7

(* A feature that a smaller candidate takes over: its owner loses it, and  *)
(* is counted as deleted when that was its last one.                       *)
LEMMA TakenInv ==
  ASSUME CorpusInv, NEW f \in Features, AddFeature(f), Takes(f, SizeOf[cand.content]),
         sizeFor[f] # 0
  PROVE  CorpusInv'
<1> USE CorpusAssumption
<1>1. /\ Adding /\ f \in cand.todo /\ cand.content \in Contents
      /\ cand' = [cand EXCEPT !.todo = @ \ {f}, !.updates = @ + 1]
      /\ owner' = [owner EXCEPT ![f] = Next1]
      /\ sizeFor' = [sizeFor EXCEPT ![f] = SizeOf[cand.content]]
      /\ freqs' \in [Features -> 0..MaxFreq] /\ nonZero' \in Seq(Features)
      /\ cand' \in CandType
      /\ \A i \in DOMAIN inputs : inputs[i].content # cand.content
  BY TakenSizes
<1>2. PICK p :
      /\ p = owner[f] /\ p \in DOMAIN inputs /\ p # Next1
      /\ inputs[p] \in InputType /\ inputs[p].num \in Nat \ {0}
      /\ Without(inputs[p]) \in InputType
      /\ inputs' = [inputs EXCEPT ![p] = Without(inputs[p])]
      /\ deleteNums' = IF inputs[p].num = 1 THEN deleteNums + 1 ELSE deleteNums
      /\ evicting' = {}
      /\ inputs[p].num = 1 => Victims = {p} /\ ~inputs[p].live
      /\ inputs[p].num # 1 => Victims = {} /\ inputs[p].live
      /\ UNCHANGED <<features, disk, toLoad, mtx>>
  BY LoserFacts
<1>3. /\ inputs \in Seq(InputType) /\ owner \in [Features -> Nat] /\ sizeFor \in [Features -> Nat]
      /\ deleteNums \in Nat /\ disk \in SUBSET Contents /\ features \in SUBSET Features
      /\ cand \in CandType /\ Next1 = Len(inputs) + 1 /\ Len(inputs) \in Nat
      /\ DOMAIN inputs = 1..Len(inputs) /\ SizeOf[cand.content] \in Nat \ {0}
  BY <1>1 DEF CorpusInv, CorpusTypes, Next1
<1>4. /\ inputs' \in Seq(InputType) /\ Len(inputs') = Len(inputs) /\ DOMAIN inputs' = DOMAIN inputs
      /\ Next1' = Next1
  BY <1>2, <1>3 DEF Next1
<1>5. /\ inputs'[p] = Without(inputs[p])
      /\ \A j \in DOMAIN inputs : j # p => inputs'[j] = inputs[j]
      /\ \A j \in DOMAIN inputs : inputs'[j].content = inputs[j].content
  <2>1. inputs'[p] = Without(inputs[p])
    BY <1>2
  <2>2. \A j \in DOMAIN inputs : j # p => inputs'[j] = inputs[j]
    BY <1>2
  <2>3. inputs'[p].content = inputs[p].content
    BY <2>1 DEF Without
  <2> QED  BY <2>1, <2>2, <2>3
<1>6. inputs'[p].num = inputs[p].num - 1 /\ (inputs'[p].live <=> inputs[p].num # 1)
  <2>1. Without(inputs[p]).num = inputs[p].num - 1 /\ Without(inputs[p]).live = inputs[p].live
    BY DEF Without
  <2> QED  BY <1>2, <1>5, <2>1
<1>7. /\ Cardinality(Owned(Next1))' = Cardinality(Owned(Next1)) + 1
      /\ Cardinality(Owned(p)') = Cardinality(Owned(p)) - 1
      /\ \A i \in DOMAIN inputs : i # p => Owned(i)' = Owned(i)
  <2>1. owner \in [Features -> Nat] /\ Next1 \in Nat /\ p = owner[f] /\ owner[f] # Next1
    BY <1>2, <1>3
  <2>2. /\ Cardinality(Held(owner', Next1)) = Cardinality(Held(owner, Next1)) + 1
        /\ Cardinality(Held(owner', p)) = Cardinality(Held(owner, p)) - 1
    BY <1>1, <2>1, HeldMoves
  <2>3. \A i \in Nat : i # Next1 /\ i # p => Held(owner', i) = Held(owner, i)
    BY <1>1, <2>1 DEF Held
  <2>4. \A i \in DOMAIN inputs : i \in Nat /\ i # Next1
    BY <1>3
  <2>5. \A i : Owned(i) = Held(owner, i) /\ Owned(i)' = Held(owner', i)
    BY DEF Owned, Held
  <2>6. Owned(Next1)' = Held(owner', Next1)
    BY <1>4 DEF Owned, Held
  <2> QED  BY <2>2, <2>3, <2>4, <2>5, <2>6
<1>8. cand'.content = cand.content /\ cand'.todo = cand.todo \ {f} /\ cand'.updates = cand.updates + 1
  BY <1>1, <1>3 DEF CandType
<1>9. CorpusTypes'
  <2>1. deleteNums' \in Nat /\ disk' \in SUBSET Contents /\ evicting' \in SUBSET Features
    BY <1>2, <1>3
  <2>2. owner' \in [Features -> Nat] /\ sizeFor' \in [Features -> Nat]
    BY <1>1, <1>3
  <2>3. features' \in SUBSET Features /\ toLoad' \in SUBSET InitialSeeds
        /\ mtx' \in {"load", "free", "merge"}
    BY <1>2 DEF CorpusInv, CorpusTypes
  <2> QED  BY <1>1, <1>4, <2>1, <2>2, <2>3 DEF CorpusTypes
<1>10. \A g \in Features : g # f => owner'[g] = owner[g] /\ sizeFor'[g] = sizeFor[g]
  BY <1>1, <1>3
<1>11. owner'[f] = Next1 /\ sizeFor'[f] = SizeOf[cand.content]
  BY <1>1, <1>3
<1>12. OwnerOK'
  <2> SUFFICES ASSUME NEW g \in Features PROVE OwnerOK!(g)'
    BY DEF OwnerOK
  <2>1. Adding' <=> Adding
    BY <1>8 DEF Adding
  <2>2. CASE g = f
    <3>1. f \in features /\ f \in FeaturesOf[cand.content]
      BY <1>1 DEF CorpusInv, OwnerOK, CandOK
    <3>2. Next1 # 0 /\ Next1 \in 0..Next1 /\ Next1 \notin DOMAIN inputs
      BY <1>3
    <3> QED  BY <1>1, <1>2, <1>3, <1>4, <1>8, <1>11, <2>1, <2>2, <3>1, <3>2
  <2>3. CASE g # f
    <3>1. OwnerOK!(g)
      BY DEF CorpusInv, OwnerOK
    <3>2. owner'[g] = owner[g] /\ sizeFor'[g] = sizeFor[g]
      BY <1>10, <2>3
    <3> QED  BY <1>2, <1>4, <1>5, <1>8, <2>1, <2>3, <3>1, <3>2
  <2> QED  BY <2>2, <2>3
<1>13. CandOK'
  <2>1. /\ cand.todo \subseteq FeaturesOf[cand.content]
        /\ cand.updates = Cardinality(Owned(Next1))
        /\ \A g \in FeaturesOf[cand.content] \ cand.todo : sizeFor[g] \in 1..SizeOf[cand.content]
    BY <1>1 DEF CorpusInv, CandOK
  <2>2. \A g \in FeaturesOf[cand.content] \ (cand.todo \ {f}) :
           sizeFor'[g] \in 1..SizeOf[cand.content]
    <3>1. FeaturesOf[cand.content] \subseteq Features
      BY <1>1
    <3> QED  BY <1>3, <1>10, <1>11, <2>1, <3>1
  <2>3. \A i \in DOMAIN inputs' : inputs'[i].content # cand'.content
    BY <1>1, <1>4, <1>5, <1>8
  <2>4. cand'.updates = Cardinality(Owned(Next1))'
    BY <1>7, <1>8, <2>1
  <2>5. cand'.todo \subseteq FeaturesOf[cand'.content]
    BY <1>8, <2>1
  <2> QED  BY <1>8, <2>2, <2>3, <2>4, <2>5 DEF CandOK
<1>14. Ownership'
  <2>1. ASSUME NEW i \in DOMAIN inputs
        PROVE  /\ inputs[i].num = Cardinality(Owned(i))
               /\ i # p => (inputs[i].live <=> inputs[i].num > 0)
    BY <1>2 DEF CorpusInv, Ownership
  <2> SUFFICES ASSUME NEW i \in DOMAIN inputs
               PROVE  /\ inputs'[i].num = Cardinality(Owned(i)')
                      /\ inputs'[i].live <=> inputs'[i].num > 0
    BY <1>4 DEF Ownership
  <2>2. CASE i = p
    <3>1. inputs'[p].num = Cardinality(Owned(p)')
      BY <1>2, <1>6, <1>7, <2>1
    <3>2. inputs'[p].live <=> inputs'[p].num > 0
      BY <1>2, <1>6
    <3> QED  BY <2>2, <3>1, <3>2
  <2>3. CASE i # p
    BY <1>5, <1>7, <2>1, <2>3
  <2> QED  BY <2>2, <2>3
<1>15. SmallestOwner'
  <2> SUFFICES ASSUME NEW i \in DOMAIN inputs, NEW g \in FeaturesOf[inputs[i].content]
               PROVE  /\ sizeFor'[g] \in 1..SizeOf[inputs[i].content]
                      /\ owner'[g] = i => sizeFor'[g] = SizeOf[inputs[i].content]
    BY <1>4, <1>5 DEF SmallestOwner
  <2>1. /\ sizeFor[g] \in 1..SizeOf[inputs[i].content]
        /\ owner[g] = i => sizeFor[g] = SizeOf[inputs[i].content]
    BY DEF CorpusInv, SmallestOwner
  <2>2. g \in Features /\ SizeOf[inputs[i].content] \in Nat
    <3>1. inputs[i] \in InputType
      BY <1>3
    <3> QED  BY <3>1 DEF InputType
  <2>3. CASE g = f
    <3>1. SizeOf[cand.content] < sizeFor[f]
      BY <1>3 DEF AddFeature, Takes
    <3>2. i # Next1
      BY <1>3
    <3> QED  BY <1>3, <1>11, <2>1, <2>2, <2>3, <3>1, <3>2
  <2>4. CASE g # f
    BY <1>10, <2>1, <2>2, <2>4
  <2> QED  BY <2>3, <2>4
<1>16. AddedOnce'
  BY <1>4, <1>5 DEF CorpusInv, AddedOnce
<1>17. LiveOnDisk'
  <2> SUFFICES ASSUME NEW j \in DOMAIN inputs, inputs'[j].live
               PROVE  inputs[j].content \in disk
    BY <1>2, <1>4, <1>5 DEF LiveOnDisk, Live
  <2>1. inputs[j].live /\ j \notin Victims
    BY <1>2, <1>5, <1>6
  <2> QED  BY <2>1 DEF CorpusInv, LiveOnDisk, Live
<1>18. LiveCount'
  <2>1. IsFiniteSet(Live) /\ Cardinality(Live) \in Nat
    BY <1>3, LiveFinite
  <2>2. Len(inputs) - deleteNums = Cardinality(Live \cup Victims)
    BY DEF CorpusInv, LiveCount, GetLiveInputsSize
  <2>3. Live' = Live /\ Victims' = {}
    BY <1>2, <1>4, <1>5, <1>6 DEF Live, Victims
  <2>4. CASE inputs[p].num = 1
    <3>1. p \notin Live
      BY <1>2, <2>4 DEF Live
    <3>2. Cardinality(Live \cup {p}) = Cardinality(Live) + 1
      BY <2>1, <3>1, FS_AddElement
    <3>3. deleteNums' = deleteNums + 1 /\ Victims = {p}
      BY <1>2, <2>4
    <3>4. Len(inputs') - deleteNums' = Cardinality(Live)
      BY <1>3, <1>4, <2>1, <2>2, <3>2, <3>3
    <3> QED  BY <2>3, <3>4 DEF LiveCount, GetLiveInputsSize
  <2>5. CASE inputs[p].num # 1
    <3>1. deleteNums' = deleteNums /\ Victims = {}
      BY <1>2, <2>5
    <3> QED  BY <1>4, <2>2, <2>3, <3>1 DEF LiveCount, GetLiveInputsSize
  <2> QED  BY <2>4, <2>5
<1>19. EvictOK'
  BY <1>2 DEF EvictOK
<1> QED  BY <1>9, <1>12, <1>13, <1>14, <1>15, <1>16, <1>17, <1>18, <1>19 DEF CorpusInv

(* Every step of the loop over the features of a candidate.                *)
LEMMA AddFeatureInv ==
  ASSUME CorpusInv, NEW f \in Features, AddFeature(f)
  PROVE  CorpusInv'
<1>1. CASE ~Takes(f, SizeOf[cand.content])
  BY <1>1, RefusedInv
<1>2. CASE sizeFor[f] = 0
  BY <1>2, FreshInv
<1>3. CASE Takes(f, SizeOf[cand.content]) /\ sizeFor[f] # 0
  BY <1>3, TakenInv
<1> QED  BY <1>1, <1>2, <1>3

(* A candidate that took nothing is dropped; no table knows it.            *)
LEMMA AbandonInv ==
  ASSUME CorpusInv, AddToCorpus, ~Kept
  PROVE  CorpusInv'
<1> USE CorpusAssumption
<1>1. /\ Adding /\ cand' = NoCand /\ ~Adding' /\ cand' \in CandType
      /\ UNCHANGED <<inputs, disk, sizeFor, owner, deleteNums, features, freqs, nonZero,
                     evicting, toLoad, mtx>>
      /\ evicting = {}
  BY DEF AddToCorpus, NoCand, Adding, CandType, CorpusInv, EvictOK
<1>2. Owned(Next1) = {}
  <2>1. cand.updates \in Nat /\ cand.updates = Cardinality(Owned(Next1))
    BY <1>1 DEF CorpusInv, CorpusTypes, CandOK, CandType
  <2>2. Cardinality(Owned(Next1)) = 0
    BY <2>1 DEF Kept
  <2> QED  BY <2>2, OwnedFinite, FS_EmptySet
<1>3. UNCHANGED <<Next1, Live, Victims, GetLiveInputsSize>>
  BY <1>1 DEF Next1, Live, Victims, GetLiveInputsSize
<1>4. CorpusTypes'
  BY <1>1 DEF CorpusInv, CorpusTypes
<1>5. OwnerOK'
  <2>1. \A g \in Features : owner[g] # Next1
    BY <1>2 DEF Owned
  <2> QED  BY <1>1, <1>3, <2>1 DEF CorpusInv, OwnerOK
<1>6. CandOK'
  BY <1>1 DEF CandOK
<1>7. Ownership'
  BY <1>1, <1>3 DEF CorpusInv, Ownership, Owned
<1>8. SmallestOwner' /\ AddedOnce' /\ LiveOnDisk' /\ LiveCount' /\ EvictOK'
  BY <1>1, <1>3 DEF CorpusInv, SmallestOwner, AddedOnce, LiveOnDisk, LiveCount, EvictOK
<1> QED  BY <1>4, <1>5, <1>6, <1>7, <1>8 DEF CorpusInv

(* A candidate that took a feature becomes the input at the index its      *)
(* features already name.                                                  *)
LEMMA KeepInv ==
  ASSUME CorpusInv, AddToCorpus, Kept
  PROVE  CorpusInv'
<1> USE CorpusAssumption
<1>1. /\ Adding /\ cand.todo = {} /\ cand' = NoCand /\ ~Adding' /\ cand' \in CandType
      /\ cand \in CandType /\ cand.content \in Contents /\ cand.updates \in Nat \ {0}
      /\ disk' = disk \cup {cand.content} /\ inputs' = Append(inputs, NewInput)
      /\ UNCHANGED <<sizeFor, owner, deleteNums, features, freqs, nonZero, evicting, toLoad, mtx>>
  BY DEF AddToCorpus, NoCand, Adding, CandType, Kept, CorpusInv, CorpusTypes
<1>0. evicting = {} /\ evicting' = {} /\ Victims = {} /\ Victims' = {}
  BY <1>1 DEF CorpusInv, EvictOK, Victims
<1>2. NewInput \in InputType
  BY <1>1 DEF NewInput, InputType, CandType
<1>3. /\ inputs \in Seq(InputType) /\ Len(inputs) \in Nat /\ DOMAIN inputs = 1..Len(inputs)
      /\ deleteNums \in Nat /\ owner \in [Features -> Nat]
  BY DEF CorpusInv, CorpusTypes
<1>4. PICK n : n = Next1 /\ n = Len(inputs) + 1
  BY DEF Next1
<1>5. /\ inputs' \in Seq(InputType) /\ Len(inputs') = n /\ DOMAIN inputs' = DOMAIN inputs \cup {n}
      /\ n \notin DOMAIN inputs /\ n \in Nat \ {0}
      /\ inputs'[n] = NewInput
      /\ \A i \in DOMAIN inputs : inputs'[i] = inputs[i]
  BY <1>1, <1>2, <1>3, <1>4
<1>6. Next1' = n + 1
  BY <1>5 DEF Next1
<1>7. /\ NewInput.content = cand.content /\ NewInput.num = cand.updates /\ NewInput.live
  BY DEF NewInput
<1>8. \A i \in DOMAIN inputs : inputs[i].content # cand.content
  BY <1>1 DEF CorpusInv, CandOK
<1>9. CorpusTypes'
  <2>1. disk' \in SUBSET Contents
    BY <1>1 DEF CorpusInv, CorpusTypes
  <2> QED  BY <1>1, <1>5, <2>1 DEF CorpusInv, CorpusTypes
<1>10. OwnerOK'
  <2> SUFFICES ASSUME NEW g \in Features PROVE OwnerOK!(g)'
    BY DEF OwnerOK
  <2>1. OwnerOK!(g)
    BY DEF CorpusInv, OwnerOK
  <2>2. owner[g] \in 0..n /\ n + 1 \notin 0..n
    BY <1>4, <1>5, <2>1
  <2>3. CASE owner[g] = n
    BY <1>1, <1>4, <1>5, <1>6, <1>7, <2>1, <2>2, <2>3
  <2>4. CASE owner[g] # n
    BY <1>1, <1>4, <1>5, <1>6, <2>1, <2>2, <2>4
  <2> QED  BY <2>3, <2>4
<1>11. CandOK'
  BY <1>1 DEF CandOK
<1>12. Ownership'
  <2>1. \A i : Owned(i)' = Owned(i)
    BY <1>1 DEF Owned
  <2> SUFFICES ASSUME NEW i \in DOMAIN inputs'
               PROVE  /\ inputs'[i].num = Cardinality(Owned(i))
                      /\ inputs'[i].live <=> inputs'[i].num > 0
    BY <2>1 DEF Ownership
  <2>2. CASE i = n
    <3>1. cand.updates = Cardinality(Owned(n))
      BY <1>1, <1>4 DEF CorpusInv, CandOK
    <3>2. cand.updates > 0
      BY <1>1
    <3> QED  BY <1>5, <1>7, <2>2, <3>1, <3>2
  <2>3. CASE i \in DOMAIN inputs
    BY <1>0, <1>5, <2>3 DEF CorpusInv, Ownership
  <2> QED  BY <1>5, <2>2, <2>3
<1>13. SmallestOwner'
  <2> SUFFICES ASSUME NEW i \in DOMAIN inputs', NEW g \in FeaturesOf[inputs'[i].content]
               PROVE  /\ sizeFor[g] \in 1..SizeOf[inputs'[i].content]
                      /\ owner[g] = i => sizeFor[g] = SizeOf[inputs'[i].content]
    BY <1>1 DEF SmallestOwner
  <2>1. CASE i = n
    <3>1. g \in FeaturesOf[cand.content] /\ inputs'[i].content = cand.content
      BY <1>5, <1>7, <2>1
    <3>2. sizeFor[g] \in 1..SizeOf[cand.content] /\ g \in Features
      BY <1>1, <3>1 DEF CorpusInv, CandOK
    <3>3. owner[g] = n => sizeFor[g] = SizeOf[cand.content]
      BY <1>4, <3>2 DEF CorpusInv, OwnerOK
    <3> QED  BY <2>1, <3>1, <3>2, <3>3
  <2>2. CASE i \in DOMAIN inputs
    BY <1>5, <2>2 DEF CorpusInv, SmallestOwner
  <2> QED  BY <1>5, <2>1, <2>2
<1>14. AddedOnce'
  BY <1>5, <1>7, <1>8 DEF CorpusInv, AddedOnce
<1>15. LiveOnDisk'
  <2> SUFFICES ASSUME NEW i \in DOMAIN inputs', inputs'[i].live
               PROVE  inputs'[i].content \in disk'
    BY DEF LiveOnDisk, Live
  <2>1. CASE i = n
    BY <1>1, <1>5, <1>7, <2>1
  <2>2. CASE i \in DOMAIN inputs
    BY <1>0, <1>1, <1>5, <2>2 DEF CorpusInv, LiveOnDisk, Live
  <2> QED  BY <1>5, <2>1, <2>2
<1>16. LiveCount'
  <2>1. IsFiniteSet(Live) /\ Cardinality(Live) \in Nat /\ n \notin Live
    BY <1>3, <1>5, LiveFinite DEF Live
  <2>2. Live' = Live \cup {n}
    BY <1>5, <1>7 DEF Live
  <2>3. Cardinality(Live') = Cardinality(Live) + 1
    BY <2>1, <2>2, FS_AddElement
  <2>4. Len(inputs) - deleteNums = Cardinality(Live)
    BY <1>0 DEF CorpusInv, LiveCount, GetLiveInputsSize
  <2>5. Len(inputs') - deleteNums' = Cardinality(Live')
    BY <1>1, <1>3, <1>4, <1>5, <2>3, <2>4
  <2> QED  BY <1>0, <2>5 DEF LiveCount, GetLiveInputsSize
<1>17. EvictOK'
  BY <1>0 DEF EvictOK
<1> QED  BY <1>9, <1>10, <1>11, <1>12, <1>13, <1>14, <1>15, <1>16, <1>17 DEF CorpusInv

(* Drawing seeds sets Locked flags, which no table depends on.             *)
LEMMA DrawInv ==
  ASSUME CorpusInv, NEW k \in Creators, GetJobSeeds(k)
  PROVE  CorpusInv' /\ DOMAIN inputs' = DOMAIN inputs
<1>1. PICK T : inputs' = [i \in DOMAIN inputs |->
                 IF i \in T THEN [inputs[i] EXCEPT !.locked = TRUE] ELSE inputs[i]]
  BY DEF GetJobSeeds
<1>2. UNCHANGED <<sizeFor, owner, deleteNums, features, freqs, nonZero, disk, evicting,
                  toLoad, mtx, cand>>
  BY DEF GetJobSeeds
<1>3. /\ inputs \in Seq(InputType) /\ Len(inputs) \in Nat /\ DOMAIN inputs = 1..Len(inputs)
      /\ \A i \in DOMAIN inputs : inputs[i] \in InputType
  BY DEF CorpusInv, CorpusTypes
<1>4. /\ DOMAIN inputs' = DOMAIN inputs
      /\ \A i \in DOMAIN inputs :
           /\ inputs'[i] \in InputType
           /\ inputs'[i].content = inputs[i].content
           /\ inputs'[i].num = inputs[i].num
           /\ inputs'[i].live = inputs[i].live
  <2> SUFFICES ASSUME NEW i \in DOMAIN inputs
               PROVE  /\ inputs'[i] \in InputType
                      /\ inputs'[i].content = inputs[i].content
                      /\ inputs'[i].num = inputs[i].num
                      /\ inputs'[i].live = inputs[i].live
    BY <1>1
  <2>1. CASE i \in T
    <3>1. inputs'[i] = [inputs[i] EXCEPT !.locked = TRUE]
      BY <1>1, <2>1
    <3> QED  BY <1>3, <3>1 DEF InputType
  <2>2. CASE i \notin T
    BY <1>1, <1>3, <2>2
  <2> QED  BY <2>1, <2>2
<1>5. inputs' \in Seq(InputType) /\ Len(inputs') = Len(inputs)
  BY <1>1, <1>3, <1>4
<1>6. Next1' = Next1 /\ (Adding' <=> Adding)
  BY <1>2, <1>5 DEF Next1, Adding
<1>7. Live' = Live /\ Victims' = Victims
  BY <1>2, <1>4 DEF Live, Victims
<1>8. \A i : Owned(i)' = Owned(i)
  BY <1>2 DEF Owned
<1>9. CorpusTypes'
  BY <1>2, <1>5 DEF CorpusInv, CorpusTypes
<1>10. OwnerOK'
  BY <1>2, <1>4, <1>6 DEF CorpusInv, OwnerOK
<1>11. CandOK'
  <2>1. Cardinality(Owned(Next1))' = Cardinality(Owned(Next1))
    BY <1>2, <1>6 DEF Owned
  <2> QED  BY <1>2, <1>4, <1>6, <2>1 DEF CorpusInv, CandOK
<1>12. Ownership'
  BY <1>4, <1>7, <1>8 DEF CorpusInv, Ownership
<1>13. SmallestOwner' /\ AddedOnce' /\ LiveOnDisk'
  <2>1. SmallestOwner'
    BY <1>2, <1>4 DEF CorpusInv, SmallestOwner
  <2>2. AddedOnce'
    BY <1>4 DEF CorpusInv, AddedOnce
  <2>3. LiveOnDisk'
    BY <1>2, <1>4, <1>7 DEF CorpusInv, LiveOnDisk, Live
  <2> QED  BY <2>1, <2>2, <2>3
<1>14. LiveCount'
  BY <1>2, <1>5, <1>7 DEF CorpusInv, LiveCount, GetLiveInputsSize
<1>15. EvictOK'
  <2> SUFFICES ASSUME NEW f \in evicting PROVE EvictOK!(f)'
    BY <1>2 DEF EvictOK
  <2>1. Adding /\ evicting = {f} /\ f \in cand.todo /\ Evicts(f)
    BY DEF CorpusInv, EvictOK
  <2>2. owner[f] \in DOMAIN inputs
    <3>1. sizeFor[f] # 0 /\ Takes(f, SizeOf[cand.content]) /\ f \in Features
      BY <2>1 DEF Evicts, CorpusInv, CorpusTypes
    <3> QED  BY <2>1, <3>1, LoserExists
  <2> QED  BY <1>2, <1>4, <1>6, <2>1, <2>2 DEF Evicts, Takes, LastFeature
<1> QED  BY <1>4, <1>9, <1>10, <1>11, <1>12, <1>13, <1>14, <1>15 DEF CorpusInv

(* The number of seeds asked for is a natural number.                      *)
LEMMA SeedsNumType ==
  ASSUME NEW n \in Nat, NEW m \in Nat
  PROVE  SeedsNum(n, m) \in Nat /\ (SeedsNum(n, m) > 0 => n > 0)
<1> DEFINE x == (m + 2) % Word
<1>1. x \in Nat
  BY CorpusAssumption
<1> HIDE DEF x
<1>2. {r \in 1..x : r * r <= x} \in SUBSET (1..x) /\ IsFiniteSet(1..x)
  BY <1>1, FS_Interval
<1>3. IsFiniteSet({r \in 1..x : r * r <= x})
  BY <1>2, FS_Subset
<1>4. Isqrt(x) \in Nat
  BY <1>3, FS_CardinalityType DEF Isqrt
<1>5. SeedFactor * Isqrt(x) \in Nat
  BY <1>4, CorpusAssumption
<1> QED  BY <1>5 DEF SeedsNum, x

(* The unsigned difference is a natural number.                            *)
LEMMA CountType ==
  ASSUME CorpusInv, CreatorTypes, NEW k \in Creators
  PROVE  (creator[k].num - deleteNums) % Word \in Nat
<1>1. creator[k].num \in Nat /\ deleteNums \in Nat
  BY DEF CreatorTypes, CreatorType, CorpusInv, CorpusTypes
<1>2. creator[k].num - deleteNums \in Int
  BY <1>1
<1> QED  BY <1>2, CorpusAssumption

(* A step replaces one creator's record at most.                           *)
LEMMA CreatorMoves ==
  ASSUME CreatorTypes, NEW k \in Creators, NEW r \in CreatorType,
         creator' = [creator EXCEPT ![k] = r], CreatorOK(r, DOMAIN inputs),
         DOMAIN inputs' = DOMAIN inputs
  PROVE  CreatorTypes'
<1>1. creator' \in [Creators -> CreatorType]
  BY DEF CreatorTypes
<1>2. ASSUME NEW j \in Creators PROVE CreatorOK(creator'[j], DOMAIN inputs)
  <2>1. CASE j = k
    BY <2>1 DEF CreatorTypes
  <2>2. CASE j # k
    BY <2>2 DEF CreatorTypes
  <2> QED  BY <2>1, <2>2
<1> QED  BY <1>1, <1>2 DEF CreatorTypes

(* Steps of the corpus let every index a creator holds be.                 *)
LEMMA CreatorStays ==
  ASSUME CreatorTypes, UNCHANGED creator, DOMAIN inputs \subseteq DOMAIN inputs'
  PROVE  CreatorTypes'
<1>1. ASSUME NEW j \in Creators PROVE CreatorOK(creator[j], DOMAIN inputs')
  <2>1. CreatorOK(creator[j], DOMAIN inputs)
    BY DEF CreatorTypes
  <2> QED  BY <2>1 DEF CreatorOK
<1> QED  BY <1>1 DEF CreatorTypes

(* The record of a creator, and what its updates make of it.               *)
Rec(p, n, F, S, C, c, D) ==
  [pc |-> p, num |-> n, first |-> F, seeds |-> S, checked |-> C, cur |-> c, dir |-> D]

LEMMA RecType ==
  ASSUME NEW p \in {"idle", "sizing", "counted", "resizing", "sized", "copy", "file", "ready"},
         NEW n \in Nat, NEW F \in Nat, NEW S \in SUBSET Nat, NEW C \in SUBSET S, NEW c \in Nat, NEW D \in SUBSET Nat,
         D \subseteq C \cup {0}, p = "file" => c \in C,
         p \notin {"copy", "file", "ready"} => C = {} /\ D = {},
         NEW dom, S \subseteq dom
  PROVE  Rec(p, n, F, S, C, c, D) \in CreatorType /\ CreatorOK(Rec(p, n, F, S, C, c, D), dom)
BY DEF Rec, CreatorType, CreatorOK

LEMMA RecOf ==
  ASSUME CreatorTypes, NEW k \in Creators
  PROVE  LET r == creator[k] IN
         /\ r = Rec(r.pc, r.num, r.first, r.seeds, r.checked, r.cur, r.dir)
         /\ r \in CreatorType /\ r.first \in Nat
         /\ r.seeds \subseteq DOMAIN inputs /\ r.seeds \in SUBSET Nat
         /\ r.checked \subseteq r.seeds
         /\ r.dir \in SUBSET Nat /\ r.dir \subseteq r.checked \cup {0}
         /\ r.pc = "file" => r.cur \in r.checked
         /\ r.pc \notin {"copy", "file", "ready"} => r.checked = {} /\ r.dir = {}
         /\ r.pc \in {"idle", "sizing", "counted", "resizing", "sized", "copy", "file", "ready"}
         /\ r.num \in Nat /\ r.cur \in Nat
<1>1. creator[k] \in CreatorType /\ CreatorOK(creator[k], DOMAIN inputs)
  BY DEF CreatorTypes
<1> QED  BY <1>1 DEF CreatorType, CreatorOK, Rec

LEMMA RecPc ==
  ASSUME NEW p, NEW n, NEW F, NEW S, NEW C, NEW c, NEW D, NEW q
  PROVE  [Rec(p, n, F, S, C, c, D) EXCEPT !.pc = q] = Rec(q, n, F, S, C, c, D)
BY DEF Rec

LEMMA RecNum ==
  ASSUME NEW p, NEW n, NEW F, NEW S, NEW C, NEW c, NEW D, NEW m
  PROVE  [Rec(p, n, F, S, C, c, D) EXCEPT !.num = m] = Rec(p, m, F, S, C, c, D)
BY DEF Rec

LEMMA RecFirst ==
  ASSUME NEW p, NEW n, NEW F, NEW S, NEW C, NEW c, NEW D, NEW m
  PROVE  [Rec(p, n, F, S, C, c, D) EXCEPT !.first = m] = Rec(p, n, m, S, C, c, D)
BY DEF Rec

LEMMA RecSeeds ==
  ASSUME NEW p, NEW n, NEW F, NEW S, NEW C, NEW c, NEW D, NEW T
  PROVE  [Rec(p, n, F, S, C, c, D) EXCEPT !.seeds = T] = Rec(p, n, F, T, C, c, D)
BY DEF Rec

LEMMA RecChecked ==
  ASSUME NEW p, NEW n, NEW F, NEW S, NEW C, NEW c, NEW D, NEW T
  PROVE  [Rec(p, n, F, S, C, c, D) EXCEPT !.checked = T] = Rec(p, n, F, S, T, c, D)
BY DEF Rec

LEMMA RecCur ==
  ASSUME NEW p, NEW n, NEW F, NEW S, NEW C, NEW c, NEW D, NEW i
  PROVE  [Rec(p, n, F, S, C, c, D) EXCEPT !.cur = i] = Rec(p, n, F, S, C, i, D)
BY DEF Rec

LEMMA RecDir ==
  ASSUME NEW p, NEW n, NEW F, NEW S, NEW C, NEW c, NEW D, NEW E
  PROVE  [Rec(p, n, F, S, C, c, D) EXCEPT !.dir = E] = Rec(p, n, F, S, C, c, E)
BY DEF Rec

(* The unlocked reads give natural numbers, whatever they saw.             *)
LEMMA ReadTypes ==
  ASSUME CorpusInv, CreatorTypes, NEW k \in Creators,
         ReadInputsSize(k) \/ ReadDeleteNums(k)
  PROVE  CreatorTypes'
<1>1. DOMAIN inputs' = DOMAIN inputs
  BY DEF ReadInputsSize, ReadDeleteNums, corpusVars
<1>2. PICK r : r = creator[k]
  OBVIOUS
<1>3. /\ r = Rec(r.pc, r.num, r.first, r.seeds, r.checked, r.cur, r.dir)
      /\ r.num \in Nat /\ r.first \in Nat /\ r.cur \in Nat
      /\ r.seeds \in SUBSET Nat /\ r.seeds \subseteq DOMAIN inputs
  BY <1>2, RecOf
<1>4. r.pc \notin {"copy", "file", "ready"} /\ r.checked = {} /\ r.dir = {}
  <2>1. r.pc \in {"idle", "sizing", "counted", "resizing"}
    BY <1>2 DEF ReadInputsSize, ReadDeleteNums
  <2> QED  BY <1>2, <2>1, RecOf
<1>5. ASSUME NEW p \in {"sizing", "counted", "resizing", "sized"}, NEW n \in Nat, NEW F \in Nat,
             creator' = [creator EXCEPT ![k] = Rec(p, n, F, r.seeds, r.checked, r.cur, r.dir)]
      PROVE  CreatorTypes'
  <2>1. /\ Rec(p, n, F, r.seeds, r.checked, r.cur, r.dir) \in CreatorType
        /\ CreatorOK(Rec(p, n, F, r.seeds, r.checked, r.cur, r.dir), DOMAIN inputs)
    BY <1>3, <1>4, RecType
  <2> QED  BY <1>1, <1>5, <2>1, CreatorMoves
<1>6. ASSUME NEW p, NEW n
      PROVE  [[r EXCEPT !.pc = p] EXCEPT !.num = n]
               = Rec(p, n, r.first, r.seeds, r.checked, r.cur, r.dir)
  <2>1. [r EXCEPT !.pc = p] = Rec(p, r.num, r.first, r.seeds, r.checked, r.cur, r.dir)
    BY <1>3, RecPc
  <2>2. [Rec(p, r.num, r.first, r.seeds, r.checked, r.cur, r.dir) EXCEPT !.num = n]
          = Rec(p, n, r.first, r.seeds, r.checked, r.cur, r.dir)
    BY RecNum
  <2> QED  BY <2>1, <2>2
<1>7. ASSUME NEW p, NEW n, NEW F
      PROVE  [[[r EXCEPT !.pc = p] EXCEPT !.num = n] EXCEPT !.first = F]
               = Rec(p, n, F, r.seeds, r.checked, r.cur, r.dir)
  <2>1. [[r EXCEPT !.pc = p] EXCEPT !.num = n]
          = Rec(p, n, r.first, r.seeds, r.checked, r.cur, r.dir)
    BY <1>6
  <2>2. [Rec(p, n, r.first, r.seeds, r.checked, r.cur, r.dir) EXCEPT !.first = F]
          = Rec(p, n, F, r.seeds, r.checked, r.cur, r.dir)
    BY RecFirst
  <2> QED  BY <2>1, <2>2
<1>8. CASE ReadInputsSize(k)
  <2>1. PICK n \in SeenSizes, p \in {"sizing", "resizing"} :
          creator' = [creator EXCEPT ![k].pc = p, ![k].num = n]
    BY <1>8 DEF ReadInputsSize
  <2>2. n \in Nat
    BY CorpusAssumption DEF SeenSizes, CorpusInv, CorpusTypes
  <2>3. creator' = [creator EXCEPT ![k] = [[r EXCEPT !.pc = p] EXCEPT !.num = n]]
    BY <1>2, <2>1 DEF CreatorTypes
  <2>4. [[r EXCEPT !.pc = p] EXCEPT !.num = n]
          = Rec(p, n, r.first, r.seeds, r.checked, r.cur, r.dir)
    BY <1>6
  <2> QED  BY <1>3, <1>5, <2>2, <2>3, <2>4
<1>9. CASE ReadDeleteNums(k)
  <2>1. PICK n \in Nat : n = (r.num - deleteNums) % Word
    BY <1>2, CountType
  <2>2. CASE creator' = [creator EXCEPT ![k].pc = "counted", ![k].num = 0, ![k].first = n]
    <3>1. creator' = [creator EXCEPT ![k] =
                        [[[r EXCEPT !.pc = "counted"] EXCEPT !.num = 0] EXCEPT !.first = n]]
      BY <1>2, <2>2 DEF CreatorTypes
    <3>2. [[[r EXCEPT !.pc = "counted"] EXCEPT !.num = 0] EXCEPT !.first = n]
            = Rec("counted", 0, n, r.seeds, r.checked, r.cur, r.dir)
      BY <1>7
    <3> QED  BY <1>5, <3>1, <3>2
  <2>3. ASSUME NEW m \in {SeedsNum(r.first, n), SeedsNum(n, r.first)},
               creator' = [creator EXCEPT ![k].pc = "sized", ![k].num = m, ![k].first = 0]
        PROVE  CreatorTypes'
    <3>1. m \in Nat
      BY <1>3, SeedsNumType
    <3>2. creator' = [creator EXCEPT ![k] =
                        [[[r EXCEPT !.pc = "sized"] EXCEPT !.num = m] EXCEPT !.first = 0]]
      BY <1>2, <2>3 DEF CreatorTypes
    <3>3. [[[r EXCEPT !.pc = "sized"] EXCEPT !.num = m] EXCEPT !.first = 0]
            = Rec("sized", m, 0, r.seeds, r.checked, r.cur, r.dir)
      BY <1>7
    <3> QED  BY <1>5, <3>1, <3>2, <3>3
  <2> QED  BY <1>2, <1>9, <2>1, <2>2, <2>3 DEF ReadDeleteNums
<1> QED  BY <1>8, <1>9

(* Drawing gives the creator indices of live inputs.                       *)
LEMMA DrawTypes ==
  ASSUME CorpusInv, CreatorTypes, NEW k \in Creators, GetJobSeeds(k)
  PROVE  CreatorTypes'
<1>1. DOMAIN inputs' = DOMAIN inputs
  BY DrawInv
<1>2. PICK r : r = creator[k]
  OBVIOUS
<1>3. PICK S \in Drawable(r.num) : \E T \in Fallback(S, r.num) :
        creator' = [creator EXCEPT ![k].pc = "copy", ![k].seeds = T]
  BY <1>2 DEF GetJobSeeds
<1>4. PICK T \in Fallback(S, r.num) :
        creator' = [creator EXCEPT ![k].pc = "copy", ![k].seeds = T]
  BY <1>3
<1>5. T \subseteq DOMAIN inputs
  BY <1>3, <1>4 DEF Drawable, Fallback, Unlocked, Live
<1>6. T \in SUBSET Nat
  BY <1>5 DEF CorpusInv, CorpusTypes
<1>7. r.pc = "sized"
  BY <1>2 DEF GetJobSeeds
<1>8. creator' = [creator EXCEPT ![k] = [[r EXCEPT !.pc = "copy"] EXCEPT !.seeds = T]]
  BY <1>2, <1>4 DEF CreatorTypes
<1>9. [[r EXCEPT !.pc = "copy"] EXCEPT !.seeds = T]
        = Rec("copy", r.num, r.first, T, r.checked, r.cur, r.dir)
  <2>1. r = Rec(r.pc, r.num, r.first, r.seeds, r.checked, r.cur, r.dir)
    BY <1>2, RecOf
  <2>2. [r EXCEPT !.pc = "copy"] = Rec("copy", r.num, r.first, r.seeds, r.checked, r.cur, r.dir)
    BY <2>1, RecPc
  <2>3. [Rec("copy", r.num, r.first, r.seeds, r.checked, r.cur, r.dir) EXCEPT !.seeds = T]
          = Rec("copy", r.num, r.first, T, r.checked, r.cur, r.dir)
    BY RecSeeds
  <2> QED  BY <2>2, <2>3
<1>10. /\ Rec("copy", r.num, r.first, T, r.checked, r.cur, r.dir) \in CreatorType
       /\ CreatorOK(Rec("copy", r.num, r.first, T, r.checked, r.cur, r.dir), DOMAIN inputs)
  <2>1. r.checked = {} /\ r.dir = {} /\ r.num \in Nat /\ r.first \in Nat /\ r.cur \in Nat
    BY <1>2, <1>7, RecOf
  <2> QED  BY <1>5, <1>6, <2>1, RecType
<1> QED  BY <1>1, <1>8, <1>9, <1>10, CreatorMoves

(* Looking at a seed remembers it as checked.                              *)
LEMMA CheckTypes ==
  ASSUME CorpusInv, CreatorTypes, NEW k \in Creators, NEW i \in DOMAIN inputs, CheckLive(k, i)
  PROVE  CreatorTypes'
<1>1. DOMAIN inputs' = DOMAIN inputs
  BY DEF CheckLive, corpusVars
<1>2. PICK r : r = creator[k]
  OBVIOUS
<1>3. PICK p : p = IF inputs[i].live THEN "file" ELSE "copy"
  OBVIOUS
<1>4. PICK C : C = r.checked \cup {i}
  OBVIOUS
<1>5. creator' = [creator EXCEPT ![k] =
                    [[[r EXCEPT !.checked = C] EXCEPT !.pc = p] EXCEPT !.cur = i]]
  BY <1>2, <1>3, <1>4 DEF CheckLive, CreatorTypes
<1>6. [[[r EXCEPT !.checked = C] EXCEPT !.pc = p] EXCEPT !.cur = i]
        = Rec(p, r.num, r.first, r.seeds, C, i, r.dir)
  <2>1. r = Rec(r.pc, r.num, r.first, r.seeds, r.checked, r.cur, r.dir)
    BY <1>2, RecOf
  <2>2. [r EXCEPT !.checked = C] = Rec(r.pc, r.num, r.first, r.seeds, C, r.cur, r.dir)
    BY <2>1, RecChecked
  <2>3. [Rec(r.pc, r.num, r.first, r.seeds, C, r.cur, r.dir) EXCEPT !.pc = p]
          = Rec(p, r.num, r.first, r.seeds, C, r.cur, r.dir)
    BY RecPc
  <2>4. [Rec(p, r.num, r.first, r.seeds, C, r.cur, r.dir) EXCEPT !.cur = i]
          = Rec(p, r.num, r.first, r.seeds, C, i, r.dir)
    BY RecCur
  <2> QED  BY <2>2, <2>3, <2>4
<1>7. /\ Rec(p, r.num, r.first, r.seeds, C, i, r.dir) \in CreatorType
      /\ CreatorOK(Rec(p, r.num, r.first, r.seeds, C, i, r.dir), DOMAIN inputs)
  <2>1. i \in r.seeds /\ p \in {"file", "copy"}
    BY <1>2, <1>3 DEF CheckLive
  <2>2. /\ r.seeds \in SUBSET Nat /\ r.seeds \subseteq DOMAIN inputs /\ r.checked \subseteq r.seeds
        /\ r.dir \in SUBSET Nat /\ r.dir \subseteq r.checked \cup {0} /\ r.num \in Nat
        /\ r.first \in Nat
    BY <1>2, RecOf
  <2>3. C \in SUBSET r.seeds /\ r.dir \subseteq C \cup {0} /\ i \in C /\ i \in Nat
    BY <1>4, <2>1, <2>2
  <2> QED  BY <2>1, <2>2, <2>3, RecType
<1> QED  BY <1>1, <1>5, <1>6, <1>7, CreatorMoves

(* Copying adds the current seed to the directory, or nothing.             *)
LEMMA CopyTypes ==
  ASSUME CorpusInv, CreatorTypes, NEW k \in Creators, CopyFile(k) \/ CopyDone(k)
  PROVE  CreatorTypes'
<1>1. DOMAIN inputs' = DOMAIN inputs
  BY DEF CopyFile, CopyDone, corpusVars
<1>2. PICK r : r = creator[k]
  OBVIOUS
<1>3. /\ r = Rec(r.pc, r.num, r.first, r.seeds, r.checked, r.cur, r.dir)
      /\ r.seeds \in SUBSET Nat /\ r.seeds \subseteq DOMAIN inputs /\ r.checked \subseteq r.seeds
      /\ r.dir \in SUBSET Nat /\ r.dir \subseteq r.checked \cup {0}
      /\ r.pc = "file" => r.cur \in r.checked
      /\ r.num \in Nat /\ r.first \in Nat /\ r.cur \in Nat
  BY <1>2, RecOf
<1>4. ASSUME NEW p \in {"copy", "ready"}, NEW D \in SUBSET Nat, D \subseteq r.checked \cup {0},
             creator' = [creator EXCEPT ![k] = [[r EXCEPT !.pc = p] EXCEPT !.dir = D]]
      PROVE  CreatorTypes'
  <2>1. [r EXCEPT !.pc = p] = Rec(p, r.num, r.first, r.seeds, r.checked, r.cur, r.dir)
    BY <1>3, RecPc
  <2>2. [Rec(p, r.num, r.first, r.seeds, r.checked, r.cur, r.dir) EXCEPT !.dir = D]
          = Rec(p, r.num, r.first, r.seeds, r.checked, r.cur, D)
    BY RecDir
  <2>3. creator' = [creator EXCEPT ![k] = Rec(p, r.num, r.first, r.seeds, r.checked, r.cur, D)]
    BY <1>4, <2>1, <2>2
  <2>4. /\ Rec(p, r.num, r.first, r.seeds, r.checked, r.cur, D) \in CreatorType
        /\ CreatorOK(Rec(p, r.num, r.first, r.seeds, r.checked, r.cur, D), DOMAIN inputs)
    BY <1>3, <1>4, RecType
  <2> QED  BY <1>1, <2>3, <2>4, CreatorMoves
<1>5. CASE CopyFile(k)
  <2>1. PICK D : D = IF SourceExists(r.cur) /\ \A j \in r.dir : Name(j) # Name(r.cur)
                       THEN r.dir \cup {r.cur} ELSE r.dir
    OBVIOUS
  <2>2. D \in SUBSET Nat /\ D \subseteq r.checked \cup {0}
    BY <1>2, <1>3, <1>5, <2>1 DEF CopyFile
  <2>3. creator' = [creator EXCEPT ![k] = [[r EXCEPT !.pc = "copy"] EXCEPT !.dir = D]]
    BY <1>2, <1>5, <2>1 DEF CopyFile, CreatorTypes
  <2> QED  BY <1>4, <2>2, <2>3
<1>6. CASE CopyDone(k)
  <2>1. PICK D : D = IF r.seeds = {} THEN {0} ELSE r.dir
    OBVIOUS
  <2>2. D \in SUBSET Nat /\ D \subseteq r.checked \cup {0}
    BY <1>3, <2>1
  <2>3. creator' = [creator EXCEPT ![k] = [[r EXCEPT !.pc = "ready"] EXCEPT !.dir = D]]
    BY <1>2, <1>6, <2>1 DEF CopyDone, CreatorTypes
  <2> QED  BY <1>4, <2>2, <2>3
<1> QED  BY <1>5, <1>6

(* The slot of a creator is free again.                                    *)
LEMMA PushTypes ==
  ASSUME CreatorTypes, NEW k \in Creators, PushJob(k)
  PROVE  CreatorTypes'
<1>1. DOMAIN inputs' = DOMAIN inputs /\ creator' = [creator EXCEPT ![k] = Idle]
  BY DEF PushJob, corpusVars
<1>2. Idle = Rec("idle", 0, 0, {}, {}, 0, {})
  BY DEF Idle, Rec
<1>3. /\ Rec("idle", 0, 0, {}, {}, 0, {}) \in CreatorType
      /\ CreatorOK(Rec("idle", 0, 0, {}, {}, 0, {}), DOMAIN inputs)
  BY RecType
<1> QED  BY <1>1, <1>2, <1>3, CreatorMoves

LEMMA InitIInv == Init => IInv
<1> SUFFICES ASSUME Init PROVE IInv
  OBVIOUS
<1>1. CorpusInv
  BY InitInv
<1>2. Idle = Rec("idle", 0, 0, {}, {}, 0, {})
  BY DEF Idle, Rec
<1>3. Idle \in CreatorType /\ CreatorOK(Idle, DOMAIN inputs)
  BY <1>2, RecType
<1>4. CreatorTypes
  BY <1>3 DEF Init, CreatorTypes
<1> QED  BY <1>1, <1>4 DEF IInv

(* Every step of the specification preserves the inductive invariant.      *)
LEMMA NextIInv == IInv /\ [Next]_vars => IInv'
<1> SUFFICES ASSUME IInv, [Next]_vars PROVE IInv'
  OBVIOUS
<1>0. CorpusInv /\ CreatorTypes
  BY DEF IInv
<1>1. ASSUME NEW c \in Contents, LoadSeed(c) PROVE IInv'
  <2>1. CorpusInv'
    <3>1. toLoad' \in SUBSET InitialSeeds /\ mtx' \in {"load", "free", "merge"}
      BY <1>0, <1>1 DEF LoadSeed, CorpusInv, CorpusTypes
    <3>2. ~Adding /\ Offer(c, TRUE) /\ UNCHANGED corpusVars
      BY <1>1 DEF LoadSeed
    <3> QED  BY <1>0, <3>1, <3>2, OfferInv
  <2>2. CreatorTypes'
    BY <1>0, <1>1, CreatorStays DEF LoadSeed, corpusVars
  <2> QED  BY <2>1, <2>2 DEF IInv
<1>2. ASSUME NEW c \in Contents, OfferCandidate(c) PROVE IInv'
  <2>1. CorpusInv'
    <3>1. toLoad' \in SUBSET InitialSeeds /\ mtx' \in {"load", "free", "merge"}
      BY <1>0, <1>2 DEF OfferCandidate, CorpusInv, CorpusTypes
    <3>2. ~Adding /\ Offer(c, FALSE) /\ UNCHANGED corpusVars
      BY <1>2 DEF OfferCandidate
    <3> QED  BY <1>0, <3>1, <3>2, OfferInv
  <2>2. CreatorTypes'
    BY <1>0, <1>2, CreatorStays DEF OfferCandidate, corpusVars
  <2> QED  BY <2>1, <2>2 DEF IInv
<1>3. CASE DoneLoading \/ BeginMerge \/ EndMerge
  <2>1. UNCHANGED <<corpusVars, toLoad, cand, creator>> /\ mtx' \in {"load", "free", "merge"}
    BY <1>3 DEF DoneLoading, BeginMerge, EndMerge
  <2>2. CorpusInv'
    <3>1. toLoad' \in SUBSET InitialSeeds
      BY <1>0, <2>1 DEF CorpusInv, CorpusTypes
    <3> QED  BY <1>0, <2>1, <3>1, OtherInv
  <2>3. CreatorTypes'
    BY <1>0, <2>1, CreatorStays DEF corpusVars
  <2> QED  BY <2>2, <2>3 DEF IInv
<1>4. ASSUME NEW f \in Features, EvictFile(f) \/ EvictLive(f) \/ AddFeature(f) PROVE IInv'
  <2>1. CorpusInv'
    BY <1>0, <1>4, EvictFileInv, EvictLiveInv, AddFeatureInv
  <2>2. DOMAIN inputs \subseteq DOMAIN inputs' /\ UNCHANGED creator
    BY <1>4 DEF EvictFile, EvictLive, AddFeature, DropFeature
  <2> QED  BY <1>0, <2>1, <2>2, CreatorStays DEF IInv
<1>5. CASE AddToCorpus
  <2>1. CorpusInv'
    BY <1>0, <1>5, AbandonInv, KeepInv
  <2>2. DOMAIN inputs \subseteq DOMAIN inputs' /\ UNCHANGED creator
    BY <1>0, <1>5 DEF AddToCorpus, CorpusInv, CorpusTypes
  <2> QED  BY <1>0, <2>1, <2>2, CreatorStays DEF IInv
<1>6. ASSUME NEW k \in Creators, GetJobSeeds(k) PROVE IInv'
  BY <1>0, <1>6, DrawInv, DrawTypes DEF IInv
<1>7. ASSUME NEW k \in Creators,
             \/ ReadInputsSize(k) \/ ReadDeleteNums(k) \/ CopyFile(k) \/ CopyDone(k) \/ PushJob(k)
             \/ \E i \in DOMAIN inputs : CheckLive(k, i)
      PROVE  IInv'
  <2>1. UNCHANGED <<corpusVars, toLoad, mtx, cand>>
    BY <1>7 DEF ReadInputsSize, ReadDeleteNums, CopyFile, CopyDone, PushJob, CheckLive
  <2>2. CorpusInv'
    <3>1. toLoad' \in SUBSET InitialSeeds /\ mtx' \in {"load", "free", "merge"}
      BY <1>0, <2>1 DEF CorpusInv, CorpusTypes
    <3> QED  BY <1>0, <2>1, <3>1, OtherInv
  <2>3. CreatorTypes'
    BY <1>0, <1>7, ReadTypes, CopyTypes, PushTypes, CheckTypes
  <2> QED  BY <2>2, <2>3 DEF IInv
<1>8. CASE UNCHANGED vars
  <2>1. UNCHANGED <<corpusVars, toLoad, mtx, cand, creator>>
    BY <1>8 DEF vars
  <2>2. CorpusInv'
    <3>1. toLoad' \in SUBSET InitialSeeds /\ mtx' \in {"load", "free", "merge"}
      BY <1>0, <2>1 DEF CorpusInv, CorpusTypes
    <3> QED  BY <1>0, <2>1, <3>1, OtherInv
  <2>3. CreatorTypes'
    BY <1>0, <2>1, CreatorStays DEF corpusVars
  <2> QED  BY <2>2, <2>3 DEF IInv
<1> QED  BY <1>1, <1>2, <1>3, <1>4, <1>5, <1>6, <1>7, <1>8 DEF Next

(* The tables of GlobalCorpusInfo (FuzzerFork.h:296-488) agree with each   *)
(* other after every step, in the middle of AddFeature's loop too.         *)
THEOREM CorpusConsistent == Spec => []IInv
<1>1. Init => IInv
  BY InitIInv
<1>2. IInv /\ [Next]_vars => IInv'
  BY NextIInv
<1> QED  BY <1>1, <1>2, PTL DEF Spec

(* Every variable keeps its type: the feature counts fit their 16 bits and *)
(* the indices a creator holds while merges go on name existing inputs.    *)
THEOREM TypesHold == Spec => []TypeOK
<1>1. IInv => TypeOK
  BY DEF IInv, CorpusInv, TypeOK
<1> QED  BY <1>1, CorpusConsistent, PTL

(* NumFeatures of an input is the number of features it owns and an input  *)
(* is live exactly while it owns one, or is being evicted for its last     *)
(* one: the assertion SI.NumFeatures > 0                                   *)
(* (FuzzerFork.h:342) cannot fail, and DeleteNums counts what is dead.     *)
THEOREM OwnershipHolds == Spec => [](Ownership /\ LiveCount)
<1>1. IInv => Ownership /\ LiveCount
  BY DEF IInv, CorpusInv
<1> QED  BY <1>1, CorpusConsistent, PTL

(* No content is in the corpus twice, so the file an eviction unlinks is   *)
(* never that of another input, and the file of a live input exists unless *)
(* DeleteInput has just unlinked it.                                       *)
THEOREM FilesHold == Spec => [](AddedOnce /\ LiveOnDisk)
<1>1. IInv => AddedOnce /\ LiveOnDisk
  BY DEF IInv, CorpusInv
<1> QED  BY <1>1, CorpusConsistent, PTL

LEMMA OwnersCover == IInv => DiskCoversFeatures
<1> SUFFICES ASSUME IInv, ~Adding, NEW f \in features
             PROVE  \E c \in disk : f \in FeaturesOf[c]
  BY DEF DiskCoversFeatures
<1>1. f \in Features
  BY DEF IInv, CorpusInv, CorpusTypes
<1>2. owner[f] \in 0..Next1 /\ owner[f] # 0 /\ owner[f] # Next1
  BY <1>1 DEF IInv, CorpusInv, OwnerOK
<1>3. owner[f] \in DOMAIN inputs
  BY <1>2 DEF IInv, CorpusInv, CorpusTypes, Next1
<1>4. f \in Owned(owner[f])
  BY <1>1 DEF Owned
<1>5. Cardinality(Owned(owner[f])) > 0
  BY <1>4, OwnedFinite, FS_EmptySet
<1>6. owner[f] \in Live \ Victims
  <2>1. Victims = {}
    BY DEF IInv, CorpusInv, EvictOK, Victims
  <2> QED  BY <1>3, <1>5, <2>1 DEF IInv, CorpusInv, Ownership, Live
<1>7. inputs[owner[f]].content \in disk
  BY <1>6 DEF IInv, CorpusInv, LiveOnDisk
<1>8. f \in FeaturesOf[inputs[owner[f]].content]
  BY <1>1, <1>3 DEF IInv, CorpusInv, OwnerOK
<1> QED  BY <1>7, <1>8

(* Whatever is evicted, the main corpus directory keeps a file for every   *)
(* feature fork mode has counted as found.                                 *)
THEOREM CoverageKept == Spec => []DiskCoversFeatures
BY CorpusConsistent, OwnersCover, PTL


-----------------------------------------------------------------------------
(* What creators and the list of features rely on.                         *)

(* Records of inputs stay, and only ever change in what makes them locked, *)
(* dead or smaller; features that were found stay found.                   *)
LEMMA RecordsStay ==
  ASSUME IInv, [Next]_vars
  PROVE  /\ features \subseteq features'
         /\ DOMAIN inputs \subseteq DOMAIN inputs'
         /\ \A i \in DOMAIN inputs :
              /\ inputs'[i].content = inputs[i].content
              /\ inputs'[i].initial = inputs[i].initial
              /\ inputs'[i].live => inputs[i].live
<1>0. /\ CorpusInv /\ inputs \in Seq(InputType)
      /\ \A i \in DOMAIN inputs : inputs[i] \in InputType
  BY DEF IInv, CorpusInv, CorpusTypes
<1>1. CASE UNCHANGED <<inputs, features>>
  BY <1>1
<1>2. ASSUME NEW f \in Features, AddFeature(f), Takes(f, SizeOf[cand.content]), sizeFor[f] # 0
      PROVE  /\ features \subseteq features'
             /\ DOMAIN inputs \subseteq DOMAIN inputs'
             /\ \A i \in DOMAIN inputs :
                  /\ inputs'[i].content = inputs[i].content
                  /\ inputs'[i].initial = inputs[i].initial
                  /\ inputs'[i].live => inputs[i].live
  <2>1. PICK p \in DOMAIN inputs : /\ inputs' = [inputs EXCEPT ![p] = Without(inputs[p])]
                                   /\ UNCHANGED features
    BY <1>0, <1>2, LoserFacts
  <2>2. \A i \in DOMAIN inputs : i # p => inputs'[i] = inputs[i]
    BY <2>1
  <2>3. /\ inputs'[p].content = inputs[p].content
        /\ inputs'[p].initial = inputs[p].initial
        /\ inputs'[p].live = inputs[p].live
    BY <2>1 DEF Without
  <2> QED
    BY <2>1, <2>2, <2>3
<1>3. ASSUME NEW f \in Features, AddFeature(f), ~(Takes(f, SizeOf[cand.content]) /\ sizeFor[f] # 0)
      PROVE  UNCHANGED inputs /\ features \subseteq features'
  <2>1. sizeFor[f] \in Nat
    BY <1>0 DEF CorpusInv, CorpusTypes
  <2> QED
    BY <1>3, <2>1 DEF AddFeature
<1>4. CASE AddToCorpus
  <2>1. UNCHANGED features /\ (inputs' = inputs \/ inputs' = Append(inputs, NewInput))
    BY <1>4 DEF AddToCorpus
  <2>2. \A i \in DOMAIN inputs : i \in DOMAIN inputs' /\ inputs'[i] = inputs[i]
    BY <1>0, <2>1
  <2> QED
    BY <2>1, <2>2
<1>5. ASSUME NEW k \in Creators, GetJobSeeds(k)
      PROVE  /\ features \subseteq features'
             /\ DOMAIN inputs \subseteq DOMAIN inputs'
             /\ \A i \in DOMAIN inputs :
                  /\ inputs'[i].content = inputs[i].content
                  /\ inputs'[i].initial = inputs[i].initial
                  /\ inputs'[i].live => inputs[i].live
  <2>1. PICK T : inputs' = [i \in DOMAIN inputs |->
                   IF i \in T THEN [inputs[i] EXCEPT !.locked = TRUE] ELSE inputs[i]]
    BY <1>5 DEF GetJobSeeds
  <2>2. UNCHANGED features /\ DOMAIN inputs' = DOMAIN inputs
    BY <1>5, <2>1 DEF GetJobSeeds
  <2>3. ASSUME NEW i \in DOMAIN inputs
        PROVE  /\ inputs'[i].content = inputs[i].content
               /\ inputs'[i].initial = inputs[i].initial
               /\ inputs'[i].live = inputs[i].live
    <3>1. CASE i \in T
      <4>1. inputs'[i] = [inputs[i] EXCEPT !.locked = TRUE]
        BY <2>1, <3>1
      <4> QED
        BY <1>0, <4>1 DEF InputType
    <3>2. CASE i \notin T
      BY <2>1, <3>2
    <3> QED
      BY <3>1, <3>2
  <2> QED
    BY <2>2, <2>3
<1>6. ASSUME NEW c \in Contents, LoadSeed(c) \/ OfferCandidate(c) PROVE UNCHANGED <<inputs, features>>
  BY <1>6 DEF LoadSeed, OfferCandidate, corpusVars
<1>7. CASE DoneLoading \/ BeginMerge \/ EndMerge \/ UNCHANGED vars
  BY <1>1, <1>7 DEF DoneLoading, BeginMerge, EndMerge, corpusVars, vars
<1>8. ASSUME NEW k \in Creators,
             \/ ReadInputsSize(k) \/ ReadDeleteNums(k) \/ CopyFile(k) \/ CopyDone(k) \/ PushJob(k)
             \/ \E i \in DOMAIN inputs : CheckLive(k, i)
      PROVE  UNCHANGED <<inputs, features>>
  BY <1>8 DEF ReadInputsSize, ReadDeleteNums, CopyFile, CopyDone, PushJob, CheckLive, corpusVars
<1>9. ASSUME NEW f \in Features, EvictLive(f)
      PROVE  /\ features \subseteq features'
             /\ DOMAIN inputs \subseteq DOMAIN inputs'
             /\ \A i \in DOMAIN inputs :
                  /\ inputs'[i].content = inputs[i].content
                  /\ inputs'[i].initial = inputs[i].initial
                  /\ inputs'[i].live => inputs[i].live
  <2>1. /\ inputs' = [inputs EXCEPT ![owner[f]] = Dead(inputs[owner[f]])]
        /\ UNCHANGED features /\ inputs[owner[f]].live
    BY <1>0, <1>9, EvictLiveInv DEF EvictLive
  <2> QED
    BY <2>1 DEF Dead
<1>10. ASSUME NEW f \in Features, EvictFile(f) PROVE UNCHANGED <<inputs, features>>
  BY <1>10 DEF EvictFile
<1> QED
  BY <1>1, <1>2, <1>3, <1>4, <1>5, <1>6, <1>7, <1>8, <1>9, <1>10 DEF Next

(* The input being evicted stays so until it is dead.                      *)
LEMMA VictimsStay ==
  ASSUME IInv, [Next]_vars, NEW i \in DOMAIN inputs, i \in Victims
  PROVE  i \in Victims' \/ ~inputs'[i].live
<1>1. PICK f \in evicting : i = owner[f]
  BY DEF Victims
<1>2. Adding /\ evicting = {f} /\ f \in cand.todo /\ Evicts(f)
  BY <1>1 DEF IInv, CorpusInv, EvictOK
<1>3. CASE UNCHANGED <<evicting, owner>>
  BY <1>1, <1>3 DEF Victims
<1>4. ASSUME NEW g \in Features, AddFeature(g) PROVE ~inputs'[i].live
  <2>1. g = f
    BY <1>2, <1>4 DEF AddFeature
  <2>2. ~inputs[i].live /\ f \in Features /\ i \in DOMAIN inputs
    BY <1>1, <1>2, <1>4, <2>1 DEF AddFeature
  <2> QED  BY <2>2, RecordsStay
<1>5. ASSUME NEW g \in Features, EvictFile(g) PROVE FALSE
  BY <1>2, <1>5 DEF EvictFile
<1>6. CASE \/ \E c \in Contents : LoadSeed(c) \/ OfferCandidate(c)
           \/ DoneLoading \/ BeginMerge \/ EndMerge \/ AddToCorpus \/ UNCHANGED vars
           \/ \E g \in Features : EvictLive(g)
  BY <1>3, <1>6 DEF LoadSeed, OfferCandidate, DoneLoading, BeginMerge, EndMerge, AddToCorpus,
     EvictLive, corpusVars, vars
<1>7. ASSUME NEW k \in Creators,
             \/ ReadInputsSize(k) \/ ReadDeleteNums(k) \/ GetJobSeeds(k) \/ CopyFile(k)
             \/ CopyDone(k) \/ PushJob(k) \/ \E j \in DOMAIN inputs : CheckLive(k, j)
      PROVE  UNCHANGED <<evicting, owner>>
  BY <1>7 DEF ReadInputsSize, ReadDeleteNums, GetJobSeeds, CopyFile, CopyDone, PushJob, CheckLive,
     corpusVars
<1> QED
  BY <1>3, <1>4, <1>5, <1>6, <1>7 DEF Next

(* A count that has become two never comes by one again.                   *)
LEMMA FrequentStep == ASSUME IInv, FrequentOnce, [Next]_vars PROVE FrequentOnce'
<1>1. CASE UNCHANGED <<freqs, nonZero>>
  BY <1>1 DEF FrequentOnce, NonZeroOnce
<1>2. ASSUME NEW f \in Features, AddFeature(f) PROVE FrequentOnce'
  <2>1. /\ UpdateFeatureFrequency(f) /\ freqs \in [Features -> 0..MaxFreq] /\ nonZero \in Seq(Features)
        /\ MaxFreq \in Nat
    BY <1>2, CorpusAssumption DEF AddFeature, IInv, CorpusInv, CorpusTypes
  <2>2. CASE freqs[f] = MaxFreq
    BY <1>1, <2>1, <2>2 DEF UpdateFeatureFrequency
  <2>3. CASE freqs[f] # MaxFreq /\ freqs[f] # 1
    <3>1. nonZero' = nonZero /\ freqs' = [freqs EXCEPT ![f] = freqs[f] + 1]
      BY <2>1, <2>3 DEF UpdateFeatureFrequency
    <3>2. \A g \in Features : freqs'[g] >= freqs[g]
      BY <2>1, <3>1
    <3>3. \A i \in DOMAIN nonZero : nonZero[i] \in Features /\ freqs[nonZero[i]] \in Nat
                                    /\ freqs'[nonZero[i]] \in Nat
      BY <2>1, <3>1
    <3> QED
      BY <3>1, <3>2, <3>3 DEF FrequentOnce, NonZeroOnce
  <2>4. CASE freqs[f] # MaxFreq /\ freqs[f] = 1
    <3>1. nonZero' = Append(nonZero, f) /\ freqs' = [freqs EXCEPT ![f] = 2]
      BY <2>1, <2>4 DEF UpdateFeatureFrequency
    <3>2. /\ Len(nonZero) \in Nat /\ DOMAIN nonZero = 1..Len(nonZero)
          /\ DOMAIN nonZero' = 1..(Len(nonZero) + 1)
          /\ \A i \in 1..Len(nonZero) : nonZero'[i] = nonZero[i]
          /\ nonZero'[Len(nonZero) + 1] = f
      BY <2>1, <3>1
    <3>3. \A i \in 1..Len(nonZero) : nonZero[i] \in Features /\ freqs[nonZero[i]] > 1 /\ nonZero[i] # f
      <4>1. \A i \in 1..Len(nonZero) : i \in DOMAIN nonZero /\ nonZero[i] \in Features
        BY <2>1, <3>2
      <4>2. \A i \in 1..Len(nonZero) : freqs[nonZero[i]] > 1
        BY <4>1 DEF FrequentOnce
      <4>3. ~(freqs[f] > 1)
        BY <2>4
      <4> QED
        BY <4>1, <4>2, <4>3
    <3>4. \A i \in 1..Len(nonZero) : freqs'[nonZero[i]] > 1
      BY <2>1, <3>1, <3>3
    <3>5. freqs'[f] > 1
      BY <2>1, <3>1
    <3>6. \A i \in DOMAIN nonZero' : freqs'[nonZero'[i]] > 1
      BY <3>2, <3>4, <3>5
    <3>7. NonZeroOnce'
      <4> SUFFICES ASSUME NEW i \in DOMAIN nonZero', NEW j \in DOMAIN nonZero', nonZero'[i] = nonZero'[j]
                   PROVE  i = j
        BY DEF NonZeroOnce
      <4>1. CASE i \in 1..Len(nonZero) /\ j \in 1..Len(nonZero)
        BY <3>2, <4>1 DEF FrequentOnce, NonZeroOnce
      <4>2. CASE ~(i \in 1..Len(nonZero) /\ j \in 1..Len(nonZero))
        BY <3>2, <3>3, <4>2
      <4> QED
        BY <4>1, <4>2
    <3> QED
      BY <3>6, <3>7 DEF FrequentOnce
  <2> QED
    BY <2>2, <2>3, <2>4
<1>3. CASE Next /\ ~\E f \in Features : AddFeature(f)
  BY <1>1, <1>3 DEF Next, LoadSeed, OfferCandidate, DoneLoading, BeginMerge, EndMerge,
     EvictFile, EvictLive, AddToCorpus,
     ReadInputsSize, ReadDeleteNums, GetJobSeeds, CopyFile, CopyDone, PushJob, CheckLive, corpusVars
<1>4. CASE UNCHANGED vars
  BY <1>1, <1>4 DEF vars, corpusVars
<1> QED
  BY <1>2, <1>3, <1>4

(* The feature that a kept candidate took.                                 *)
LEMMA KeptFeature ==
  ASSUME IInv, Adding, Kept
  PROVE  \E f \in Features : f \in FeaturesOf[cand.content] /\ f \in features
<1>1. cand.updates = Cardinality(Owned(Next1)) /\ cand.updates > 0
  BY DEF IInv, CorpusInv, CandOK, Kept
<1>2. PICK f : f \in Owned(Next1)
  <2>1. Cardinality(Owned(Next1)) # 0
    BY <1>1
  <2> QED
    BY <2>1, OwnedFinite, FS_EmptySet
<1>3. f \in Features /\ owner[f] = Next1
  BY <1>2 DEF Owned
<1>4. Next1 # 0
  BY DEF Next1, IInv, CorpusInv, CorpusTypes
<1> QED
  BY <1>3, <1>4 DEF IInv, CorpusInv, OwnerOK

(* Where an input has come from.                                           *)
LEMMA OriginsStep == ASSUME IInv, Origins, [Next]_vars PROVE Origins'
<1>0. CorpusInv /\ inputs \in Seq(InputType)
  BY DEF IInv, CorpusInv, CorpusTypes
<1>1. ASSUME DOMAIN inputs' = DOMAIN inputs
      PROVE  \A i \in DOMAIN inputs' :
               /\ FeaturesOf[inputs'[i].content] # {}
               /\ inputs'[i].initial => inputs'[i].content \in InitialSeeds
  BY <1>1, RecordsStay DEF Origins
<1>2. ASSUME DOMAIN inputs' = DOMAIN inputs, UNCHANGED <<mtx, cand>> PROVE Origins'
  <2>1. Adding' <=> Adding
    BY <1>2 DEF Adding
  <2> QED
    BY <1>1, <1>2, <2>1 DEF Origins
<1>3. ASSUME NEW c \in Contents, LoadSeed(c) \/ OfferCandidate(c) PROVE Origins'
  <2>1. /\ mtx' # "free" /\ UNCHANGED inputs
        /\ cand'.content = c /\ (cand'.initial => c \in InitialSeeds)
    BY <1>3 DEF LoadSeed, OfferCandidate, Offer, corpusVars, IInv, CorpusInv, CorpusTypes
  <2> QED
    BY <1>1, <2>1 DEF Origins
<1>4. CASE DoneLoading \/ BeginMerge \/ EndMerge
  <2>1. UNCHANGED <<inputs, cand>> /\ (mtx' = "free" => ~Adding) /\ (Adding' <=> Adding)
    BY <1>4 DEF DoneLoading, BeginMerge, EndMerge, corpusVars, Adding
  <2> QED
    BY <1>1, <2>1 DEF Origins
<1>5. ASSUME NEW f \in Features, EvictFile(f) \/ EvictLive(f) \/ AddFeature(f) PROVE Origins'
  <2>1. /\ UNCHANGED mtx /\ cand \in CandType
        /\ cand'.content = cand.content /\ cand'.initial = cand.initial
    BY <1>5 DEF EvictFile, EvictLive, AddFeature, IInv, CorpusInv, CorpusTypes, CandType
  <2>2. DOMAIN inputs' = DOMAIN inputs
    BY <1>5 DEF EvictFile, EvictLive, AddFeature, DropFeature
  <2>3. Adding' <=> Adding
    BY <2>1 DEF Adding
  <2> QED
    BY <1>1, <2>1, <2>2, <2>3 DEF Origins
<1>6. CASE AddToCorpus
  <2>1. ~Adding' /\ Adding
    BY <1>6 DEF AddToCorpus, NoCand, Adding
  <2>2. CASE ~Kept
    BY <1>1, <1>6, <2>1, <2>2 DEF AddToCorpus, Origins
  <2>3. CASE Kept
    <3>1. inputs' = Append(inputs, NewInput)
      BY <1>6, <2>3 DEF AddToCorpus
    <3>2. /\ Len(inputs) \in Nat /\ DOMAIN inputs = 1..Len(inputs)
          /\ DOMAIN inputs' = 1..(Len(inputs) + 1)
          /\ \A i \in 1..Len(inputs) : inputs'[i] = inputs[i]
          /\ inputs'[Len(inputs) + 1] = NewInput
      BY <1>0, <3>1
    <3>3. FeaturesOf[cand.content] # {} /\ (cand.initial => cand.content \in InitialSeeds)
      BY <2>1, <2>3, KeptFeature DEF Origins
    <3>4. NewInput.content = cand.content /\ NewInput.initial = cand.initial
      BY DEF NewInput
    <3>5. \A i \in DOMAIN inputs' : i \in DOMAIN inputs \/ i = Len(inputs) + 1
      BY <3>2
    <3> QED
      BY <2>1, <3>2, <3>3, <3>4, <3>5 DEF Origins
  <2> QED
    BY <2>2, <2>3
<1>7. ASSUME NEW k \in Creators, GetJobSeeds(k) PROVE Origins'
  BY <1>0, <1>2, <1>7, DrawInv DEF GetJobSeeds
<1>8. ASSUME NEW k \in Creators,
             \/ ReadInputsSize(k) \/ ReadDeleteNums(k) \/ CopyFile(k) \/ CopyDone(k) \/ PushJob(k)
             \/ \E i \in DOMAIN inputs : CheckLive(k, i)
      PROVE  Origins'
  <2>1. UNCHANGED <<inputs, mtx, cand>>
    BY <1>8 DEF ReadInputsSize, ReadDeleteNums, CopyFile, CopyDone, PushJob, CheckLive,
       corpusVars
  <2> QED
    BY <1>2, <2>1
<1>9. CASE UNCHANGED vars
  BY <1>2, <1>9 DEF vars, corpusVars
<1> QED
  BY <1>3, <1>4, <1>5, <1>6, <1>7, <1>8, <1>9 DEF Next

(* The creator that moves, and the others, whose records stay.             *)
LEMMA OthersStay ==
  ASSUME IInv, [Next]_vars
  PROVE  \/ UNCHANGED creator
         \/ \E k \in Creators :
              /\ \A j \in Creators : j # k => creator'[j] = creator[j]
              /\ \/ ReadInputsSize(k) \/ ReadDeleteNums(k) \/ GetJobSeeds(k)
                 \/ CopyFile(k) \/ CopyDone(k) \/ PushJob(k)
                 \/ \E i \in DOMAIN inputs : CheckLive(k, i)
<1>0. creator \in [Creators -> CreatorType]
  BY DEF IInv, CreatorTypes
<1>1. ASSUME NEW k \in Creators,
             \/ ReadInputsSize(k) \/ ReadDeleteNums(k) \/ GetJobSeeds(k)
             \/ CopyFile(k) \/ CopyDone(k) \/ PushJob(k)
             \/ \E i \in DOMAIN inputs : CheckLive(k, i)
      PROVE  \A j \in Creators : j # k => creator'[j] = creator[j]
  BY <1>0, <1>1 DEF ReadInputsSize, ReadDeleteNums, GetJobSeeds, CopyFile, CopyDone, PushJob,
     CheckLive
<1>2. ASSUME NEW c \in Contents, LoadSeed(c) \/ OfferCandidate(c) PROVE UNCHANGED creator
  BY <1>2 DEF LoadSeed, OfferCandidate
<1>3. CASE DoneLoading \/ BeginMerge \/ EndMerge \/ AddToCorpus \/ UNCHANGED vars
  BY <1>3 DEF DoneLoading, BeginMerge, EndMerge, AddToCorpus, vars
<1>4. ASSUME NEW f \in Features, EvictFile(f) \/ EvictLive(f) \/ AddFeature(f) PROVE UNCHANGED creator
  BY <1>4 DEF EvictFile, EvictLive, AddFeature
<1> QED
  BY <1>1, <1>2, <1>3, <1>4 DEF Next

(* Where there is an input, a feature has been found.                      *)
LEMMA InputsFound ==
  ASSUME IInv, Origins, inputs # <<>>
  PROVE  features # {}
<1>1. inputs \in Seq(InputType) /\ 1 \in DOMAIN inputs /\ FeaturesOf \in [Contents -> SUBSET Features]
  BY CorpusAssumption DEF IInv, CorpusInv, CorpusTypes
<1>2. PICK f : f \in FeaturesOf[inputs[1].content]
  BY <1>1 DEF Origins
<1>3. inputs[1].content \in Contents /\ f \in Features
  <2>1. inputs[1] \in InputType
    BY <1>1
  <2>2. inputs[1].content \in Contents
    BY <2>1 DEF InputType
  <2> QED
    BY <1>1, <1>2, <2>2
<1>4. sizeFor[f] # 0
  <2>1. sizeFor[f] \in 1..SizeOf[inputs[1].content]
    BY <1>1, <1>2 DEF IInv, CorpusInv, SmallestOwner
  <2>2. SizeOf[inputs[1].content] \in Nat
    BY <1>3, CorpusAssumption
  <2> QED
    BY <2>1, <2>2
<1> QED
  BY <1>3, <1>4 DEF IInv, CorpusInv, OwnerOK

(* A creator asks for seeds only when a feature has been found.            *)
LEMMA AsksStep == ASSUME IInv, Origins, AsksAfterFeature, [Next]_vars PROVE AsksAfterFeature'
<1> SUFFICES ASSUME NEW j \in Creators, creator'[j].pc \notin {"copy", "file", "ready"},
                    creator'[j].num > 0 \/ creator'[j].first > 0
             PROVE  features' # {}
  BY DEF AsksAfterFeature
<1>1. features \subseteq features'
  BY RecordsStay
<1>2. CASE creator'[j] = creator[j]
  BY <1>1, <1>2 DEF AsksAfterFeature
<1>3. creator \in [Creators -> CreatorType] /\ creator[j] \in CreatorType
      /\ creator[j].num \in Nat /\ creator[j].first \in Nat /\ deleteNums \in Nat
      /\ inputs \in Seq(InputType)
  BY RecOf DEF IInv, CreatorTypes, CorpusInv, CorpusTypes
<1>4. CASE ReadInputsSize(j)
  <2>1. PICK n \in SeenSizes, p \in {"sizing", "resizing"} :
          creator' = [creator EXCEPT ![j].pc = p, ![j].num = n]
    BY <1>4 DEF ReadInputsSize
  <2>2. creator'[j].num = n /\ creator'[j].first = creator[j].first
        /\ creator[j].pc \in {"idle", "counted"}
    BY <1>3, <1>4, <2>1 DEF CreatorType, ReadInputsSize
  <2>3. CASE creator[j].first > 0
    BY <1>1, <2>2, <2>3 DEF AsksAfterFeature
  <2>4. CASE n > 0 /\ n = Len(inputs)
    BY <1>1, <1>3, <2>4, InputsFound
  <2>5. CASE n # Len(inputs)
    <3>1. Adding /\ Kept
      BY <2>5 DEF SeenSizes
    <3> QED
      BY <1>1, <3>1, KeptFeature
  <2> QED
    BY <2>2, <2>3, <2>4, <2>5
<1>5. CASE ReadDeleteNums(j)
  <2>1. PICK n \in Nat : n = (creator[j].num - deleteNums) % Word
    BY CountType DEF IInv
  <2>2. ASSUME n > 0 PROVE features # {}
    <3>1. CASE creator[j].num > 0
      <4>1. creator[j].pc \notin {"copy", "file", "ready"}
        BY <1>5 DEF ReadDeleteNums
      <4> QED
        BY <3>1, <4>1 DEF AsksAfterFeature
    <3>2. CASE creator[j].num = 0 /\ deleteNums = 0
      <4>1. 0 % Word = 0
        BY CorpusAssumption
      <4> QED
        BY <2>1, <2>2, <3>2, <4>1
    <3>3. CASE deleteNums > 0
      <4>1. \A S : S = Live \cup Victims /\ inputs = <<>> => S = {}
        <5>1. inputs = <<>> => Victims = {}
          <6>1. ASSUME NEW f \in evicting, inputs = <<>> PROVE FALSE
            <7>1. Adding /\ f \in cand.todo /\ Evicts(f) /\ f \in Features
              BY DEF IInv, CorpusInv, EvictOK, CorpusTypes
            <7>2. sizeFor[f] # 0 /\ Takes(f, SizeOf[cand.content])
              BY <7>1 DEF Evicts
            <7>3. owner[f] \in DOMAIN inputs
              BY <7>1, <7>2, LoserExists DEF IInv
            <7> QED
              BY <6>1, <7>3
          <6> QED
            BY <6>1 DEF Victims
        <5> QED
          BY <5>1 DEF Live
      <4>2. inputs # <<>>
        <5> SUFFICES ASSUME inputs = <<>> PROVE FALSE
          OBVIOUS
        <5>1. Live \cup Victims = {} /\ Len(inputs) = 0
          BY <4>1
        <5>2. Len(inputs) - deleteNums = 0
          BY <5>1, FS_EmptySet DEF IInv, CorpusInv, LiveCount, GetLiveInputsSize
        <5> QED
          BY <1>3, <3>3, <5>1, <5>2
      <4> QED
        BY <4>2, InputsFound
    <3> QED
      BY <1>3, <3>1, <3>2, <3>3
  <2>3. CASE creator' = [creator EXCEPT ![j].pc = "counted", ![j].num = 0, ![j].first = n]
    <3>1. creator'[j].num = 0 /\ creator'[j].first = n
      BY <1>3, <2>3 DEF CreatorType
    <3> QED
      BY <1>1, <2>2, <3>1
  <2>4. ASSUME creator[j].pc = "resizing",
               NEW m \in {SeedsNum(creator[j].first, n), SeedsNum(n, creator[j].first)},
               creator' = [creator EXCEPT ![j].pc = "sized", ![j].num = m, ![j].first = 0]
        PROVE  features' # {}
    <3>1. m > 0
      BY <1>3, <2>4 DEF CreatorType
    <3>2. n > 0 \/ creator[j].first > 0
      BY <1>3, <3>1, SeedsNumType
    <3> QED
      BY <1>1, <2>2, <2>4, <3>2 DEF AsksAfterFeature
  <2> QED
    BY <1>5, <2>1, <2>3, <2>4 DEF ReadDeleteNums
<1>6. CASE \/ GetJobSeeds(j) \/ CopyFile(j) \/ CopyDone(j) \/ PushJob(j)
           \/ \E i \in DOMAIN inputs : CheckLive(j, i)
  <2>1. CASE GetJobSeeds(j) \/ CopyFile(j) \/ CopyDone(j)
    <3>1. creator'[j].pc \in {"copy", "ready"}
      BY <1>3, <2>1 DEF GetJobSeeds, CopyFile, CopyDone, CreatorType
    <3> QED
      BY <3>1
  <2>2. CASE PushJob(j)
    BY <1>3, <2>2 DEF PushJob, Idle
  <2>3. ASSUME NEW i \in DOMAIN inputs, CheckLive(j, i) PROVE creator'[j].pc \in {"copy", "file"}
    BY <1>3, <2>3 DEF CheckLive, CreatorType
  <2> QED
    BY <1>6, <2>1, <2>2, <2>3
<1> QED
  BY <1>2, <1>4, <1>5, <1>6, OthersStay

(* A seed that was missed for its name stays so.                           *)
LEMMA MissedStays ==
  ASSUME IInv, [Next]_vars, NEW i \in DOMAIN inputs, NEW D \in SUBSET DOMAIN inputs,
         MissedFor(i, D)
  PROVE  MissedFor(i, D)'
<1>1. PICK j \in D : Name(j) = Name(i) /\ inputs[i].initial /\ inputs[j].initial
  BY DEF MissedFor
<1>2. /\ inputs'[i].content = inputs[i].content /\ inputs'[j].content = inputs[j].content
      /\ inputs'[i].initial /\ inputs'[j].initial
  BY <1>1, RecordsStay
<1>3. Name(j)' = Name(i)'
  BY <1>1, <1>2 DEF Name
<1> QED
  BY <1>1, <1>2, <1>3 DEF MissedFor

LEMMA CopiedStays ==
  ASSUME IInv, [Next]_vars, NEW r, r \in CreatorType, CreatorOK(r, DOMAIN inputs), CopiedBy(r)
  PROVE  CopiedBy(r)'
<1> SUFFICES ASSUME NEW i \in (r.checked \ r.dir) \ Victims', inputs'[i].live,
                    ~(r.pc = "file" /\ r.cur = i)
             PROVE  MissedFor(i, r.dir)'
  BY DEF CopiedBy
<1>1. r.dir \subseteq DOMAIN inputs /\ i \in DOMAIN inputs
  BY DEF CopiedBy, CreatorOK
<1>2. inputs[i].live /\ i \notin Victims
  BY <1>1, RecordsStay, VictimsStay
<1>3. MissedFor(i, r.dir)
  BY <1>2 DEF CopiedBy
<1> QED
  BY <1>1, <1>3, MissedStays

(* The file of a live seed is copied, unless a copy has its name, and then *)
(* both have the name of a seed.                                           *)
LEMMA MissedForName ==
  ASSUME IInv, Origins, NEW i \in DOMAIN inputs, NEW D \in SUBSET DOMAIN inputs, i \notin D,
         inputs[i].live, i \notin Victims, ~(SourceExists(i) /\ \A j \in D : Name(j) # Name(i))
  PROVE  MissedFor(i, D)
<1>1. SourceExists(i)
  BY DEF SourceExists, IInv, CorpusInv, LiveOnDisk, Live
<1>2. PICK j \in D : Name(j) = Name(i)
  BY <1>1
<1>3. inputs[i].content # inputs[j].content
  BY DEF IInv, CorpusInv, AddedOnce
<1>4. inputs[i].content \in Contents /\ inputs[j].content \in Contents
  <2>1. inputs[i] \in InputType /\ inputs[j] \in InputType
    BY DEF IInv, CorpusInv, CorpusTypes
  <2> QED
    BY <2>1 DEF InputType
<1>5. \A m \in {i, j} : inputs[m].initial => inputs[m].content \in InitialSeeds
  BY DEF Origins
<1>6. \A c \in InitialSeeds : SeedName[c] \in Contents => SeedName[c] = c
  BY CorpusAssumption
<1>7. inputs[i].initial /\ inputs[j].initial
  BY <1>2, <1>3, <1>4, <1>5, <1>6 DEF Name
<1> QED
  BY <1>2, <1>7 DEF MissedFor

(* What the copying has left out is excused after every step.              *)
LEMMA CopiesStep == ASSUME IInv, Origins, CopiesRight, [Next]_vars PROVE CopiesRight'
<1> SUFFICES ASSUME NEW k \in Creators PROVE CopiedBy(creator[k])'
  BY DEF CopiesRight
<1> PICK r : r = creator[k]
  OBVIOUS
<1> PICK s : s = creator'[k]
  OBVIOUS
<1>1. /\ r \in CreatorType /\ CreatorOK(r, DOMAIN inputs) /\ CopiedBy(r)
      /\ creator \in [Creators -> CreatorType]
      /\ r.seeds \subseteq DOMAIN inputs /\ r.checked \subseteq r.seeds
  BY DEF IInv, CreatorTypes, CreatorOK, CopiesRight
<1> SUFFICES CopiedBy(s)'
  BY DEF CopiedBy, MissedFor, Name
<1>2. CASE s = r
  BY <1>1, <1>2, CopiedStays
<1>3. ASSUME s.checked = {}, s.dir = {}, s.pc # "ready" PROVE CopiedBy(s)'
  BY <1>3 DEF CopiedBy
<1>4. CASE PushJob(k)
  <2>1. s = Idle
    BY <1>1, <1>4 DEF PushJob
  <2> QED
    BY <1>3, <2>1 DEF Idle
<1>5. CASE ReadInputsSize(k) \/ ReadDeleteNums(k) \/ GetJobSeeds(k)
  <2>1. /\ r.pc \in {"idle", "sizing", "counted", "resizing", "sized"}
        /\ s.checked = r.checked /\ s.dir = r.dir /\ s.pc # "ready"
    BY <1>1, <1>5 DEF ReadInputsSize, ReadDeleteNums, GetJobSeeds, CreatorType
  <2> QED
    BY <1>1, <1>3, <2>1 DEF CreatorOK
<1>6. ASSUME NEW i \in DOMAIN inputs, CheckLive(k, i) PROVE CopiedBy(s)'
  <2>1. /\ r.pc = "copy" /\ i \in r.seeds /\ UNCHANGED <<inputs, Victims>>
        /\ s.checked = r.checked \cup {i} /\ s.dir = r.dir /\ s.cur = i
        /\ s.pc = IF inputs[i].live THEN "file" ELSE "copy"
    BY <1>1, <1>6 DEF CheckLive, CreatorType, corpusVars, Victims
  <2>2. 0 \notin r.dir /\ s.pc # "ready"
    BY <1>1, <2>1 DEF CopiedBy
  <2>3. ASSUME NEW m \in (s.checked \ s.dir) \ Victims', inputs'[m].live,
               ~(s.pc = "file" /\ s.cur = m)
        PROVE  MissedFor(m, s.dir)'
    <3>1. m # i /\ m \in r.checked \ r.dir /\ m \in DOMAIN inputs
      BY <1>1, <2>1, <2>3
    <3>2. MissedFor(m, r.dir)
      BY <1>1, <2>1, <2>3, <3>1 DEF CopiedBy
    <3>3. r.dir \subseteq DOMAIN inputs
      BY <1>1, <2>2 DEF CreatorOK
    <3> QED
      BY <2>1, <3>1, <3>2, <3>3, MissedStays
  <2> QED
    BY <2>1, <2>2, <2>3 DEF CopiedBy
<1>7. CASE CopyFile(k)
  <2>1. PICK i : i = r.cur
    OBVIOUS
  <2>2. /\ r.pc = "file" /\ s.pc = "copy" /\ s.checked = r.checked
        /\ UNCHANGED <<inputs, Victims>>
        /\ s.dir = IF SourceExists(i) /\ \A j \in r.dir : Name(j) # Name(i)
                     THEN r.dir \cup {i} ELSE r.dir
    BY <1>1, <1>7, <2>1 DEF CopyFile, CreatorType, corpusVars, Victims
  <2>3. /\ 0 \notin r.dir /\ r.dir \subseteq DOMAIN inputs /\ i \in DOMAIN inputs
        /\ DOMAIN inputs = 1..Len(inputs)
    <3>1. 0 \notin r.dir
      BY <1>1, <2>2 DEF CopiedBy
    <3>2. i \in r.checked /\ r.dir \subseteq r.checked \cup {0}
      BY <1>1, <2>1, <2>2 DEF CreatorOK
    <3>3. DOMAIN inputs = 1..Len(inputs)
      BY DEF IInv, CorpusInv, CorpusTypes
    <3> QED
      BY <1>1, <3>1, <3>2, <3>3
  <2>4. 0 \notin s.dir /\ s.pc # "ready"
    BY <2>2, <2>3
  <2>5. ASSUME NEW m \in (s.checked \ s.dir) \ Victims', inputs'[m].live
        PROVE  MissedFor(m, s.dir)'
    <3>1. /\ m \in r.checked \ r.dir /\ inputs[m].live /\ m \in DOMAIN inputs
          /\ m \notin Victims
      BY <1>1, <2>2, <2>5
    <3>2. CASE m = i
      <4>1. ~(SourceExists(i) /\ \A j \in r.dir : Name(j) # Name(i)) /\ s.dir = r.dir
        BY <2>2, <2>5, <3>2
      <4>2. MissedFor(i, r.dir)
        BY <2>3, <3>1, <3>2, <4>1, MissedForName
      <4> QED
        BY <2>3, <3>2, <4>1, <4>2, MissedStays
    <3>3. CASE m # i
      <4>1. MissedFor(m, r.dir)
        BY <1>1, <2>1, <3>1, <3>3 DEF CopiedBy
      <4>2. MissedFor(m, r.dir)'
        BY <2>3, <3>1, <4>1, MissedStays
      <4> QED
        BY <2>2, <4>2 DEF MissedFor
    <3> QED
      BY <3>2, <3>3
  <2> QED
    BY <2>4, <2>5 DEF CopiedBy
<1>8. CASE CopyDone(k)
  <2>1. /\ r.pc = "copy" /\ r.seeds = r.checked /\ UNCHANGED <<inputs, Victims>>
        /\ s.pc = "ready" /\ s.seeds = r.seeds /\ s.checked = r.checked
        /\ s.dir = IF r.seeds = {} THEN {0} ELSE r.dir
    BY <1>1, <1>8 DEF CopyDone, CreatorType, corpusVars, Victims
  <2>2. 0 \notin r.dir /\ r.dir \subseteq DOMAIN inputs
    BY <1>1, <2>1 DEF CopiedBy, CreatorOK
  <2>3. CASE r.seeds = {}
    BY <2>1, <2>3 DEF CopiedBy
  <2>4. CASE r.seeds # {}
    <3>1. ASSUME NEW m \in (s.checked \ s.dir) \ Victims', inputs'[m].live PROVE MissedFor(m, s.dir)'
      <4>1. MissedFor(m, r.dir) /\ m \in DOMAIN inputs
        BY <1>1, <2>1, <2>4, <3>1 DEF CopiedBy
      <4> QED
        BY <2>1, <2>2, <2>4, <4>1, MissedStays
    <3> QED
      BY <2>1, <2>2, <2>4, <3>1 DEF CopiedBy
  <2> QED
    BY <2>3, <2>4
<1> QED
  BY <1>2, <1>4, <1>5, <1>6, <1>7, <1>8, OthersStay

(* GlobalCorpus: the readers and the list of features.                     *)
THEOREM ReadersConsistent == Spec => []DrawIInv
<1>1. Init => DrawIInv
  <2> SUFFICES ASSUME Init PROVE DrawIInv
    OBVIOUS
  <2>1. FrequentOnce /\ Origins
    BY DEF Init, FrequentOnce, NonZeroOnce, Origins, Adding, NoCand
  <2>2. AsksAfterFeature /\ CopiesRight
    BY DEF Init, Idle, AsksAfterFeature, CopiesRight, CopiedBy
  <2> QED
    BY <2>1, <2>2, InitIInv DEF DrawIInv
<1>2. DrawIInv /\ [Next]_vars => DrawIInv'
  BY NextIInv, FrequentStep, OriginsStep, AsksStep, CopiesStep DEF DrawIInv
<1> QED
  BY <1>1, <1>2, PTL DEF Spec

(* A creator draws from inputs that exist, though it counts them twice     *)
(* without the mutex, and its copy misses only what a merge has evicted or *)
(* is evicting (FuzzerFork.h:323-346, 388, 440-488; FuzzerFork.cpp:89).    *)
THEOREM DrawsHold == Spec => []DrawsSound
<1>1. DrawIInv => DrawsSound
  <2> SUFFICES ASSUME DrawIInv PROVE DrawsSound
    OBVIOUS
  <2>1. LiveCount
    BY DEF DrawIInv, IInv, CorpusInv
  <2>2. NoEmptyDraw
    <3> SUFFICES ASSUME NEW k \in Creators, creator[k].pc = "sized", creator[k].num > 0, mtx = "free"
                 PROVE  Live # {}
      BY DEF NoEmptyDraw
    <3>1. PICK f : f \in features
      BY DEF DrawIInv, AsksAfterFeature
    <3>2. ~Adding
      BY DEF DrawIInv, Origins
    <3>3. f \in Features /\ inputs \in Seq(InputType)
      BY <3>1 DEF DrawIInv, IInv, CorpusInv, CorpusTypes
    <3>4. owner[f] \in 0..Next1 /\ owner[f] # 0 /\ owner[f] # Next1
      BY <3>1, <3>2, <3>3 DEF DrawIInv, IInv, CorpusInv, OwnerOK
    <3>5. owner[f] \in DOMAIN inputs
      BY <3>3, <3>4 DEF Next1
    <3>6. f \in Owned(owner[f])
      BY <3>3 DEF Owned
    <3>7. Cardinality(Owned(owner[f])) > 0
      BY <3>6, OwnedFinite, FS_EmptySet
    <3>8. Victims = {}
      BY <3>2 DEF DrawIInv, IInv, CorpusInv, EvictOK, Victims
    <3> QED
      BY <3>5, <3>7, <3>8 DEF DrawIInv, IInv, CorpusInv, Ownership, Live
  <2>3. MissingSeedWasEvicted
    BY DEF DrawIInv, CopiesRight, CopiedBy, MissedFor, MissingSeedWasEvicted
  <2> QED
    BY <2>1, <2>2, <2>3 DEF DrawsSound
<1> QED
  BY <1>1, ReadersConsistent, PTL

(* NonZeroFeatures lists no feature twice, although its counts saturate.   *)
THEOREM FrequentHold == Spec => []NonZeroOnce
<1>1. DrawIInv => NonZeroOnce
  BY DEF DrawIInv, FrequentOnce
<1> QED
  BY <1>1, ReadersConsistent, PTL
=============================================================================
