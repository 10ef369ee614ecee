------------------------ MODULE JobAccounting_proofs ------------------------
(* Proofs about JobAccounting for every target, every set of inputs and    *)
(* engines and any number of jobs.                                         *)
EXTENDS JobAccounting, FiniteSetTheorems, WellFoundedInduction, TLAPS

InfoType ==
  [observed : SUBSET PCs, hits : [Entries -> Nat], last : [Entries -> Nat],
   sizes : [Interesting -> [hits : Nat, uncovered : Nat, covered : Nat]],
   blind : SUBSET Entries]

(* The record of one function is that of its table.                        *)
SizesOf(info, f) == IF info.hits[f] = 0 THEN NoSizes ELSE FreshSizes(info, f)

(* A table between the execution of inputs and the call of                 *)
(* GetFuncFreqsUncoveredInfo: a record may be out of date when its counter *)
(* has moved, or when it is blind.                                         *)
Recorded(info, f) ==
  Behind(info, f) /\ (f \notin info.blind => info.sizes[f] = SizesOf(info, f))

Loose(info) ==
  /\ info \in InfoType
  /\ \A f \in Entries : info.last[f] <= info.hits[f]
  /\ \A f \in Interesting : info.last[f] = info.hits[f] => Recorded(info, f)

(* A table after that call.                                                *)
Exact(info) ==
  /\ info \in InfoType /\ Consistent(info)
  /\ \A f \in Interesting : Recorded(info, f)

LEMMA EnteringFinite ==
  ASSUME NEW S \in SUBSET Inputs, NEW f
  PROVE  /\ Entering(S, f) \in Nat
         /\ Entering(S, f) = 0 => \A x \in S : f \notin Trace[x]
<1> DEFINE E == {x \in S : f \in Trace[x]}
<1>1. E \in SUBSET Inputs
  OBVIOUS
<1>2. IsFiniteSet(E)
  BY <1>1, FS_Subset, AccountingAssumption
<1>3. Cardinality(E) \in Nat /\ (Cardinality(E) = 0 <=> E = {})
  BY <1>2, FS_CardinalityType, FS_EmptySet
<1> QED  BY <1>3 DEF Entering

LEMMA BodyFinite ==
  ASSUME NEW f, NEW P
  PROVE  Cardinality(Body(f) \ P) \in Nat /\ Cardinality(Body(f) \cap P) \in Nat
<1>1. Body(f) \ P \in SUBSET PCs /\ Body(f) \cap P \in SUBSET PCs
  BY DEF Body
<1>2. IsFiniteSet(Body(f) \ P) /\ IsFiniteSet(Body(f) \cap P)
  BY <1>1, FS_Subset, AccountingAssumption
<1> QED  BY <1>2, FS_CardinalityType

LEMMA InterestingEntries == Interesting \subseteq Entries
BY AccountingAssumption

LEMMA CoveredPCs ==
  ASSUME NEW S \in SUBSET Inputs
  PROVE  Covered(S) \in SUBSET PCs
BY AccountingAssumption DEF Covered

(* What is counted as covered only grows.                                  *)
LEMMA BodyGrows ==
  ASSUME NEW f, NEW P, NEW Q, P \subseteq Q
  PROVE  Cardinality(Body(f) \cap P) <= Cardinality(Body(f) \cap Q)
<1>1. Body(f) \cap Q \in SUBSET PCs /\ Body(f) \cap P \in SUBSET (Body(f) \cap Q)
  BY DEF Body
<1>2. IsFiniteSet(Body(f) \cap Q)
  BY <1>1, FS_Subset, AccountingAssumption
<1> QED  BY <1>1, <1>2, FS_Subset

(* An exact record is not behind.                                          *)
LEMMA ExactBehind ==
  ASSUME NEW info \in InfoType, NEW f \in Entries, info.sizes[f] = SizesOf(info, f)
  PROVE  Behind(info, f)
<1>1. info.hits[f] \in Nat /\ Cardinality(Body(f) \cap info.observed) \in Nat
  BY BodyFinite DEF InfoType
<1>2. CASE info.hits[f] = 0
  BY <1>1, <1>2 DEF Behind, SizesOf, NoSizes
<1>3. CASE info.hits[f] # 0
  BY <1>1, <1>3 DEF Behind, SizesOf, FreshSizes
<1> QED  BY <1>2, <1>3

LEMMA FreshSizesType ==
  ASSUME NEW info \in InfoType, NEW f \in Entries
  PROVE  /\ FreshSizes(info, f) \in [hits : Nat, uncovered : Nat, covered : Nat]
         /\ SizesOf(info, f) \in [hits : Nat, uncovered : Nat, covered : Nat]
<1>1. info.hits[f] \in Nat
  BY DEF InfoType
<1>2. FreshSizes(info, f) \in [hits : Nat, uncovered : Nat, covered : Nat]
  BY <1>1, BodyFinite DEF FreshSizes
<1>3. NoSizes \in [hits : Nat, uncovered : Nat, covered : Nat]
  BY DEF NoSizes
<1> QED  BY <1>2, <1>3 DEF SizesOf

(* Executing inputs: the counter of a function moves or nothing of it is   *)
(* newly covered.                                                          *)
LEMMA UpdateLoose ==
  ASSUME NEW info, Loose(info), NEW S \in SUBSET Inputs
  PROVE  /\ Loose(UpdateObservedPCs(info, S))
         /\ UpdateObservedPCs(info, S).observed = info.observed \cup Covered(S)
         /\ UpdateObservedPCs(info, S).hits = [f \in Entries |-> info.hits[f] + Entering(S, f)]
<1> DEFINE new == UpdateObservedPCs(info, S)
<1>1. info \in InfoType
  BY DEF Loose
<1>2. /\ new.observed = info.observed \cup Covered(S)
      /\ new.hits = [f \in Entries |-> info.hits[f] + Entering(S, f)]
      /\ new.last = info.last /\ new.sizes = info.sizes
      /\ new.blind = Blind(info.blind, S)
      /\ new = [observed |-> new.observed, hits |-> new.hits, last |-> new.last,
                sizes |-> new.sizes, blind |-> new.blind]
  <2>1. new = [info EXCEPT !.observed = info.observed \cup Covered(S),
                           !.hits = [f \in Entries |-> info.hits[f] + Entering(S, f)],
                           !.blind = Blind(info.blind, S)]
    BY DEF UpdateObservedPCs
  <2>2. new = [observed |-> info.observed \cup Covered(S),
               hits |-> [f \in Entries |-> info.hits[f] + Entering(S, f)],
               last |-> info.last, sizes |-> info.sizes, blind |-> Blind(info.blind, S)]
    <3> HIDE DEF new
    <3> QED  BY <1>1, <2>1 DEF InfoType
  <2> HIDE DEF new
  <2> QED  BY <2>2
<1>3. \A f \in Entries : Entering(S, f) \in Nat /\ info.hits[f] \in Nat /\ info.last[f] \in Nat
  BY <1>1, EnteringFinite DEF InfoType
<1>4. new \in InfoType
  <2>1. new.observed \in SUBSET PCs
    BY <1>1, <1>2, CoveredPCs DEF InfoType
  <2>2. new.hits \in [Entries -> Nat]
    BY <1>2, <1>3
  <2>3. /\ new.last \in [Entries -> Nat]
        /\ new.sizes \in [Interesting -> [hits : Nat, uncovered : Nat, covered : Nat]]
    BY <1>1, <1>2 DEF InfoType
  <2>4. new.blind \in SUBSET Entries
    BY <1>2 DEF Blind
  <2> HIDE DEF new
  <2> QED  BY <2>1, <2>2, <2>3, <2>4, <1>2 DEF InfoType
<1>5. ASSUME NEW f \in Entries
      PROVE  new.hits[f] = info.hits[f] + Entering(S, f)
  BY <1>2
<1> HIDE DEF new
<1>6. ASSUME NEW f \in Entries, Entering(S, f) = 0
      PROVE  /\ new.hits[f] = info.hits[f]
             /\ f \notin new.blind =>
                  /\ f \notin info.blind
                  /\ Body(f) \cap new.observed = Body(f) \cap info.observed
                  /\ Body(f) \ new.observed = Body(f) \ info.observed
  <2>1. f \notin new.blind => f \notin info.blind /\ Body(f) \cap Covered(S) = {}
    BY <1>2, <1>6 DEF Blind
  <2>2. new.hits[f] = info.hits[f]
    BY <1>3, <1>5, <1>6
  <2> QED  BY <1>2, <2>1, <2>2
<1>7. ASSUME NEW f \in Entries
      PROVE  new.last[f] <= new.hits[f]
  <2>1. info.last[f] <= info.hits[f]
    BY DEF Loose
  <2> QED  BY <1>2, <1>3, <1>5, <2>1
<1>8. ASSUME NEW f \in Interesting, new.last[f] = new.hits[f]
      PROVE  Recorded(new, f)
  <2>1. f \in Entries
    BY InterestingEntries
  <2>2. Entering(S, f) = 0 /\ info.last[f] = info.hits[f]
    <3>1. info.last[f] <= info.hits[f]
      BY <2>1 DEF Loose
    <3> QED  BY <1>2, <1>3, <1>5, <1>8, <2>1, <3>1
  <2>3. Recorded(info, f)
    BY <2>2 DEF Loose
  <2>4. f \notin new.blind => new.sizes[f] = SizesOf(new, f)
    BY <1>2, <1>6, <2>1, <2>2, <2>3 DEF Recorded, SizesOf, FreshSizes
  <2>5. Behind(new, f)
    <3>1. Cardinality(Body(f) \cap info.observed) <= Cardinality(Body(f) \cap new.observed)
      BY <1>2, BodyGrows
    <3>2. /\ Cardinality(Body(f) \cap info.observed) \in Nat
          /\ Cardinality(Body(f) \cap new.observed) \in Nat
          /\ info.sizes[f].covered \in Nat
      BY <1>1, BodyFinite DEF InfoType
    <3>3. /\ info.sizes[f].hits = info.hits[f]
          /\ info.sizes[f].covered <= Cardinality(Body(f) \cap info.observed)
      BY <2>3 DEF Recorded, Behind
    <3>4. new.sizes[f] = info.sizes[f] /\ new.hits[f] = info.hits[f]
      BY <1>2, <1>6, <2>1, <2>2
    <3> QED  BY <3>1, <3>2, <3>3, <3>4 DEF Behind
  <2> QED  BY <2>4, <2>5 DEF Recorded
<1> QED  BY <1>2, <1>4, <1>7, <1>8 DEF Loose, new

(* GetFuncFreqsUncoveredInfo brings every record up to date.               *)
LEMMA RefreshExact ==
  ASSUME NEW info, Loose(info)
  PROVE  /\ Exact(GetFuncFreqsUncoveredInfo(info))
         /\ GetFuncFreqsUncoveredInfo(info).observed = info.observed
         /\ GetFuncFreqsUncoveredInfo(info).hits = info.hits
<1> DEFINE new == GetFuncFreqsUncoveredInfo(info)
<1>1. info \in InfoType
  BY DEF Loose
<1>2. /\ new.observed = info.observed /\ new.hits = info.hits
      /\ new.last = [f \in Entries |-> IF Changed(info, f) THEN info.hits[f] ELSE info.last[f]]
      /\ new.sizes = [f \in Interesting |-> IF Changed(info, f) THEN FreshSizes(info, f)
                                            ELSE info.sizes[f]]
      /\ new.blind = info.blind
      /\ new = [observed |-> new.observed, hits |-> new.hits, last |-> new.last,
                sizes |-> new.sizes, blind |-> new.blind]
  <2> DEFINE sizes == [f \in Interesting |-> IF Changed(info, f) THEN FreshSizes(info, f)
                                              ELSE info.sizes[f]]
             last == [f \in Entries |-> IF Changed(info, f) THEN info.hits[f] ELSE info.last[f]]
  <2>1. new = [info EXCEPT !.sizes = sizes, !.last = last]
    BY DEF GetFuncFreqsUncoveredInfo
  <2> HIDE DEF new, sizes, last
  <2>2. new = [observed |-> info.observed, hits |-> info.hits, last |-> last, sizes |-> sizes,
               blind |-> info.blind]
    BY <1>1, <2>1 DEF InfoType
  <2> QED  BY <2>2 DEF sizes, last
<1>3. \A f \in Entries : info.hits[f] \in Nat /\ info.last[f] \in Nat
  BY <1>1 DEF InfoType
<1>4. new \in InfoType
  <2>1. new.last \in [Entries -> Nat]
    BY <1>2, <1>3
  <2>2. new.sizes \in [Interesting -> [hits : Nat, uncovered : Nat, covered : Nat]]
    <3>1. \A f \in Interesting :
            /\ FreshSizes(info, f) \in [hits : Nat, uncovered : Nat, covered : Nat]
            /\ info.sizes[f] \in [hits : Nat, uncovered : Nat, covered : Nat]
      BY <1>1, FreshSizesType, InterestingEntries DEF InfoType
    <3> QED  BY <1>2, <3>1
  <2>3. /\ new.observed \in SUBSET PCs /\ new.hits \in [Entries -> Nat]
        /\ new.blind \in SUBSET Entries
    BY <1>1, <1>2 DEF InfoType
  <2> HIDE DEF new
  <2> QED  BY <1>2, <2>1, <2>2, <2>3 DEF InfoType
<1>5. ASSUME NEW f \in Entries
      PROVE  new.last[f] = info.hits[f]
  <2>1. info.last[f] <= info.hits[f]
    BY DEF Loose
  <2> QED  BY <1>2, <1>3, <2>1 DEF Changed
<1> HIDE DEF new
<1>6. ASSUME NEW f \in Interesting
      PROVE  Recorded(new, f)
  <2>1. f \in Entries /\ info.last[f] <= info.hits[f]
    BY InterestingEntries DEF Loose
  <2>2. CASE Changed(info, f)
    <3>1. new.sizes[f] = SizesOf(new, f)
      BY <1>2, <2>2 DEF Changed, SizesOf, FreshSizes
    <3> QED  BY <1>4, <2>1, <3>1, ExactBehind DEF Recorded
  <2>3. CASE ~Changed(info, f)
    <3>1. info.last[f] = info.hits[f]
      BY <1>3, <2>1, <2>3 DEF Changed
    <3>2. Recorded(info, f)
      BY <3>1 DEF Loose
    <3>3. new.sizes[f] = info.sizes[f]
      BY <1>2, <2>3
    <3> QED  BY <1>2, <3>2, <3>3 DEF Recorded, Behind, SizesOf, FreshSizes
  <2> QED  BY <2>2, <2>3
<1>7. Consistent(new)
  <2>1. new.last = new.hits
    BY <1>2, <1>4, <1>5 DEF InfoType
  <2> QED  BY <1>6, <2>1 DEF Consistent, Recorded
<1> QED  BY <1>2, <1>4, <1>6, <1>7 DEF Exact, new

LEMMA ExactLoose ==
  ASSUME NEW info, Exact(info)
  PROVE  Loose(info)
<1>1. \A f \in Entries : info.hits[f] \in Nat /\ info.last[f] = info.hits[f]
  BY DEF Exact, Consistent, InfoType
<1> QED  BY <1>1 DEF Exact, Consistent, Loose
-----------------------------------------------------------------------------
LEMMA Indices ==
  ASSUME engines \in EngineLists
  PROVE  /\ Len(engines) \in Nat /\ DOMAIN engines = 1..Len(engines)
         /\ engines = <<>> <=> Len(engines) = 0
         /\ NumInfos \in Nat /\ Global \in 1..NumInfos
         /\ \A e \in 0..Len(engines) : InfoOf(e) \in 1..NumInfos
         /\ NumInfos > 1 => \A e \in 1..Len(engines) : InfoOf(e) # Global
<1>1. engines \in Seq(Range(engines))
  BY AccountingAssumption
<1>2. Len(engines) \in Nat /\ DOMAIN engines = 1..Len(engines) /\ (engines = <<>> <=> Len(engines) = 0)
  BY <1>1
<1> QED  BY <1>2 DEF NumInfos, Global, InfoOf

(* Every set of natural numbers has a least element, and so what holds of *)
(* 0 and of n + 1 when it holds of n holds of all.                         *)
LEMMA LeastNat ==
  ASSUME NEW T, T \subseteq Nat, T # {}
  PROVE  \E m \in T : \A n \in T : m <= n
<1> DEFINE R == {r \in Nat \X Nat : r[1] < r[2]}
<1>1. IsWellFoundedOn(R, Nat)
  <2>1. R = OpToRel(<, Nat)
    BY DEF OpToRel
  <2> QED  BY <2>1, NatLessThanWellFounded
<1>2. PICK m \in T : \A n \in T : <<n, m>> \notin R
  <2> HIDE DEF R
  <2> QED  BY <1>1, WFMin
<1>3. ASSUME NEW n \in T PROVE m <= n
  <2>1. m \in Nat /\ n \in Nat /\ <<n, m>> \notin R
    BY <1>2, <1>3
  <2> QED  BY <2>1
<1> QED  BY <1>2, <1>3

(* A look-up by name finds the first engine with the name.                 *)
LEMMA FoundByName ==
  ASSUME engines \in EngineLists, NEW e \in DOMAIN engines
  PROVE  /\ FindByName(e) \in DOMAIN engines /\ FindByName(e) <= e
         /\ engines[FindByName(e)] = engines[e]
         /\ FindByName(e) # e => Repeated(e)
<1> DEFINE D == {d \in DOMAIN engines : engines[d] = engines[e]}
<1>1. /\ D \subseteq 1..Len(engines) /\ D \subseteq Nat /\ e \in D
      /\ DOMAIN engines = 1..Len(engines) /\ Len(engines) \in Nat
  BY Indices
<1>2. PICK m \in D : \A d \in D : m <= d
  BY <1>1, LeastNat
<1>3. Min(D) \in D /\ \A d \in D : Min(D) <= d
  BY <1>2 DEF Min
<1>4. FindByName(e) = Min(D)
  BY DEF FindByName
<1> HIDE DEF D
<1>5. FindByName(e) \in D /\ FindByName(e) <= e
  BY <1>1, <1>3, <1>4
<1>6. FindByName(e) # e => FindByName(e) \in 1..(e - 1)
  <2> DEFINE f == FindByName(e)
  <2>1. f \in 1..Len(engines) /\ e \in 1..Len(engines) /\ f <= e
    BY <1>1, <1>5
  <2> HIDE DEF f
  <2>2. f # e => f \in 1..(e - 1)
    BY <1>1, <2>1
  <2> QED  BY <2>2 DEF f
<1> QED  BY <1>5, <1>6 DEF D, Repeated

TablesOK(tables) ==
  /\ tables \in [1..NumInfos -> InfoType]
  /\ \A i \in 1..NumInfos : Exact(tables[i])

LEMMA IInvTables ==
  ASSUME IInv
  PROVE  TablesOK(infos)
<1>1. infos \in [1..NumInfos -> InfoType]
  BY DEF IInv, TypeOK, InfoType
<1>2. \A i \in 1..NumInfos : Consistent(infos[i])
  BY DEF IInv
<1>3. \A i \in 1..NumInfos : \A f \in Interesting : Recorded(infos[i], f)
  BY <1>2 DEF IInv, SizesExact, SizesOf, Recorded, Consistent
<1> QED  BY <1>1, <1>2, <1>3 DEF TablesOK, Exact

LEMMA TablesRecords ==
  ASSUME NEW tables, TablesOK(tables)
  PROVE  /\ tables \in [1..NumInfos -> InfoType]
         /\ \A i \in 1..NumInfos : Consistent(tables[i])
         /\ \A i \in 1..NumInfos : \A f \in Interesting :
              IF f \in tables[i].blind
                THEN Behind(tables[i], f)
                ELSE tables[i].sizes[f] =
                       IF tables[i].hits[f] = 0 THEN NoSizes ELSE FreshSizes(tables[i], f)
BY DEF TablesOK, Exact, SizesOf, Recorded

(* One table is updated and refreshed: the preprocessing of a seed.        *)
LEMMA LoadTables ==
  ASSUME engines \in EngineLists, TablesOK(infos), NEW S \in SUBSET Inputs, NEW tables,
         tables = [infos EXCEPT ![Global] =
                     GetFuncFreqsUncoveredInfo(UpdateObservedPCs(infos[Global], S))]
  PROVE  /\ TablesOK(tables)
         /\ tables[Global].observed = infos[Global].observed \cup Covered(S)
         /\ tables[Global].hits = [f \in Entries |-> infos[Global].hits[f] + Entering(S, f)]
         /\ \A i \in (1..NumInfos) \ {Global} : tables[i] = infos[i]
<1> DEFINE new == GetFuncFreqsUncoveredInfo(UpdateObservedPCs(infos[Global], S))
<1>1. Global \in 1..NumInfos
  BY Indices
<1>2. Loose(infos[Global])
  BY <1>1, ExactLoose DEF TablesOK
<1>3. /\ Loose(UpdateObservedPCs(infos[Global], S))
      /\ UpdateObservedPCs(infos[Global], S).observed = infos[Global].observed \cup Covered(S)
      /\ UpdateObservedPCs(infos[Global], S).hits
           = [f \in Entries |-> infos[Global].hits[f] + Entering(S, f)]
  BY <1>2, UpdateLoose
<1>4. /\ Exact(new)
      /\ new.observed = infos[Global].observed \cup Covered(S)
      /\ new.hits = [f \in Entries |-> infos[Global].hits[f] + Entering(S, f)]
  BY <1>3, RefreshExact
<1>5. tables = [infos EXCEPT ![Global] = new]
  OBVIOUS
<1> HIDE DEF new
<1>6. tables[Global] = new /\ \A i \in (1..NumInfos) \ {Global} : tables[i] = infos[i]
  BY <1>1, <1>5 DEF TablesOK
<1>7. tables \in [1..NumInfos -> InfoType]
  BY <1>4, <1>5 DEF TablesOK, Exact
<1>8. \A i \in 1..NumInfos : Exact(tables[i])
  BY <1>4, <1>6 DEF TablesOK
<1> QED  BY <1>4, <1>6, <1>7, <1>8 DEF TablesOK

(* The tables after a local corpus was executed: what an engine has        *)
(* observed, the global table has too.                                     *)
LEMMA ExecutedLoose ==
  ASSUME engines \in EngineLists, TablesOK(infos),
         NEW e \in 0..Len(engines), NEW S \in SUBSET Inputs
  PROVE  /\ Executed(e, S) \in [1..NumInfos -> InfoType]
         /\ \A i \in {InfoOf(e), Global} :
              /\ Loose(Executed(e, S)[i])
              /\ Executed(e, S)[i].observed = infos[i].observed \cup Covered(S)
         /\ \A i \in (1..NumInfos) \ {InfoOf(e), Global} : Executed(e, S)[i] = infos[i]
         /\ InfoOf(e) # Global =>
              Executed(e, S)[Global].hits
                = [f \in Entries |-> infos[Global].hits[f] + Entering(S, f)]
         /\ InfoOf(e) = Global =>
              \A f \in Entries :
                Executed(e, S)[Global].hits[f]
                  = (infos[Global].hits[f] + Entering(S, f)) + Entering(S, f)
<1> DEFINE k == InfoOf(e)
           U(info) == UpdateObservedPCs(info, S)
           one == [infos EXCEPT ![k] = U(infos[k])]
<1>1. k \in 1..NumInfos /\ Global \in 1..NumInfos
  BY Indices
<1>2. infos \in [1..NumInfos -> InfoType]
  BY DEF TablesOK
<1>3. Executed(e, S) = [one EXCEPT ![Global] = U(one[Global])]
  BY DEF Executed
<1>4. ASSUME NEW i \in 1..NumInfos
      PROVE  /\ Loose(infos[i]) /\ Loose(U(infos[i])) /\ Loose(U(U(infos[i])))
             /\ U(infos[i]).observed = infos[i].observed \cup Covered(S)
             /\ U(U(infos[i])).observed = infos[i].observed \cup Covered(S)
             /\ U(infos[i]).hits = [f \in Entries |-> infos[i].hits[f] + Entering(S, f)]
             /\ U(U(infos[i])).hits = [f \in Entries |-> U(infos[i]).hits[f] + Entering(S, f)]
  <2>1. Loose(infos[i])
    BY ExactLoose DEF TablesOK
  <2>2. /\ Loose(U(infos[i]))
        /\ U(infos[i]).observed = infos[i].observed \cup Covered(S)
        /\ U(infos[i]).hits = [f \in Entries |-> infos[i].hits[f] + Entering(S, f)]
    BY <2>1, UpdateLoose
  <2>3. /\ Loose(U(U(infos[i])))
        /\ U(U(infos[i])).observed = U(infos[i]).observed \cup Covered(S)
        /\ U(U(infos[i])).hits = [f \in Entries |-> U(infos[i]).hits[f] + Entering(S, f)]
    BY <2>2, UpdateLoose, ZenonT(40)
  <2> HIDE DEF U
  <2> QED  BY <2>1, <2>2, <2>3
<1> HIDE DEF k, U
<1>5. \A i \in 1..NumInfos : U(infos[i]) \in InfoType /\ U(U(infos[i])) \in InfoType
  BY <1>4 DEF Loose
<1>6. CASE k = Global
  <2>1. Executed(e, S) = [infos EXCEPT ![Global] = U(U(infos[Global]))]
    BY <1>1, <1>2, <1>3, <1>6
  <2>2. /\ Executed(e, S)[Global] = U(U(infos[Global]))
        /\ \A i \in (1..NumInfos) \ {Global} : Executed(e, S)[i] = infos[i]
        /\ Executed(e, S) \in [1..NumInfos -> InfoType]
    BY <1>1, <1>2, <1>5, <2>1
  <2>3. \A f \in Entries :
          U(U(infos[Global])).hits[f] = (infos[Global].hits[f] + Entering(S, f)) + Entering(S, f)
    <3>1. TAKE f \in Entries
    <3>2. U(infos[Global]).hits[f] = infos[Global].hits[f] + Entering(S, f)
      BY <1>1, <1>4
    <3>3. U(U(infos[Global])).hits[f] = U(infos[Global]).hits[f] + Entering(S, f)
      BY <1>1, <1>4
    <3> QED  BY <3>2, <3>3
  <2> QED  BY <1>1, <1>4, <1>6, <2>2, <2>3, ZenonT(40) DEF k
<1>7. CASE k # Global
  <2>1. /\ Executed(e, S)[Global] = U(infos[Global]) /\ Executed(e, S)[k] = U(infos[k])
        /\ \A i \in (1..NumInfos) \ {k, Global} : Executed(e, S)[i] = infos[i]
        /\ Executed(e, S) \in [1..NumInfos -> InfoType]
    BY <1>1, <1>2, <1>3, <1>5, <1>7
  <2> QED  BY <1>1, <1>4, <1>7, <2>1, ZenonT(40) DEF k
<1> QED  BY <1>6, <1>7

LEMMA MergeTables ==
  ASSUME engines \in EngineLists, TablesOK(infos),
         NEW e \in 0..Len(engines), NEW S \in SUBSET Inputs, NEW tables,
         tables = Refreshed(Executed(e, S), e)
  PROVE  /\ TablesOK(tables)
         /\ \A i \in {InfoOf(e), Global} : tables[i].observed = infos[i].observed \cup Covered(S)
         /\ \A i \in (1..NumInfos) \ {InfoOf(e), Global} : tables[i] = infos[i]
         /\ tables[Global].hits = Executed(e, S)[Global].hits
<1> DEFINE k == InfoOf(e)
           G(info) == GetFuncFreqsUncoveredInfo(info)
           ex == Executed(e, S)
           one == [ex EXCEPT ![Global] = G(ex[Global])]
<1>1. k \in 1..NumInfos /\ Global \in 1..NumInfos
  BY Indices
<1>2. /\ ex \in [1..NumInfos -> InfoType]
      /\ \A i \in {k, Global} : Loose(ex[i]) /\ ex[i].observed = infos[i].observed \cup Covered(S)
      /\ \A i \in (1..NumInfos) \ {k, Global} : ex[i] = infos[i]
  BY ExecutedLoose
<1>3. tables = [one EXCEPT ![k] = G(one[k])]
  BY DEF Refreshed
<1>4. ASSUME NEW i \in {k, Global}
      PROVE  /\ Exact(G(ex[i])) /\ Exact(G(G(ex[i])))
             /\ G(ex[i]).observed = ex[i].observed /\ G(G(ex[i])).observed = ex[i].observed
             /\ G(ex[i]).hits = ex[i].hits /\ G(G(ex[i])).hits = ex[i].hits
  <2>1. Loose(ex[i])
    BY <1>2
  <2>2. Exact(G(ex[i])) /\ G(ex[i]).observed = ex[i].observed /\ G(ex[i]).hits = ex[i].hits
    BY <2>1, RefreshExact
  <2>3. Loose(G(ex[i]))
    BY <2>2, ExactLoose
  <2>4. /\ Exact(G(G(ex[i])))
        /\ G(G(ex[i])).observed = G(ex[i]).observed /\ G(G(ex[i])).hits = G(ex[i]).hits
    BY <2>3, RefreshExact
  <2> HIDE DEF G
  <2> QED  BY <2>2, <2>4
<1> HIDE DEF k, G, ex
<1>5. \A i \in {k, Global} : G(ex[i]) \in InfoType /\ G(G(ex[i])) \in InfoType
  BY <1>4 DEF Exact
<1>6. /\ tables \in [1..NumInfos -> InfoType]
      /\ \A i \in (1..NumInfos) \ {k, Global} : tables[i] = infos[i]
      /\ tables[k] \in {G(ex[k]), G(G(ex[k]))}
      /\ tables[Global] \in {G(ex[Global]), G(G(ex[Global]))}
  <2>1. CASE k = Global
    BY <1>1, <1>2, <1>3, <1>5, <2>1
  <2>2. CASE k # Global
    BY <1>1, <1>2, <1>3, <1>5, <2>2
  <2> QED  BY <2>1, <2>2
<1>7. /\ \A i \in {k, Global} : Exact(tables[i]) /\ tables[i].observed = ex[i].observed
      /\ tables[Global].hits = ex[Global].hits
  BY <1>4, <1>6
<1>8. \A i \in 1..NumInfos : Exact(tables[i])
  BY <1>6, <1>7 DEF TablesOK
<1> QED  BY <1>2, <1>6, <1>7, <1>8 DEF TablesOK, k, ex
-----------------------------------------------------------------------------
LEMMA InitIInv == Init => IInv
<1> SUFFICES ASSUME Init PROVE IInv
  OBVIOUS
<1>1. engines \in EngineLists /\ toLoad = Seeds /\ cov = {} /\ initial = {}
  BY DEF Init
<1>2. NoInfo \in InfoType
  <2>1. NoSizes \in [hits : Nat, uncovered : Nat, covered : Nat]
    BY DEF NoSizes
  <2> QED  BY <2>1 DEF NoInfo, InfoType
<1>3. Exact(NoInfo) /\ NoInfo.observed = {}
  <2>1. /\ NoInfo.observed = {} /\ NoInfo.last = NoInfo.hits
        /\ \A f \in Entries : NoInfo.hits[f] = 0
        /\ \A f \in Interesting : NoInfo.sizes[f] = NoSizes
    BY DEF NoInfo
  <2>2. ASSUME NEW f \in Interesting
        PROVE  Recorded(NoInfo, f)
    <3>1. f \in Entries /\ NoInfo.sizes[f] = SizesOf(NoInfo, f)
      BY <2>1, InterestingEntries DEF SizesOf
    <3> QED  BY <1>2, <3>1, ExactBehind DEF Recorded
  <2>3. Consistent(NoInfo)
    BY <2>1, <2>2 DEF Consistent, Recorded
  <2> QED  BY <1>2, <2>1, <2>2, <2>3 DEF Exact
<1>4. infos = [i \in 1..NumInfos |-> NoInfo]
  BY DEF Init
<1>5. TablesOK(infos) /\ \A i \in 1..NumInfos : infos[i].observed = {}
  BY <1>2, <1>3, <1>4 DEF TablesOK
<1>6. Free \in [stage : {"free", "runs", "merged"}, engine : 0..Len(engines), newCov : SUBSET PCs]
      /\ Free.stage = "free"
  BY <1>1, Indices DEF Free
<1>7. TypeOK
  <2>1. /\ smallest \in [PCs -> Nat] /\ created \in 0..MaxJobs
        /\ selections \in [DOMAIN engines -> Nat] /\ credited \in [DOMAIN engines -> Nat]
        /\ executed \in [Entries -> Nat]
    BY AccountingAssumption DEF Init
  <2>2. job \in [Jobs -> [stage : {"free", "runs", "merged"}, engine : 0..Len(engines),
                          newCov : SUBSET PCs]]
    BY <1>6 DEF Init
  <2> QED  BY <1>1, <1>5, <2>1, <2>2 DEF TypeOK, TablesOK, InfoType
<1>8. CovIsObserved /\ GlobalKnowsMost
  BY <1>1, <1>5, Indices DEF CovIsObserved, GlobalKnowsMost
<1>9. \A p \in PCs : smallest[p] > 0 <=> p \in cov
  BY <1>1 DEF Init
<1>10. \A j \in Jobs : job[j] = Free
  BY DEF Init
<1>11. SizesExact /\ \A i \in 1..NumInfos : Consistent(infos[i])
  BY <1>5, TablesRecords DEF SizesExact
<1> QED  BY <1>6, <1>7, <1>8, <1>9, <1>10, <1>11 DEF IInv

LEMMA LoadIInv ==
  ASSUME IInv, NEW x \in Seeds, LoadSeed(x)
  PROVE  IInv'
<1>1. x \in Inputs /\ x \in toLoad /\ toLoad' = toLoad \ {x} /\ toLoad # {}
  BY AccountingAssumption DEF LoadSeed
<1>2. UNCHANGED <<engines, selections, credited, created, job>>
  BY DEF LoadSeed
<1>3. engines \in EngineLists /\ TypeOK
  BY DEF IInv, TypeOK
<1>4. NumInfos' = NumInfos
  BY <1>2 DEF NumInfos
<1>5. Covered({x}) = Trace[x] /\ Trace[x] \in SUBSET PCs /\ SizeOf[x] \in Nat \ {0}
  BY <1>1, AccountingAssumption DEF Covered
<1>6. /\ TablesOK(infos')
      /\ infos'[Global].observed = infos[Global].observed \cup Trace[x]
      /\ \A i \in (1..NumInfos) \ {Global} : infos'[i] = infos[i]
  BY <1>1, <1>3, <1>5, LoadTables, IInvTables, ZenonT(40) DEF LoadSeed
<1>7. /\ infos' \in [1..NumInfos' -> InfoType]
      /\ \A i \in 1..NumInfos' : Consistent(infos'[i])
      /\ SizesExact'
  <2>1. /\ infos' \in [1..NumInfos -> InfoType]
        /\ \A i \in 1..NumInfos : Consistent(infos'[i])
        /\ \A i \in 1..NumInfos : \A f \in Interesting :
             IF f \in infos'[i].blind
               THEN Behind(infos'[i], f)
               ELSE infos'[i].sizes[f] =
                      IF infos'[i].hits[f] = 0 THEN NoSizes ELSE FreshSizes(infos'[i], f)
    BY <1>6, TablesRecords
  <2> QED  BY <1>4, <2>1 DEF SizesExact
<1>8. smallest' = [p \in PCs |-> IF p \in Trace[x] /\ (smallest[p] = 0 \/ smallest[p] > SizeOf[x])
                                   THEN SizeOf[x] ELSE smallest[p]]
  BY DEF LoadSeed, Offer
<1>9. /\ \A p \in PCs : smallest[p] > 0 <=> p \in cov
      /\ smallest \in [PCs -> Nat] /\ cov \in SUBSET PCs
  BY <1>1 DEF IInv, TypeOK
<1>10. cov' = cov \cup Trace[x]
  <2>1. CASE Keeps(x)
    BY <2>1 DEF LoadSeed
  <2>2. CASE ~Keeps(x)
    <3>1. \A p \in Trace[x] : smallest[p] # 0
      BY <2>2 DEF Keeps
    <3>2. Trace[x] \subseteq cov
      BY <1>5, <1>9, <3>1
    <3> QED  BY <2>2, <3>2 DEF LoadSeed
  <2> QED  BY <2>1, <2>2
<1>11. \A p \in PCs : smallest'[p] > 0 <=> p \in cov'
  BY <1>5, <1>8, <1>9, <1>10
<1>12. CovIsObserved'
  BY <1>6, <1>10 DEF IInv, CovIsObserved
<1>13. GlobalKnowsMost'
  BY <1>4, <1>6 DEF IInv, GlobalKnowsMost
<1>14. TypeOK'
  <2>1. smallest' \in [PCs -> Nat]
    BY <1>5, <1>8, <1>9
  <2>2. cov' \in SUBSET PCs /\ initial' \in SUBSET PCs
    BY <1>5, <1>9, <1>10 DEF LoadSeed
  <2>3. executed' \in [Entries -> Nat]
    <3>1. {x} \in SUBSET Inputs
      BY <1>1
    <3> DEFINE n == [f \in Entries |-> Entering({x}, f)]
    <3>2. n \in [Entries -> Nat]
      BY <3>1, EnteringFinite
    <3>3. executed \in [Entries -> Nat]
      BY <1>3 DEF TypeOK
    <3>4. executed' = [f \in Entries |-> executed[f] + n[f]]
      BY DEF LoadSeed, Count
    <3> HIDE DEF n
    <3> QED  BY <3>2, <3>3, <3>4
  <2> QED  BY <1>1, <1>2, <1>3, <1>7, <2>1, <2>2, <2>3 DEF TypeOK, InfoType
<1>15. \A j \in Jobs : job'[j] = Free
  BY <1>1, <1>2 DEF IInv
<1>16. \A j \in Jobs : job'[j].stage # "free" /\ engines' # <<>> => job'[j].engine # 0
  BY <1>2 DEF IInv
<1> QED  BY <1>7, <1>11, <1>12, <1>13, <1>14, <1>15, <1>16 DEF IInv

JobType == [stage : {"free", "runs", "merged"}, engine : 0..Len(engines), newCov : SUBSET PCs]

(* What does not touch the tables only has to keep the jobs in order.      *)
LEMMA JobsOnly ==
  ASSUME IInv, toLoad = {},
         UNCHANGED <<engines, toLoad, smallest, cov, infos, initial, executed>>,
         job' \in [Jobs -> JobType],
         selections' \in [DOMAIN engines -> Nat], credited' \in [DOMAIN engines -> Nat],
         created' \in 0..MaxJobs,
         \A j \in Jobs : job'[j].stage # "free" /\ engines # <<>> => job'[j].engine # 0
  PROVE  IInv'
<1>1. NumInfos' = NumInfos
  BY DEF NumInfos
<1>2. TypeOK'
  BY <1>1 DEF IInv, TypeOK, JobType
<1>3. CovIsObserved' /\ GlobalKnowsMost'
  BY <1>1 DEF IInv, CovIsObserved, GlobalKnowsMost
<1>4. SizesExact'
  BY <1>1 DEF IInv, SizesExact
<1>5. \A i \in 1..NumInfos' : Consistent(infos'[i])
  BY <1>1 DEF IInv
<1> QED  BY <1>2, <1>3, <1>4, <1>5 DEF IInv

LEMMA SelectIInv ==
  ASSUME IInv, NEW j \in Jobs, SelectEngine(j)
  PROVE  IInv'
<1>1. /\ engines \in EngineLists /\ job \in [Jobs -> JobType]
      /\ selections \in [DOMAIN engines -> Nat] /\ credited \in [DOMAIN engines -> Nat]
      /\ created \in 0..MaxJobs
  BY DEF IInv, TypeOK, JobType
<1>2. /\ toLoad = {} /\ created < MaxJobs /\ created' = created + 1
      /\ UNCHANGED <<engines, toLoad, smallest, cov, infos, credited, initial, executed>>
  BY DEF SelectEngine
<1>3. created' \in 0..MaxJobs
  BY <1>1, <1>2, AccountingAssumption
<1>4. Len(engines) \in Nat /\ DOMAIN engines = 1..Len(engines)
  BY <1>1, Indices
<1>5. CASE engines = <<>>
  <2>1. job' = [job EXCEPT ![j] = Started(0)] /\ selections' = selections
    BY <1>5 DEF SelectEngine
  <2>2. Started(0) \in JobType
    BY <1>4 DEF Started, JobType
  <2> QED  BY <1>1, <1>2, <1>3, <1>5, <2>1, <2>2, JobsOnly
<1>6. CASE engines # <<>>
  <2>1. PICK c \in Candidates :
          /\ job' = [job EXCEPT ![j] = Started(FindByName(c))]
          /\ selections' = [selections EXCEPT ![FindByName(c)] = @ + 1]
    BY <1>6 DEF SelectEngine
  <2> DEFINE e == FindByName(c)
  <2>2. e \in 1..Len(engines)
    BY <1>1, <1>4, FoundByName DEF Candidates, Untried
  <2> HIDE DEF e
  <2>a. /\ job' = [job EXCEPT ![j] = Started(e)]
        /\ selections' = [selections EXCEPT ![e] = @ + 1]
    BY <2>1 DEF e
  <2>3. /\ Started(e) \in JobType
        /\ Started(e).engine = e
    <3>2. e \in 0..Len(engines)
      BY <1>4, <2>2
    <3> QED  BY <3>2 DEF Started, JobType
  <2>4. job' \in [Jobs -> JobType] /\ \A i \in Jobs : job'[i] = job[i] \/ job'[i].engine = e
    BY <1>1, <2>a, <2>3
  <2>5. selections' \in [DOMAIN engines -> Nat]
    BY <1>1, <1>4, <2>a, <2>2
  <2>6. \A i \in Jobs : job'[i].stage # "free" => job'[i].engine # 0
    BY <1>6, <2>2, <2>4 DEF IInv
  <2> QED  BY <1>1, <1>2, <1>3, <2>4, <2>5, <2>6, JobsOnly
<1> QED  BY <1>5, <1>6

LEMMA CreditIInv ==
  ASSUME IInv, NEW j \in Jobs, Credit(j)
  PROVE  IInv'
<1>1. /\ engines \in EngineLists /\ job \in [Jobs -> JobType]
      /\ selections \in [DOMAIN engines -> Nat] /\ credited \in [DOMAIN engines -> Nat]
      /\ created \in 0..MaxJobs
  BY DEF IInv, TypeOK, JobType
<1>2. /\ job[j].stage = "merged" /\ job' = [job EXCEPT ![j] = Free]
      /\ UNCHANGED <<engines, toLoad, smallest, cov, infos, selections, created, initial, executed>>
  BY DEF Credit
<1>3. Free.stage = "free" /\ Free \in JobType
  BY <1>1, Indices DEF Free, JobType
<1>4. toLoad = {}
  BY <1>2, <1>3 DEF IInv
<1>5. job' \in [Jobs -> JobType] /\ \A i \in Jobs : job'[i] = job[i] \/ job'[i] = Free
  BY <1>1, <1>2, <1>3
<1>6. \A i \in Jobs : job'[i].stage # "free" /\ engines # <<>> => job'[i].engine # 0
  BY <1>3, <1>5 DEF IInv
<1>7. credited' \in [DOMAIN engines -> Nat]
  <2>1. job[j].newCov \in SUBSET PCs
    BY <1>1 DEF JobType
  <2>2. Cardinality(job[j].newCov) \in Nat
    BY <2>1, FS_Subset, FS_CardinalityType, AccountingAssumption
  <2>3. CASE job[j].engine = 0
    BY <1>1, <2>3 DEF Credit
  <2>4. CASE job[j].engine # 0
    <3>1. job[j].engine \in DOMAIN engines
      BY <1>1, <2>4, Indices DEF JobType
    <3>2. credited' = [credited EXCEPT ![job[j].engine] = @ + Cardinality(job[j].newCov)]
      BY <2>4 DEF Credit
    <3> QED  BY <1>1, <2>2, <3>1, <3>2
  <2> QED  BY <2>3, <2>4
<1> QED  BY <1>1, <1>2, <1>4, <1>5, <1>6, <1>7, JobsOnly

LEMMA MergeIInv ==
  ASSUME IInv, NEW j \in Jobs, NEW S \in SUBSET Inputs, Merge(j, S)
  PROVE  IInv'
<1> DEFINE e == job[j].engine
<1>1. /\ engines \in EngineLists /\ job \in [Jobs -> JobType] /\ cov \in SUBSET PCs
      /\ executed \in [Entries -> Nat]
  BY DEF IInv, TypeOK, JobType
<1>2. /\ job[j].stage = "runs"
      /\ job' = [job EXCEPT ![j].stage = "merged", ![j].newCov = NewCov(S)]
      /\ cov' = cov \cup Covered(S)
      /\ UNCHANGED <<engines, toLoad, smallest, selections, credited, created, initial>>
      /\ infos' = Refreshed(Executed(e, S), e)
  BY DEF Merge
<1>3. e \in 0..Len(engines)
  BY <1>1 DEF JobType
<1>4. NumInfos' = NumInfos
  BY <1>2 DEF NumInfos
<1>5. /\ TablesOK(infos')
      /\ \A i \in {InfoOf(e), Global} : infos'[i].observed = infos[i].observed \cup Covered(S)
      /\ \A i \in (1..NumInfos) \ {InfoOf(e), Global} : infos'[i] = infos[i]
  BY <1>1, <1>2, <1>3, MergeTables, IInvTables
<1>6. /\ infos' \in [1..NumInfos' -> InfoType]
      /\ \A i \in 1..NumInfos' : Consistent(infos'[i])
      /\ SizesExact'
  <2>1. /\ infos' \in [1..NumInfos -> InfoType]
        /\ \A i \in 1..NumInfos : Consistent(infos'[i])
        /\ \A i \in 1..NumInfos : \A f \in Interesting :
             IF f \in infos'[i].blind
               THEN Behind(infos'[i], f)
               ELSE infos'[i].sizes[f] =
                      IF infos'[i].hits[f] = 0 THEN NoSizes ELSE FreshSizes(infos'[i], f)
    BY <1>5, TablesRecords
  <2> QED  BY <1>4, <2>1 DEF SizesExact
<1>7. CovIsObserved'
  BY <1>2, <1>5 DEF IInv, CovIsObserved
<1>8. GlobalKnowsMost'
  BY <1>4, <1>5 DEF IInv, GlobalKnowsMost
<1>9. toLoad = {}
  <2>1. job[j] # Free
    BY <1>2 DEF Free
  <2> QED  BY <2>1 DEF IInv
<1>10. job' \in [Jobs -> JobType] /\ \A i \in Jobs : job'[i].engine = job[i].engine
  <2>1. NewCov(S) \in SUBSET PCs
    BY CoveredPCs DEF NewCov
  <2> QED  BY <1>1, <1>2, <2>1 DEF JobType
<1>11. TypeOK'
  <2>1. cov' \in SUBSET PCs
    BY <1>1, <1>2, CoveredPCs
  <2>2. executed' \in [Entries -> Nat]
    <3>1. \A f \in Entries : Entering(S, f) \in Nat
      BY EnteringFinite
    <3> QED  BY <1>1, <3>1 DEF Merge, Count
  <2> QED  BY <1>2, <1>6, <1>10, <2>1, <2>2 DEF IInv, TypeOK, InfoType, JobType
<1>12. \A i \in Jobs : job'[i].stage # "free" /\ engines' # <<>> => job'[i].engine # 0
  <2>1. \A i \in Jobs : i # j => job'[i] = job[i]
    BY <1>1, <1>2
  <2>2. engines # <<>> => e # 0
    BY <1>2 DEF IInv
  <2> QED  BY <1>2, <1>10, <2>1, <2>2 DEF IInv
<1> QED  BY <1>2, <1>6, <1>7, <1>8, <1>9, <1>11, <1>12 DEF IInv
LEMMA NextIInv == IInv /\ [Next]_vars => IInv'
<1> SUFFICES ASSUME IInv, [Next]_vars PROVE IInv'
  OBVIOUS
<1>1. ASSUME NEW x \in Seeds, LoadSeed(x) PROVE IInv'
  BY <1>1, LoadIInv
<1>2. ASSUME NEW j \in Jobs, SelectEngine(j) PROVE IInv'
  BY <1>2, SelectIInv
<1>3. ASSUME NEW j \in Jobs, NEW S \in SUBSET Inputs, Merge(j, S) PROVE IInv'
  BY <1>3, MergeIInv
<1>4. ASSUME NEW j \in Jobs, Credit(j) PROVE IInv'
  BY <1>4, CreditIInv
<1>5. ASSUME UNCHANGED vars PROVE IInv'
  BY <1>5 DEF IInv, TypeOK, CovIsObserved, GlobalKnowsMost, SizesExact, vars, NumInfos
<1> QED  BY <1>1, <1>2, <1>3, <1>4, <1>5 DEF Next, Done

(* The tables of fork mode agree after every critical section, for any     *)
(* program, inputs, engines and number of jobs.                            *)
THEOREM AccountingConsistent == Spec => []IInv
BY InitIInv, NextIInv, PTL DEF Spec

(* Cov, which decides what is credited, is what the global table observed. *)
THEOREM CovAgrees == Spec => []CovIsObserved
<1>1. IInv => CovIsObserved
  BY DEF IInv
<1> QED  BY <1>1, AccountingConsistent, PTL

(* Skipping functions whose counter has not moved leaves no stale record,  *)
(* for any traces, but of functions whose entry counter wrapped to zero;   *)
(* these are behind.                                                       *)
THEOREM RecordsExact == Spec => []SizesExact
<1>1. IInv => SizesExact
  BY DEF IInv
<1> QED  BY <1>1, AccountingConsistent, PTL
-----------------------------------------------------------------------------
LEMMA EntersOne ==
  ASSUME HitsCounted, IInv, NEW S \in SUBSET Inputs,
         NumInfos' = NumInfos, NEW f \in Entries,
         executed'[f] = executed[f] + Entering(S, f),
         \/ infos'[Global].hits[f] = infos[Global].hits[f] + Entering(S, f)
         \/ /\ NumInfos = 1
            /\ infos'[Global].hits[f] = (infos[Global].hits[f] + Entering(S, f)) + Entering(S, f)
  PROVE  IF NumInfos' > 1
           THEN infos'[Global].hits[f] = executed'[f]
           ELSE executed'[f] <= infos'[Global].hits[f] /\ infos'[Global].hits[f] <= 2 * executed'[f]
<1> DEFINE h == infos[Global].hits[f]
           x == executed[f]
           n == Entering(S, f)
<1>1. engines \in EngineLists
  BY DEF IInv, TypeOK
<1>2. h \in Nat /\ x \in Nat /\ n \in Nat /\ NumInfos \in Nat
  BY <1>1, Indices, EnteringFinite, ZenonT(40) DEF IInv, TypeOK
<1>3. IF NumInfos > 1 THEN h = x ELSE x <= h /\ h <= 2 * x
  BY DEF HitsCounted
<1> HIDE DEF h, x, n
<1>4. executed'[f] = x + n /\ (infos'[Global].hits[f] = h + n
                               \/ (NumInfos = 1 /\ infos'[Global].hits[f] = (h + n) + n))
  BY DEF h, x, n
<1> QED  BY <1>2, <1>3, <1>4

(* The counters of the global table count every executed input once, or at *)
(* most twice when the engine has no table of its own.                     *)
THEOREM HitsHold == Spec => []HitsCounted
<1>1. Init => HitsCounted
  <2> SUFFICES ASSUME Init PROVE HitsCounted
    OBVIOUS
  <2>1. engines \in EngineLists /\ infos = [i \in 1..NumInfos |-> NoInfo]
    BY DEF Init
  <2>2. infos[Global] = NoInfo
    BY <2>1, Indices
  <2>3. \A f \in Entries : infos[Global].hits[f] = 0 /\ executed[f] = 0
    BY <2>2 DEF NoInfo, Init
  <2> QED  BY <2>3 DEF HitsCounted
<1>2. HitsCounted /\ IInv /\ [Next]_vars => HitsCounted'
  <2> SUFFICES ASSUME HitsCounted, IInv, [Next]_vars PROVE HitsCounted'
    OBVIOUS
  <2>0. engines \in EngineLists
    BY DEF IInv, TypeOK
  <2>1. ASSUME NEW x \in Seeds, LoadSeed(x) PROVE HitsCounted'
    <3>1. {x} \in SUBSET Inputs /\ NumInfos' = NumInfos
      BY <2>1, AccountingAssumption DEF LoadSeed, NumInfos
    <3>2. infos'[Global].hits = [f \in Entries |-> infos[Global].hits[f] + Entering({x}, f)]
      BY <2>0, <2>1, <3>1, LoadTables, IInvTables DEF LoadSeed
    <3>3. executed' = [f \in Entries |-> executed[f] + Entering({x}, f)]
      BY <2>1 DEF LoadSeed, Count
    <3>4. \A f \in Entries :
            /\ executed'[f] = executed[f] + Entering({x}, f)
            /\ infos'[Global].hits[f] = infos[Global].hits[f] + Entering({x}, f)
      BY <3>2, <3>3
    <3> QED  BY <3>1, <3>4, EntersOne DEF HitsCounted
  <2>2. ASSUME NEW j \in Jobs, NEW S \in SUBSET Inputs, Merge(j, S) PROVE HitsCounted'
    <3> DEFINE e == job[j].engine
    <3>1. NumInfos' = NumInfos /\ infos' = Refreshed(Executed(e, S), e)
      BY <2>2 DEF Merge, NumInfos
    <3>2. e \in 0..Len(engines) /\ (NumInfos > 1 => e \in 1..Len(engines))
      <4>1. e \in 0..Len(engines)
        BY DEF IInv, TypeOK
      <4>2. engines # <<>> => e # 0
        BY <2>2 DEF IInv, Merge
      <4>3. NumInfos > 1 => engines # <<>>
        BY <2>0, Indices DEF NumInfos
      <4> QED  BY <2>0, <4>1, <4>2, <4>3, Indices
    <3>3. infos'[Global].hits = Executed(e, S)[Global].hits
      BY <2>0, <3>1, <3>2, MergeTables, IInvTables
    <3>4. executed' = [f \in Entries |-> executed[f] + Entering(S, f)]
      BY <2>2 DEF Merge, Count
    <3>5. NumInfos = 1 \/ NumInfos > 1
      BY <2>0, Indices DEF NumInfos
    <3>6. NumInfos > 1 => InfoOf(e) # Global
      BY <2>0, <3>2, Indices
    <3>7. /\ InfoOf(e) # Global =>
               infos'[Global].hits = [f \in Entries |-> infos[Global].hits[f] + Entering(S, f)]
          /\ InfoOf(e) = Global =>
               \A f \in Entries :
                 infos'[Global].hits[f]
                   = (infos[Global].hits[f] + Entering(S, f)) + Entering(S, f)
      <4> HIDE DEF e
      <4>1. TablesOK(infos)
        BY IInvTables
      <4>2. /\ InfoOf(e) # Global =>
                 Executed(e, S)[Global].hits
                   = [f \in Entries |-> infos[Global].hits[f] + Entering(S, f)]
            /\ InfoOf(e) = Global =>
                 \A f \in Entries :
                   Executed(e, S)[Global].hits[f]
                     = (infos[Global].hits[f] + Entering(S, f)) + Entering(S, f)
        BY <2>0, <3>2, <4>1, ExecutedLoose
      <4> QED  BY <3>3, <4>2
    <3>8. ASSUME NEW f \in Entries
          PROVE  /\ executed'[f] = executed[f] + Entering(S, f)
                 /\ \/ infos'[Global].hits[f] = infos[Global].hits[f] + Entering(S, f)
                    \/ /\ NumInfos = 1
                       /\ infos'[Global].hits[f]
                            = (infos[Global].hits[f] + Entering(S, f)) + Entering(S, f)
      <4>1. executed'[f] = executed[f] + Entering(S, f)
        BY <3>4
      <4>2. CASE InfoOf(e) # Global
        BY <3>7, <4>1, <4>2
      <4>3. CASE InfoOf(e) = Global
        <5>1. NumInfos = 1
          BY <3>5, <3>6, <4>3
        <5> QED  BY <3>7, <4>1, <4>3, <5>1
      <4> QED  BY <4>2, <4>3
    <3> QED  BY <3>1, <3>8, EntersOne DEF HitsCounted
  <2>3. ASSUME UNCHANGED <<engines, infos, executed>> PROVE HitsCounted'
    BY <2>3 DEF HitsCounted, NumInfos
  <2> QED  BY <2>1, <2>2, <2>3 DEF Next, SelectEngine, Credit, Done, vars
<1> QED  BY <1>1, <1>2, AccountingConsistent, PTL DEF Spec

LEMMA TriedStep == TriedOnce /\ IInv /\ [Next]_vars => TriedOnce'
<1> SUFFICES ASSUME TriedOnce, IInv, [Next]_vars PROVE TriedOnce'
  OBVIOUS
<1>1. selections \in [DOMAIN engines -> Nat]
  BY DEF IInv, TypeOK
<1>2. ASSUME NEW j \in Jobs, SelectEngine(j) PROVE TriedOnce'
  <2>1. CASE engines = <<>>
    BY <1>2, <2>1 DEF SelectEngine, TriedOnce
  <2>2. CASE engines # <<>>
    <3>1. PICK e \in Candidates :
            selections' = [selections EXCEPT ![FindByName(e)] = @ + 1]
      BY <1>2, <2>2 DEF SelectEngine
    <3>2. engines' = engines /\ engines \in EngineLists
      BY <1>2 DEF SelectEngine, IInv, TypeOK
    <3>3. e \in DOMAIN engines /\ DOMAIN engines = 1..Len(engines) /\ Len(engines) \in Nat
      BY <3>2, Indices DEF Candidates, Untried
    <3> DEFINE f == FindByName(e)
    <3>4. f \in DOMAIN engines /\ (f # e => Repeated(e))
      BY <3>2, <3>3, FoundByName
    <3> HIDE DEF f
    <3>5. /\ selections'[f] = selections[f] + 1
          /\ \A d \in DOMAIN engines : d # f => selections'[d] = selections[d]
          /\ \A d \in DOMAIN engines : selections[d] \in Nat /\ selections'[d] \in Nat
      BY <1>1, <3>1, <3>4 DEF f
    <3>6. \A d \in DOMAIN engines : selections[d] > 0 => selections'[d] > 0
      BY <3>5
    <3>7. CASE Untried = {}
      <4>1. \A d \in DOMAIN engines : selections[d] > 0
        BY <3>5, <3>7 DEF Untried
      <4> QED  BY <3>2, <3>6, <4>1 DEF TriedOnce
    <3>8. CASE Untried # {} /\ f = e
      <4>1. selections[e] = 0
        BY <3>8 DEF Candidates, Untried
      <4>2. \A d \in DOMAIN engines : selections'[d] > 1 => selections[d] > 1
        BY <3>5, <3>8, <4>1
      <4> QED  BY <3>2, <3>6, <4>2 DEF TriedOnce, Repeated
    <3>9. CASE Untried # {} /\ f # e
      <4>1. ASSUME NEW d \in DOMAIN engines, d < e
            PROVE  selections[d] > 0
        <5>1. d \notin Untried
          BY <3>3, <3>9, <4>1 DEF Candidates
        <5> QED  BY <3>5, <5>1 DEF Untried
      <4>2. ASSUME NEW d \in DOMAIN engines
            PROVE  selections'[d] > 0 \/ \E c \in 1..d : Repeated(c)
        <5>1. CASE d < e
          BY <3>6, <4>1, <5>1
        <5>2. CASE ~(d < e)
          <6>1. e \in 1..d
            BY <3>3, <5>2
          <6> QED  BY <3>4, <3>9, <6>1
        <5> QED  BY <5>1, <5>2
      <4> QED  BY <3>2, <4>2 DEF TriedOnce, Repeated
    <3> QED  BY <3>7, <3>8, <3>9
  <2> QED  BY <2>1, <2>2
<1>3. ASSUME UNCHANGED <<engines, selections>> PROVE TriedOnce'
  BY <1>3 DEF TriedOnce, Repeated
<1> QED  BY <1>2, <1>3 DEF Next, LoadSeed, Merge, Credit, Done, vars

(* No engine gets a second job before every engine has had its first, in   *)
(* whatever order creators run, as far as the list names no engine twice.  *)
THEOREM EnginesTried == Spec => []TriedOnce
<1>1. Init => TriedOnce
  BY DEF Init, TriedOnce
<1> QED  BY <1>1, TriedStep, AccountingConsistent, PTL DEF Spec
-----------------------------------------------------------------------------
(* Sums over a finite set.  A fold takes one element after the other, the  *)
(* one CHOOSE gives it; what holds of a set when it holds without that     *)
(* element holds of every set.                                             *)
Pick(s) == CHOOSE x \in s : TRUE
Rest(s) == s \ {Pick(s)}

LEMMA PickOne ==
  ASSUME NEW s, s # {}, IsFiniteSet(s)
  PROVE  /\ Pick(s) \in s
         /\ IsFiniteSet(Rest(s)) /\ Cardinality(Rest(s)) = Cardinality(s) - 1
         /\ Cardinality(s) \in Nat \ {0} /\ Cardinality(Rest(s)) \in Nat
<1>1. Pick(s) \in s
  BY DEF Pick
<1> QED
  BY <1>1, FS_RemoveElement, FS_CardinalityType, FS_EmptySet DEF Rest

LEMMA OneByOne ==
  ASSUME NEW D, IsFiniteSet(D), NEW Wrong \in SUBSET SUBSET D, {} \notin Wrong,
         \A s \in Wrong : Rest(s) \in Wrong
  PROVE  Wrong = {}
<1> SUFFICES ASSUME Wrong # {} PROVE FALSE
  OBVIOUS
<1>1. \A s \in Wrong : s # {} /\ IsFiniteSet(s) /\ Cardinality(s) \in Nat
  BY FS_Subset, FS_CardinalityType
<1> DEFINE T == {Cardinality(s) : s \in Wrong}
<1>2. PICK m \in T : \A n \in T : m <= n
  <2>1. T \subseteq Nat /\ T # {}
    BY <1>1
  <2> HIDE DEF T
  <2> QED
    BY <2>1, LeastNat
<1>3. PICK s \in Wrong : m = Cardinality(s)
  OBVIOUS
<1>4. Cardinality(Rest(s)) \in T /\ Cardinality(Rest(s)) < m /\ m \in Nat
  BY <1>1, <1>3, PickOne
<1>5. m <= Cardinality(Rest(s)) /\ Cardinality(Rest(s)) \in Nat
  BY <1>1, <1>2, <1>3, <1>4, PickOne
<1> QED
  BY <1>4, <1>5

(* The fold is defined: a function that takes one element away and goes on *)
(* with the rest exists.                                                   *)
UpTo(D, n) == {s \in SUBSET D : Cardinality(s) <= n}
HasSums(f, S) ==
  \E g : g = [s \in S |-> IF s = {} THEN 0 ELSE f[Pick(s)] + g[Rest(s)]]

LEMMA PartialSums ==
  ASSUME NEW f, NEW D, IsFiniteSet(D), NEW k \in Nat
  PROVE  HasSums(f, UpTo(D, k))
<1> DEFINE Has(n) == HasSums(f, UpTo(D, n))
           T == {n \in Nat : ~Has(n)}
<1>1. \A s \in SUBSET D : IsFiniteSet(s) /\ Cardinality(s) \in Nat /\ (Cardinality(s) = 0 <=> s = {})
  BY FS_Subset, FS_CardinalityType, FS_EmptySet
<1>2. Has(0)
  <2>1. \A s \in UpTo(D, 0) : s = {}
    BY <1>1 DEF UpTo
  <2>2. [s \in UpTo(D, 0) |-> 0] =
          [s \in UpTo(D, 0) |-> IF s = {} THEN 0
                                ELSE f[Pick(s)] + [t \in UpTo(D, 0) |-> 0][Rest(s)]]
    BY <2>1
  <2> QED
    BY <2>2 DEF HasSums
<1>3. ASSUME NEW n \in Nat, Has(n) PROVE Has(n + 1)
  <2> PICK g : g = [s \in UpTo(D, n) |-> IF s = {} THEN 0 ELSE f[Pick(s)] + g[Rest(s)]]
    BY <1>3 DEF HasSums
  <2> DEFINE h == [s \in UpTo(D, n + 1) |-> IF s = {} THEN 0 ELSE f[Pick(s)] + g[Rest(s)]]
  <2>1. ASSUME NEW s \in UpTo(D, n + 1), s # {}
        PROVE  h[Rest(s)] = g[Rest(s)]
    <3>1. Rest(s) \in UpTo(D, n) /\ Rest(s) \in UpTo(D, n + 1)
      <4>1. s \in SUBSET D /\ Cardinality(s) <= n + 1
        BY <2>1 DEF UpTo
      <4>2. Cardinality(Rest(s)) = Cardinality(s) - 1 /\ Cardinality(s) \in Nat
        BY <1>1, <2>1, <4>1, PickOne
      <4>3. Rest(s) \in SUBSET D
        BY <4>1 DEF Rest
      <4> QED
        BY <4>1, <4>2, <4>3 DEF UpTo
    <3> QED
      BY <3>1
  <2>2. h = [s \in UpTo(D, n + 1) |-> IF s = {} THEN 0 ELSE f[Pick(s)] + h[Rest(s)]]
    <3> HIDE DEF h
    <3>1. \A s \in UpTo(D, n + 1) : (IF s = {} THEN 0 ELSE f[Pick(s)] + g[Rest(s)])
                                      = (IF s = {} THEN 0 ELSE f[Pick(s)] + h[Rest(s)])
      BY <2>1
    <3>2. h = [s \in UpTo(D, n + 1) |-> IF s = {} THEN 0 ELSE f[Pick(s)] + g[Rest(s)]]
      BY DEF h
    <3> QED
      BY <3>1, <3>2
  <2> HIDE DEF h
  <2> QED
    BY <2>2 DEF HasSums
<1> HIDE DEF Has
<1>4. T = {}
  <2> SUFFICES ASSUME T # {} PROVE FALSE
    OBVIOUS
  <2>1. PICK m \in T : \A n \in T : m <= n
    <3>1. T \subseteq Nat
      OBVIOUS
    <3> HIDE DEF T
    <3> QED
      BY <3>1, LeastNat
  <2>2. m # 0 /\ m \in Nat /\ ~Has(m)
    BY <1>2
  <2>3. m - 1 \in Nat /\ m - 1 \notin T
    BY <2>1, <2>2
  <2>4. Has((m - 1) + 1)
    BY <1>3, <2>3
  <2> QED
    BY <2>2, <2>4
<1>5. Has(k)
  BY <1>4
<1> QED
  BY <1>5 DEF Has

LEMMA SumsExist ==
  ASSUME NEW f, NEW D, IsFiniteSet(D)
  PROVE  \E g : /\ SumFunctionOnSet(f, D) = g[D]
                /\ g[{}] = 0
                /\ \A s \in SUBSET D : s # {} => g[s] = f[Pick(s)] + g[Rest(s)]
<1> DEFINE iter == CHOOSE g : g = [s \in SUBSET D |-> IF s = {} THEN 0
                                   ELSE f[CHOOSE x \in s : TRUE] + g[s \ {CHOOSE x \in s : TRUE}]]
<1>1. SumFunctionOnSet(f, D) = iter[D]
  BY DEF SumFunctionOnSet, FoldFunctionOnSet, MapThenFoldSet
<1>2. HasSums(f, SUBSET D)
  <2>1. Cardinality(D) \in Nat /\ \A s \in SUBSET D : Cardinality(s) \in Nat /\ Cardinality(s) <= Cardinality(D)
    BY FS_Subset, FS_CardinalityType
  <2>2. UpTo(D, Cardinality(D)) = SUBSET D
    BY <2>1 DEF UpTo
  <2>3. HasSums(f, UpTo(D, Cardinality(D)))
    BY <2>1, PartialSums
  <2> QED
    BY <2>2, <2>3
<1>3. iter = [s \in SUBSET D |-> IF s = {} THEN 0
                                   ELSE f[CHOOSE x \in s : TRUE] + iter[s \ {CHOOSE x \in s : TRUE}]]
  BY <1>2 DEF Pick, Rest, HasSums
<1> HIDE DEF iter
<1>4. \A s \in SUBSET D : iter[s] = IF s = {} THEN 0 ELSE f[Pick(s)] + iter[Rest(s)]
  BY <1>3 DEF Pick, Rest
<1> QED
  BY <1>1, <1>4

(* Sums of natural numbers, and what one number more or less makes of them.*)
LEMMA SumNat ==
  ASSUME NEW D, IsFiniteSet(D), NEW f \in [D -> Nat]
  PROVE  /\ SumFunction(f) \in Nat
         /\ (\A y \in D : f[y] = 0) => SumFunction(f) = 0
<1> PICK g : /\ SumFunctionOnSet(f, D) = g[D]
             /\ g[{}] = 0
             /\ \A s \in SUBSET D : s # {} => g[s] = f[Pick(s)] + g[Rest(s)]
  BY SumsExist
<1>1. \A s \in SUBSET D : s # {} => Pick(s) \in D /\ Rest(s) \in SUBSET D
  BY DEF Pick, Rest
<1> DEFINE OK(n) == n \in Nat /\ ((\A y \in D : f[y] = 0) => n = 0)
           Wrong == {s \in SUBSET D : ~OK(g[s])}
<1>2. {} \notin Wrong
  OBVIOUS
<1>3. ASSUME NEW s \in Wrong PROVE Rest(s) \in Wrong
  <2>1. s # {} /\ s \in SUBSET D
    BY <1>2
  <2>2. g[s] = f[Pick(s)] + g[Rest(s)] /\ f[Pick(s)] \in Nat /\ Rest(s) \in SUBSET D
    BY <1>1, <2>1
  <2>3. OK(g[Rest(s)]) => OK(g[s])
    BY <1>1, <2>1, <2>2
  <2> QED
    BY <2>2, <2>3
<1>4. Wrong = {}
  <2> HIDE DEF Wrong
  <2>1. Wrong \in SUBSET SUBSET D
    BY DEF Wrong
  <2> QED
    BY <1>2, <1>3, <2>1, OneByOne
<1>5. OK(g[D])
  BY <1>4
<1>6. SumFunction(f) = g[D]
  BY DEF SumFunction
<1> QED
  BY <1>5, <1>6

LEMMA SumChange ==
  ASSUME NEW D, IsFiniteSet(D), NEW f \in [D -> Nat], NEW h \in [D -> Nat], NEW x \in D,
         \A y \in D : y # x => h[y] = f[y]
  PROVE  SumFunction(h) + f[x] = SumFunction(f) + h[x]
<1> PICK g : /\ SumFunctionOnSet(f, D) = g[D]
             /\ g[{}] = 0
             /\ \A s \in SUBSET D : s # {} => g[s] = f[Pick(s)] + g[Rest(s)]
  BY SumsExist
<1> PICK k : /\ SumFunctionOnSet(h, D) = k[D]
             /\ k[{}] = 0
             /\ \A s \in SUBSET D : s # {} => k[s] = h[Pick(s)] + k[Rest(s)]
  BY SumsExist
<1>1. \A s \in SUBSET D : s # {} => Pick(s) \in s /\ Pick(s) \in D /\ Rest(s) \in SUBSET D
                                    /\ Pick(s) \notin Rest(s) /\ Rest(s) \cup {Pick(s)} = s
  BY DEF Pick, Rest
<1> DEFINE OK(s) == /\ g[s] \in Nat /\ k[s] \in Nat
                    /\ x \in s => k[s] + f[x] = g[s] + h[x]
                    /\ x \notin s => k[s] = g[s]
           Wrong == {s \in SUBSET D : ~OK(s)}
<1>2. {} \notin Wrong
  OBVIOUS
<1>3. ASSUME NEW s \in Wrong PROVE Rest(s) \in Wrong
  <2>1. s # {} /\ s \in SUBSET D
    BY <1>2
  <2>2. /\ g[s] = f[Pick(s)] + g[Rest(s)] /\ k[s] = h[Pick(s)] + k[Rest(s)]
        /\ f[Pick(s)] \in Nat /\ h[Pick(s)] \in Nat /\ f[x] \in Nat /\ h[x] \in Nat
        /\ Rest(s) \in SUBSET D
    BY <1>1, <2>1
  <2>3. ASSUME OK(Rest(s)) PROVE OK(s)
    <3>1. CASE x = Pick(s)
      <4>1. x \in s /\ x \notin Rest(s)
        BY <1>1, <2>1, <3>1
      <4> QED
        BY <2>2, <2>3, <3>1, <4>1
    <3>2. CASE x # Pick(s)
      <4>1. x \in s <=> x \in Rest(s)
        BY <1>1, <2>1, <3>2
      <4>2. h[Pick(s)] = f[Pick(s)]
        BY <1>1, <2>1, <3>2
      <4> QED
        BY <2>2, <2>3, <4>1, <4>2
    <3> QED
      BY <3>1, <3>2
  <2> QED
    BY <2>2, <2>3
<1>4. Wrong = {}
  <2> HIDE DEF Wrong
  <2>1. Wrong \in SUBSET SUBSET D
    BY DEF Wrong
  <2> QED
    BY <1>2, <1>3, <2>1, OneByOne
<1>5. OK(D)
  BY <1>4
<1>6. SumFunction(f) = g[D] /\ SumFunction(h) = k[D]
  BY DEF SumFunction
<1> QED
  BY <1>5, <1>6
-----------------------------------------------------------------------------
(* Credits.  The sums of CreditsRight change by one summand at a time.      *)
LEMMA Sums ==
  ASSUME IInv
  PROVE  /\ IsFiniteSet(Jobs) /\ IsFiniteSet(DOMAIN engines)
         /\ Cardinality(cov) \in Nat /\ Cardinality(initial) \in Nat
         /\ credited \in [DOMAIN engines -> Nat] /\ SumFunction(credited) \in Nat
         /\ selections \in [DOMAIN engines -> Nat] /\ SumFunction(selections) \in Nat
         /\ Pending \in [Jobs -> Nat] /\ SumFunction(Pending) \in Nat
<1>1. /\ engines \in EngineLists /\ job \in [Jobs -> JobType]
      /\ selections \in [DOMAIN engines -> Nat] /\ credited \in [DOMAIN engines -> Nat]
      /\ cov \in SUBSET PCs /\ initial \in SUBSET PCs
  BY DEF IInv, TypeOK, JobType
<1>2. IsFiniteSet(Jobs) /\ IsFiniteSet(PCs)
  BY AccountingAssumption
<1>3. IsFiniteSet(DOMAIN engines)
  <2>1. Len(engines) \in Nat /\ DOMAIN engines = 1..Len(engines)
    BY <1>1, Indices
  <2> QED  BY <2>1, FS_Interval
<1>4. \A j \in Jobs : Cardinality(job[j].newCov) \in Nat
  <2>1. \A j \in Jobs : job[j].newCov \in SUBSET PCs
    BY <1>1 DEF JobType
  <2> QED  BY <1>2, <2>1, FS_Subset, FS_CardinalityType
<1>5. Pending \in [Jobs -> Nat]
  BY <1>4 DEF Pending
<1>6. Cardinality(cov) \in Nat /\ Cardinality(initial) \in Nat
  BY <1>1, <1>2, FS_Subset, FS_CardinalityType
<1>7. SumFunction(credited) \in Nat /\ SumFunction(selections) \in Nat
  BY <1>1, <1>3, SumNat
<1>8. SumFunction(Pending) \in Nat
  BY <1>2, <1>5, SumNat
<1> QED  BY <1>1, <1>2, <1>3, <1>5, <1>6, <1>7, <1>8

(* While seeds are loaded nothing is owed and nothing is credited.         *)
LEMMA NothingYet ==
  ASSUME IInv, \A j \in Jobs : job[j] = Free, \A e \in DOMAIN engines : credited[e] = 0
  PROVE  SumFunction(credited) = 0 /\ SumFunction(Pending) = 0
<1>1. \A j \in Jobs : Pending[j] = 0
  BY FS_EmptySet DEF Pending, Free
<1> QED  BY <1>1, Sums, SumNat

LEMMA InitCredits == Init => CreditsIInv
<1> SUFFICES ASSUME Init PROVE CreditsIInv
  OBVIOUS
<1>1. IInv
  BY InitIInv
<1>2. /\ \A j \in Jobs : job[j] = Free /\ \A e \in DOMAIN engines : credited[e] = 0
      /\ cov = {} /\ initial = {} /\ created = 0
      /\ selections = [e \in DOMAIN engines |-> 0] /\ credited = [e \in DOMAIN engines |-> 0]
  BY DEF Init
<1>3. OwedWhenMerged
  BY <1>2 DEF OwedWhenMerged, Free
<1>4. SumFunction(credited) = 0 /\ SumFunction(Pending) = 0
  BY <1>1, <1>2, NothingYet
<1>5. SumFunction(selections) = 0
  BY <1>1, <1>2, Sums, SumNat
<1>6. CreditedOnce
  BY <1>2, <1>4, FS_EmptySet DEF CreditedOnce
<1>7. TriedOnce
  BY <1>2 DEF TriedOnce
<1> QED  BY <1>1, <1>2, <1>3, <1>5, <1>6, <1>7 DEF CreditsIInv, CreditsRight, TriedFirst

LEMMA LoadCredits ==
  ASSUME CreditsIInv, IInv', NEW x \in Seeds, LoadSeed(x)
  PROVE  OwedWhenMerged' /\ CreditedOnce' /\ (engines' # <<>> => SumFunction(selections') = created')
<1>1. /\ toLoad # {} /\ initial' = cov'
      /\ UNCHANGED <<engines, selections, credited, created, job>>
  BY DEF LoadSeed
<1>2. /\ \A j \in Jobs : job[j] = Free
      /\ \A e \in DOMAIN engines : credited[e] = 0
  BY <1>1 DEF CreditsIInv, OwedWhenMerged, IInv
<1>3. SumFunction(credited) = 0 /\ SumFunction(Pending) = 0
  BY <1>2, NothingYet DEF CreditsIInv
<1>4. Pending' = Pending
  BY <1>1 DEF Pending
<1>5. Cardinality(initial') \in Nat /\ Cardinality(cov') = Cardinality(initial')
  <2>1. initial' \in SUBSET PCs /\ IsFiniteSet(PCs)
    BY AccountingAssumption DEF IInv, TypeOK
  <2>2. Cardinality(initial') \in Nat
    BY <2>1, FS_Subset, FS_CardinalityType
  <2> QED  BY <1>1, <2>2
<1>6. CreditedOnce'
  BY <1>1, <1>3, <1>4, <1>5 DEF CreditedOnce
<1>7. OwedWhenMerged'
  BY <1>1, <1>2 DEF OwedWhenMerged, Free
<1> QED  BY <1>1, <1>6, <1>7 DEF CreditsIInv, CreditsRight, TriedFirst

LEMMA SelectCredits ==
  ASSUME CreditsIInv, NEW j \in Jobs, SelectEngine(j)
  PROVE  OwedWhenMerged' /\ CreditedOnce' /\ (engines' # <<>> => SumFunction(selections') = created')
<1>1. /\ toLoad = {} /\ job[j].stage = "free" /\ created' = created + 1
      /\ UNCHANGED <<engines, toLoad, cov, credited, initial>>
  BY DEF SelectEngine
<1>2. /\ job \in [Jobs -> JobType] /\ created \in Nat /\ IInv
  BY AccountingAssumption DEF CreditsIInv, IInv, TypeOK, JobType
<1>3. PICK e : job' = [job EXCEPT ![j] = Started(e)]
  BY DEF SelectEngine
<1>4. job[j].newCov = {} /\ job'[j].newCov = {} /\ \A i \in Jobs : i # j => job'[i] = job[i]
  BY <1>1, <1>2, <1>3 DEF CreditsIInv, OwedWhenMerged, Started
<1>5. Pending' = Pending
  BY <1>4 DEF Pending
<1>6. OwedWhenMerged'
  BY <1>1, <1>4 DEF CreditsIInv, OwedWhenMerged
<1>7. CreditedOnce'
  BY <1>1, <1>5 DEF CreditsIInv, CreditsRight, CreditedOnce
<1>8. ASSUME engines # <<>> PROVE SumFunction(selections') = created'
  <2>1. PICK d \in DOMAIN engines : selections' = [selections EXCEPT ![d] = @ + 1]
    <3>1. PICK c \in Candidates : selections' = [selections EXCEPT ![FindByName(c)] = @ + 1]
      BY <1>8 DEF SelectEngine
    <3>2. FindByName(c) \in DOMAIN engines
      BY <1>2, FoundByName DEF Candidates, Untried, IInv, TypeOK
    <3> QED  BY <3>1, <3>2
  <2>2. d \in DOMAIN engines
    OBVIOUS
  <2>3. /\ selections \in [DOMAIN engines -> Nat] /\ selections' \in [DOMAIN engines -> Nat]
        /\ \A y \in DOMAIN engines : y # d => selections'[y] = selections[y]
        /\ selections'[d] = selections[d] + 1 /\ selections[d] \in Nat
    BY <1>2, <2>1, <2>2, Sums
  <2>4. SumFunction(selections') + selections[d] = SumFunction(selections) + selections'[d]
    BY <1>2, <2>2, <2>3, Sums, SumChange
  <2>5. SumFunction(selections') \in Nat /\ SumFunction(selections) \in Nat
    BY <1>2, <2>3, Sums, SumNat
  <2>6. SumFunction(selections) = created
    BY <1>8 DEF CreditsIInv, CreditsRight, TriedFirst
  <2> QED  BY <1>1, <2>3, <2>4, <2>5, <2>6
<1> QED  BY <1>1, <1>6, <1>7, <1>8

LEMMA MergeCredits ==
  ASSUME CreditsIInv, NEW j \in Jobs, NEW S \in SUBSET Inputs, Merge(j, S)
  PROVE  OwedWhenMerged' /\ CreditedOnce' /\ (engines' # <<>> => SumFunction(selections') = created')
<1> DEFINE new == Covered(S) \ cov
<1>1. /\ job[j].stage = "runs" /\ cov' = cov \cup Covered(S)
      /\ job' = [job EXCEPT ![j].stage = "merged", ![j].newCov = NewCov(S)]
      /\ UNCHANGED <<engines, toLoad, selections, credited, created, initial>>
  BY DEF Merge
<1>2. job \in [Jobs -> JobType] /\ IInv /\ cov \in SUBSET PCs
  BY DEF CreditsIInv, IInv, TypeOK, JobType
<1>3. /\ job[j].newCov = {} /\ job'[j].newCov = new /\ job'[j].stage = "merged"
      /\ \A i \in Jobs : i # j => job'[i] = job[i]
  BY <1>1, <1>2 DEF CreditsIInv, OwedWhenMerged, NewCov, JobType
<1>4. /\ IsFiniteSet(new) /\ Cardinality(new) \in Nat
      /\ Cardinality(cov') = Cardinality(cov) + Cardinality(new)
  <2>1. new \in SUBSET PCs /\ IsFiniteSet(PCs)
    BY CoveredPCs, AccountingAssumption
  <2>2. IsFiniteSet(new) /\ IsFiniteSet(cov)
    BY <1>2, <2>1, FS_Subset
  <2>3. cov' = cov \cup new /\ cov \cap new = {}
    BY <1>1
  <2>4. Cardinality(cov \cup new) = Cardinality(cov) + Cardinality(new) - Cardinality(cov \cap new)
    <3> HIDE DEF new
    <3> QED  BY <2>2, FS_Union
  <2>5. Cardinality(cov \cap new) = 0
    BY <2>3, FS_EmptySet
  <2>6. Cardinality(cov') = Cardinality(cov \cup new)
    BY <2>3
  <2>7. Cardinality(cov) \in Nat /\ Cardinality(new) \in Nat
    BY <2>2, FS_CardinalityType
  <2> HIDE DEF new
  <2> QED  BY <2>2, <2>4, <2>5, <2>6, <2>7
<1>5. OwedWhenMerged'
  BY <1>1, <1>3 DEF CreditsIInv, OwedWhenMerged
<1>6. /\ Pending \in [Jobs -> Nat] /\ Pending' \in [Jobs -> Nat]
      /\ Pending[j] = 0 /\ Pending'[j] = Cardinality(new)
      /\ \A i \in Jobs : i # j => Pending'[i] = Pending[i]
  <2> HIDE DEF new
  <2>1. Pending \in [Jobs -> Nat]
    BY <1>2, Sums
  <2>2. Pending[j] = 0
    BY <1>3, FS_EmptySet DEF Pending
  <2>3. Pending' = [i \in Jobs |-> Cardinality(job'[i].newCov)]
    BY DEF Pending
  <2>4. Pending'[j] = Cardinality(new)
    BY <1>3, <2>3
  <2>5. \A i \in Jobs : i # j => Pending'[i] = Pending[i]
    BY <1>3, <2>3 DEF Pending
  <2>6. \A i \in Jobs : Pending'[i] \in Nat
    BY <1>4, <2>1, <2>4, <2>5
  <2> QED  BY <2>1, <2>2, <2>3, <2>4, <2>5, <2>6
<1>7. CreditedOnce'
  <2> HIDE DEF new
  <2>1. SumFunction(Pending') + Pending[j] = SumFunction(Pending) + Pending'[j]
    BY <1>2, <1>6, Sums, SumChange
  <2>2. SumFunction(Pending') \in Nat /\ SumFunction(Pending) \in Nat
    BY <1>2, <1>6, Sums, SumNat
  <2>3. SumFunction(Pending') = SumFunction(Pending) + Cardinality(new)
    BY <1>4, <1>6, <2>1, <2>2
  <2>4. engines # <<>> => Cardinality(cov) = Cardinality(initial) + SumFunction(credited) + SumFunction(Pending)
    BY DEF CreditsIInv, CreditsRight, CreditedOnce
  <2>5. /\ Cardinality(cov) \in Nat /\ Cardinality(initial) \in Nat /\ SumFunction(credited) \in Nat
    BY <1>2, Sums
  <2>6. engines # <<>> => Cardinality(cov') = Cardinality(initial) + SumFunction(credited) + SumFunction(Pending')
    BY <1>4, <2>2, <2>3, <2>4, <2>5
  <2> QED  BY <1>1, <2>6 DEF CreditedOnce
<1> QED  BY <1>1, <1>5, <1>7 DEF CreditsIInv, CreditsRight, TriedFirst

LEMMA CreditCredits ==
  ASSUME CreditsIInv, NEW j \in Jobs, Credit(j)
  PROVE  OwedWhenMerged' /\ CreditedOnce' /\ (engines' # <<>> => SumFunction(selections') = created')
<1> DEFINE e == job[j].engine
           n == Cardinality(job[j].newCov)
<1>1. /\ job[j].stage = "merged" /\ job' = [job EXCEPT ![j] = Free]
      /\ UNCHANGED <<engines, toLoad, cov, selections, created, initial>>
  BY DEF Credit
<1>2. job \in [Jobs -> JobType] /\ IInv
  BY DEF CreditsIInv, IInv, TypeOK, JobType
<1>3. toLoad = {}
  BY <1>1, <1>2 DEF IInv, Free
<1>4. job'[j] = Free /\ \A i \in Jobs : i # j => job'[i] = job[i]
  BY <1>1, <1>2
<1>5. OwedWhenMerged'
  BY <1>1, <1>3, <1>4 DEF CreditsIInv, OwedWhenMerged, Free
<1>6. /\ Pending \in [Jobs -> Nat] /\ Pending' \in [Jobs -> Nat]
      /\ Pending[j] = n /\ Pending'[j] = 0 /\ n \in Nat
      /\ \A i \in Jobs : i # j => Pending'[i] = Pending[i]
  <2>1. Pending \in [Jobs -> Nat]
    BY <1>2, Sums
  <2>2. Pending[j] = n
    BY DEF Pending
  <2>3. Pending' = [i \in Jobs |-> Cardinality(job'[i].newCov)]
    BY DEF Pending
  <2>4. Pending'[j] = 0
    BY <1>4, <2>3, FS_EmptySet, SMTT(30) DEF Free
  <2>5. \A i \in Jobs : i # j => Pending'[i] = Pending[i]
    BY <1>4, <2>3 DEF Pending
  <2> HIDE DEF n
  <2>6. \A i \in Jobs : Pending'[i] \in Nat
    BY <2>1, <2>4, <2>5
  <2> QED  BY <2>1, <2>2, <2>3, <2>4, <2>5, <2>6
<1>7. ASSUME engines # <<>>
      PROVE  Cardinality(cov) = Cardinality(initial) + SumFunction(credited') + SumFunction(Pending')
  <2>1. e # 0 /\ e \in DOMAIN engines
    <3>1. e # 0 /\ e \in 0..Len(engines)
      BY <1>1, <1>2, <1>7 DEF IInv, JobType
    <3>2. engines \in EngineLists
      BY <1>2 DEF IInv, TypeOK
    <3> QED  BY <3>1, <3>2, Indices
  <2>2. credited' = [credited EXCEPT ![e] = @ + n]
    BY <2>1 DEF Credit
  <2> HIDE DEF e, n
  <2>3. /\ credited \in [DOMAIN engines -> Nat] /\ credited' \in [DOMAIN engines -> Nat]
        /\ credited[e] \in Nat /\ credited'[e] = credited[e] + n
        /\ \A y \in DOMAIN engines : y # e => credited'[y] = credited[y]
    BY <1>2, <1>6, <2>1, <2>2, Sums
  <2>4. SumFunction(credited') + credited[e] = SumFunction(credited) + credited'[e]
    BY <1>2, <2>1, <2>3, Sums, SumChange
  <2>5. SumFunction(Pending') + Pending[j] = SumFunction(Pending) + Pending'[j]
    BY <1>2, <1>6, Sums, SumChange
  <2>6. /\ SumFunction(credited') \in Nat /\ SumFunction(credited) \in Nat
        /\ SumFunction(Pending') \in Nat /\ SumFunction(Pending) \in Nat
    BY <1>2, <1>6, <2>3, Sums, SumNat
  <2>7. SumFunction(credited') = SumFunction(credited) + n
    BY <1>6, <2>3, <2>4, <2>6
  <2>8. SumFunction(Pending') + n = SumFunction(Pending)
    BY <1>6, <2>5, <2>6
  <2>9. Cardinality(cov) = Cardinality(initial) + SumFunction(credited) + SumFunction(Pending)
    BY <1>7 DEF CreditsIInv, CreditsRight, CreditedOnce
  <2>10. Cardinality(initial) \in Nat
    BY <1>2, Sums
  <2> QED  BY <1>6, <2>6, <2>7, <2>8, <2>9, <2>10
<1>8. CreditedOnce'
  <2> HIDE DEF e, n
  <2> QED  BY <1>1, <1>7 DEF CreditedOnce
<1> QED  BY <1>1, <1>5, <1>8 DEF CreditsIInv, CreditsRight, TriedFirst

LEMMA NextCredits == CreditsIInv /\ [Next]_vars => CreditsIInv'
<1> SUFFICES ASSUME CreditsIInv, [Next]_vars PROVE CreditsIInv'
  OBVIOUS
<1> DEFINE Sums3 == OwedWhenMerged /\ CreditedOnce /\ (engines # <<>> => SumFunction(selections) = created)
<1>1. IInv'
  BY NextIInv DEF CreditsIInv
<1>2. TriedOnce'
  BY TriedStep DEF CreditsIInv, CreditsRight, TriedFirst
<1>3. Sums3'
  <2>1. ASSUME NEW x \in Seeds, LoadSeed(x) PROVE Sums3'
    BY <1>1, <2>1, LoadCredits
  <2>2. ASSUME NEW j \in Jobs, SelectEngine(j) PROVE Sums3'
    BY <2>2, SelectCredits
  <2>3. ASSUME NEW j \in Jobs, NEW S \in SUBSET Inputs, Merge(j, S) PROVE Sums3'
    BY <2>3, MergeCredits
  <2>4. ASSUME NEW j \in Jobs, Credit(j) PROVE Sums3'
    BY <2>4, CreditCredits
  <2>5. ASSUME UNCHANGED vars PROVE Sums3'
    <3>1. Pending' = Pending
      BY <2>5 DEF Pending, vars
    <3> QED  BY <2>5, <3>1
             DEF CreditsIInv, CreditsRight, TriedFirst, OwedWhenMerged, CreditedOnce, vars
  <2> HIDE DEF Sums3
  <2> QED  BY <2>1, <2>2, <2>3, <2>4, <2>5 DEF Next, Done
<1> QED  BY <1>1, <1>2, <1>3 DEF CreditsIInv, CreditsRight, TriedFirst

(* Every PC covered since the seeds were loaded is credited to one engine  *)
(* or owed to one by a merged job, whatever the order of the merges and of *)
(* the credits; and every job counts for the engine it was given.          *)
THEOREM CreditsHold == Spec => []CreditsRight
<1>1. CreditsIInv => CreditsRight
  BY DEF CreditsIInv
<1> QED  BY InitCredits, NextCredits, <1>1, PTL DEF Spec
=============================================================================
