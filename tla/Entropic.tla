------------------------------ MODULE Entropic ------------------------------
(***************************************************************************)
(* The entropic power schedule of one fuzzing process (FuzzerCorpus.h):    *)
(* the list of globally rare features, the frequency of each of them in    *)
(* the neighbourhood of every input, and the weight of the inputs that     *)
(* follows from the two.  Units are abstracted to the set of features      *)
(* their execution reports, energies to whether they are zero, as if they  *)
(* were real numbers: the schedule only tells inputs that can be drawn     *)
(* from inputs that cannot.  -shrink is off, as by default; InputCorpus    *)
(* models it.                                                              *)
(***************************************************************************)
EXTENDS Integers, Sequences, FiniteSets, SequencesExt

CONSTANTS
  Features,                   \* indices of features, in the order of CollectFeatures
  NumberOfRarestFeatures,     \* -entropic_number_of_rarest_features
  FeatureFrequencyThreshold,  \* -entropic_feature_frequency_threshold
  MaxFreq,                    \* the largest uint16_t
  MaxMutationFactor,          \* kMaxMutationFactor
  MaxFeaturesPerRun,          \* bound on the features one unit reports
  MaxRuns                     \* bound on the units executed

ASSUME EntropicAssumption ==
  /\ IsFiniteSet(Features) /\ Features = 0..(Cardinality(Features) - 1)
  /\ {NumberOfRarestFeatures, FeatureFrequencyThreshold, MaxMutationFactor} \subseteq Nat
  /\ MaxMutationFactor > 0 /\ MaxFreq \in Nat /\ MaxFreq > FeatureFrequencyThreshold
  /\ MaxFeaturesPerRun \in Nat /\ MaxRuns \in Nat

VARIABLES
  pc,      \* seeds, choose, mutate
  keep,    \* -keep_seed, and there are seed files
  corpus,  \* the InputCorpus object, see Corpora
  weights, \* inputs with a positive weight in CorpusDistribution
  base,    \* the input to mutate, 0 for none
  runs     \* TotalNumberOfRuns

vars == <<pc, keep, corpus, weights, base, runs>>

Corpora ==
  [inputs : Seq([num : Nat, freqs : UNION {[F -> 1..MaxFreq] : F \in SUBSET Features},
                 energy : BOOLEAN, update : BOOLEAN, mutations : Nat]),
   added : SUBSET Features,           \* InputSizesPerFeature is not 0
   freq : [Features -> 0..MaxFreq],   \* GlobalFeatureFreqs
   rare : Seq(Features),              \* RareFeatures
   isRare : [Features -> BOOLEAN],    \* IsRareFeature
   most : 0..MaxFreq,                 \* FreqOfMostAbundantRareFeature
   stale : BOOLEAN]                   \* DistributionNeedsUpdate

Init ==
  /\ pc = "seeds" /\ keep \in BOOLEAN /\ weights = {} /\ base = 0 /\ runs = 0
  /\ corpus = [inputs |-> <<>>, added |-> {}, freq |-> [f \in Features |-> 0], rare |-> <<>>,
               isRare |-> [f \in Features |-> FALSE], most |-> 0, stale |-> TRUE]
-----------------------------------------------------------------------------
(* The scan for the most abundant rare feature; "second" is what was the   *)
(* most abundant one of those before it in the list.                       *)
MostAbundant(C) ==
  LET Scan(m, p) == IF C.freq[C.rare[p]] >= C.freq[m.first]
                      THEN [first |-> C.rare[p], second |-> m.first, at |-> p] ELSE m
  IN FoldLeftDomain(Scan, [first |-> C.rare[1], second |-> C.rare[1], at |-> 1], C.rare)

DeleteFeatureFreq(input, f) == [input EXCEPT !.freqs = Restrict(@, DOMAIN @ \ {f})]

(* The mark that is cleared is the one of the feature whose number is the  *)
(* position in the list (FuzzerCorpus.h:386).                              *)
RemoveMostAbundant(C) ==
  LET m == MostAbundant(C)
      Without(input) == [DeleteFeatureFreq(input, m.first)
                           EXCEPT !.update = @ \/ m.first \in DOMAIN input.freqs]
  IN [C EXCEPT !.isRare[m.at - 1] = FALSE,
               !.rare = Front(ReplaceAt(@, m.at, Last(@))),
               !.inputs = [i \in DOMAIN @ |-> Without(@[i])],
               !.most = C.freq[m.second]]

TooManyByOne(C) == Len(C.rare) >= NumberOfRarestFeatures /\ C.rare # <<>>  \* mutant: the bound
TooMany(C) == Len(C.rare) > NumberOfRarestFeatures

RemoveAbundant(C) ==
  FoldLeft(LAMBDA D, f : IF TooMany(D) /\ D.most > FeatureFrequencyThreshold
                           THEN RemoveMostAbundant(D) ELSE D, C, C.rare)

(* Smoothing keeps a positive energy positive and leaves a zero alone.     *)
SmoothAll(input) == [input EXCEPT !.energy = TRUE]  \* mutant: zero energies too
Smooth(input) == input

AddRareFeature(C, f) ==
  LET D == RemoveAbundant(C)
  IN [D EXCEPT !.rare = Append(@, f), !.isRare[f] = TRUE, !.freq[f] = 0, !.stale = TRUE,
               !.inputs = [i \in DOMAIN @ |-> Smooth(DeleteFeatureFreq(@[i], f))]]

AddFeature(C, f) ==
  IF f \in C.added THEN C ELSE AddRareFeature([C EXCEPT !.added = @ \cup {f}], f)

IncrementLocal(input, f) ==
  [input EXCEPT !.update = TRUE,
                !.freqs = [g \in DOMAIN @ \cup {f} |->
                             IF g # f THEN @[g] ELSE IF f \in DOMAIN @ THEN @[f] + 1 ELSE 1]]

(* Globally and, unless it is abundant, for the input that was mutated.    *)
UpdateLocalFirst(C, ii, f) ==  \* mutant: the local frequency without regard to saturation
  LET q == C.freq[f]
      D == [C EXCEPT !.freq[f] = IF q = MaxFreq THEN q ELSE q + 1,
                     !.most = IF q = C.most /\ q < MaxFreq THEN @ + 1 ELSE @]
  IN IF q > C.most \/ ~C.isRare[f] \/ ii = 0 THEN D
     ELSE [D EXCEPT !.inputs[ii] = IncrementLocal(@, f)]
UpdateFeatureFrequency(C, ii, f) ==
  LET q == C.freq[f]
      D == [C EXCEPT !.freq[f] = q + 1]
      E == [D EXCEPT !.most = IF q = C.most THEN @ + 1 ELSE @]
  IN CASE q = MaxFreq -> C
       [] q < MaxFreq /\ (q > C.most \/ ~C.isRare[f]) -> D
       [] OTHER -> IF ii = 0 THEN E ELSE [E EXCEPT !.inputs[ii] = IncrementLocal(@, f)]

(* RunOne of a unit that reports the features F, a mutant of input ii; the *)
(* callback is called for them in the order of their indices.              *)
CollectFeatures(C, ii, F) ==
  FoldLeft(LAMBDA D, f : IF f \in F THEN UpdateFeatureFrequency(AddFeature(D, f), ii, f) ELSE D,
           C, [k \in 1..Cardinality(Features) |-> k - 1])

(* A new input gets the logarithm of the number of rare features.          *)
FreshEnergy(C) == C.rare = <<>> \/ Len(C.rare) > 1

AddToCorpus(C, num) ==
  [C EXCEPT !.stale = TRUE,
            !.inputs = Append(@, [num |-> num, freqs |-> <<>>, energy |-> FreshEnergy(C),
                                  update |-> FALSE, mutations |-> 0])]

RunOne(C, ii, F, forced) ==
  LET D == CollectFeatures(C, ii, F)
      new == Cardinality(D.added) - Cardinality(C.added)
  IN IF new > 0 \/ forced THEN AddToCorpus(D, new) ELSE D
-----------------------------------------------------------------------------
(* The entropy of the incidences: positive unless there is one class only, *)
(* the abundant one: as long as there is no rare feature it is zero.  The  *)
(* number of features not discovered locally is a difference of unsigned   *)
(* numbers, and large when it would be negative.                           *)
Entropy(C, input) ==
  DOMAIN input.freqs # {} \/ Len(C.rare) # Cardinality(DOMAIN input.freqs)

UpdateEnergy(C) ==
  LET Update(input) == IF input.update /\ input.energy
                         THEN [input EXCEPT !.update = FALSE, !.energy = Entropy(C, input)]
                         ELSE input
  IN [C EXCEPT !.stale = FALSE, !.inputs = [i \in DOMAIN @ |-> Update(@[i])]]

Mutations(C) == FoldLeft(LAMBDA n, input : n + input.mutations, 0, C.inputs)

(* Inputs without features, those fuzzed a lot more than the average and   *)
(* those without energy get no weight; if that is all, the vanilla         *)
(* schedule takes over.                                                    *)
Weighted(C) ==
  LET vanilla == {i \in DOMAIN C.inputs : C.inputs[i].num > 0}
      entropic == {i \in vanilla :
                     /\ C.inputs[i].energy
                     /\ C.inputs[i].mutations \div MaxMutationFactor
                          <= Mutations(C) \div Len(C.inputs)}
  IN IF entropic = {} THEN vanilla ELSE entropic

(* When no input has a feature the draw is of the first or fails, see      *)
(* InputCorpus.                                                            *)
Drawn(W) == IF W = {} THEN {1} ELSE W

Bounded(F) == runs < MaxRuns /\ Cardinality(F) <= MaxFeaturesPerRun

(* ReadAndExecuteSeedCorpora: no input is being mutated.                   *)
ExecuteSeed(F) ==
  /\ pc = "seeds" /\ Bounded(F)
  /\ corpus' = RunOne(corpus, 0, F, keep)
  /\ runs' = runs + 1
  /\ UNCHANGED <<pc, keep, weights, base>>

(* A fake input, with a feature by number only, starts an empty corpus.    *)
SeedsDone ==
  /\ pc = "seeds"
  /\ corpus' = IF corpus.inputs = <<>> THEN AddToCorpus(corpus, 1) ELSE corpus
  /\ pc' = "choose"
  /\ UNCHANGED <<keep, weights, base, runs>>

(* UpdateCorpusDistribution, now and then when nothing requires it, ...    *)
UpdateCorpusDistribution ==
  /\ pc = "choose"
  /\ corpus' = UpdateEnergy(corpus)
  /\ weights' = Weighted(corpus')
  /\ base' \in Drawn(weights')
  /\ pc' = "mutate"
  /\ UNCHANGED <<keep, runs>>

(* ... and the draw from a distribution that was not updated.              *)
ChooseUnitToMutate ==
  /\ pc = "choose" /\ ~corpus.stale
  /\ base' \in Drawn(weights)
  /\ pc' = "mutate"
  /\ UNCHANGED <<keep, corpus, weights, runs>>

(* One execution of MutateAndTestOne; it ends with one that finds          *)
(* something, and after any other at -reduce_depth or -mutate_depth.       *)
MutateAndTestOne(F) ==
  /\ pc = "mutate" /\ Bounded(F)
  /\ LET C == RunOne([corpus EXCEPT !.inputs[base].mutations = @ + 1], base, F, FALSE)
     IN corpus' = [C EXCEPT !.inputs[base].update = TRUE]
  /\ runs' = runs + 1
  /\ pc' = "choose" /\ base' = 0
  /\ UNCHANGED <<keep, weights>>

Done == runs = MaxRuns /\ UNCHANGED vars

Next ==
  \/ \E F \in SUBSET Features : ExecuteSeed(F) \/ MutateAndTestOne(F)
  \/ SeedsDone \/ UpdateCorpusDistribution \/ ChooseUnitToMutate \/ Done

Spec == Init /\ [][Next]_vars
-----------------------------------------------------------------------------
(* Every field has the type its C++ declaration gives it.                  *)
TypeOK ==
  /\ pc \in {"seeds", "choose", "mutate"} /\ keep \in BOOLEAN
  /\ corpus \in Corpora
  /\ weights \subseteq DOMAIN corpus.inputs
  /\ base \in 0..Len(corpus.inputs) /\ runs \in 0..MaxRuns

(* The neighbourhood of an input is part of what was executed: no feature  *)
(* is more frequent there than globally, although one count saturates and  *)
(* the other one does not, and both are reset on their own.                *)
LocalWithinGlobal ==
  \A i \in DOMAIN corpus.inputs : LET local == corpus.inputs[i].freqs
                                  IN \A f \in DOMAIN local : local[f] <= corpus.freq[f]

(* FuzzerCorpus.h:365: at least NumberOfRarestFeatures features are kept   *)
(* besides the newest, as soon as there are that many, each once.          *)
RareAtLeast ==
  /\ TypeOK
  /\ IsInjective(corpus.rare) /\ ToSet(corpus.rare) \subseteq corpus.added
  /\ Len(corpus.rare) >= Min({NumberOfRarestFeatures + 1, Cardinality(corpus.added)})

(* FuzzerCorpus.h:408: an input without energy remains without.  And one   *)
(* with energy loses it only as long as no feature has been found: the fake*)
(* input, or a seed of -keep_seed, at the first update after a mutation of *)
(* it.  Afterwards, whatever is executed or removed from the list, only    *)
(* more frequent fuzzing than the average can suspend an input.            *)
EnergyLost(i) == corpus.inputs[i].energy /\ ~corpus'.inputs[i].energy

EnergyStays ==
  [][\A i \in DOMAIN corpus.inputs :
       /\ corpus'.inputs[i].energy => corpus.inputs[i].energy
       /\ EnergyLost(i) => corpus'.added = {} /\ corpus'.inputs[i].mutations > 0]_vars

(* FuzzerCorpus.h:365-367: all features with a frequency below the         *)
(* threshold are maintained.                                               *)
RareKept ==
  \A f \in corpus.added : corpus.freq[f] < FeatureFrequencyThreshold => f \in ToSet(corpus.rare)

(* FuzzerCorpus.h:367: "Remove all other features": inputs count those of  *)
(* the list only, and what they have not discovered is the difference      *)
(* (line 90).                                                              *)
RareOnly ==
  \A i \in DOMAIN corpus.inputs : DOMAIN corpus.inputs[i].freqs \subseteq ToSet(corpus.rare)

(* FuzzerCorpus.h:69: a seed that was never executed has maximum entropy.  *)
FreshHasEnergy == \A i \in DOMAIN corpus.inputs : corpus.inputs[i].energy
-----------------------------------------------------------------------------
(* What the proofs rest on: the list is long enough for the features there *)
(* are, and an input to mutate is one of the corpus.                       *)
Enough(C) ==
  Len(C.rare) > NumberOfRarestFeatures \/ Len(C.rare) >= Cardinality(C.added)

IInv ==
  /\ TypeOK /\ LocalWithinGlobal
  /\ IsInjective(corpus.rare) /\ ToSet(corpus.rare) \subseteq corpus.added /\ Enough(corpus)
  /\ \A i \in DOMAIN corpus.inputs : corpus.inputs[i].update =>
       corpus.added # {} \/ corpus.inputs[i].mutations > 0
  /\ pc = "mutate" => base # 0
  /\ pc # "seeds" => corpus.inputs # <<>>
=============================================================================
