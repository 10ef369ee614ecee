--------------------------- MODULE Entropic_proofs ---------------------------
(* Proofs about Entropic for every number of features and every setting of *)
(* the schedule, for any sequence of units.                                *)
EXTENDS Entropic, FiniteSetTheorems, WellFoundedInduction, TLAPS

(* The folds of Entropic go over the positions of a list, from the first   *)
(* to the last.  The definition of a fold chooses a function; FoldExists   *)
(* says that there is one, OneByOne that what one step keeps is kept to    *)
(* the last position.                                                      *)
LEMMA LeastNat ==
  ASSUME NEW T, T \subseteq Nat, T # {}
  PROVE  \E m \in T : \A n \in T : m <= n
<1> DEFINE R == {r \in Nat \X Nat : r[1] < r[2]}
<1>1. IsWellFoundedOn(R, Nat)
  <2>1. R = OpToRel(<, Nat)
    BY DEF OpToRel
  <2> QED  BY <2>1, NatLessThanWellFounded
<1>2. PICK m \in T : \A n \in T : <<n, m>> \notin R
  <2> HIDE DEF R
  <2> QED  BY <1>1, WFMin
<1>3. ASSUME NEW n \in T PROVE m <= n
  <2>1. m \in Nat /\ n \in Nat /\ <<n, m>> \notin R
    BY <1>2, <1>3
  <2> QED  BY <2>1
<1> QED  BY <1>3

LEMMA UpToFinite ==
  ASSUME NEW n \in Nat
  PROVE  /\ IsFiniteSet(1..n) /\ Cardinality(1..n) = n
         /\ \A s \in SUBSET (1..n) : /\ IsFiniteSet(s) /\ Cardinality(s) \in Nat
                                     /\ Cardinality(s) <= n /\ (Cardinality(s) = 0 <=> s = {})
<1>1. IsFiniteSet(1..n) /\ Cardinality(1..n) = n
  <2>1. 1 \in Int /\ n \in Int
    OBVIOUS
  <2>2. IsFiniteSet(1..n) /\ Cardinality(1..n) = IF 1 > n THEN 0 ELSE n - 1 + 1
    BY <2>1, FS_Interval
  <2> QED  BY <2>2
<1>2. ASSUME NEW s \in SUBSET (1..n)
      PROVE  /\ IsFiniteSet(s) /\ Cardinality(s) \in Nat
             /\ Cardinality(s) <= n /\ (Cardinality(s) = 0 <=> s = {})
  <2>1. IsFiniteSet(s) /\ Cardinality(s) <= Cardinality(1..n)
    BY <1>1, FS_Subset
  <2> QED  BY <1>1, <2>1, FS_CardinalityType, FS_EmptySet
<1> QED  BY <1>1, <1>2

LEMMA Greatest ==
  ASSUME NEW n \in Nat, NEW s \in SUBSET (1..n), s # {}
  PROVE  Max(s) \in s /\ \A y \in s : y <= Max(s)
<1> DEFINE T == {n - x : x \in s}
<1>1. PICK m \in T : \A d \in T : m <= d
  <2>1. \A x \in s : x \in Int /\ 1 <= x /\ x <= n
    OBVIOUS
  <2>2. \A x \in s : n - x \in Nat
    BY <2>1
  <2>3. T \subseteq Nat /\ T # {}
    BY <2>2, Zenon
  <2> HIDE DEF T
  <2> QED  BY <2>3, LeastNat
<1>2. PICK x \in s : m = n - x
  OBVIOUS
<1>3. ASSUME NEW y \in s PROVE x >= y
  <2>1. x \in Int /\ y \in Int
    OBVIOUS
  <2>2. n - x <= n - y
    BY <1>1, <1>2
  <2> QED  BY <2>1, <2>2
<1>4. Max(s) \in s /\ \A y \in s : Max(s) >= y
  BY <1>3 DEF Max
<1> QED  BY <1>4

But(s) == s \ {Max(s)}

LEMMA ButGreatest ==
  ASSUME NEW n \in Nat, NEW s \in SUBSET (1..n), s # {}
  PROVE  /\ Max(s) \in 1..n /\ But(s) \in SUBSET (1..n)
         /\ Cardinality(s) \in Nat \ {0} /\ Cardinality(But(s)) = Cardinality(s) - 1
<1>1. Max(s) \in s
  BY Greatest
<1>2. IsFiniteSet(s)
  BY UpToFinite
<1>3. Cardinality(s) \in Nat /\ Cardinality(s) # 0
  BY UpToFinite
<1> QED  BY <1>1, <1>2, <1>3, FS_RemoveElement DEF But

LEMMA OneByOne ==
  ASSUME NEW n \in Nat, NEW Wrong \in SUBSET SUBSET (1..n), {} \notin Wrong,
         \A s \in Wrong : But(s) \in Wrong
  PROVE  Wrong = {}
<1> SUFFICES ASSUME Wrong # {} PROVE FALSE
  OBVIOUS
<1>1. \A s \in Wrong : s # {} /\ s \in SUBSET (1..n)
  OBVIOUS
<1> DEFINE T == {Cardinality(s) : s \in Wrong}
<1>2. PICK m \in T : \A d \in T : m <= d
  <2>1. T \subseteq Nat /\ T # {}
    BY <1>1, ButGreatest
  <2> HIDE DEF T
  <2> QED  BY <2>1, LeastNat
<1>3. PICK s \in Wrong : m = Cardinality(s)
  OBVIOUS
<1>4. Cardinality(But(s)) \in T /\ Cardinality(But(s)) = m - 1 /\ m \in Nat
  BY <1>1, <1>3, ButGreatest
<1> QED  BY <1>2, <1>4

(* A function computes the partial results, on the sets of positions S.    *)
Folds(n, T, b, step, S) ==
  \E g \in [S -> T] :
    g = [s \in S |-> IF s = {} THEN b ELSE step[Max(s)][g[But(s)]]]

Upto(n, k) == {s \in SUBSET (1..n) : Cardinality(s) <= k}

LEMMA FoldExists ==
  ASSUME NEW n \in Nat, NEW T, NEW b \in T, NEW step \in [1..n -> [T -> T]]
  PROVE  Folds(n, T, b, step, SUBSET (1..n))
<1> DEFINE Has(k) == Folds(n, T, b, step, Upto(n, k))
           Not == {k \in Nat : ~Has(k)}
<1>1. \A s \in SUBSET (1..n) : Cardinality(s) \in Nat /\ (Cardinality(s) = 0 <=> s = {})
  BY UpToFinite
<1>2. Has(0)
  <2>1. \A s \in Upto(n, 0) : s = {}
    BY <1>1 DEF Upto
  <2> DEFINE g == [s \in Upto(n, 0) |-> b]
  <2>2. g = [s \in Upto(n, 0) |-> IF s = {} THEN b ELSE step[Max(s)][g[But(s)]]]
    BY <2>1
  <2>3. g \in [Upto(n, 0) -> T]
    OBVIOUS
  <2> HIDE DEF g
  <2> QED  BY <2>2, <2>3 DEF Folds
<1>3. ASSUME NEW k \in Nat, Has(k) PROVE Has(k + 1)
  <2>1. PICK g \in [Upto(n, k) -> T] :
          g = [s \in Upto(n, k) |-> IF s = {} THEN b ELSE step[Max(s)][g[But(s)]]]
    BY <1>3 DEF Folds
  <2> DEFINE h == [s \in Upto(n, k + 1) |-> IF s = {} THEN b ELSE step[Max(s)][g[But(s)]]]
  <2>2. ASSUME NEW s \in Upto(n, k + 1), s # {}
        PROVE  /\ Max(s) \in 1..n /\ But(s) \in Upto(n, k) /\ But(s) \in Upto(n, k + 1)
               /\ step[Max(s)][g[But(s)]] \in T
    <3>1. s \in SUBSET (1..n) /\ Cardinality(s) <= k + 1
      BY DEF Upto
    <3>2. Max(s) \in 1..n /\ But(s) \in SUBSET (1..n) /\ Cardinality(But(s)) = Cardinality(s) - 1
      BY <2>2, <3>1, ButGreatest
    <3>3. But(s) \in Upto(n, k) /\ But(s) \in Upto(n, k + 1)
      BY <1>1, <3>1, <3>2 DEF Upto
    <3>4. step[Max(s)] \in [T -> T] /\ g[But(s)] \in T
      BY <2>1, <3>2, <3>3
    <3> QED  BY <3>2, <3>3, <3>4
  <2>3. h \in [Upto(n, k + 1) -> T]
    BY <2>2
  <2>4. \A s \in Upto(n, k + 1) : s # {} => h[But(s)] = g[But(s)]
    <3>1. ASSUME NEW s \in Upto(n, k + 1), s # {} PROVE h[But(s)] = g[But(s)]
      <4>1. But(s) \in Upto(n, k) /\ But(s) \in Upto(n, k + 1)
        BY <2>2, <3>1
      <4>2. g[But(s)] = IF But(s) = {} THEN b ELSE step[Max(But(s))][g[But(But(s))]]
        BY <2>1, <4>1
      <4> QED  BY <4>1, <4>2
    <3> QED  BY <3>1
  <2>5. h = [s \in Upto(n, k + 1) |-> IF s = {} THEN b ELSE step[Max(s)][h[But(s)]]]
    <3>1. h = [s \in Upto(n, k + 1) |-> IF s = {} THEN b ELSE step[Max(s)][g[But(s)]]]
      OBVIOUS
    <3> HIDE DEF h
    <3>2. \A s \in Upto(n, k + 1) : (IF s = {} THEN b ELSE step[Max(s)][g[But(s)]])
                                     = (IF s = {} THEN b ELSE step[Max(s)][h[But(s)]])
      BY <2>4
    <3> QED  BY <3>1, <3>2
  <2> HIDE DEF h
  <2> QED  BY <2>3, <2>5 DEF Folds
<1> HIDE DEF Has
<1>4. Not = {}
  <2> SUFFICES ASSUME Not # {} PROVE FALSE
    OBVIOUS
  <2>1. PICK m \in Not : \A k \in Not : m <= k
    <3>1. Not \subseteq Nat
      OBVIOUS
    <3> HIDE DEF Not
    <3> QED  BY <3>1, LeastNat
  <2>2. m # 0 /\ m \in Nat /\ ~Has(m)
    BY <1>2
  <2>3. m - 1 \in Nat /\ m - 1 \notin Not
    BY <2>1, <2>2
  <2>4. Has((m - 1) + 1)
    BY <1>3, <2>3
  <2> QED  BY <2>2, <2>4
<1>5. Upto(n, n) = SUBSET (1..n)
  <2>1. \A s \in SUBSET (1..n) : Cardinality(s) <= n
    BY UpToFinite
  <2> QED  BY <2>1 DEF Upto
<1> QED  BY <1>4, <1>5 DEF Has

-----------------------------------------------------------------------------
(* The types of the corpus.                                                *)
FreqType == UNION {[F -> 1..MaxFreq] : F \in SUBSET Features}
InputType ==
  [num : Nat, freqs : FreqType, energy : BOOLEAN, update : BOOLEAN, mutations : Nat]

Local(C) ==
  \A i \in DOMAIN C.inputs :
    \A f \in DOMAIN C.inputs[i].freqs : C.inputs[i].freqs[f] <= C.freq[f]
Listed(C) == IsInjective(C.rare) /\ ToSet(C.rare) \subseteq C.added
Good(C) == C \in Corpora /\ Local(C) /\ Listed(C)

(* The same inputs with the same energies.                                 *)
SameInputs(C, D) ==
  /\ DOMAIN D.inputs = DOMAIN C.inputs
  /\ \A i \in DOMAIN C.inputs : D.inputs[i].energy = C.inputs[i].energy

LEMMA Fields ==
  ASSUME NEW C \in Corpora
  PROVE  /\ C.inputs \in Seq(InputType) /\ C.added \in SUBSET Features
         /\ C.freq \in [Features -> 0..MaxFreq] /\ C.rare \in Seq(Features)
         /\ C.isRare \in [Features -> BOOLEAN] /\ C.most \in 0..MaxFreq /\ C.stale \in BOOLEAN
         /\ C = [inputs |-> C.inputs, added |-> C.added, freq |-> C.freq, rare |-> C.rare,
                 isRare |-> C.isRare, most |-> C.most, stale |-> C.stale]
BY DEF Corpora, InputType, FreqType

LEMMA MakeCorpus ==
  ASSUME NEW inputs \in Seq(InputType), NEW added \in SUBSET Features,
         NEW freq \in [Features -> 0..MaxFreq], NEW rare \in Seq(Features),
         NEW isRare \in [Features -> BOOLEAN], NEW most \in 0..MaxFreq, NEW stale \in BOOLEAN
  PROVE  [inputs |-> inputs, added |-> added, freq |-> freq, rare |-> rare,
          isRare |-> isRare, most |-> most, stale |-> stale] \in Corpora
BY DEF Corpora, InputType, FreqType

LEMMA FreqFields ==
  ASSUME NEW h
  PROVE  h \in FreqType <=> /\ h = [f \in DOMAIN h |-> h[f]]
                            /\ DOMAIN h \subseteq Features
                            /\ \A f \in DOMAIN h : h[f] \in 1..MaxFreq
<1>1. ASSUME h \in FreqType
      PROVE  /\ h = [f \in DOMAIN h |-> h[f]]
             /\ DOMAIN h \subseteq Features /\ \A f \in DOMAIN h : h[f] \in 1..MaxFreq
  <2>1. PICK F \in SUBSET Features : h \in [F -> 1..MaxFreq]
    BY <1>1 DEF FreqType
  <2> QED  BY <2>1
<1>2. ASSUME h = [f \in DOMAIN h |-> h[f]], DOMAIN h \subseteq Features,
             \A f \in DOMAIN h : h[f] \in 1..MaxFreq
      PROVE  h \in FreqType
  <2>1. h \in [DOMAIN h -> 1..MaxFreq]
    BY <1>2
  <2> QED  BY <1>2, <2>1 DEF FreqType
<1> QED  BY <1>1, <1>2

LEMMA InputFields ==
  ASSUME NEW input \in InputType
  PROVE  /\ input.num \in Nat /\ input.freqs \in FreqType /\ input.energy \in BOOLEAN
         /\ input.update \in BOOLEAN /\ input.mutations \in Nat
         /\ input = [num |-> input.num, freqs |-> input.freqs, energy |-> input.energy,
                     update |-> input.update, mutations |-> input.mutations]
BY DEF InputType

LEMMA DeleteFreq ==
  ASSUME NEW input \in InputType, NEW f
  PROVE  /\ DeleteFeatureFreq(input, f) \in InputType
         /\ DeleteFeatureFreq(input, f).energy = input.energy
         /\ DOMAIN DeleteFeatureFreq(input, f).freqs = DOMAIN input.freqs \ {f}
         /\ \A g \in DOMAIN input.freqs \ {f} :
              DeleteFeatureFreq(input, f).freqs[g] = input.freqs[g]
<1> DEFINE h == [g \in DOMAIN input.freqs \ {f} |-> input.freqs[g]]
<1>1. DeleteFeatureFreq(input, f)
        = [num |-> input.num, freqs |-> h, energy |-> input.energy,
           update |-> input.update, mutations |-> input.mutations]
  BY InputFields DEF DeleteFeatureFreq, Restrict
<1>2. h \in FreqType
  <2>1. /\ DOMAIN input.freqs \subseteq Features
        /\ \A g \in DOMAIN input.freqs : input.freqs[g] \in 1..MaxFreq
    BY InputFields, FreqFields
  <2>2. h = [g \in DOMAIN h |-> h[g]]
    OBVIOUS
  <2>3. DOMAIN h \subseteq Features /\ \A g \in DOMAIN h : h[g] \in 1..MaxFreq
    BY <2>1
  <2> HIDE DEF h
  <2> QED  BY <2>2, <2>3, FreqFields
<1>3. DeleteFeatureFreq(input, f) \in InputType
  <2> HIDE DEF h
  <2> QED  BY <1>1, <1>2, InputFields DEF InputType
<1> QED  BY <1>1, <1>3

LEMMA Abundant ==
  ASSUME NEW C \in Corpora, C.rare # <<>>
  PROVE  /\ MostAbundant(C).at \in 1..Len(C.rare)
         /\ MostAbundant(C).first = C.rare[MostAbundant(C).at]
         /\ MostAbundant(C).first \in Features /\ MostAbundant(C).second \in Features
<1> DEFINE n == Len(C.rare)
           T == {m \in [first : Features, second : Features, at : 1..n] : m.first = C.rare[m.at]}
           b == [first |-> C.rare[1], second |-> C.rare[1], at |-> 1]
           seq == [i \in DOMAIN C.rare |-> i]
           Scan(m, p) == IF C.freq[C.rare[p]] >= C.freq[m.first]
                           THEN [first |-> C.rare[p], second |-> m.first, at |-> p] ELSE m
           iter == CHOOSE g : g = [s \in SUBSET (DOMAIN seq) |->
                                     IF s = {} THEN b ELSE Scan(g[s \ {Max(s)}], seq[Max(s)])]
           step == [p \in 1..n |-> [m \in T |-> Scan(m, p)]]
<1>1. C.rare \in Seq(Features) /\ n \in Nat /\ n # 0 /\ DOMAIN C.rare = 1..n
  BY Fields
<1>2. MostAbundant(C) = iter[DOMAIN seq]
  BY DEF MostAbundant, FoldLeftDomain, FoldLeft, MapThenFoldSet
<1>3. DOMAIN seq = 1..n /\ \A p \in 1..n : seq[p] = p
  BY <1>1
<1>4. b \in T
  BY <1>1
<1>5. \A p \in 1..n : \A m \in T : Scan(m, p) \in T
  BY <1>1
<1>6. step \in [1..n -> [T -> T]]
  BY <1>5
<1>7. PICK g \in [SUBSET (1..n) -> T] :
        g = [s \in SUBSET (1..n) |-> IF s = {} THEN b ELSE step[Max(s)][g[But(s)]]]
  <2> HIDE DEF T, b, step, n
  <2>1. Folds(n, T, b, step, SUBSET (1..n))
    BY <1>1, <1>4, <1>6, FoldExists
  <2> QED  BY <2>1 DEF Folds
<1>8. g = [s \in SUBSET (DOMAIN seq) |-> IF s = {} THEN b ELSE Scan(g[s \ {Max(s)}], seq[Max(s)])]
  <2>1. ASSUME NEW s \in SUBSET (1..n), s # {}
        PROVE  step[Max(s)][g[But(s)]] = Scan(g[s \ {Max(s)}], seq[Max(s)])
    <3>1. Max(s) \in 1..n /\ But(s) \in SUBSET (1..n)
      BY <1>1, <2>1, ButGreatest
    <3>2. g[But(s)] \in T
      BY <3>1
    <3> HIDE DEF T, seq, Scan
    <3> QED  BY <1>3, <3>1, <3>2 DEF But
  <2> HIDE DEF T, seq, Scan, step, b
  <2> QED  BY <1>3, <1>7, <2>1
<1>9. iter = [s \in SUBSET (DOMAIN seq) |->
                IF s = {} THEN b ELSE Scan(iter[s \ {Max(s)}], seq[Max(s)])]
  <2> HIDE DEF seq, Scan, b
  <2> QED  BY <1>8
<1> DEFINE Wrong == {s \in SUBSET (1..n) : iter[s] \notin T}
<1>10. Wrong = {}
  <2> HIDE DEF iter, T, Scan, b, seq
  <2>1. \A s \in SUBSET (1..n) : iter[s] = IF s = {} THEN b ELSE Scan(iter[But(s)], Max(s))
    <3>1. ASSUME NEW s \in SUBSET (1..n), s # {} PROVE seq[Max(s)] = Max(s)
      BY <1>1, <1>3, <3>1, ButGreatest
    <3> QED  BY <1>3, <1>9, <3>1 DEF But
  <2>2. {} \notin Wrong
    BY <1>4, <2>1
  <2>3. ASSUME NEW s \in Wrong PROVE But(s) \in Wrong
    <3>1. s # {} /\ s \in SUBSET (1..n)
      BY <2>2
    <3>2. Max(s) \in 1..n /\ But(s) \in SUBSET (1..n)
      BY <1>1, <3>1, ButGreatest
    <3>3. iter[s] = Scan(iter[But(s)], Max(s)) /\ iter[s] \notin T
      BY <2>1, <3>1
    <3> QED  BY <1>5, <3>2, <3>3
  <2>4. Wrong \in SUBSET SUBSET (1..n)
    OBVIOUS
  <2> HIDE DEF Wrong, n
  <2> QED  BY <1>1, <2>2, <2>3, <2>4, OneByOne
<1>11. MostAbundant(C) \in T
  <2> HIDE DEF iter, T, seq
  <2> QED  BY <1>2, <1>3, <1>10
<1> QED  BY <1>11

-----------------------------------------------------------------------------
(* The most abundant feature leaves the list and the inputs.               *)
LEMMA Overwrite ==
  ASSUME NEW r \in Seq(Features), r # <<>>, NEW k \in 1..Len(r), NEW S,
         IsInjective(r), ToSet(r) \subseteq S
  PROVE  LET q == Front(ReplaceAt(r, k, Last(r)))
         IN /\ q \in Seq(Features) /\ Len(q) = Len(r) - 1
            /\ IsInjective(q) /\ ToSet(q) \subseteq S
<1> DEFINE n == Len(r)
           t == ReplaceAt(r, k, Last(r))
           q == Front(t)
<1>1. n \in Nat /\ n # 0 /\ \A i \in 1..n : r[i] \in Features
  OBVIOUS
<1>2. t \in Seq(Features) /\ Len(t) = n /\ \A i \in 1..n : t[i] = IF i = k THEN r[n] ELSE r[i]
  BY <1>1 DEF ReplaceAt, Last
<1>3. /\ q \in Seq(Features) /\ Len(q) = n - 1
      /\ \A i \in 1..(n - 1) : q[i] = t[i]
  BY <1>1, <1>2 DEF Front
<1>4. DOMAIN q = 1..(n - 1)
  BY <1>3
<1>5. \A i \in 1..(n - 1) : /\ q[i] = IF i = k THEN r[n] ELSE r[i]
                            /\ i \in 1..n /\ i # n
  BY <1>1, <1>2, <1>3
<1>6. IsInjective(q)
  <2>1. \A i, j \in 1..n : r[i] = r[j] => i = j
    BY DEF IsInjective
  <2>2. ASSUME NEW i \in 1..(n - 1), NEW j \in 1..(n - 1), q[i] = q[j] PROVE i = j
    BY <1>1, <1>5, <2>1, <2>2
  <2> QED  BY <1>4, <2>2 DEF IsInjective
<1>7. ToSet(q) \subseteq S
  <2>1. \A i \in 1..n : r[i] \in S
    BY DEF ToSet
  <2>2. \A i \in 1..(n - 1) : q[i] \in S
    BY <1>1, <1>5, <2>1
  <2> QED  BY <1>4, <2>2 DEF ToSet
<1> QED  BY <1>3, <1>6, <1>7

LEMMA Without ==
  ASSUME NEW input \in InputType, NEW f
  PROVE  LET w == [DeleteFeatureFreq(input, f) EXCEPT !.update = @ \/ f \in DOMAIN input.freqs]
         IN /\ w \in InputType /\ w.energy = input.energy
            /\ w.freqs = DeleteFeatureFreq(input, f).freqs
<1> DEFINE d == DeleteFeatureFreq(input, f)
           w == [d EXCEPT !.update = @ \/ f \in DOMAIN input.freqs]
<1>1. d \in InputType /\ d.energy = input.energy
  BY DeleteFreq
<1>2. (d.update \/ f \in DOMAIN input.freqs) \in BOOLEAN
  OBVIOUS
<1> HIDE DEF d
<1>3. w = [num |-> d.num, freqs |-> d.freqs, energy |-> d.energy,
           update |-> (d.update \/ f \in DOMAIN input.freqs), mutations |-> d.mutations]
  BY <1>1 DEF InputType
<1>4. w \in InputType
  BY <1>1, <1>2, <1>3, InputFields DEF InputType
<1>5. w.energy = input.energy /\ w.freqs = d.freqs
  BY <1>1, <1>3
<1> QED  BY <1>4, <1>5 DEF d

LEMMA RemoveGood ==
  ASSUME NEW C, Good(C), C.rare # <<>>
  PROVE  /\ Good(RemoveMostAbundant(C)) /\ SameInputs(C, RemoveMostAbundant(C))
         /\ RemoveMostAbundant(C).added = C.added
         /\ Len(RemoveMostAbundant(C).rare) = Len(C.rare) - 1
         /\ ToSet(RemoveMostAbundant(C).rare) \subseteq ToSet(C.rare)
<1> DEFINE m == MostAbundant(C)
           W(input) == [DeleteFeatureFreq(input, m.first)
                          EXCEPT !.update = @ \/ m.first \in DOMAIN input.freqs]
           inputs == [i \in DOMAIN C.inputs |-> W(C.inputs[i])]
           rare == Front(ReplaceAt(C.rare, m.at, Last(C.rare)))
           isRare == [C.isRare EXCEPT ![m.at - 1] = FALSE]
           most == C.freq[m.second]
           D == RemoveMostAbundant(C)
<1>1. C \in Corpora /\ Local(C) /\ IsInjective(C.rare) /\ ToSet(C.rare) \subseteq C.added
  BY DEF Good, Listed
<1>2. /\ m.at \in 1..Len(C.rare) /\ m.first = C.rare[m.at]
      /\ m.first \in Features /\ m.second \in Features
  BY <1>1, Abundant
<1> HIDE DEF m
<1>3. D = [inputs |-> inputs, added |-> C.added, freq |-> C.freq, rare |-> rare,
           isRare |-> isRare, most |-> most, stale |-> C.stale]
  <2>1. D = [C EXCEPT !.isRare[m.at - 1] = FALSE, !.rare = rare, !.inputs = inputs, !.most = most]
    BY DEF RemoveMostAbundant, m
  <2> HIDE DEF inputs, rare, most, D
  <2>2. C = [inputs |-> C.inputs, added |-> C.added, freq |-> C.freq, rare |-> C.rare,
             isRare |-> C.isRare, most |-> C.most, stale |-> C.stale]
    BY <1>1, Fields
  <2> QED  BY <2>1, <2>2
<1>4. \A i \in DOMAIN C.inputs : C.inputs[i] \in InputType
  BY <1>1, Fields
<1>5. \A i \in DOMAIN C.inputs :
        /\ W(C.inputs[i]) \in InputType
        /\ W(C.inputs[i]).energy = C.inputs[i].energy
        /\ W(C.inputs[i]).freqs = DeleteFeatureFreq(C.inputs[i], m.first).freqs
  BY <1>4, Without
<1> HIDE DEF W
<1>6. /\ inputs \in Seq(InputType) /\ DOMAIN inputs = DOMAIN C.inputs
      /\ \A i \in DOMAIN C.inputs : inputs[i] = W(C.inputs[i])
  BY <1>1, <1>5, Fields
<1>7. /\ rare \in Seq(Features) /\ Len(rare) = Len(C.rare) - 1
      /\ IsInjective(rare) /\ ToSet(rare) \subseteq ToSet(C.rare)
  BY <1>1, <1>2, Fields, Overwrite
<1>8. isRare \in [Features -> BOOLEAN] /\ most \in 0..MaxFreq
  BY <1>1, <1>2, Fields
<1> HIDE DEF inputs, rare, isRare, most, D
<1>9. D \in Corpora
  BY <1>1, <1>3, <1>6, <1>7, <1>8, Fields, MakeCorpus
<1>10. /\ D.inputs = inputs /\ D.added = C.added /\ D.freq = C.freq /\ D.rare = rare
  BY <1>3
<1>11. Local(D)
  <2>1. ASSUME NEW i \in DOMAIN C.inputs, NEW f \in DOMAIN inputs[i].freqs
        PROVE  inputs[i].freqs[f] <= C.freq[f]
    <3>1. inputs[i].freqs = DeleteFeatureFreq(C.inputs[i], m.first).freqs
      BY <1>5, <1>6
    <3>2. f \in DOMAIN C.inputs[i].freqs \ {m.first}
      BY <1>4, <2>1, <3>1, DeleteFreq
    <3>3. inputs[i].freqs[f] = C.inputs[i].freqs[f]
      BY <1>4, <3>1, <3>2, DeleteFreq
    <3> QED  BY <1>1, <3>2, <3>3 DEF Local
  <2> QED  BY <1>6, <1>10, <2>1 DEF Local
<1>12. SameInputs(C, D)
  BY <1>5, <1>6, <1>10 DEF SameInputs
<1> QED  BY <1>1, <1>7, <1>9, <1>10, <1>11, <1>12 DEF Good, Listed, D

(* The list loses features only while it is longer than is wanted.         *)
Shortened(C, D) ==
  /\ Good(D) /\ SameInputs(C, D) /\ D.added = C.added /\ ToSet(D.rare) \subseteq ToSet(C.rare)
  /\ Len(D.rare) >= Len(C.rare) \/ Len(D.rare) >= NumberOfRarestFeatures

LEMMA RemoveStays ==
  ASSUME NEW C, Good(C)
  PROVE  Shortened(C, RemoveAbundant(C))
<1> DEFINE n == Len(C.rare)
           T == {D \in Corpora : Shortened(C, D)}
           Op(D) == IF TooMany(D) /\ D.most > FeatureFrequencyThreshold
                      THEN RemoveMostAbundant(D) ELSE D
           iter == CHOOSE g : g = [s \in SUBSET (DOMAIN C.rare) |->
                                     IF s = {} THEN C ELSE Op(g[s \ {Max(s)}])]
           step == [p \in 1..n |-> [D \in T |-> Op(D)]]
<1>1. C \in Corpora /\ C.rare \in Seq(Features) /\ n \in Nat /\ DOMAIN C.rare = 1..n
  BY Fields DEF Good
<1>2. RemoveAbundant(C) = iter[DOMAIN C.rare]
  BY DEF RemoveAbundant, FoldLeft, MapThenFoldSet
<1>3. C \in T
  BY <1>1 DEF Shortened, SameInputs
<1>4. ASSUME NEW D \in T PROVE Op(D) \in T
  <2>1. Shortened(C, D) /\ Good(D) /\ D \in Corpora
    BY DEF Shortened
  <2>2. CASE TooMany(D) /\ D.most > FeatureFrequencyThreshold
    <3>1. D.rare \in Seq(Features) /\ NumberOfRarestFeatures \in Nat
      BY <2>1, Fields, EntropicAssumption
    <3>2. D.rare # <<>> /\ Len(D.rare) >= NumberOfRarestFeatures + 1 /\ Len(D.rare) \in Nat
      BY <2>2, <3>1 DEF TooMany
    <3>3. /\ Good(RemoveMostAbundant(D)) /\ SameInputs(D, RemoveMostAbundant(D))
          /\ RemoveMostAbundant(D).added = D.added
          /\ Len(RemoveMostAbundant(D).rare) = Len(D.rare) - 1
          /\ ToSet(RemoveMostAbundant(D).rare) \subseteq ToSet(D.rare)
      BY <2>1, <3>2, RemoveGood
    <3>4. Len(RemoveMostAbundant(D).rare) >= NumberOfRarestFeatures
      BY <3>1, <3>2, <3>3
    <3>5. SameInputs(C, RemoveMostAbundant(D))
      BY <2>1, <3>3 DEF Shortened, SameInputs
    <3>6. Shortened(C, RemoveMostAbundant(D)) /\ RemoveMostAbundant(D) \in Corpora
      BY <2>1, <3>3, <3>4, <3>5 DEF Shortened, Good
    <3> QED  BY <2>2, <3>6
  <2>3. CASE ~(TooMany(D) /\ D.most > FeatureFrequencyThreshold)
    BY <2>3
  <2> QED  BY <2>2, <2>3
<1> HIDE DEF T, Op
<1>5. step \in [1..n -> [T -> T]]
  BY <1>4
<1>6. PICK g \in [SUBSET (1..n) -> T] :
        g = [s \in SUBSET (1..n) |-> IF s = {} THEN C ELSE step[Max(s)][g[But(s)]]]
  <2> HIDE DEF step, n
  <2>1. Folds(n, T, C, step, SUBSET (1..n))
    BY <1>1, <1>3, <1>5, FoldExists
  <2> QED  BY <2>1 DEF Folds
<1>7. g = [s \in SUBSET (DOMAIN C.rare) |-> IF s = {} THEN C ELSE Op(g[s \ {Max(s)}])]
  <2>1. ASSUME NEW s \in SUBSET (1..n), s # {}
        PROVE  step[Max(s)][g[But(s)]] = Op(g[s \ {Max(s)}])
    <3>1. Max(s) \in 1..n /\ But(s) \in SUBSET (1..n)
      BY <1>1, <2>1, ButGreatest
    <3>2. g[But(s)] \in T
      BY <3>1
    <3> QED  BY <3>1, <3>2 DEF But
  <2> HIDE DEF step
  <2> QED  BY <1>1, <1>6, <2>1
<1>8. iter = [s \in SUBSET (DOMAIN C.rare) |-> IF s = {} THEN C ELSE Op(iter[s \ {Max(s)}])]
  BY <1>7
<1> DEFINE Wrong == {s \in SUBSET (1..n) : iter[s] \notin T}
<1>9. Wrong = {}
  <2> HIDE DEF iter
  <2>1. \A s \in SUBSET (1..n) : iter[s] = IF s = {} THEN C ELSE Op(iter[But(s)])
    BY <1>1, <1>8 DEF But
  <2>2. {} \notin Wrong
    BY <1>3, <2>1
  <2>3. ASSUME NEW s \in Wrong PROVE But(s) \in Wrong
    <3>1. s # {} /\ s \in SUBSET (1..n)
      BY <2>2
    <3>2. But(s) \in SUBSET (1..n)
      BY <1>1, <3>1, ButGreatest
    <3>3. iter[s] = Op(iter[But(s)]) /\ iter[s] \notin T
      BY <2>1, <3>1
    <3> QED  BY <1>4, <3>2, <3>3
  <2>4. Wrong \in SUBSET SUBSET (1..n)
    OBVIOUS
  <2> HIDE DEF Wrong, n
  <2> QED  BY <1>1, <2>2, <2>3, <2>4, OneByOne
<1>10. RemoveAbundant(C) \in T
  <2> HIDE DEF iter
  <2> QED  BY <1>1, <1>2, <1>9
<1> QED  BY <1>10 DEF T

-----------------------------------------------------------------------------
(* One feature of a unit: a new one goes to the end of the list, and       *)
(* nobody has counted it yet.                                              *)
LEMMA AddRareGood ==
  ASSUME NEW C, Good(C), NEW f \in C.added, f \notin ToSet(C.rare)
  PROVE  /\ Good(AddRareFeature(C, f)) /\ SameInputs(C, AddRareFeature(C, f))
         /\ AddRareFeature(C, f).added = C.added
         /\ \/ Len(AddRareFeature(C, f).rare) >= Len(C.rare) + 1
            \/ Len(AddRareFeature(C, f).rare) >= NumberOfRarestFeatures + 1
<1> DEFINE D == RemoveAbundant(C)
           inputs == [i \in DOMAIN D.inputs |-> Smooth(DeleteFeatureFreq(D.inputs[i], f))]
           rare == Append(D.rare, f)
           isRare == [D.isRare EXCEPT ![f] = TRUE]
           freq == [D.freq EXCEPT ![f] = 0]
           E == AddRareFeature(C, f)
<1>1. Shortened(C, D)
  BY RemoveStays
<1> HIDE DEF D
<1>2. /\ D \in Corpora /\ Local(D) /\ IsInjective(D.rare) /\ ToSet(D.rare) \subseteq D.added
      /\ D.added = C.added /\ f \notin ToSet(D.rare) /\ f \in Features
      /\ C \in Corpora
  BY <1>1, Fields DEF Shortened, Good, Listed
<1>3. /\ D.inputs \in Seq(InputType) /\ D.rare \in Seq(Features) /\ C.rare \in Seq(Features)
      /\ D.freq \in [Features -> 0..MaxFreq] /\ D.isRare \in [Features -> BOOLEAN]
  BY <1>2, Fields
<1>4. E = [inputs |-> inputs, added |-> D.added, freq |-> freq, rare |-> rare,
           isRare |-> isRare, most |-> D.most, stale |-> TRUE]
  <2>1. E = [D EXCEPT !.rare = rare, !.isRare = isRare, !.freq = freq, !.stale = TRUE,
                      !.inputs = inputs]
    <3>1. D = [inputs |-> D.inputs, added |-> D.added, freq |-> D.freq, rare |-> D.rare,
               isRare |-> D.isRare, most |-> D.most, stale |-> D.stale]
      BY <1>2, Fields
    <3> QED  BY <3>1 DEF AddRareFeature, D
  <2> HIDE DEF inputs, rare, isRare, freq, E
  <2>2. D = [inputs |-> D.inputs, added |-> D.added, freq |-> D.freq, rare |-> D.rare,
             isRare |-> D.isRare, most |-> D.most, stale |-> D.stale]
    BY <1>2, Fields
  <2> QED  BY <2>1, <2>2
<1>5. \A i \in DOMAIN D.inputs :
        /\ D.inputs[i] \in InputType
        /\ inputs[i] = DeleteFeatureFreq(D.inputs[i], f)
        /\ inputs[i] \in InputType /\ inputs[i].energy = D.inputs[i].energy
  BY <1>3, DeleteFreq DEF Smooth
<1>6. inputs \in Seq(InputType) /\ DOMAIN inputs = DOMAIN D.inputs
  <2>1. DOMAIN inputs = DOMAIN D.inputs /\ \A i \in DOMAIN D.inputs : inputs[i] \in InputType
    BY <1>5
  <2>2. inputs = [i \in DOMAIN D.inputs |-> inputs[i]]
    OBVIOUS
  <2>3. DOMAIN D.inputs = 1..Len(D.inputs) /\ Len(D.inputs) \in Nat
    BY <1>3
  <2> HIDE DEF inputs
  <2>4. inputs \in [1..Len(D.inputs) -> InputType]
    BY <2>1, <2>2, <2>3
  <2> QED  BY <2>1, <2>3, <2>4
<1>7. freq \in [Features -> 0..MaxFreq] /\ freq[f] = 0
      /\ \A g \in Features \ {f} : freq[g] = D.freq[g]
  BY <1>2, <1>3, EntropicAssumption
<1>8. isRare \in [Features -> BOOLEAN]
  BY <1>2, <1>3
<1>9. /\ rare \in Seq(Features) /\ Len(rare) = Len(D.rare) + 1
      /\ IsInjective(rare) /\ ToSet(rare) \subseteq C.added
  <2> DEFINE n == Len(D.rare)
  <2>1. /\ rare \in Seq(Features) /\ Len(rare) = n + 1 /\ n \in Nat
        /\ \A i \in 1..n : rare[i] = D.rare[i] /\ rare[n + 1] = f
        /\ rare[n + 1] = f /\ DOMAIN rare = 1..(n + 1) /\ DOMAIN D.rare = 1..n
    BY <1>2, <1>3
  <2> HIDE DEF rare
  <2>2. \A i \in 1..n : D.rare[i] # f /\ D.rare[i] \in C.added
    BY <1>2, <2>1 DEF ToSet
  <2>3. \A i, j \in 1..n : D.rare[i] = D.rare[j] => i = j
    BY <1>2, <2>1 DEF IsInjective
  <2>4. \A i \in 1..(n + 1) : i \in 1..n \/ i = n + 1
    BY <2>1
  <2> HIDE DEF n
  <2>5. IsInjective(rare)
    BY <2>1, <2>2, <2>3, <2>4 DEF IsInjective
  <2>6. ToSet(rare) \subseteq C.added
    BY <2>1, <2>2, <2>4 DEF ToSet
  <2> QED  BY <2>1, <2>5, <2>6 DEF n
<1> HIDE DEF rare, isRare, freq, E
<1>10. E \in Corpora
  <2> HIDE DEF inputs
  <2>1. D.added \in SUBSET Features /\ D.most \in 0..MaxFreq /\ TRUE \in BOOLEAN
    BY <1>2, Fields
  <2> QED  BY <1>4, <1>6, <1>7, <1>8, <1>9, <2>1, MakeCorpus
<1> HIDE DEF inputs
<1>11. E.inputs = inputs /\ E.added = C.added /\ E.freq = freq /\ E.rare = rare
  BY <1>2, <1>4
<1>12. Local(E)
  <2>1. ASSUME NEW i \in DOMAIN D.inputs, NEW g \in DOMAIN inputs[i].freqs
        PROVE  inputs[i].freqs[g] <= freq[g]
    <3>1. inputs[i] = DeleteFeatureFreq(D.inputs[i], f) /\ D.inputs[i] \in InputType
      BY <1>5
    <3>2. /\ g \in DOMAIN D.inputs[i].freqs \ {f}
          /\ inputs[i].freqs[g] = D.inputs[i].freqs[g]
      BY <2>1, <3>1, DeleteFreq
    <3>3. g \in Features \ {f}
      BY <3>1, <3>2, InputFields, FreqFields
    <3> QED  BY <1>2, <1>7, <3>2, <3>3 DEF Local
  <2> QED  BY <1>6, <1>11, <2>1 DEF Local
<1>13. SameInputs(C, E)
  BY <1>1, <1>5, <1>6, <1>11 DEF SameInputs, Shortened
<1>14. Len(rare) >= Len(C.rare) + 1 \/ Len(rare) >= NumberOfRarestFeatures + 1
  <2>1. Len(D.rare) \in Nat /\ Len(C.rare) \in Nat /\ NumberOfRarestFeatures \in Nat
    BY <1>3, EntropicAssumption
  <2>2. Len(D.rare) >= Len(C.rare) \/ Len(D.rare) >= NumberOfRarestFeatures
    BY <1>1 DEF Shortened
  <2> QED  BY <1>9, <2>1, <2>2
<1> QED  BY <1>9, <1>10, <1>11, <1>12, <1>13, <1>14 DEF Good, Listed, E


(* AddFeature and UpdateFeatureFrequency for one feature keep the corpus   *)
(* good, its list long enough and its energies.                            *)
Reported(C, D) ==
  /\ Good(D) /\ Enough(D) /\ SameInputs(C, D) /\ C.added \subseteq D.added

LEMMA AddStays ==
  ASSUME NEW C, Good(C), Enough(C), NEW f \in Features
  PROVE  Reported(C, AddFeature(C, f)) /\ f \in AddFeature(C, f).added
<1>1. C \in Corpora /\ Local(C) /\ IsInjective(C.rare) /\ ToSet(C.rare) \subseteq C.added
  BY DEF Good, Listed
<1>2. CASE f \in C.added
  BY <1>2 DEF AddFeature, Reported, SameInputs
<1>3. CASE f \notin C.added
  <2> DEFINE B == [C EXCEPT !.added = @ \cup {f}]
             D == AddRareFeature(B, f)
  <2>1. B = [inputs |-> C.inputs, added |-> C.added \cup {f}, freq |-> C.freq, rare |-> C.rare,
             isRare |-> C.isRare, most |-> C.most, stale |-> C.stale]
    <3>1. C = [inputs |-> C.inputs, added |-> C.added, freq |-> C.freq, rare |-> C.rare,
               isRare |-> C.isRare, most |-> C.most, stale |-> C.stale]
      BY <1>1, Fields
    <3> QED  BY <3>1
  <2> HIDE DEF B
  <2>2. B \in Corpora
    <3>1. C.added \cup {f} \in SUBSET Features
      BY <1>1, Fields
    <3> QED  BY <1>1, <2>1, <3>1, Fields, MakeCorpus
  <2>3. B.inputs = C.inputs /\ B.added = C.added \cup {f} /\ B.freq = C.freq /\ B.rare = C.rare
    BY <2>1
  <2>4. Good(B) /\ f \in B.added /\ f \notin ToSet(B.rare)
    BY <1>1, <1>3, <2>2, <2>3 DEF Good, Listed, Local
  <2>5. /\ Good(D) /\ SameInputs(B, D) /\ D.added = B.added
        /\ Len(D.rare) >= Len(B.rare) + 1 \/ Len(D.rare) >= NumberOfRarestFeatures + 1
    BY <2>4, AddRareGood
  <2>6. AddFeature(C, f) = D
    BY <1>3 DEF AddFeature, B
  <2> HIDE DEF D
  <2>7. Enough(D)
    <3>1. /\ Len(D.rare) \in Nat /\ Len(C.rare) \in Nat /\ NumberOfRarestFeatures \in Nat
      <4>1. D.rare \in Seq(Features) /\ C.rare \in Seq(Features)
        BY <1>1, <2>5, Fields DEF Good
      <4> QED  BY <4>1, EntropicAssumption
    <3>2. IsFiniteSet(C.added)
      BY <1>1, Fields, FS_Subset, EntropicAssumption
    <3>3. Cardinality(C.added) \in Nat /\ Cardinality(D.added) = Cardinality(C.added) + 1
      BY <1>3, <2>3, <2>5, <3>2, FS_AddElement, FS_CardinalityType
    <3> QED  BY <2>3, <2>5, <3>1, <3>3 DEF Enough
  <2> QED  BY <2>3, <2>5, <2>6, <2>7 DEF Reported, SameInputs
<1> QED  BY <1>2, <1>3

LEMMA IncrementOne ==
  ASSUME NEW input \in InputType, NEW f \in Features,
         f \in DOMAIN input.freqs => input.freqs[f] < MaxFreq
  PROVE  /\ IncrementLocal(input, f) \in InputType
         /\ IncrementLocal(input, f).energy = input.energy
         /\ DOMAIN IncrementLocal(input, f).freqs = DOMAIN input.freqs \cup {f}
         /\ \A g \in DOMAIN input.freqs \ {f} :
              IncrementLocal(input, f).freqs[g] = input.freqs[g]
         /\ IncrementLocal(input, f).freqs[f]
              = IF f \in DOMAIN input.freqs THEN input.freqs[f] + 1 ELSE 1
<1> DEFINE h == [g \in DOMAIN input.freqs \cup {f} |->
                   IF g # f THEN input.freqs[g]
                   ELSE IF f \in DOMAIN input.freqs THEN input.freqs[f] + 1 ELSE 1]
<1>1. /\ DOMAIN input.freqs \subseteq Features
      /\ \A g \in DOMAIN input.freqs : input.freqs[g] \in 1..MaxFreq
  BY InputFields, FreqFields
<1>2. IncrementLocal(input, f)
        = [num |-> input.num, freqs |-> h, energy |-> input.energy,
           update |-> TRUE, mutations |-> input.mutations]
  <2>1. IncrementLocal(input, f) = [input EXCEPT !.update = TRUE, !.freqs = h]
    BY DEF IncrementLocal
  <2> HIDE DEF h
  <2> QED  BY <2>1, InputFields
<1>3. h \in FreqType
  <2>1. h = [g \in DOMAIN h |-> h[g]] /\ DOMAIN h = DOMAIN input.freqs \cup {f}
    OBVIOUS
  <2>2. \A g \in DOMAIN input.freqs \cup {f} : h[g] \in 1..MaxFreq
    <3>1. MaxFreq \in Nat /\ MaxFreq >= 1
      BY EntropicAssumption
    <3> QED  BY <1>1, <3>1
  <2> HIDE DEF h
  <2> QED  BY <1>1, <2>1, <2>2, FreqFields
<1>4. IncrementLocal(input, f) \in InputType
  <2> HIDE DEF h
  <2> QED  BY <1>2, <1>3, InputFields DEF InputType
<1> QED  BY <1>2, <1>4


LEMMA UpdateStays ==
  ASSUME NEW C, Good(C), Enough(C), NEW f \in Features, NEW ii \in 0..Len(C.inputs)
  PROVE  Reported(C, UpdateFeatureFrequency(C, ii, f))
<1> DEFINE q == C.freq[f]
           freq == [C.freq EXCEPT ![f] = q + 1]
           most == IF q = C.most THEN C.most + 1 ELSE C.most
           D == [C EXCEPT !.freq[f] = q + 1]
           E == [D EXCEPT !.most = IF q = C.most THEN @ + 1 ELSE @]
           inputs == [C.inputs EXCEPT ![ii] = IncrementLocal(@, f)]
           G == [E EXCEPT !.inputs[ii] = IncrementLocal(@, f)]
           U == UpdateFeatureFrequency(C, ii, f)
<1>1. C \in Corpora /\ Local(C) /\ IsInjective(C.rare) /\ ToSet(C.rare) \subseteq C.added
  BY DEF Good, Listed
<1>2. /\ C.inputs \in Seq(InputType) /\ C.freq \in [Features -> 0..MaxFreq] /\ q \in 0..MaxFreq
      /\ C.most \in 0..MaxFreq /\ MaxFreq \in Nat
      /\ C = [inputs |-> C.inputs, added |-> C.added, freq |-> C.freq, rare |-> C.rare,
              isRare |-> C.isRare, most |-> C.most, stale |-> C.stale]
  BY <1>1, Fields, EntropicAssumption
<1>3. /\ D = [inputs |-> C.inputs, added |-> C.added, freq |-> freq, rare |-> C.rare,
              isRare |-> C.isRare, most |-> C.most, stale |-> C.stale]
      /\ E = [inputs |-> C.inputs, added |-> C.added, freq |-> freq, rare |-> C.rare,
              isRare |-> C.isRare, most |-> most, stale |-> C.stale]
      /\ G = [inputs |-> inputs, added |-> C.added, freq |-> freq, rare |-> C.rare,
              isRare |-> C.isRare, most |-> most, stale |-> C.stale]
  <2>1. D = [inputs |-> C.inputs, added |-> C.added, freq |-> freq, rare |-> C.rare,
             isRare |-> C.isRare, most |-> C.most, stale |-> C.stale]
    <3>1. D = [C EXCEPT !.freq = freq]
      OBVIOUS
    <3> HIDE DEF D, freq
    <3> QED  BY <1>2, <3>1
  <2> HIDE DEF D, freq
  <2>2. E = [inputs |-> C.inputs, added |-> C.added, freq |-> freq, rare |-> C.rare,
             isRare |-> C.isRare, most |-> most, stale |-> C.stale]
    BY <2>1
  <2> HIDE DEF E, most
  <2>3. G = [inputs |-> inputs, added |-> C.added, freq |-> freq, rare |-> C.rare,
             isRare |-> C.isRare, most |-> most, stale |-> C.stale]
    BY <2>2
  <2> QED  BY <2>1, <2>2, <2>3
<1>4. U = C \/ U = D \/ U = E \/ (ii # 0 /\ U = G)
  BY DEF UpdateFeatureFrequency
<1>5. U # C => q < MaxFreq
  BY <1>2 DEF UpdateFeatureFrequency
<1> HIDE DEF D, E, G, U
<1>6. CASE U = C
  BY <1>6 DEF U, Reported, SameInputs
<1>7. CASE U # C
  <2>1. q < MaxFreq
    BY <1>5, <1>7
  <2>2. /\ freq \in [Features -> 0..MaxFreq] /\ most \in 0..MaxFreq
        /\ freq[f] = q + 1 /\ \A g \in Features \ {f} : freq[g] = C.freq[g]
    BY <1>2, <2>1
  <2> HIDE DEF freq, most
  <2>3. \A i \in DOMAIN C.inputs :
          /\ C.inputs[i] \in InputType /\ DOMAIN C.inputs[i].freqs \subseteq Features
          /\ \A g \in DOMAIN C.inputs[i].freqs : /\ C.inputs[i].freqs[g] \in Nat
                                                 /\ C.inputs[i].freqs[g] <= C.freq[g]
    <3>1. ASSUME NEW i \in DOMAIN C.inputs
          PROVE  /\ C.inputs[i] \in InputType /\ DOMAIN C.inputs[i].freqs \subseteq Features
                 /\ \A g \in DOMAIN C.inputs[i].freqs : C.inputs[i].freqs[g] \in 1..MaxFreq
      <4>1. C.inputs[i] \in InputType
        BY <1>2
      <4> QED  BY <4>1, InputFields, FreqFields
    <3>2. \A k \in 1..MaxFreq : k \in Nat
      BY <1>2
    <3> QED  BY <1>1, <3>1, <3>2 DEF Local
  <2>4. \A i \in DOMAIN C.inputs :
          \A g \in DOMAIN C.inputs[i].freqs : C.inputs[i].freqs[g] <= freq[g]
    <3>1. ASSUME NEW i \in DOMAIN C.inputs, NEW g \in DOMAIN C.inputs[i].freqs
          PROVE  C.inputs[i].freqs[g] <= freq[g]
      <4>1. g \in Features /\ C.inputs[i].freqs[g] \in Nat /\ C.inputs[i].freqs[g] <= C.freq[g]
        BY <2>3
      <4>2. CASE g = f
        BY <1>2, <2>2, <4>1, <4>2
      <4>3. CASE g # f
        BY <2>2, <4>1, <4>3
      <4> QED  BY <4>2, <4>3
    <3> QED  BY <3>1
  <2>5. ASSUME ii # 0
        PROVE  /\ inputs \in Seq(InputType) /\ DOMAIN inputs = DOMAIN C.inputs
               /\ \A i \in DOMAIN C.inputs : inputs[i].energy = C.inputs[i].energy
               /\ \A i \in DOMAIN C.inputs :
                    \A g \in DOMAIN inputs[i].freqs : inputs[i].freqs[g] <= freq[g]
    <3>1. ii \in DOMAIN C.inputs
      BY <1>2, <2>5
    <3>2. f \in DOMAIN C.inputs[ii].freqs =>
            /\ C.inputs[ii].freqs[f] \in Nat /\ C.inputs[ii].freqs[f] <= q
            /\ C.inputs[ii].freqs[f] < MaxFreq
      BY <1>2, <2>1, <2>3, <3>1
    <3> DEFINE x == IncrementLocal(C.inputs[ii], f)
    <3>3. /\ x \in InputType /\ x.energy = C.inputs[ii].energy
          /\ DOMAIN x.freqs = DOMAIN C.inputs[ii].freqs \cup {f}
          /\ \A g \in DOMAIN C.inputs[ii].freqs \ {f} : x.freqs[g] = C.inputs[ii].freqs[g]
          /\ x.freqs[f] = IF f \in DOMAIN C.inputs[ii].freqs THEN C.inputs[ii].freqs[f] + 1 ELSE 1
      BY <2>3, <3>1, <3>2, IncrementOne
    <3> HIDE DEF x
    <3>4. inputs = [C.inputs EXCEPT ![ii] = x]
      BY DEF x
    <3>5. /\ inputs \in Seq(InputType) /\ DOMAIN inputs = DOMAIN C.inputs
          /\ inputs[ii] = x /\ \A i \in DOMAIN C.inputs \ {ii} : inputs[i] = C.inputs[i]
      <4> HIDE DEF inputs
      <4> QED  BY <1>2, <3>1, <3>3, <3>4
    <3> HIDE DEF inputs
    <3>6. \A g \in DOMAIN x.freqs : x.freqs[g] <= freq[g]
      <4>1. ASSUME NEW g \in DOMAIN x.freqs PROVE x.freqs[g] <= freq[g]
        <5>1. CASE g = f
          <6>1. x.freqs[f] <= q + 1
            BY <1>2, <3>2, <3>3
          <6> QED  BY <2>2, <5>1, <6>1
        <5>2. CASE g # f
          BY <2>4, <3>1, <3>3, <5>2
        <5> QED  BY <5>1, <5>2
      <4> QED  BY <4>1
    <3> QED  BY <2>4, <3>3, <3>5, <3>6
  <2> HIDE DEF inputs
  <2>6. /\ U \in Corpora /\ Local(U) /\ SameInputs(C, U)
        /\ U.rare = C.rare /\ U.added = C.added
    <3>0. /\ C.added \in SUBSET Features /\ C.rare \in Seq(Features)
          /\ C.isRare \in [Features -> BOOLEAN] /\ C.stale \in BOOLEAN
      BY <1>1, Fields
    <3>1. CASE U = D
      <4>1. U \in Corpora
        BY <1>2, <1>3, <2>2, <3>0, <3>1, MakeCorpus
      <4> QED  BY <1>3, <2>4, <3>1, <4>1 DEF Local, SameInputs
    <3>2. CASE U = E
      <4>1. U \in Corpora
        BY <1>2, <1>3, <2>2, <3>0, <3>2, MakeCorpus
      <4> QED  BY <1>3, <2>4, <3>2, <4>1 DEF Local, SameInputs
    <3>3. CASE ii # 0 /\ U = G
      <4>1. U \in Corpora
        BY <1>2, <1>3, <2>2, <2>5, <3>0, <3>3, MakeCorpus
      <4> QED  BY <1>3, <2>5, <3>3, <4>1 DEF Local, SameInputs
    <3> QED  BY <1>4, <1>7, <3>1, <3>2, <3>3
  <2>7. Good(U) /\ Enough(U)
    BY <1>1, <2>6 DEF Good, Listed, Enough
  <2> QED  BY <2>6, <2>7 DEF U, Reported
<1> QED  BY <1>6, <1>7


-----------------------------------------------------------------------------
(* The features of one run, in the order of their numbers: as long as none *)
(* has been found, nothing changes.                                        *)
Collected(C, D) == Reported(C, D) /\ (D.added = {} => D = C)

LEMMA CollectStays ==
  ASSUME NEW C, Good(C), Enough(C), NEW ii \in 0..Len(C.inputs), NEW F \in SUBSET Features
  PROVE  Collected(C, CollectFeatures(C, ii, F))
<1> DEFINE n == Cardinality(Features)
           seq == [k \in 1..n |-> k - 1]
           T == {D \in Corpora : Collected(C, D)}
           Op(D, f) == IF f \in F THEN UpdateFeatureFrequency(AddFeature(D, f), ii, f) ELSE D
           iter == CHOOSE g : g = [s \in SUBSET (DOMAIN seq) |->
                                     IF s = {} THEN C ELSE Op(g[s \ {Max(s)}], seq[Max(s)])]
           step == [p \in 1..n |-> [D \in T |-> Op(D, p - 1)]]
<1>1. C \in Corpora /\ n \in Nat /\ DOMAIN seq = 1..n /\ \A p \in 1..n : p - 1 \in Features
  <2>1. IsFiniteSet(Features) /\ Features = 0..(Cardinality(Features) - 1)
    BY EntropicAssumption
  <2>2. n \in Nat
    BY <2>1, FS_CardinalityType
  <2>3. Features = 0..(n - 1)
    BY <2>1
  <2> HIDE DEF n
  <2>4. \A p \in 1..n : p - 1 \in Features
    BY <2>2, <2>3
  <2> QED  BY <2>2, <2>4 DEF Good
<1>2. CollectFeatures(C, ii, F) = iter[DOMAIN seq]
  BY DEF CollectFeatures, FoldLeft, MapThenFoldSet
<1>3. C \in T
  BY <1>1 DEF Collected, Reported, SameInputs
<1>4. ASSUME NEW D \in T, NEW f \in Features PROVE Op(D, f) \in T
  <2>1. Reported(C, D) /\ Good(D) /\ Enough(D)
    BY DEF Collected, Reported
  <2>2. CASE f \in F
    <3> DEFINE A == AddFeature(D, f)
               U == UpdateFeatureFrequency(A, ii, f)
    <3>1. Reported(D, A) /\ f \in A.added
      BY <2>1, AddStays
    <3> HIDE DEF A
    <3>2. Len(A.inputs) = Len(C.inputs)
      <4>1. DOMAIN A.inputs = DOMAIN C.inputs
        BY <2>1, <3>1 DEF Reported, SameInputs
      <4>2. A.inputs \in Seq(InputType) /\ C.inputs \in Seq(InputType)
        BY <1>1, <3>1, Fields DEF Reported, Good
      <4> QED  BY <4>1, <4>2
    <3>3. Good(A) /\ Enough(A) /\ ii \in 0..Len(A.inputs)
      BY <3>1, <3>2 DEF Reported
    <3>4. Reported(A, U)
      BY <3>3, UpdateStays
    <3> HIDE DEF U
    <3>5. SameInputs(C, U) /\ C.added \subseteq U.added
      BY <2>1, <3>1, <3>4 DEF Reported, SameInputs
    <3>6. Collected(C, U) /\ U \in Corpora
      BY <3>1, <3>4, <3>5 DEF Collected, Reported, Good
    <3> QED  BY <2>2, <3>6 DEF U, A
  <2>3. CASE f \notin F
    BY <2>3
  <2> QED  BY <2>2, <2>3
<1> HIDE DEF T, Op
<1>5. step \in [1..n -> [T -> T]]
  BY <1>1, <1>4
<1>6. PICK g \in [SUBSET (1..n) -> T] :
        g = [s \in SUBSET (1..n) |-> IF s = {} THEN C ELSE step[Max(s)][g[But(s)]]]
  <2> HIDE DEF step, n
  <2>1. Folds(n, T, C, step, SUBSET (1..n))
    BY <1>1, <1>3, <1>5, FoldExists
  <2> QED  BY <2>1 DEF Folds
<1>7. g = [s \in SUBSET (DOMAIN seq) |-> IF s = {} THEN C ELSE Op(g[s \ {Max(s)}], seq[Max(s)])]
  <2> HIDE DEF n
  <2>1. ASSUME NEW s \in SUBSET (1..n), s # {}
        PROVE  step[Max(s)][g[But(s)]] = Op(g[s \ {Max(s)}], seq[Max(s)])
    <3>1. Max(s) \in 1..n /\ But(s) \in SUBSET (1..n)
      BY <1>1, <2>1, ButGreatest
    <3>2. g[But(s)] \in T /\ seq[Max(s)] = Max(s) - 1
      BY <3>1
    <3> QED  BY <3>1, <3>2 DEF But
  <2> HIDE DEF step, seq
  <2> QED  BY <1>1, <1>6, <2>1
<1>8. iter = [s \in SUBSET (DOMAIN seq) |->
                IF s = {} THEN C ELSE Op(iter[s \ {Max(s)}], seq[Max(s)])]
  <2> HIDE DEF seq
  <2> QED  BY <1>7
<1> DEFINE Wrong == {s \in SUBSET (1..n) : iter[s] \notin T}
<1>9. Wrong = {}
  <2> HIDE DEF iter, n
  <2>1. \A s \in SUBSET (1..n) : iter[s] = IF s = {} THEN C ELSE Op(iter[But(s)], seq[Max(s)])
    <3> HIDE DEF seq
    <3> QED  BY <1>1, <1>8 DEF But
  <2>2. {} \notin Wrong
    BY <1>3, <2>1
  <2>3. ASSUME NEW s \in Wrong PROVE But(s) \in Wrong
    <3>1. s # {} /\ s \in SUBSET (1..n)
      BY <2>2
    <3>2. But(s) \in SUBSET (1..n) /\ Max(s) \in 1..n
      BY <1>1, <3>1, ButGreatest
    <3>3. iter[s] = Op(iter[But(s)], seq[Max(s)]) /\ iter[s] \notin T
      BY <2>1, <3>1
    <3>4. seq[Max(s)] \in Features
      BY <1>1, <3>2
    <3> HIDE DEF seq
    <3> QED  BY <1>4, <3>2, <3>3, <3>4
  <2>4. Wrong \in SUBSET SUBSET (1..n)
    OBVIOUS
  <2> HIDE DEF Wrong
  <2> QED  BY <1>1, <2>2, <2>3, <2>4, OneByOne
<1>10. CollectFeatures(C, ii, F) \in T
  <2> HIDE DEF iter
  <2>1. iter[1..n] \in T
    BY <1>9
  <2> HIDE DEF seq
  <2> QED  BY <1>1, <1>2, <2>1
<1> QED  BY <1>10 DEF T


(* A run keeps the inputs there are with their energies.  As long as no    *)
(* feature has been found it leaves them alone, and what it adds is not    *)
(* marked for an update.                                                   *)
Ran(C, D) ==
  /\ Good(D) /\ Enough(D) /\ C.added \subseteq D.added
  /\ Len(D.inputs) \in Nat /\ Len(C.inputs) \in Nat /\ Len(D.inputs) >= Len(C.inputs)
  /\ \A i \in DOMAIN C.inputs : i \in DOMAIN D.inputs /\ D.inputs[i].energy = C.inputs[i].energy
  /\ \A i \in DOMAIN D.inputs :
       D.added = {} => IF i \in DOMAIN C.inputs THEN D.inputs[i] = C.inputs[i]
                                              ELSE D.inputs[i].update = FALSE

LEMMA AddToStays ==
  ASSUME NEW C, Good(C), Enough(C), NEW num \in Nat
  PROVE  Ran(C, AddToCorpus(C, num)) /\ AddToCorpus(C, num).inputs # <<>>
<1> DEFINE x == [num |-> num, freqs |-> <<>>, energy |-> FreshEnergy(C),
                 update |-> FALSE, mutations |-> 0]
           inputs == Append(C.inputs, x)
           D == AddToCorpus(C, num)
<1>1. C \in Corpora /\ Local(C) /\ IsInjective(C.rare) /\ ToSet(C.rare) \subseteq C.added
  BY DEF Good, Listed
<1>2. /\ C.inputs \in Seq(InputType) /\ C.added \in SUBSET Features
      /\ C.freq \in [Features -> 0..MaxFreq] /\ C.rare \in Seq(Features)
      /\ C.isRare \in [Features -> BOOLEAN] /\ C.most \in 0..MaxFreq
      /\ C = [inputs |-> C.inputs, added |-> C.added, freq |-> C.freq, rare |-> C.rare,
              isRare |-> C.isRare, most |-> C.most, stale |-> C.stale]
  BY <1>1, Fields
<1>3. x.freqs \in FreqType /\ DOMAIN x.freqs = {}
  <2>1. <<>> \in [{} -> 1..MaxFreq]
    OBVIOUS
  <2>2. {} \in SUBSET Features
    OBVIOUS
  <2> QED  BY <2>1, <2>2 DEF FreqType
<1>4. x.energy \in BOOLEAN /\ x.update = FALSE
  BY DEF FreshEnergy
<1>5. x \in InputType
  <2>1. x.num \in Nat /\ x.update \in BOOLEAN /\ x.mutations \in Nat
    OBVIOUS
  <2>2. x = [num |-> x.num, freqs |-> x.freqs, energy |-> x.energy,
             update |-> x.update, mutations |-> x.mutations]
    OBVIOUS
  <2> HIDE DEF x
  <2> QED  BY <1>3, <1>4, <2>1, <2>2 DEF InputType
<1>6. D = [inputs |-> inputs, added |-> C.added, freq |-> C.freq, rare |-> C.rare,
           isRare |-> C.isRare, most |-> C.most, stale |-> TRUE]
  <2>1. D = [C EXCEPT !.stale = TRUE, !.inputs = Append(@, x)]
    BY DEF AddToCorpus
  <2> HIDE DEF D, x
  <2> QED  BY <1>2, <2>1
<1> HIDE DEF x
<1>7. /\ inputs \in Seq(InputType) /\ Len(inputs) = Len(C.inputs) + 1
      /\ Len(C.inputs) \in Nat /\ inputs[Len(C.inputs) + 1] = x
      /\ \A i \in 1..Len(C.inputs) : inputs[i] = C.inputs[i]
  BY <1>2, <1>5
<1> HIDE DEF inputs, D
<1>8. /\ DOMAIN inputs = 1..(Len(C.inputs) + 1) /\ DOMAIN C.inputs = 1..Len(C.inputs)
  BY <1>2, <1>7
<1>9. D \in Corpora
  BY <1>2, <1>6, <1>7, MakeCorpus
<1>10. D.inputs = inputs /\ D.added = C.added /\ D.freq = C.freq /\ D.rare = C.rare
  BY <1>6
<1>11. Local(D)
  <2>1. ASSUME NEW i \in DOMAIN inputs, NEW f \in DOMAIN inputs[i].freqs
        PROVE  inputs[i].freqs[f] <= C.freq[f]
    <3>1. CASE i = Len(C.inputs) + 1
      BY <1>3, <1>7, <2>1, <3>1
    <3>2. CASE i # Len(C.inputs) + 1
      <4>1. i \in DOMAIN C.inputs /\ inputs[i] = C.inputs[i]
        BY <1>7, <1>8, <3>2
      <4> QED  BY <1>1, <2>1, <4>1 DEF Local
    <3> QED  BY <3>1, <3>2
  <2> QED  BY <1>10, <2>1 DEF Local
<1>12. Good(D) /\ Enough(D)
  BY <1>1, <1>9, <1>10, <1>11 DEF Good, Listed, Enough
<1>13. \A i \in DOMAIN C.inputs : i \in DOMAIN D.inputs /\ D.inputs[i].energy = C.inputs[i].energy
  BY <1>7, <1>8, <1>10
<1>14. Len(D.inputs) \in Nat /\ Len(C.inputs) \in Nat /\ Len(D.inputs) >= Len(C.inputs)
  BY <1>7, <1>10
<1>15. ASSUME NEW i \in DOMAIN D.inputs
       PROVE  IF i \in DOMAIN C.inputs THEN D.inputs[i] = C.inputs[i]
                                       ELSE D.inputs[i].update = FALSE
  <2>1. i \notin DOMAIN C.inputs => i = Len(C.inputs) + 1
    BY <1>7, <1>8, <1>10
  <2> QED  BY <1>4, <1>7, <1>8, <1>10, <2>1
<1>16. D.inputs # <<>>
  BY <1>8, <1>7, <1>10
<1> QED  BY <1>10, <1>12, <1>13, <1>14, <1>15, <1>16 DEF Ran, D

LEMMA RunStays ==
  ASSUME NEW C, Good(C), Enough(C), NEW ii \in 0..Len(C.inputs), NEW F \in SUBSET Features,
         NEW forced \in BOOLEAN
  PROVE  Ran(C, RunOne(C, ii, F, forced))
<1> DEFINE D == CollectFeatures(C, ii, F)
           new == Cardinality(D.added) - Cardinality(C.added)
<1>1. Collected(C, D) /\ Reported(C, D)
  BY CollectStays DEF Collected
<1> HIDE DEF D
<1>2. /\ C.inputs \in Seq(InputType) /\ D.inputs \in Seq(InputType)
      /\ C.added \in SUBSET Features /\ D.added \in SUBSET Features
  BY <1>1, Fields DEF Reported, Good
<1>3. new \in Nat
  <2>1. IsFiniteSet(D.added) /\ C.added \subseteq D.added
    BY <1>1, <1>2, FS_Subset, EntropicAssumption DEF Reported
  <2>2. /\ Cardinality(C.added) \in Nat /\ Cardinality(D.added) \in Nat
        /\ Cardinality(C.added) <= Cardinality(D.added)
    BY <2>1, FS_Subset, FS_CardinalityType
  <2> QED  BY <2>2
<1>4. Ran(C, D)
  <2>1. DOMAIN D.inputs = DOMAIN C.inputs
    BY <1>1 DEF Reported, SameInputs
  <2>2. Len(D.inputs) = Len(C.inputs) /\ Len(C.inputs) \in Nat
    BY <1>2, <2>1
  <2>3. D.added = {} => \A i \in DOMAIN C.inputs : D.inputs[i] = C.inputs[i]
    BY <1>1 DEF Collected
  <2> QED  BY <1>1, <2>1, <2>2, <2>3 DEF Reported, SameInputs, Ran
<1>5. CASE new > 0 \/ forced
  <2> DEFINE E == AddToCorpus(D, new)
  <2> HIDE DEF new
  <2>1. Ran(D, E)
    BY <1>1, <1>3, AddToStays DEF Reported
  <2> HIDE DEF E
  <2>2. ASSUME NEW i \in DOMAIN E.inputs, E.added = {}
        PROVE  IF i \in DOMAIN C.inputs THEN E.inputs[i] = C.inputs[i]
                                        ELSE E.inputs[i].update = FALSE
    <3>1. D.added = {} /\ D = C
      BY <1>1, <2>1, <2>2 DEF Ran, Collected
    <3> QED  BY <2>1, <2>2, <3>1 DEF Ran
  <2>3. Ran(C, E)
    BY <1>4, <2>1, <2>2 DEF Ran
  <2> QED  BY <1>5, <2>3 DEF RunOne, D, E, new
<1>6. CASE ~(new > 0 \/ forced)
  BY <1>4, <1>6 DEF RunOne, D
<1> QED  BY <1>5, <1>6


-----------------------------------------------------------------------------
(* A change of an input that leaves its frequencies and its energy alone.  *)
LEMMA TouchStays ==
  ASSUME NEW C, Good(C), NEW k \in DOMAIN C.inputs, NEW x \in InputType,
         x.freqs = C.inputs[k].freqs, x.energy = C.inputs[k].energy
  PROVE  LET D == [C EXCEPT !.inputs[k] = x]
         IN /\ Good(D) /\ SameInputs(C, D) /\ D.added = C.added /\ D.rare = C.rare
            /\ D.inputs[k] = x /\ \A i \in DOMAIN C.inputs \ {k} : D.inputs[i] = C.inputs[i]
<1> DEFINE D == [C EXCEPT !.inputs[k] = x]
           inputs == [C.inputs EXCEPT ![k] = x]
<1>1. C \in Corpora /\ Local(C) /\ IsInjective(C.rare) /\ ToSet(C.rare) \subseteq C.added
  BY DEF Good, Listed
<1>2. /\ C.inputs \in Seq(InputType) /\ C.added \in SUBSET Features
      /\ C.freq \in [Features -> 0..MaxFreq] /\ C.rare \in Seq(Features)
      /\ C.isRare \in [Features -> BOOLEAN] /\ C.most \in 0..MaxFreq /\ C.stale \in BOOLEAN
      /\ C = [inputs |-> C.inputs, added |-> C.added, freq |-> C.freq, rare |-> C.rare,
              isRare |-> C.isRare, most |-> C.most, stale |-> C.stale]
  BY <1>1, Fields
<1>3. /\ inputs \in Seq(InputType) /\ DOMAIN inputs = DOMAIN C.inputs
      /\ inputs[k] = x /\ \A i \in DOMAIN C.inputs \ {k} : inputs[i] = C.inputs[i]
  BY <1>2
<1>4. D = [inputs |-> inputs, added |-> C.added, freq |-> C.freq, rare |-> C.rare,
           isRare |-> C.isRare, most |-> C.most, stale |-> C.stale]
  <2>1. D = [C EXCEPT !.inputs = inputs]
    OBVIOUS
  <2> HIDE DEF D, inputs
  <2> QED  BY <1>2, <2>1
<1> HIDE DEF D, inputs
<1>5. D \in Corpora
  BY <1>2, <1>3, <1>4, MakeCorpus
<1>6. D.inputs = inputs /\ D.added = C.added /\ D.freq = C.freq /\ D.rare = C.rare
  BY <1>4
<1>7. \A i \in DOMAIN C.inputs : /\ inputs[i].freqs = C.inputs[i].freqs
                                 /\ inputs[i].energy = C.inputs[i].energy
  BY <1>3
<1>8. Local(D)
  BY <1>1, <1>3, <1>6, <1>7 DEF Local
<1>9. Good(D) /\ SameInputs(C, D)
  BY <1>1, <1>3, <1>5, <1>6, <1>7, <1>8 DEF Good, Listed, SameInputs
<1> QED  BY <1>3, <1>6, <1>9 DEF D

(* Once a feature has been found, UpdateEnergy gives an input with energy  *)
(* positive energy: the list is not empty, so there is more than the       *)
(* abundant class.                                                         *)
LEMMA EnergyPositive ==
  ASSUME NEW C, C \in Corpora, Enough(C), C.added # {}, NEW input \in InputType
  PROVE  Entropy(C, input) = TRUE
<1>1. C.rare \in Seq(Features) /\ C.added \in SUBSET Features /\ NumberOfRarestFeatures \in Nat
  BY Fields, EntropicAssumption
<1>2. Len(C.rare) \in Nat /\ Len(C.rare) # 0
  <2>1. IsFiniteSet(C.added)
    BY <1>1, FS_Subset, EntropicAssumption
  <2>2. Cardinality(C.added) \in Nat /\ Cardinality(C.added) # 0
    BY <2>1, FS_CardinalityType, FS_EmptySet
  <2> QED  BY <1>1, <2>2 DEF Enough
<1>3. DOMAIN input.freqs = {} => Cardinality(DOMAIN input.freqs) = 0
  BY FS_EmptySet
<1>4. DOMAIN input.freqs # {} \/ Len(C.rare) # Cardinality(DOMAIN input.freqs)
  BY <1>2, <1>3
<1> QED  BY <1>4 DEF Entropy

(* Before that, only an input that has been mutated is marked.             *)
Marked(C) ==
  C.added # {} \/ \A i \in DOMAIN C.inputs : C.inputs[i].update => C.inputs[i].mutations > 0

(* What a step may do to the energies of a corpus.                         *)
Faded(C, D) ==
  \A i \in DOMAIN C.inputs :
    /\ D.inputs[i].energy => C.inputs[i].energy
    /\ C.inputs[i].energy /\ ~D.inputs[i].energy
         => D.added = {} /\ D.inputs[i].mutations > 0

LEMMA EnergyUpdate ==
  ASSUME NEW C, Good(C), Enough(C), Marked(C)
  PROVE  LET D == UpdateEnergy(C)
         IN /\ Good(D) /\ Faded(C, D) /\ Marked(D) /\ DOMAIN D.inputs = DOMAIN C.inputs
            /\ D.added = C.added /\ D.rare = C.rare
<1> DEFINE Update(input) == IF input.update /\ input.energy
                              THEN [input EXCEPT !.update = FALSE, !.energy = Entropy(C, input)]
                              ELSE input
           inputs == [i \in DOMAIN C.inputs |-> Update(C.inputs[i])]
           D == UpdateEnergy(C)
<1>1. C \in Corpora /\ Local(C) /\ IsInjective(C.rare) /\ ToSet(C.rare) \subseteq C.added
  BY DEF Good, Listed
<1>2. /\ C.inputs \in Seq(InputType) /\ C.added \in SUBSET Features
      /\ C.freq \in [Features -> 0..MaxFreq] /\ C.rare \in Seq(Features)
      /\ C.isRare \in [Features -> BOOLEAN] /\ C.most \in 0..MaxFreq /\ C.stale \in BOOLEAN
      /\ C = [inputs |-> C.inputs, added |-> C.added, freq |-> C.freq, rare |-> C.rare,
              isRare |-> C.isRare, most |-> C.most, stale |-> C.stale]
  BY <1>1, Fields
<1> DEFINE Fine(x, y) == /\ y \in InputType /\ y.freqs = x.freqs /\ y.mutations = x.mutations
                         /\ y.update => x.update
                         /\ y.energy => x.energy
                         /\ x.energy /\ ~y.energy => C.added = {} /\ x.update
<1>3. ASSUME NEW x \in InputType PROVE Fine(x, Update(x))
  <2>1. CASE x.update /\ x.energy
    <3> DEFINE e == Entropy(C, x)
    <3>1. e \in BOOLEAN /\ (C.added # {} => e = TRUE)
      BY <1>1, EnergyPositive DEF Entropy
    <3> HIDE DEF e
    <3>2. x = [num |-> x.num, freqs |-> x.freqs, energy |-> x.energy,
               update |-> x.update, mutations |-> x.mutations]
          /\ x.num \in Nat /\ x.freqs \in FreqType /\ x.mutations \in Nat
      BY InputFields
    <3>3. Update(x) = [x EXCEPT !.update = FALSE, !.energy = e]
      BY <2>1 DEF e
    <3> HIDE DEF Update
    <3>4. Update(x) = [num |-> x.num, freqs |-> x.freqs, energy |-> e,
                       update |-> FALSE, mutations |-> x.mutations]
      BY <3>2, <3>3
    <3>5. Update(x) \in InputType
      BY <3>1, <3>2, <3>4 DEF InputType
    <3>6. /\ Update(x).freqs = x.freqs /\ Update(x).mutations = x.mutations
          /\ Update(x).update = FALSE /\ Update(x).energy = e
      BY <3>4
    <3> DEFINE y == Update(x)
    <3> HIDE DEF y
    <3>7. y.update = FALSE /\ y.energy = e
      BY <3>6 DEF y
    <3>8. (y.update => x.update) /\ (y.energy => x.energy)
          /\ (x.energy /\ ~y.energy => C.added = {} /\ x.update)
      BY <2>1, <3>1, <3>7, Zenon
    <3> QED  BY <3>5, <3>6, <3>8 DEF y
  <2>2. CASE ~(x.update /\ x.energy)
    <3>1. Update(x) = x
      BY <2>2
    <3> HIDE DEF Update
    <3> QED  BY <3>1
  <2> QED  BY <2>1, <2>2
<1>4. D = [inputs |-> inputs, added |-> C.added, freq |-> C.freq, rare |-> C.rare,
           isRare |-> C.isRare, most |-> C.most, stale |-> FALSE]
  <2>1. D = [C EXCEPT !.stale = FALSE, !.inputs = inputs]
    BY DEF UpdateEnergy
  <2> HIDE DEF D, inputs
  <2> QED  BY <1>2, <2>1
<1> HIDE DEF Update
<1>5. /\ inputs \in Seq(InputType) /\ DOMAIN inputs = DOMAIN C.inputs
      /\ \A i \in DOMAIN C.inputs : Fine(C.inputs[i], inputs[i])
  <2>1. DOMAIN C.inputs = 1..Len(C.inputs) /\ Len(C.inputs) \in Nat
    BY <1>2
  <2>2. \A i \in DOMAIN C.inputs : C.inputs[i] \in InputType /\ inputs[i] = Update(C.inputs[i])
    BY <1>2
  <2>3. \A i \in DOMAIN C.inputs : Fine(C.inputs[i], inputs[i])
    <3> HIDE DEF Fine, inputs
    <3> QED  BY <1>3, <2>2
  <2>4. inputs \in [1..Len(C.inputs) -> InputType]
    <3>1. \A i \in 1..Len(C.inputs) : inputs[i] \in InputType
      <4> HIDE DEF inputs
      <4> QED  BY <2>1, <2>3
    <3>2. inputs = [i \in 1..Len(C.inputs) |-> inputs[i]]
      BY <2>1
    <3> HIDE DEF inputs
    <3> QED  BY <3>1, <3>2
  <2>5. inputs \in Seq(InputType)
    <3> HIDE DEF inputs
    <3> QED  BY <2>1, <2>4
  <2> HIDE DEF Fine
  <2> QED  BY <2>3, <2>5
<1> HIDE DEF inputs, D
<1>6. D \in Corpora
  BY <1>2, <1>4, <1>5, MakeCorpus
<1>7. D.inputs = inputs /\ D.added = C.added /\ D.freq = C.freq /\ D.rare = C.rare
  BY <1>4
<1>8. Local(D)
  BY <1>1, <1>5, <1>7 DEF Local
<1>9. Good(D)
  BY <1>1, <1>6, <1>7, <1>8 DEF Good, Listed
<1>10. ASSUME NEW i \in DOMAIN C.inputs
       PROVE  /\ D.inputs[i].energy => C.inputs[i].energy
              /\ C.inputs[i].energy /\ ~D.inputs[i].energy
                   => D.added = {} /\ D.inputs[i].mutations > 0
              /\ C.added = {} /\ D.inputs[i].update => D.inputs[i].mutations > 0
  <2>1. Fine(C.inputs[i], D.inputs[i])
    BY <1>5, <1>7
  <2>2. C.added = {} /\ C.inputs[i].update => D.inputs[i].mutations > 0
    BY <2>1 DEF Marked
  <2> QED  BY <1>7, <2>1, <2>2
<1>11. Faded(C, D) /\ Marked(D)
  BY <1>5, <1>7, <1>10 DEF Faded, Marked
<1> QED  BY <1>5, <1>7, <1>9, <1>11 DEF D


-----------------------------------------------------------------------------
(* The invariant, told of a corpus.                                        *)
Sound(C) == Good(C) /\ Enough(C) /\ Marked(C)

(* What a run does to a corpus: add inputs and change the others without   *)
(* touching their energies.                                                *)
Kept(C, D) ==
  /\ Len(C.inputs) \in Nat /\ Len(D.inputs) \in Nat /\ Len(C.inputs) <= Len(D.inputs)
  /\ \A i \in DOMAIN C.inputs : i \in DOMAIN D.inputs /\ D.inputs[i].energy = C.inputs[i].energy

LEMMA KeptOn ==
  ASSUME NEW B, NEW C, NEW D, Kept(B, C), Kept(C, D)
  PROVE  Kept(B, D)
<1>1. Len(B.inputs) \in Nat /\ Len(D.inputs) \in Nat /\ Len(B.inputs) <= Len(D.inputs)
  BY DEF Kept
<1>2. ASSUME NEW i \in DOMAIN B.inputs
      PROVE  i \in DOMAIN D.inputs /\ D.inputs[i].energy = B.inputs[i].energy
  <2>1. i \in DOMAIN C.inputs /\ C.inputs[i].energy = B.inputs[i].energy
    BY DEF Kept
  <2> QED  BY <2>1 DEF Kept
<1> QED  BY <1>1, <1>2 DEF Kept

LEMMA InvOfCorpus ==
  IInv <=> /\ Sound(corpus)
           /\ pc \in {"seeds", "choose", "mutate"} /\ weights \subseteq DOMAIN corpus.inputs
           /\ base \in 0..Len(corpus.inputs) /\ runs \in 0..MaxRuns /\ keep \in BOOLEAN
           /\ (pc = "mutate" => base # 0) /\ (pc # "seeds" => corpus.inputs # <<>>)
<1>1. Marked(corpus) <=> \A i \in DOMAIN corpus.inputs : corpus.inputs[i].update =>
                           corpus.added # {} \/ corpus.inputs[i].mutations > 0
  BY DEF Marked
<1> QED  BY <1>1 DEF IInv, TypeOK, LocalWithinGlobal, Sound, Good, Local, Listed

LEMMA Lengths ==
  ASSUME NEW C, Good(C)
  PROVE  /\ C.inputs \in Seq(InputType) /\ Len(C.inputs) \in Nat
         /\ DOMAIN C.inputs = 1..Len(C.inputs) /\ (C.inputs = <<>> <=> DOMAIN C.inputs = {})
<1>1. C.inputs \in Seq(InputType)
  BY Fields DEF Good
<1> DEFINE s == C.inputs
<1> HIDE DEF s
<1>2. s \in Seq(InputType)
  BY <1>1 DEF s
<1>3. Len(s) \in Nat /\ DOMAIN s = 1..Len(s)
  BY <1>2
<1>4. s = <<>> => DOMAIN s = {}
  OBVIOUS
<1>5. DOMAIN s = {} => Len(s) = 0
  BY <1>3
<1>6. Len(s) = 0 => s = <<>>
  BY <1>2
<1> QED  BY <1>2, <1>3, <1>4, <1>5, <1>6 DEF s

LEMMA SameLength ==
  ASSUME NEW C, NEW D, Good(C), Good(D), DOMAIN D.inputs = DOMAIN C.inputs
  PROVE  Len(D.inputs) = Len(C.inputs) /\ (C.inputs # <<>> => D.inputs # <<>>)
<1>1. /\ DOMAIN D.inputs = 1..Len(D.inputs) /\ DOMAIN C.inputs = 1..Len(C.inputs)
      /\ Len(C.inputs) \in Nat /\ Len(D.inputs) \in Nat
      /\ (C.inputs = <<>> <=> DOMAIN C.inputs = {}) /\ (D.inputs = <<>> <=> DOMAIN D.inputs = {})
  BY Lengths
<1>2. 1..Len(D.inputs) = 1..Len(C.inputs)
  BY <1>1
<1> QED  BY <1>1, <1>2

LEMMA RunKept ==
  ASSUME NEW C, Sound(C), NEW ii \in 0..Len(C.inputs), NEW F \in SUBSET Features,
         NEW forced \in BOOLEAN
  PROVE  LET D == RunOne(C, ii, F, forced) IN Sound(D) /\ Kept(C, D) /\ Ran(C, D)
<1> DEFINE D == RunOne(C, ii, F, forced)
<1>1. Ran(C, D)
  BY RunStays DEF Sound
<1> HIDE DEF D
<1>2. Marked(D)
  BY <1>1 DEF Ran, Sound, Marked
<1> QED  BY <1>1, <1>2 DEF Ran, Sound, Kept, D

(* MutateAndTestOne's three changes: of the count of mutations, by the     *)
(* run, and of the mark for UpdateEnergy.                                  *)
LEMMA MutateKept ==
  ASSUME NEW C, Sound(C), NEW k \in DOMAIN C.inputs, NEW F \in SUBSET Features
  PROVE  LET B == [C EXCEPT !.inputs[k].mutations = @ + 1]
             D == RunOne(B, k, F, FALSE)
             E == [D EXCEPT !.inputs[k].update = TRUE]
         IN Sound(E) /\ Kept(C, E)
<1> DEFINE B == [C EXCEPT !.inputs[k].mutations = @ + 1]
           D == RunOne(B, k, F, FALSE)
           E == [D EXCEPT !.inputs[k].update = TRUE]
           x == [C.inputs[k] EXCEPT !.mutations = @ + 1]
           y == [D.inputs[k] EXCEPT !.update = TRUE]
<1>1. Good(C) /\ C.inputs \in Seq(InputType) /\ DOMAIN C.inputs = 1..Len(C.inputs)
      /\ C.inputs[k] \in InputType
  <2>1. Good(C)
    BY DEF Sound
  <2> QED  BY <2>1, Lengths
<1>2. /\ x \in InputType /\ x.freqs = C.inputs[k].freqs /\ x.energy = C.inputs[k].energy
      /\ x.mutations > 0
  <2> DEFINE z == C.inputs[k]
  <2>1. z = [num |-> z.num, freqs |-> z.freqs, energy |-> z.energy,
             update |-> z.update, mutations |-> z.mutations]
        /\ z.num \in Nat /\ z.freqs \in FreqType /\ z.energy \in BOOLEAN
        /\ z.update \in BOOLEAN /\ z.mutations \in Nat
    BY <1>1, InputFields
  <2>2. x = [num |-> z.num, freqs |-> z.freqs, energy |-> z.energy,
             update |-> z.update, mutations |-> z.mutations + 1]
    <3> HIDE DEF z
    <3>1. x = [z EXCEPT !.mutations = @ + 1]
      BY DEF z
    <3> HIDE DEF x
    <3> QED  BY <2>1, <3>1
  <2> HIDE DEF x, z
  <2>3. x \in InputType
    BY <2>1, <2>2 DEF InputType
  <2>4. x.freqs = z.freqs /\ x.energy = z.energy /\ x.mutations > 0
    BY <2>1, <2>2
  <2> QED  BY <2>3, <2>4 DEF z
<1>3. B = [C EXCEPT !.inputs[k] = x]
  OBVIOUS
<1> HIDE DEF B, x
<1>4. /\ Good(B) /\ SameInputs(C, B) /\ B.added = C.added /\ B.rare = C.rare
      /\ B.inputs[k] = x /\ \A i \in DOMAIN C.inputs \ {k} : B.inputs[i] = C.inputs[i]
  BY <1>1, <1>2, <1>3, TouchStays
<1>5. Sound(B) /\ Kept(C, B) /\ Len(B.inputs) = Len(C.inputs)
  <2>1. Marked(B)
    BY <1>2, <1>4 DEF Sound, Marked, SameInputs
  <2>2. Len(B.inputs) = Len(C.inputs) /\ Len(C.inputs) \in Nat
    BY <1>1, <1>4, SameLength DEF SameInputs
  <2> QED  BY <1>4, <2>1, <2>2 DEF Sound, Enough, Kept, SameInputs
<1>6. k \in 0..Len(B.inputs) /\ k \in DOMAIN B.inputs
  <2>1. Len(C.inputs) \in Nat
    BY <1>1
  <2> QED  BY <1>1, <1>4, <1>5, <2>1 DEF SameInputs
<1>7. Sound(D) /\ Kept(B, D) /\ Ran(B, D)
  BY <1>5, <1>6, RunKept
<1> HIDE DEF D
<1>8. Good(D) /\ k \in DOMAIN D.inputs /\ D.inputs[k] \in InputType
  <2>1. Good(D) /\ k \in DOMAIN D.inputs
    BY <1>6, <1>7 DEF Sound, Kept
  <2> QED  BY <2>1, Lengths
<1>9. /\ y \in InputType /\ y.freqs = D.inputs[k].freqs /\ y.energy = D.inputs[k].energy
      /\ y.mutations = D.inputs[k].mutations
  <2> DEFINE z == D.inputs[k]
  <2>1. z = [num |-> z.num, freqs |-> z.freqs, energy |-> z.energy,
             update |-> z.update, mutations |-> z.mutations]
        /\ z.num \in Nat /\ z.freqs \in FreqType /\ z.energy \in BOOLEAN
        /\ z.update \in BOOLEAN /\ z.mutations \in Nat
    BY <1>8, InputFields
  <2>2. y = [num |-> z.num, freqs |-> z.freqs, energy |-> z.energy,
             update |-> TRUE, mutations |-> z.mutations]
    <3> HIDE DEF z
    <3>1. y = [z EXCEPT !.update = TRUE]
      BY DEF z
    <3> HIDE DEF y
    <3> QED  BY <2>1, <3>1
  <2> HIDE DEF y, z
  <2>3. y \in InputType
    BY <2>1, <2>2 DEF InputType
  <2>4. y.freqs = z.freqs /\ y.energy = z.energy /\ y.mutations = z.mutations
    BY <2>2
  <2> QED  BY <2>3, <2>4 DEF z
<1>10. E = [D EXCEPT !.inputs[k] = y]
  OBVIOUS
<1> HIDE DEF E, y
<1>11. /\ Good(E) /\ SameInputs(D, E) /\ E.added = D.added /\ E.rare = D.rare
       /\ E.inputs[k] = y /\ \A i \in DOMAIN D.inputs \ {k} : E.inputs[i] = D.inputs[i]
  BY <1>8, <1>9, <1>10, TouchStays
<1>12. Sound(E) /\ Kept(D, E)
  <2>1. D.added = {} => y.mutations > 0
    <3>1. D.added = {} => D.inputs[k] = x
      BY <1>4, <1>6, <1>7, <1>8 DEF Ran
    <3> QED  BY <1>2, <1>9, <3>1
  <2>2. Marked(E)
    BY <1>7, <1>11, <2>1 DEF Sound, Marked, SameInputs
  <2>3. Len(E.inputs) = Len(D.inputs) /\ Len(D.inputs) \in Nat
    BY <1>8, <1>11, SameLength, Lengths DEF SameInputs
  <2> QED  BY <1>7, <1>11, <2>2, <2>3 DEF Sound, Enough, Kept, SameInputs
<1>13. Kept(C, E)
  <2>1. Kept(C, D)
    BY <1>5, <1>7, KeptOn
  <2> QED  BY <1>12, <2>1, KeptOn
<1> QED  BY <1>12, <1>13 DEF E, D, B


-----------------------------------------------------------------------------
LEMMA Initially == Init => IInv
<1> SUFFICES ASSUME Init PROVE IInv
  OBVIOUS
<1> DEFINE C == [inputs |-> <<>>, added |-> {}, freq |-> [f \in Features |-> 0], rare |-> <<>>,
                 isRare |-> [f \in Features |-> FALSE], most |-> 0, stale |-> TRUE]
<1>1. corpus = C /\ pc = "seeds" /\ weights = {} /\ base = 0 /\ runs = 0 /\ keep \in BOOLEAN
  BY DEF Init
<1>2. /\ <<>> \in Seq(InputType) /\ {} \in SUBSET Features /\ <<>> \in Seq(Features)
      /\ [f \in Features |-> 0] \in [Features -> 0..MaxFreq] /\ 0 \in 0..MaxFreq
      /\ [f \in Features |-> FALSE] \in [Features -> BOOLEAN] /\ TRUE \in BOOLEAN
  BY EntropicAssumption
<1>3. C \in Corpora
  BY <1>2, MakeCorpus
<1>4. C.inputs = <<>> /\ C.rare = <<>> /\ C.added = {}
  OBVIOUS
<1> HIDE DEF C
<1>5. Local(C)
  BY <1>4 DEF Local
<1>6. Listed(C) /\ Enough(C)
  <2>1. IsInjective(<<>>) /\ ToSet(<<>>) = {}
    BY DEF IsInjective, ToSet
  <2>2. Cardinality({}) = 0 /\ Len(<<>>) = 0
    BY FS_EmptySet
  <2> QED  BY <1>4, <2>1, <2>2 DEF Listed, Enough
<1>7. Sound(C)
  BY <1>3, <1>4, <1>5, <1>6 DEF Sound, Good, Marked
<1>8. Len(C.inputs) = 0 /\ MaxRuns \in Nat
  BY <1>4, EntropicAssumption
<1> QED  BY <1>1, <1>7, <1>8, InvOfCorpus

LEMMA KeptFaded ==
  ASSUME NEW C, NEW D, Kept(C, D)
  PROVE  Faded(C, D)
BY DEF Kept, Faded

(* Every step keeps the invariant and takes energy only from an input that *)
(* has been mutated while there was no feature.                            *)
LEMMA Inductive == IInv /\ [Next]_vars => IInv' /\ Faded(corpus, corpus')
<1> SUFFICES ASSUME IInv, [Next]_vars PROVE IInv' /\ Faded(corpus, corpus')
  OBVIOUS
<1>1. /\ Sound(corpus)
      /\ pc \in {"seeds", "choose", "mutate"} /\ weights \subseteq DOMAIN corpus.inputs
      /\ base \in 0..Len(corpus.inputs) /\ runs \in 0..MaxRuns /\ keep \in BOOLEAN
      /\ (pc = "mutate" => base # 0) /\ (pc # "seeds" => corpus.inputs # <<>>)
  BY InvOfCorpus
<1>2. /\ Good(corpus) /\ corpus.inputs \in Seq(InputType) /\ Len(corpus.inputs) \in Nat
      /\ DOMAIN corpus.inputs = 1..Len(corpus.inputs) /\ MaxRuns \in Nat
      /\ (corpus.inputs # <<>> => Len(corpus.inputs) >= 1)
  <2>1. Good(corpus)
    BY <1>1 DEF Sound
  <2> QED  BY <2>1, Lengths, EntropicAssumption
<1>3. Faded(corpus, corpus)
  BY DEF Faded
<1> DEFINE Rest ==
      /\ pc' \in {"seeds", "choose", "mutate"} /\ weights' \subseteq DOMAIN corpus'.inputs
      /\ base' \in 0..Len(corpus'.inputs) /\ runs' \in 0..MaxRuns /\ keep' \in BOOLEAN
      /\ (pc' = "mutate" => base' # 0) /\ (pc' # "seeds" => corpus'.inputs # <<>>)
<1>4. ASSUME Sound(corpus'), Rest PROVE IInv'
  <2>1. Marked(corpus') => \A i \in DOMAIN corpus'.inputs : corpus'.inputs[i].update =>
                             corpus'.added # {} \/ corpus'.inputs[i].mutations > 0
    BY DEF Marked
  <2> QED  BY <1>4, <2>1 DEF IInv, TypeOK, LocalWithinGlobal, Sound, Good, Local, Listed, Enough
<1>5. CASE UNCHANGED vars
  <2>1. UNCHANGED <<pc, keep, corpus, weights, base, runs>>
    BY <1>5 DEF vars
  <2> QED  BY <1>1, <1>3, <1>4, <2>1
<1>6. ASSUME Good(corpus'), Kept(corpus, corpus')
      PROVE  /\ Len(corpus'.inputs) \in Nat /\ Len(corpus.inputs) <= Len(corpus'.inputs)
             /\ weights \subseteq DOMAIN corpus'.inputs
             /\ (corpus.inputs # <<>> => corpus'.inputs # <<>>)
  <2>1. \A i \in DOMAIN corpus.inputs : i \in DOMAIN corpus'.inputs
    BY <1>6 DEF Kept
  <2>2. corpus.inputs # <<>> => corpus'.inputs # <<>>
    BY <1>2, <1>6, <2>1, Lengths
  <2> QED  BY <1>1, <1>6, <2>1, <2>2 DEF Kept
<1>7. ASSUME NEW F \in SUBSET Features, ExecuteSeed(F)
      PROVE  IInv' /\ Faded(corpus, corpus')
  <2>1. /\ pc = "seeds" /\ pc' = pc /\ keep' = keep /\ weights' = weights /\ base' = base
        /\ runs' = runs + 1 /\ corpus' = RunOne(corpus, 0, F, keep) /\ runs < MaxRuns
    BY <1>7 DEF ExecuteSeed, Bounded
  <2>2. 0 \in 0..Len(corpus.inputs)
    BY <1>2
  <2>3. Sound(corpus') /\ Kept(corpus, corpus')
    BY <1>1, <2>1, <2>2, RunKept
  <2>4. Rest
    BY <1>1, <1>2, <1>6, <2>1, <2>3 DEF Sound
  <2> QED  BY <1>4, <2>3, <2>4, KeptFaded
<1>8. CASE SeedsDone
  <2>1. /\ pc' = "choose" /\ keep' = keep /\ weights' = weights /\ base' = base
        /\ pc = "seeds" /\ runs' = runs
        /\ corpus' = IF corpus.inputs = <<>> THEN AddToCorpus(corpus, 1) ELSE corpus
    BY <1>8 DEF SeedsDone
  <2>2. Sound(corpus') /\ Kept(corpus, corpus') /\ corpus'.inputs # <<>>
    <3>1. CASE corpus.inputs # <<>>
      <4>1. corpus' = corpus
        BY <2>1, <3>1
      <4> QED  BY <1>1, <1>2, <3>1, <4>1 DEF Kept
    <3>2. CASE corpus.inputs = <<>>
      <4> DEFINE D == AddToCorpus(corpus, 1)
      <4>1. Ran(corpus, D) /\ D.inputs # <<>>
        BY <1>1, AddToStays DEF Sound
      <4> HIDE DEF D
      <4>2. Sound(D)
        BY <1>1, <4>1 DEF Sound, Ran, Marked
      <4>3. corpus' = D
        BY <2>1, <3>2 DEF D
      <4> QED  BY <4>1, <4>2, <4>3 DEF Ran, Kept
    <3> QED  BY <3>1, <3>2
  <2>3. Rest
    BY <1>1, <1>2, <1>6, <2>1, <2>2 DEF Sound
  <2> QED  BY <1>4, <2>2, <2>3, KeptFaded
<1>9. CASE UpdateCorpusDistribution
  <2>1. /\ corpus' = UpdateEnergy(corpus) /\ weights' = Weighted(corpus')
        /\ base' \in Drawn(weights') /\ pc = "choose" /\ pc' = "mutate" /\ runs' = runs
        /\ keep' = keep
    BY <1>9 DEF UpdateCorpusDistribution
  <2>2. /\ Good(corpus') /\ Faded(corpus, corpus') /\ Marked(corpus')
        /\ DOMAIN corpus'.inputs = DOMAIN corpus.inputs
        /\ corpus'.added = corpus.added /\ corpus'.rare = corpus.rare
    BY <1>1, <2>1, EnergyUpdate DEF Sound
  <2>3. Sound(corpus')
    BY <1>1, <2>2 DEF Sound, Enough
  <2>4. Len(corpus'.inputs) = Len(corpus.inputs) /\ corpus'.inputs # <<>>
    BY <1>1, <1>2, <2>1, <2>2, SameLength
  <2>5. weights' \subseteq DOMAIN corpus'.inputs
    BY <2>1 DEF Weighted
  <2>6. base' \in 1..Len(corpus'.inputs)
    BY <1>1, <1>2, <2>1, <2>2, <2>4, <2>5 DEF Drawn
  <2>7. Rest
    BY <1>1, <1>2, <2>1, <2>4, <2>5, <2>6
  <2> QED  BY <1>4, <2>2, <2>3, <2>7
<1>10. CASE ChooseUnitToMutate
  <2>1. /\ corpus' = corpus /\ weights' = weights /\ base' \in Drawn(weights)
        /\ pc = "choose" /\ pc' = "mutate" /\ runs' = runs /\ keep' = keep
    BY <1>10 DEF ChooseUnitToMutate
  <2>2. base' \in 1..Len(corpus'.inputs)
    BY <1>1, <1>2, <2>1 DEF Drawn
  <2>3. Rest
    BY <1>1, <1>2, <2>1, <2>2
  <2> QED  BY <1>1, <1>3, <1>4, <2>1, <2>3
<1>11. ASSUME NEW F \in SUBSET Features, MutateAndTestOne(F)
       PROVE  IInv' /\ Faded(corpus, corpus')
  <2> DEFINE D == RunOne([corpus EXCEPT !.inputs[base].mutations = @ + 1], base, F, FALSE)
             E == [D EXCEPT !.inputs[base].update = TRUE]
  <2>1. /\ pc = "mutate" /\ runs < MaxRuns /\ runs' = runs + 1 /\ pc' = "choose" /\ base' = 0
        /\ weights' = weights /\ keep' = keep /\ corpus' = E
    BY <1>11 DEF MutateAndTestOne, Bounded
  <2>2. base \in DOMAIN corpus.inputs
    BY <1>1, <1>2, <2>1
  <2>3. Sound(E) /\ Kept(corpus, E)
    BY <1>1, <2>2, MutateKept
  <2> HIDE DEF D, E
  <2>4. Sound(corpus') /\ Kept(corpus, corpus')
    BY <2>1, <2>3
  <2>5. Rest
    BY <1>1, <1>2, <1>6, <2>1, <2>4 DEF Sound
  <2> QED  BY <1>4, <2>4, <2>5, KeptFaded
<1>12. CASE Done
  <2>1. UNCHANGED <<pc, keep, corpus, weights, base, runs>>
    BY <1>12 DEF Done, vars
  <2> QED  BY <1>1, <1>3, <1>4, <2>1
<1> QED  BY <1>5, <1>7, <1>8, <1>9, <1>10, <1>11, <1>12 DEF Next

-----------------------------------------------------------------------------
(* The invariant of the schedule: every field has its type, the list of    *)
(* rare features names each once and is long enough, no local frequency    *)
(* exceeds the global one, and an input is mutated only while there is one *)
(* (FuzzerCorpus.h, InputCorpus and FuzzerLoop.cpp, Fuzzer::Loop).         *)
THEOREM ScheduleConsistent == Spec => []IInv
<1>1. Init => IInv
  BY Initially
<1>2. IInv /\ [Next]_vars => IInv'
  BY Inductive
<1> QED  BY <1>1, <1>2, PTL DEF Spec

(* No input counts a feature more often than GlobalFeatureFreqs does,      *)
(* whatever saturates, is deleted or starts again at zero                  *)
(* (FuzzerCorpus.h, UpdateFeatureFrequency and AddRareFeature).            *)
THEOREM LocalHolds == Spec => []LocalWithinGlobal
<1>1. IInv => LocalWithinGlobal
  BY DEF IInv
<1> QED  BY <1>1, ScheduleConsistent, PTL

(* AddRareFeature keeps NumberOfRarestFeatures features besides the newest *)
(* one, as soon as there are so many, and none of them twice               *)
(* (FuzzerCorpus.h, AddRareFeature).                                       *)
THEOREM RareHold == Spec => []RareAtLeast
<1>1. IInv => RareAtLeast
  <2> SUFFICES ASSUME IInv PROVE RareAtLeast
    OBVIOUS
  <2>1. TypeOK /\ IsInjective(corpus.rare) /\ ToSet(corpus.rare) \subseteq corpus.added
        /\ Enough(corpus) /\ corpus \in Corpora
    BY DEF IInv, TypeOK
  <2> DEFINE n == NumberOfRarestFeatures + 1
             c == Cardinality(corpus.added)
  <2>2. n \in Nat /\ c \in Nat /\ Len(corpus.rare) \in Nat
    <3>1. corpus.rare \in Seq(Features) /\ corpus.added \in SUBSET Features
      BY <2>1, Fields
    <3>2. c \in Nat
      BY <3>1, FS_Subset, FS_CardinalityType, EntropicAssumption
    <3> QED  BY <3>1, <3>2, EntropicAssumption
  <2>3. Len(corpus.rare) >= n \/ Len(corpus.rare) >= c
    BY <2>1, <2>2, EntropicAssumption DEF Enough
  <2> HIDE DEF n, c
  <2>4. Min({n, c}) \in {n, c} /\ Min({n, c}) <= n /\ Min({n, c}) <= c
    <3>1. \E x \in {n, c} : \A y \in {n, c} : x <= y
      BY <2>2
    <3>2. Min({n, c}) \in {n, c} /\ \A y \in {n, c} : Min({n, c}) <= y
      BY <3>1 DEF Min
    <3> QED  BY <3>2
  <2>5. Len(corpus.rare) >= Min({n, c})
    BY <2>2, <2>3, <2>4
  <2> QED  BY <2>1, <2>5 DEF RareAtLeast, n, c
<1> QED  BY <1>1, ScheduleConsistent, PTL

(* No run and no deletion from the list changes whether an input has       *)
(* energy.  UpdateEnergy takes it only from an input that has been mutated *)
(* while no feature was known, as the fake input of an empty corpus is, and*)
(* nothing gives it back (FuzzerCorpus.h, UpdateEnergy and                 *)
(* UpdateCorpusDistribution).                                              *)
THEOREM EnergyKept == Spec => EnergyStays
<1>1. IInv /\ [Next]_vars
        => [\A i \in DOMAIN corpus.inputs :
              /\ corpus'.inputs[i].energy => corpus.inputs[i].energy
              /\ EnergyLost(i) => corpus'.added = {} /\ corpus'.inputs[i].mutations > 0]_vars
  <2>1. IInv /\ [Next]_vars => Faded(corpus, corpus')
    BY Inductive
  <2> QED  BY <2>1 DEF Faded, EnergyLost
<1> QED  BY <1>1, ScheduleConsistent, PTL DEF Spec, EnergyStays
=============================================================================
