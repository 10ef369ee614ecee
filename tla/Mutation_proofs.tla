--------------------------- MODULE Mutation_proofs ---------------------------
(* Proofs about Mutation for every length of the buffer, every dictionary  *)
(* and every sequence of mutations.                                        *)
EXTENDS Mutation, FiniteSetTheorems, WellFoundedInduction, TLAPS

(* What a mutator gives for the first n bytes of d: a buffer of the same   *)
(* length that has not changed behind its new size; and only a unit that   *)
(* was too large already may be left too large.                            *)
Names(e) ==
  \/ e = <<>>
  \/ \E de \in Entry : e = <<"cmp", 0, de>>
  \/ \E k \in DOMAIN auto : e = <<"auto", k, auto[k]>>
  \/ \E k \in DOMAIN ManualEntries : e = <<"manual", k, ManualEntries[k]>>

Fits(d, n, max, r) ==
  /\ r.buf \in Seq(Bytes) /\ Len(r.buf) = Len(d) /\ r.size \in Nat
  /\ n <= max => r.size <= max
  /\ \A i \in r.size + 1..Len(d) : r.buf[i] = d[i]
  /\ Names(r.entry)

LEMMA IsSeq ==
  ASSUME NEW S, NEW n \in Nat, NEW s \in [1..n -> S]
  PROVE  s \in Seq(S) /\ Len(s) = n
OBVIOUS

LEMMA SeqWider ==
  ASSUME NEW S, NEW T, S \subseteq T, NEW s \in Seq(S)
  PROVE  s \in Seq(T) /\ \A k \in DOMAIN s : s[k] \in T
<1>1. Len(s) \in Nat /\ s \in [1..Len(s) -> S]
  OBVIOUS
<1>2. s \in [1..Len(s) -> T] /\ DOMAIN s = 1..Len(s)
  BY <1>1
<1> QED  BY <1>1, <1>2, IsSeq

LEMMA LargerOf ==
  ASSUME NEW a \in Int, NEW b \in Int
  PROVE  /\ Max({a, b}) = IF a >= b THEN a ELSE b
         /\ Min({a, b}) = IF a <= b THEN a ELSE b
<1>1. Max({a, b}) = IF a >= b THEN a ELSE b
  <2>1. \E x \in {a, b} : \A y \in {a, b} : x >= y
    OBVIOUS
  <2>2. Max({a, b}) \in {a, b} /\ \A y \in {a, b} : Max({a, b}) >= y
    BY <2>1 DEF Max
  <2> QED  BY <2>2
<1>2. Min({a, b}) = IF a <= b THEN a ELSE b
  <2>1. \E x \in {a, b} : \A y \in {a, b} : x <= y
    OBVIOUS
  <2>2. Min({a, b}) \in {a, b} /\ \A y \in {a, b} : Min({a, b}) <= y
    BY <2>1 DEF Min
  <2> QED  BY <2>2
<1> QED  BY <1>1, <1>2

IsOver(b, To, at, s) ==
  /\ b \in Seq(Bytes) /\ Len(b) = Len(To)
  /\ \A i \in 1..Len(To) : b[i] = IF i \in at + 1..at + Len(s) THEN s[i - at] ELSE To[i]

LEMMA Overwritten ==
  ASSUME NEW To \in Seq(Bytes), NEW s \in Seq(Bytes), NEW at \in Nat, at + Len(s) <= Len(To)
  PROVE  IsOver(Overwrite(To, at, s), To, at, s)
<1> DEFINE n == Len(To)
           k == Len(s)
           b == [i \in 1..n |-> IF i \in at + 1..at + k THEN s[i - at] ELSE To[i]]
<1>1. n \in Nat /\ k \in Nat
  OBVIOUS
<1>2. Overwrite(To, at, s) = b
  <2>1. Max({n, at + k}) = n
    BY <1>1, LargerOf
  <2> QED  BY <2>1 DEF Overwrite
<1>3. \A i \in 1..n : b[i] \in Bytes
  <2>1. ASSUME NEW i \in 1..n PROVE b[i] \in Bytes
    <3>1. CASE i \in at + 1..at + k
      <4>1. i - at \in 1..k
        BY <1>1, <3>1
      <4>2. s[i - at] \in Bytes
        BY <4>1
      <4> QED  BY <3>1, <4>2
    <3>2. CASE i \notin at + 1..at + k
      BY <3>2
    <3> QED  BY <3>1, <3>2
  <2> QED  BY <2>1
<1>4. b \in [1..n -> Bytes]
  BY <1>3
<1>5. b \in Seq(Bytes) /\ Len(b) = n
  <2> HIDE DEF b, n
  <2> QED  BY <1>1, <1>4, IsSeq
<1> QED  BY <1>2, <1>5 DEF IsOver

LEMMA Inserted ==
  ASSUME NEW To \in Seq(Bytes), NEW s \in Seq(Bytes), NEW at \in Nat, NEW n \in Nat,
         at <= n, n + Len(s) <= Len(To)
  PROVE  /\ InsertBytes(To, n, at, s) \in Seq(Bytes)
         /\ Len(InsertBytes(To, n, at, s)) = Len(To)
         /\ \A i \in n + Len(s) + 1..Len(To) : InsertBytes(To, n, at, s)[i] = To[i]
<1> DEFINE tail == SubSeq(To, at + 1, n)
           t == s \o tail
<1>1. tail \in Seq(Bytes) /\ Len(tail) = n - at
  OBVIOUS
<1>2. t \in Seq(Bytes) /\ Len(t) = Len(s) + n - at
  <2> HIDE DEF tail
  <2> QED  BY <1>1, SMTT(30)
<1>3. InsertBytes(To, n, at, s) = Overwrite(To, at, t)
  BY DEF InsertBytes
<1> HIDE DEF t
<1>4. Len(s) \in Nat /\ Len(To) \in Nat /\ at + Len(t) <= Len(To)
  BY <1>2
<1>5. /\ Overwrite(To, at, t) \in Seq(Bytes) /\ Len(Overwrite(To, at, t)) = Len(To)
      /\ \A i \in 1..Len(To) :
           Overwrite(To, at, t)[i] = IF i \in at + 1..at + Len(t) THEN t[i - at] ELSE To[i]
  <2>1. IsOver(Overwrite(To, at, t), To, at, t)
    BY <1>2, <1>4, Overwritten
  <2> QED  BY <2>1 DEF IsOver
<1>6. \A i \in n + Len(s) + 1..Len(To) : i \in 1..Len(To) /\ i \notin at + 1..at + Len(t)
  BY <1>2, <1>4
<1> QED  BY <1>3, <1>5, <1>6

LEMMA FailsFit ==
  ASSUME NEW d \in Seq(Bytes), NEW n \in Nat, NEW max \in Nat, NEW r \in Fails(d)
  PROVE  Fits(d, n, max, r) /\ r.entry = <<>>
<1>1. r = [buf |-> d, size |-> 0, entry |-> <<>>]
  BY DEF Fails, Result
<1>2. r.buf = d /\ r.size = 0 /\ r.entry = <<>>
  BY <1>1
<1> QED  BY <1>2 DEF Fits, Names

LEMMA ResultFits ==
  ASSUME NEW d \in Seq(Bytes), NEW n \in Nat, NEW max \in Nat, NEW b \in Seq(Bytes),
         NEW m \in Nat, Len(b) = Len(d), n <= max => m <= max,
         \A i \in m + 1..Len(d) : b[i] = d[i]
  PROVE  Fits(d, n, max, Result(b, m)) /\ Result(b, m).entry = <<>>
<1>1. Result(b, m).buf = b /\ Result(b, m).size = m /\ Result(b, m).entry = <<>>
  BY DEF Result
<1> QED  BY <1>1 DEF Fits, Names

LEMMA OverwriteFits ==
  ASSUME NEW d \in Seq(Bytes), NEW n \in 1..Len(d), NEW max \in 1..Len(d),
         NEW s \in Seq(Bytes), NEW at \in Nat, at + Len(s) <= n
  PROVE  Fits(d, n, max, Result(Overwrite(d, at, s), n)) /\ Result(Overwrite(d, at, s), n).entry = <<>>
<1>1. Len(d) \in Nat /\ Len(s) \in Nat /\ at + Len(s) <= Len(d)
  OBVIOUS
<1>2. /\ Overwrite(d, at, s) \in Seq(Bytes) /\ Len(Overwrite(d, at, s)) = Len(d)
      /\ \A i \in 1..Len(d) :
           Overwrite(d, at, s)[i] = IF i \in at + 1..at + Len(s) THEN s[i - at] ELSE d[i]
  <2>1. IsOver(Overwrite(d, at, s), d, at, s)
    BY <1>1, Overwritten
  <2> QED  BY <2>1 DEF IsOver
<1>3. \A i \in n + 1..Len(d) : i \in 1..Len(d) /\ i \notin at + 1..at + Len(s)
  BY <1>1
<1>4. \A i \in n + 1..Len(d) : Overwrite(d, at, s)[i] = d[i]
  BY <1>2, <1>3
<1> QED  BY <1>1, <1>2, <1>4, ResultFits

LEMMA InsertFits ==
  ASSUME NEW d \in Seq(Bytes), NEW n \in 1..Len(d), NEW max \in 1..Len(d),
         NEW s \in Seq(Bytes), NEW at \in Nat, at <= n, n + Len(s) <= max
  PROVE  /\ Fits(d, n, max, Result(InsertBytes(d, n, at, s), n + Len(s)))
         /\ Result(InsertBytes(d, n, at, s), n + Len(s)).entry = <<>>
<1>1. /\ Len(d) \in Nat /\ Len(s) \in Nat /\ n \in Nat /\ max \in Nat
      /\ n + Len(s) <= Len(d) /\ n + Len(s) \in Nat /\ n + Len(s) <= max
  OBVIOUS
<1>2. /\ InsertBytes(d, n, at, s) \in Seq(Bytes) /\ Len(InsertBytes(d, n, at, s)) = Len(d)
      /\ \A i \in n + Len(s) + 1..Len(d) : InsertBytes(d, n, at, s)[i] = d[i]
  BY <1>1, Inserted
<1> DEFINE m == n + Len(s)
           b == InsertBytes(d, n, at, s)
<1>3. m \in Nat /\ m <= max /\ \A i \in m + 1..Len(d) : b[i] = d[i]
  BY <1>1, <1>2
<1> HIDE DEF m, b
<1>4. Fits(d, n, max, Result(b, m)) /\ Result(b, m).entry = <<>>
  BY <1>1, <1>2, <1>3, ResultFits DEF b
<1> QED  BY <1>4 DEF m, b

-----------------------------------------------------------------------------
(* Finite sets of numbers, and the folds of Mutation.  They go over the    *)
(* positions of a list, from the first to the last.  The definition of a   *)
(* fold chooses a function; FoldExists says that there is one, OneByOne    *)
(* that what one step keeps is kept to the last position.                  *)
LEMMA LeastNat ==
  ASSUME NEW T, T \subseteq Nat, T # {}
  PROVE  \E m \in T : \A n \in T : m <= n
<1> DEFINE R == {r \in Nat \X Nat : r[1] < r[2]}
<1>1. IsWellFoundedOn(R, Nat)
  <2>1. R = OpToRel(<, Nat)
    BY DEF OpToRel
  <2> QED  BY <2>1, NatLessThanWellFounded
<1>2. PICK m \in T : \A n \in T : <<n, m>> \notin R
  <2> HIDE DEF R
  <2> QED  BY <1>1, WFMin
<1>3. ASSUME NEW n \in T PROVE m <= n
  <2>1. m \in Nat /\ n \in Nat /\ <<n, m>> \notin R
    BY <1>2, <1>3
  <2> QED  BY <2>1
<1> QED  BY <1>3

LEMMA UpToFinite ==
  ASSUME NEW n \in Nat
  PROVE  /\ IsFiniteSet(1..n) /\ Cardinality(1..n) = n
         /\ \A s \in SUBSET (1..n) : /\ IsFiniteSet(s) /\ Cardinality(s) \in Nat
                                     /\ Cardinality(s) <= n /\ (Cardinality(s) = 0 <=> s = {})
<1>1. IsFiniteSet(1..n) /\ Cardinality(1..n) = n
  <2>1. 1 \in Int /\ n \in Int
    OBVIOUS
  <2>2. IsFiniteSet(1..n) /\ Cardinality(1..n) = IF 1 > n THEN 0 ELSE n - 1 + 1
    BY <2>1, FS_Interval
  <2> QED  BY <2>2
<1>2. ASSUME NEW s \in SUBSET (1..n)
      PROVE  /\ IsFiniteSet(s) /\ Cardinality(s) \in Nat
             /\ Cardinality(s) <= n /\ (Cardinality(s) = 0 <=> s = {})
  <2>1. IsFiniteSet(s) /\ Cardinality(s) <= Cardinality(1..n)
    BY <1>1, FS_Subset
  <2> QED  BY <1>1, <2>1, FS_CardinalityType, FS_EmptySet
<1> QED  BY <1>1, <1>2

LEMMA Greatest ==
  ASSUME NEW n \in Nat, NEW s \in SUBSET (1..n), s # {}
  PROVE  Max(s) \in s /\ \A y \in s : y <= Max(s)
<1> DEFINE T == {n - x : x \in s}
<1>1. PICK m \in T : \A d \in T : m <= d
  <2>1. \A x \in s : x \in Int /\ 1 <= x /\ x <= n
    OBVIOUS
  <2>2. \A x \in s : n - x \in Nat
    BY <2>1
  <2>3. T \subseteq Nat /\ T # {}
    BY <2>2, Zenon
  <2> HIDE DEF T
  <2> QED  BY <2>3, LeastNat
<1>2. PICK x \in s : m = n - x
  OBVIOUS
<1>3. ASSUME NEW y \in s PROVE x >= y
  <2>1. x \in Int /\ y \in Int
    OBVIOUS
  <2>2. n - x <= n - y
    BY <1>1, <1>2
  <2> QED  BY <2>1, <2>2
<1>4. Max(s) \in s /\ \A y \in s : Max(s) >= y
  BY <1>3 DEF Max
<1> QED  BY <1>4

But(s) == s \ {Max(s)}

LEMMA ButGreatest ==
  ASSUME NEW n \in Nat, NEW s \in SUBSET (1..n), s # {}
  PROVE  /\ Max(s) \in 1..n /\ But(s) \in SUBSET (1..n)
         /\ Cardinality(s) \in Nat \ {0} /\ Cardinality(But(s)) = Cardinality(s) - 1
<1>1. Max(s) \in s
  BY Greatest
<1>2. IsFiniteSet(s)
  BY UpToFinite
<1>3. Cardinality(s) \in Nat /\ Cardinality(s) # 0
  BY UpToFinite
<1> QED  BY <1>1, <1>2, <1>3, FS_RemoveElement DEF But

LEMMA OneByOne ==
  ASSUME NEW n \in Nat, NEW Wrong \in SUBSET SUBSET (1..n), {} \notin Wrong,
         \A s \in Wrong : But(s) \in Wrong
  PROVE  Wrong = {}
<1> SUFFICES ASSUME Wrong # {} PROVE FALSE
  OBVIOUS
<1>1. \A s \in Wrong : s # {} /\ s \in SUBSET (1..n)
  OBVIOUS
<1> DEFINE T == {Cardinality(s) : s \in Wrong}
<1>2. PICK m \in T : \A d \in T : m <= d
  <2>1. T \subseteq Nat /\ T # {}
    BY <1>1, ButGreatest
  <2> HIDE DEF T
  <2> QED  BY <2>1, LeastNat
<1>3. PICK s \in Wrong : m = Cardinality(s)
  OBVIOUS
<1>4. Cardinality(But(s)) \in T /\ Cardinality(But(s)) = m - 1 /\ m \in Nat
  BY <1>1, <1>3, ButGreatest
<1> QED  BY <1>2, <1>4

(* A function computes the partial results, on the sets of positions S.    *)
Folds(n, T, b, step, S) ==
  \E g \in [S -> T] :
    g = [s \in S |-> IF s = {} THEN b ELSE step[Max(s)][g[But(s)]]]

Upto(n, k) == {s \in SUBSET (1..n) : Cardinality(s) <= k}

LEMMA FoldExists ==
  ASSUME NEW n \in Nat, NEW T, NEW b \in T, NEW step \in [1..n -> [T -> T]]
  PROVE  Folds(n, T, b, step, SUBSET (1..n))
<1> DEFINE Has(k) == Folds(n, T, b, step, Upto(n, k))
           Not == {k \in Nat : ~Has(k)}
<1>1. \A s \in SUBSET (1..n) : Cardinality(s) \in Nat /\ (Cardinality(s) = 0 <=> s = {})
  BY UpToFinite
<1>2. Has(0)
  <2>1. \A s \in Upto(n, 0) : s = {}
    BY <1>1 DEF Upto
  <2> DEFINE g == [s \in Upto(n, 0) |-> b]
  <2>2. g = [s \in Upto(n, 0) |-> IF s = {} THEN b ELSE step[Max(s)][g[But(s)]]]
    BY <2>1
  <2>3. g \in [Upto(n, 0) -> T]
    OBVIOUS
  <2> HIDE DEF g
  <2> QED  BY <2>2, <2>3 DEF Folds
<1>3. ASSUME NEW k \in Nat, Has(k) PROVE Has(k + 1)
  <2>1. PICK g \in [Upto(n, k) -> T] :
          g = [s \in Upto(n, k) |-> IF s = {} THEN b ELSE step[Max(s)][g[But(s)]]]
    BY <1>3 DEF Folds
  <2> DEFINE h == [s \in Upto(n, k + 1) |-> IF s = {} THEN b ELSE step[Max(s)][g[But(s)]]]
  <2>2. ASSUME NEW s \in Upto(n, k + 1), s # {}
        PROVE  /\ Max(s) \in 1..n /\ But(s) \in Upto(n, k) /\ But(s) \in Upto(n, k + 1)
               /\ step[Max(s)][g[But(s)]] \in T
    <3>1. s \in SUBSET (1..n) /\ Cardinality(s) <= k + 1
      BY DEF Upto
    <3>2. Max(s) \in 1..n /\ But(s) \in SUBSET (1..n) /\ Cardinality(But(s)) = Cardinality(s) - 1
      BY <2>2, <3>1, ButGreatest
    <3>3. But(s) \in Upto(n, k) /\ But(s) \in Upto(n, k + 1)
      BY <1>1, <3>1, <3>2 DEF Upto
    <3>4. step[Max(s)] \in [T -> T] /\ g[But(s)] \in T
      BY <2>1, <3>2, <3>3
    <3> QED  BY <3>2, <3>3, <3>4
  <2>3. h \in [Upto(n, k + 1) -> T]
    BY <2>2
  <2>4. \A s \in Upto(n, k + 1) : s # {} => h[But(s)] = g[But(s)]
    <3>1. ASSUME NEW s \in Upto(n, k + 1), s # {} PROVE h[But(s)] = g[But(s)]
      <4>1. But(s) \in Upto(n, k) /\ But(s) \in Upto(n, k + 1)
        BY <2>2, <3>1
      <4>2. g[But(s)] = IF But(s) = {} THEN b ELSE step[Max(But(s))][g[But(But(s))]]
        BY <2>1, <4>1
      <4> QED  BY <4>1, <4>2
    <3> QED  BY <3>1
  <2>5. h = [s \in Upto(n, k + 1) |-> IF s = {} THEN b ELSE step[Max(s)][h[But(s)]]]
    <3>1. h = [s \in Upto(n, k + 1) |-> IF s = {} THEN b ELSE step[Max(s)][g[But(s)]]]
      OBVIOUS
    <3> HIDE DEF h
    <3>2. \A s \in Upto(n, k + 1) : (IF s = {} THEN b ELSE step[Max(s)][g[But(s)]])
                                     = (IF s = {} THEN b ELSE step[Max(s)][h[But(s)]])
      BY <2>4
    <3> QED  BY <3>1, <3>2
  <2> HIDE DEF h
  <2> QED  BY <2>3, <2>5 DEF Folds
<1> HIDE DEF Has
<1>4. Not = {}
  <2> SUFFICES ASSUME Not # {} PROVE FALSE
    OBVIOUS
  <2>1. PICK m \in Not : \A k \in Not : m <= k
    <3>1. Not \subseteq Nat
      OBVIOUS
    <3> HIDE DEF Not
    <3> QED  BY <3>1, LeastNat
  <2>2. m # 0 /\ m \in Nat /\ ~Has(m)
    BY <1>2
  <2>3. m - 1 \in Nat /\ m - 1 \notin Not
    BY <2>1, <2>2
  <2>4. Has((m - 1) + 1)
    BY <1>3, <2>3
  <2> QED  BY <2>2, <2>4
<1>5. Upto(n, n) = SUBSET (1..n)
  <2>1. \A s \in SUBSET (1..n) : Cardinality(s) <= n
    BY UpToFinite
  <2> QED  BY <2>1 DEF Upto
<1> QED  BY <1>4, <1>5 DEF Has

-----------------------------------------------------------------------------
(* The mutators.                                                           *)
LEMMA Rands ==
  ASSUME NEW n \in Int, NEW x \in Rand(n), n >= 0
  PROVE  x \in Nat /\ (n > 0 => x <= n - 1) /\ (n = 0 => x = 0)
BY DEF Rand

LEMMA PlaceOf ==
  ASSUME NEW n \in Nat, NEW k \in Nat, k <= n, NEW x \in Rand(n + 1 - k)
  PROVE  x \in Nat /\ x + k <= n
<1> DEFINE m == n + 1 - k
<1>1. m \in Int /\ m > 0 /\ x \in Rand(m)
  OBVIOUS
<1> HIDE DEF m
<1>2. x \in Nat /\ x <= m - 1
  BY <1>1, Rands
<1> QED  BY <1>2 DEF m

(* The results of a mutator that does not fail, and how one is drawn.      *)
Shuffled(d, n, k) ==
  {Result(Overwrite(d, at, [i \in 1..k + 1 |-> d[at + p[i]]]), n) :
     p \in Bijection(1..k + 1, 1..k + 1), at \in Rand(n - k - 1)}
Repeated(d, n, k) ==
  {Result(InsertBytes(d, n, at, [i \in 1..k + MinBytesToInsert |-> b]), n + k + MinBytesToInsert) :
     at \in Rand(n + 1), b \in Bytes}
AllShuffled(d, n) == UNION {Shuffled(d, n, k) : k \in Rand(Min({n, 8}))}
AllRepeated(d, n, max) ==
  UNION {Repeated(d, n, k) : k \in Rand(Min({max - n, 128}) - MinBytesToInsert + 1)}
WithByte(d, n) == {Result(InsertBytes(d, n, at, <<b>>), n + 1) : at \in Rand(n + 1), b \in Bytes}
Changed(d, n) == {Result(Overwrite(d, at, <<b>>), n) : at \in Rand(n), b \in Bytes}

LEMMA Split ==
  ASSUME NEW d, NEW n, NEW max
  PROVE  /\ ShuffleBytes(d, n, max) = IF n > max \/ n = 0 THEN Fails(d) ELSE AllShuffled(d, n)
         /\ InsertRepeatedBytes(d, n, max) =
              IF n + MinBytesToInsert >= max THEN Fails(d) ELSE AllRepeated(d, n, max)
         /\ InsertByte(d, n, max) = IF n >= max THEN Fails(d) ELSE WithByte(d, n)
         /\ ChangeByte(d, n, max) = IF n > max THEN Fails(d) ELSE Changed(d, n)
<1>1. ShuffleBytes(d, n, max) = IF n > max \/ n = 0 THEN Fails(d) ELSE AllShuffled(d, n)
  BY DEF ShuffleBytes, Shuffled, AllShuffled
<1>2. InsertRepeatedBytes(d, n, max) =
        IF n + MinBytesToInsert >= max THEN Fails(d) ELSE AllRepeated(d, n, max)
  BY DEF InsertRepeatedBytes, Repeated, AllRepeated
<1>3. InsertByte(d, n, max) = IF n >= max THEN Fails(d) ELSE WithByte(d, n)
  BY DEF InsertByte, WithByte
<1>4. ChangeByte(d, n, max) = IF n > max THEN Fails(d) ELSE Changed(d, n)
  BY DEF ChangeByte, Changed
<1> QED  BY <1>1, <1>2, <1>3, <1>4

IsShuffle(d, n, k, r) ==
  \E p \in Bijection(1..k + 1, 1..k + 1), at \in Rand(n - k - 1) :
    r = Result(Overwrite(d, at, [i \in 1..k + 1 |-> d[at + p[i]]]), n)

LEMMA DrawShuffled ==
  ASSUME NEW d, NEW n, NEW k, NEW r \in Shuffled(d, n, k)
  PROVE  IsShuffle(d, n, k, r)
BY SMT DEF Shuffled, IsShuffle

LEMMA DrawRepeated ==
  ASSUME NEW d, NEW n, NEW k, NEW r \in Repeated(d, n, k)
  PROVE  \E at \in Rand(n + 1), b \in Bytes :
           r = Result(InsertBytes(d, n, at, [i \in 1..k + MinBytesToInsert |-> b]),
                      n + k + MinBytesToInsert)
BY SMT DEF Repeated

LEMMA DrawByte ==
  ASSUME NEW d, NEW n
  PROVE  /\ \A r \in WithByte(d, n) : \E at \in Rand(n + 1), b \in Bytes :
              r = Result(InsertBytes(d, n, at, <<b>>), n + 1)
         /\ \A r \in Changed(d, n) : \E at \in Rand(n), b \in Bytes :
              r = Result(Overwrite(d, at, <<b>>), n)
BY SMT DEF WithByte, Changed

LEMMA ShuffleFits ==
  ASSUME NEW d \in Seq(Bytes), NEW n \in 1..Len(d), NEW max \in 1..Len(d),
         NEW r \in ShuffleBytes(d, n, max)
  PROVE  Fits(d, n, max, r) /\ r.entry = <<>>
<1>1. CASE n > max \/ n = 0
  BY <1>1, FailsFit DEF ShuffleBytes
<1>2. CASE ~(n > max \/ n = 0)
  <2>1. PICK k \in Rand(Min({n, 8})) : r \in Shuffled(d, n, k)
    <3>1. r \in AllShuffled(d, n)
      BY <1>2, Split, Zenon
    <3> QED  BY <3>1, Zenon DEF AllShuffled
  <2>2. PICK p \in Bijection(1..k + 1, 1..k + 1), at \in Rand(n - k - 1) :
          r = Result(Overwrite(d, at, [i \in 1..k + 1 |-> d[at + p[i]]]), n)
    <3>1. IsShuffle(d, n, k, r)
      BY <2>1, DrawShuffled
    <3> QED  BY <3>1, Zenon DEF IsShuffle
  <2>3. n \in Nat /\ n >= 1 /\ n <= Len(d) /\ Len(d) \in Nat
    OBVIOUS
  <2>4. Min({n, 8}) \in Int /\ Min({n, 8}) >= 1 /\ Min({n, 8}) <= n
    <3>1. Min({n, 8}) = IF n <= 8 THEN n ELSE 8
      BY LargerOf, n \in Int, 8 \in Int
    <3> QED  BY <2>3, <3>1
  <2>5. k \in Nat /\ k <= n - 1
    BY <2>1, <2>3, <2>4, Rands
  <2>6. at \in Nat /\ at + k + 1 <= n
    <3>1. n - k - 1 \in Int /\ n - k - 1 >= 0
      BY <2>3, <2>5
    <3> QED  BY <2>2, <2>3, <2>5, <3>1, Rands
  <2>7. \A i \in 1..k + 1 : p[i] \in 1..k + 1
    BY DEF Bijection, Injection
  <2> DEFINE s == [i \in 1..k + 1 |-> d[at + p[i]]]
  <2>8. \A i \in 1..k + 1 : s[i] \in Bytes
    <3>1. ASSUME NEW i \in 1..k + 1 PROVE s[i] \in Bytes
      <4>1. at + p[i] \in 1..Len(d)
        BY <2>3, <2>5, <2>6, <2>7
      <4> QED  BY <4>1
    <3> QED  BY <3>1
  <2>9. s \in [1..k + 1 -> Bytes] /\ k + 1 \in Nat
    BY <2>5, <2>8
  <2> HIDE DEF s
  <2>10. s \in Seq(Bytes) /\ Len(s) = k + 1
    BY <2>9, IsSeq
  <2>11. at + Len(s) <= n
    BY <2>3, <2>5, <2>6, <2>10
  <2>12. r = Result(Overwrite(d, at, s), n)
    BY <2>2 DEF s
  <2> QED  BY <2>6, <2>10, <2>11, <2>12, OverwriteFits
<1> QED  BY <1>1, <1>2

LEMMA EraseFits ==
  ASSUME NEW d \in Seq(Bytes), NEW n \in 1..Len(d), NEW max \in 1..Len(d),
         NEW r \in EraseBytes(d, n, max)
  PROVE  Fits(d, n, max, r) /\ r.entry = <<>>
<1>1. CASE n <= 1
  BY <1>1, FailsFit DEF EraseBytes
<1>2. CASE ~(n <= 1)
  <2>1. PICK k \in Rand(n \div 2) :
          r \in {Result(Overwrite(d, at, SubSeq(d, at + k + 2, n)), n - k - 1) : at \in Rand(n - k)}
    BY <1>2 DEF EraseBytes
  <2>2. PICK at \in Rand(n - k) : r = Result(Overwrite(d, at, SubSeq(d, at + k + 2, n)), n - k - 1)
    BY <2>1
  <2>3. n \in Nat /\ n >= 2 /\ n <= Len(d) /\ Len(d) \in Nat
    BY <1>2
  <2>4. n \div 2 \in Nat /\ n \div 2 >= 1 /\ n \div 2 <= n - 1
    BY <2>3
  <2>5. k \in Nat /\ k <= n - 2
    BY <2>1, <2>3, <2>4, Rands
  <2>6. at \in Nat /\ at <= n - k - 1
    <3>1. n - k \in Int /\ n - k >= 2
      BY <2>3, <2>5
    <3> QED  BY <2>2, <2>3, <2>5, <3>1, Rands
  <2> DEFINE s == SubSeq(d, at + k + 2, n)
             m == n - k - 1
  <2>7. s \in Seq(Bytes) /\ Len(s) = n - k - 1 - at
    BY <2>3, <2>5, <2>6
  <2> HIDE DEF s
  <2>8. at + Len(s) <= Len(d) /\ at + Len(s) = m /\ m \in Nat /\ m <= n
    BY <2>3, <2>5, <2>6, <2>7
  <2>9. /\ Overwrite(d, at, s) \in Seq(Bytes) /\ Len(Overwrite(d, at, s)) = Len(d)
        /\ \A i \in 1..Len(d) :
             Overwrite(d, at, s)[i] = IF i \in at + 1..at + Len(s) THEN s[i - at] ELSE d[i]
    <3>1. IsOver(Overwrite(d, at, s), d, at, s)
      BY <2>6, <2>7, <2>8, Overwritten
    <3> QED  BY <3>1 DEF IsOver
  <2>10. \A i \in m + 1..Len(d) : i \in 1..Len(d) /\ i \notin at + 1..at + Len(s)
    BY <2>3, <2>6, <2>8
  <2>11. \A i \in m + 1..Len(d) : Overwrite(d, at, s)[i] = d[i]
    BY <2>9, <2>10
  <2>12. n <= max => m <= max
    BY <2>3, <2>8
  <2>13. r = Result(Overwrite(d, at, s), m)
    BY <2>2 DEF s
  <2> HIDE DEF m
  <2>14. n \in Nat /\ max \in Nat
    OBVIOUS
  <2> QED  BY <2>8, <2>9, <2>11, <2>12, <2>13, <2>14, ResultFits
<1> QED  BY <1>1, <1>2

LEMMA InsertByteFits ==
  ASSUME NEW d \in Seq(Bytes), NEW n \in 1..Len(d), NEW max \in 1..Len(d),
         NEW r \in InsertByte(d, n, max)
  PROVE  Fits(d, n, max, r) /\ r.entry = <<>>
<1>1. CASE n >= max
  BY <1>1, FailsFit DEF InsertByte
<1>2. CASE ~(n >= max)
  <2>1. PICK at \in Rand(n + 1), b \in Bytes : r = Result(InsertBytes(d, n, at, <<b>>), n + 1)
    <3>1. r \in WithByte(d, n)
      BY <1>2, Split, Zenon
    <3> QED  BY <3>1, DrawByte, Zenon
  <2>2. at \in Nat /\ at <= n
    BY <2>1, Rands
  <2> DEFINE s == <<b>>
  <2>3. s \in Seq(Bytes) /\ Len(s) = 1
    OBVIOUS
  <2>4. r = Result(InsertBytes(d, n, at, s), n + Len(s))
    BY <2>1, <2>3
  <2> HIDE DEF s
  <2>5. n + Len(s) <= max
    BY <1>2, <2>3
  <2> QED  BY <2>2, <2>3, <2>4, <2>5, InsertFits
<1> QED  BY <1>1, <1>2

LEMMA InsertRepeatedFits ==
  ASSUME NEW d \in Seq(Bytes), NEW n \in 1..Len(d), NEW max \in 1..Len(d),
         NEW r \in InsertRepeatedBytes(d, n, max)
  PROVE  Fits(d, n, max, r) /\ r.entry = <<>>
<1> DEFINE least == MinBytesToInsert
<1>1. CASE n + least >= max
  BY <1>1, FailsFit DEF InsertRepeatedBytes
<1>2. CASE ~(n + least >= max)
  <2> DEFINE room == Min({max - n, 128})
  <2>1. PICK k \in Rand(room - least + 1) : r \in Repeated(d, n, k)
    <3>1. r \in AllRepeated(d, n, max)
      BY <1>2, Split, Zenon
    <3> QED  BY <3>1, Zenon DEF AllRepeated
  <2>2. PICK at \in Rand(n + 1), b \in Bytes :
          r = Result(InsertBytes(d, n, at, [i \in 1..k + least |-> b]), n + k + least)
    BY <2>1, DrawRepeated
  <2>3. n \in Nat /\ max \in Nat /\ least \in Nat \ {0}
    BY MutationAssumption
  <2>4. room \in Int /\ room <= max - n
    <3> DEFINE a == max - n
    <3>1. a \in Int /\ 128 \in Int
      BY <2>3
    <3> HIDE DEF a
    <3>2. Min({a, 128}) = IF a <= 128 THEN a ELSE 128
      BY <3>1, LargerOf, Zenon
    <3>3. Min({a, 128}) \in Int /\ Min({a, 128}) <= a
      BY <3>1, <3>2
    <3> QED  BY <3>3 DEF a
  <2>5. k \in Nat /\ n + k + least <= max
    BY <1>2, <2>1, <2>3, <2>4 DEF Rand
  <2>6. at \in Nat /\ at <= n
    BY <2>2, <2>3, Rands
  <2> DEFINE s == [i \in 1..k + least |-> b]
  <2>7. s \in [1..k + least -> Bytes] /\ k + least \in Nat
    BY <2>3, <2>5
  <2> HIDE DEF s
  <2>8. s \in Seq(Bytes) /\ Len(s) = k + least
    BY <2>7, IsSeq
  <2>9. n + Len(s) = n + k + least /\ n + Len(s) <= max
    BY <2>3, <2>5, <2>8
  <2>10. r = Result(InsertBytes(d, n, at, s), n + Len(s))
    BY <2>2, <2>9 DEF s
  <2> QED  BY <2>6, <2>8, <2>9, <2>10, InsertFits
<1> QED  BY <1>1, <1>2

LEMMA ChangeByteFits ==
  ASSUME NEW d \in Seq(Bytes), NEW n \in 1..Len(d), NEW max \in 1..Len(d),
         NEW r \in ChangeByte(d, n, max)
  PROVE  Fits(d, n, max, r) /\ r.entry = <<>>
<1>1. CASE n > max
  BY <1>1, FailsFit DEF ChangeByte
<1>2. CASE ~(n > max)
  <2>1. PICK at \in Rand(n), b \in Bytes : r = Result(Overwrite(d, at, <<b>>), n)
    <3>1. r \in Changed(d, n)
      BY <1>2, Split, Zenon
    <3> QED  BY <3>1, DrawByte, Zenon
  <2>2. at \in Nat /\ at + 1 <= n
    BY <2>1, Rands
  <2>3. <<b>> \in Seq(Bytes) /\ Len(<<b>>) = 1
    OBVIOUS
  <2> QED  BY <2>1, <2>2, <2>3, OverwriteFits
<1> QED  BY <1>1, <1>2

LEMMA IntegerFits ==
  ASSUME NEW d \in Seq(Bytes), NEW n \in 1..Len(d), NEW max \in 1..Len(d),
         NEW r \in ChangeASCIIInteger(d, n, max)
  PROVE  Fits(d, n, max, r) /\ r.entry = <<>>
<1> DEFINE Starts == {at \in 0..n - 1 : d[at + 1] \in Digits}
           Run(at) == {e \in at + 1..n : \A i \in at + 1..e : d[i] \in Digits}
           Written(at) == {Result(Overwrite(d, at, s), n) : s \in [1..Max(Run(at)) - at -> Digits]}
<1>1. CASE r \in Fails(d)
  BY <1>1, FailsFit
<1>2. CASE r \notin Fails(d)
  <2>1. r \in UNION {Written(at) : at \in Starts}
    BY <1>2, Zenon DEF ChangeASCIIInteger
  <2>2. PICK at \in Starts : r \in Written(at)
    <3> HIDE DEF Written, Starts
    <3> QED  BY <2>1
  <2>3. PICK s \in [1..Max(Run(at)) - at -> Digits] : r = Result(Overwrite(d, at, s), n)
    <3> HIDE DEF Run
    <3> QED  BY <2>2
  <2>4. n \in Nat /\ at \in Nat /\ at + 1 <= n /\ d[at + 1] \in Digits
    BY <2>2
  <2>5. Run(at) \in SUBSET (1..n) /\ at + 1 \in Run(at)
    BY <2>4
  <2>6. Max(Run(at)) \in Run(at)
    <3> HIDE DEF Run
    <3> QED  BY <2>4, <2>5, Greatest
  <2> DEFINE m == Max(Run(at)) - at
  <2>7. m \in Nat /\ at + m <= n
    BY <2>4, <2>6
  <2> HIDE DEF m
  <2>8. s \in [1..m -> Bytes]
    <3>1. Digits \subseteq Bytes
      BY MutationAssumption
    <3> QED  BY <2>3, <3>1 DEF m
  <2>9. s \in Seq(Bytes) /\ Len(s) = m
    BY <2>7, <2>8, IsSeq
  <2> QED  BY <2>3, <2>4, <2>7, <2>9, OverwriteFits
<1> QED  BY <1>1, <1>2

Binaries(d, n, k) ==
  {Result(Overwrite(d, at, s), n) : at \in Rand(n - k + 1), s \in [1..k -> Bytes]}
IsBinary(d, n, k, r) ==
  \E at \in Rand(n - k + 1), s \in [1..k -> Bytes] : r = Result(Overwrite(d, at, s), n)
AllBinaries(d, n) ==
  UNION {IF n < k THEN Fails(d) ELSE Binaries(d, n, k) : k \in {1, 2, 4, 8}}

LEMMA DrawBinary ==
  ASSUME NEW d, NEW n, NEW max
  PROVE  /\ ChangeBinaryInteger(d, n, max) = IF n > max THEN Fails(d) ELSE AllBinaries(d, n)
         /\ \A k : \A r \in Binaries(d, n, k) : IsBinary(d, n, k, r)
<1>1. ChangeBinaryInteger(d, n, max) = IF n > max THEN Fails(d) ELSE AllBinaries(d, n)
  BY DEF ChangeBinaryInteger, AllBinaries, Binaries
<1>2. ASSUME NEW k, NEW r \in Binaries(d, n, k)
      PROVE  IsBinary(d, n, k, r)
  BY SMT DEF Binaries, IsBinary
<1> QED  BY <1>1, <1>2

LEMMA BinaryFits ==
  ASSUME NEW d \in Seq(Bytes), NEW n \in 1..Len(d), NEW max \in 1..Len(d),
         NEW r \in ChangeBinaryInteger(d, n, max)
  PROVE  Fits(d, n, max, r) /\ r.entry = <<>>
<1>1. CASE r \in Fails(d)
  BY <1>1, FailsFit
<1>2. CASE r \notin Fails(d)
  <2>1. r \in AllBinaries(d, n)
    BY <1>2, DrawBinary, Zenon
  <2>2. PICK k \in {1, 2, 4, 8} : r \in IF n < k THEN Fails(d) ELSE Binaries(d, n, k)
    BY <2>1, Zenon DEF AllBinaries
  <2>3. ~(n < k) /\ r \in Binaries(d, n, k)
    BY <1>2, <2>2, Zenon
  <2>4. PICK at \in Rand(n - k + 1), s \in [1..k -> Bytes] : r = Result(Overwrite(d, at, s), n)
    <3>1. IsBinary(d, n, k, r)
      BY <2>3, DrawBinary, Zenon
    <3> QED  BY <3>1, Zenon DEF IsBinary
  <2>5. n \in Nat /\ k \in Nat /\ k <= n
    BY <2>2, <2>3
  <2>6. at \in Nat /\ at + k <= n
    <3>1. n - k + 1 \in Int /\ n - k + 1 > 0
      BY <2>5
    <3>2. at \in Nat /\ at <= n - k + 1 - 1
      BY <2>4, <3>1, Rands
    <3> QED  BY <2>5, <3>2
  <2>7. s \in Seq(Bytes) /\ Len(s) = k
    BY <2>4, <2>5, IsSeq
  <2> QED  BY <2>4, <2>6, <2>7, OverwriteFits
<1> QED  BY <1>1, <1>2
-----------------------------------------------------------------------------
(* Parts of one unit in another one.                                       *)
PartOver(from, to, n, at, c) ==
  {Result(Overwrite(to, at, SubSeq(from, f + 1, f + Min({c + 1, Len(from)}))), n) :
     f \in Rand(Len(from) - Min({c + 1, Len(from)}) + 1)}

LEMMA CopyPartFits ==
  ASSUME NEW d \in Seq(Bytes), NEW n \in 1..Len(d), NEW max \in 1..Len(d),
         NEW from \in Seq(Bytes), from # <<>>, NEW r \in CopyPartOf(from, d, n)
  PROVE  Fits(d, n, max, r) /\ r.entry = <<>>
<1>1. r \in UNION {UNION {PartOver(from, d, n, at, c) : c \in Rand(n - at)} : at \in Rand(n)}
  BY Zenon DEF CopyPartOf, PartOver
<1>2. PICK at \in Rand(n) : r \in UNION {PartOver(from, d, n, at, c) : c \in Rand(n - at)}
  BY <1>1, Zenon
<1>3. PICK c \in Rand(n - at) : r \in PartOver(from, d, n, at, c)
  BY <1>2, Zenon
<1> DEFINE k == Min({c + 1, Len(from)})
<1>4. PICK f \in Rand(Len(from) - k + 1) : r = Result(Overwrite(d, at, SubSeq(from, f + 1, f + k)), n)
  BY <1>3, Zenon DEF PartOver
<1>5. n \in Nat /\ n > 0 /\ Len(from) \in Nat /\ Len(from) > 0
  OBVIOUS
<1>6. at \in Nat /\ at <= n - 1
  BY <1>2, <1>5, Rands
<1>7. c \in Nat /\ c <= n - at - 1
  <2>1. n - at \in Int /\ n - at > 0
    BY <1>5, <1>6
  <2> QED  BY <1>3, <2>1, Rands
<1>8. k \in Nat /\ k <= c + 1 /\ k <= Len(from)
  <2>1. k = IF c + 1 <= Len(from) THEN c + 1 ELSE Len(from)
    BY <1>5, <1>7, LargerOf, c + 1 \in Int, Len(from) \in Int
  <2> QED  BY <1>5, <1>7, <2>1
<1> HIDE DEF k
<1>9. f \in Nat /\ f + k <= Len(from)
  <2>1. Len(from) - k + 1 \in Int /\ Len(from) - k + 1 > 0
    BY <1>5, <1>8
  <2> DEFINE m == Len(from) - k + 1
  <2>2. f \in Rand(m) /\ m \in Int /\ m > 0
    BY <1>4, <2>1
  <2>3. f \in Nat /\ f <= m - 1
    <3> HIDE DEF m
    <3> QED  BY <2>2, Rands
  <2> QED  BY <1>5, <1>8, <2>3
<1> DEFINE s == SubSeq(from, f + 1, f + k)
<1>10. s \in Seq(Bytes) /\ Len(s) = k
  BY <1>8, <1>9
<1>11. r = Result(Overwrite(d, at, s), n)
  BY <1>4
<1> HIDE DEF s
<1>12. at + Len(s) <= n
  BY <1>5, <1>6, <1>7, <1>8, <1>10
<1> QED  BY <1>6, <1>10, <1>11, <1>12, OverwriteFits

PartIn(from, to, n, c) ==
  {Result(InsertBytes(to, n, at, SubSeq(from, f + 1, f + c + 1)), n + c + 1) :
     f \in Rand(Len(from) - c), at \in Rand(n + 1)}
IsPart(from, to, n, c, r) ==
  \E f \in Rand(Len(from) - c), at \in Rand(n + 1) :
    r = Result(InsertBytes(to, n, at, SubSeq(from, f + 1, f + c + 1)), n + c + 1)
PartsIn(from, to, n, max) ==
  UNION {PartIn(from, to, n, c) : c \in Rand(Min({max - n, Len(from)}))}

LEMMA DrawPart ==
  ASSUME NEW from, NEW to, NEW n, NEW max
  PROVE  /\ InsertPartOf(from, to, n, max) = IF n >= max THEN Fails(to) ELSE PartsIn(from, to, n, max)
         /\ \A c : \A r \in PartIn(from, to, n, c) : IsPart(from, to, n, c, r)
<1>1. InsertPartOf(from, to, n, max) = IF n >= max THEN Fails(to) ELSE PartsIn(from, to, n, max)
  BY DEF InsertPartOf, PartsIn, PartIn
<1>2. ASSUME NEW c, NEW r \in PartIn(from, to, n, c)
      PROVE  IsPart(from, to, n, c, r)
  BY SMT DEF PartIn, IsPart
<1> QED  BY <1>1, <1>2

LEMMA InsertPartFits ==
  ASSUME NEW d \in Seq(Bytes), NEW n \in 1..Len(d), NEW max \in 1..Len(d),
         NEW from \in Seq(Bytes), from # <<>>, NEW r \in InsertPartOf(from, d, n, max)
  PROVE  Fits(d, n, max, r) /\ r.entry = <<>>
<1>1. CASE n >= max
  BY <1>1, DrawPart, FailsFit
<1>2. CASE ~(n >= max)
  <2> DEFINE room == Min({max - n, Len(from)})
  <2>1. r \in PartsIn(from, d, n, max)
    BY <1>2, DrawPart, Zenon
  <2>2. PICK c \in Rand(room) : r \in PartIn(from, d, n, c)
    BY <2>1, Zenon DEF PartsIn
  <2>3. PICK f \in Rand(Len(from) - c), at \in Rand(n + 1) :
          r = Result(InsertBytes(d, n, at, SubSeq(from, f + 1, f + c + 1)), n + c + 1)
    <3>1. IsPart(from, d, n, c, r)
      BY <2>2, DrawPart, Zenon
    <3> QED  BY <3>1, Zenon DEF IsPart
  <2>4. n \in Nat /\ max \in Nat /\ n < max /\ Len(from) \in Nat /\ Len(from) > 0
    BY <1>2
  <2>5. room \in Nat /\ room > 0 /\ room <= max - n /\ room <= Len(from)
    <3>1. room = IF max - n <= Len(from) THEN max - n ELSE Len(from)
      BY LargerOf, max - n \in Int, Len(from) \in Int
    <3> QED  BY <2>4, <3>1
  <2> HIDE DEF room
  <2>6. c \in Nat /\ c + 1 <= max - n /\ c + 1 <= Len(from)
    <3>1. c \in Nat /\ c <= room - 1
      BY <2>2, <2>5, Rands
    <3> QED  BY <2>4, <2>5, <3>1
  <2>7. f \in Nat /\ f + c + 1 <= Len(from)
    <3>1. Len(from) - c \in Int /\ Len(from) - c > 0
      BY <2>4, <2>6
    <3>2. f \in Nat /\ f <= Len(from) - c - 1
      BY <2>3, <3>1, Rands
    <3> QED  BY <2>4, <2>6, <3>2
  <2>8. at \in Nat /\ at <= n
    BY <2>3, <2>4, Rands
  <2> DEFINE s == SubSeq(from, f + 1, f + c + 1)
  <2>9. s \in Seq(Bytes) /\ Len(s) = c + 1
    BY <2>6, <2>7
  <2>10. r = Result(InsertBytes(d, n, at, s), n + Len(s))
    <3>1. n + Len(s) = n + c + 1
      BY <2>4, <2>6, <2>9
    <3>2. r = Result(InsertBytes(d, n, at, s), n + c + 1)
      BY <2>3
    <3> HIDE DEF s
    <3> QED  BY <3>1, <3>2
  <2> HIDE DEF s
  <2>11. n + Len(s) <= max
    BY <2>4, <2>6, <2>9
  <2> QED  BY <2>8, <2>9, <2>10, <2>11, InsertFits
<1> QED  BY <1>1, <1>2

LEMMA CopyFits ==
  ASSUME NEW d \in Seq(Bytes), NEW n \in 1..Len(d), NEW max \in 1..Len(d),
         NEW r \in CopyPart(d, n, max)
  PROVE  Fits(d, n, max, r) /\ r.entry = <<>>
<1> DEFINE from == SubSeq(d, 1, n)
<1>1. from \in Seq(Bytes) /\ from # <<>>
  <2>1. from \in Seq(Bytes) /\ Len(from) = n /\ n > 0
    OBVIOUS
  <2> HIDE DEF from
  <2> QED  BY <2>1
<1> HIDE DEF from
<1>2. r \in Fails(d) \/ r \in CopyPartOf(from, d, n) \/ r \in InsertPartOf(from, d, n, max)
  BY Zenon DEF CopyPart, from
<1>3. CASE r \in Fails(d)
  BY <1>3, FailsFit
<1>4. CASE r \in CopyPartOf(from, d, n)
  BY <1>1, <1>4, CopyPartFits
<1>5. CASE r \in InsertPartOf(from, d, n, max)
  BY <1>1, <1>5, InsertPartFits
<1> QED  BY <1>2, <1>3, <1>4, <1>5

(* A prefix of each of the two units, their bytes in an order that keeps   *)
(* that of each.                                                           *)
CrossedAt(s, t, m, at) ==
  [i \in 1..m |-> IF i \in at THEN s[Cardinality(at \cap 1..i)] ELSE t[Cardinality(1..i \ at)]]
CrossPlaces(s, t, m) ==
  {at \in SUBSET (1..m) : /\ 1 \in at /\ Cardinality(at) <= Len(s)
                         /\ Cardinality(1..m \ at) <= Len(t)}
CrossedOf(s, t, m) == {CrossedAt(s, t, m, at) : at \in CrossPlaces(s, t, m)}

LEMMA CrossedSeq ==
  ASSUME NEW s \in Seq(Bytes), NEW t \in Seq(Bytes), NEW max \in Nat,
         NEW x \in Crossed(s, t, max)
  PROVE  x \in Seq(Bytes) /\ Len(x) \in 1..max
<1>1. x \in UNION {CrossedOf(s, t, m) : m \in 1..max}
  BY Zenon DEF Crossed, CrossedOf, CrossPlaces, CrossedAt
<1>2. PICK m \in 1..max : x \in CrossedOf(s, t, m)
  BY <1>1, Zenon
<1>3. PICK at \in CrossPlaces(s, t, m) : x = CrossedAt(s, t, m, at)
  BY <1>2, Zenon DEF CrossedOf
<1>4. /\ at \in SUBSET (1..m) /\ Cardinality(at) <= Len(s) /\ Cardinality(1..m \ at) <= Len(t)
      /\ m \in Nat /\ Len(s) \in Nat /\ Len(t) \in Nat
  <2>1. /\ at \in SUBSET (1..m) /\ Cardinality(at) <= Len(s) /\ Cardinality(1..m \ at) <= Len(t)
    BY <1>3, Zenon DEF CrossPlaces
  <2> QED  BY <2>1
<1>5. ASSUME NEW a \in SUBSET (1..m), NEW b \in SUBSET a, b # {}
      PROVE  Cardinality(b) \in 1..Cardinality(a) /\ Cardinality(a) \in Nat
  <2>1. IsFiniteSet(a) /\ Cardinality(a) \in Nat
    BY <1>4, UpToFinite
  <2>2. IsFiniteSet(b) /\ Cardinality(b) <= Cardinality(a)
    BY <2>1, FS_Subset
  <2>3. b \in SUBSET (1..m)
    OBVIOUS
  <2>4. Cardinality(b) \in Nat /\ Cardinality(b) # 0
    BY <1>4, <1>5, <2>3, UpToFinite
  <2> QED  BY <2>1, <2>2, <2>4
<1>6. ASSUME NEW i \in 1..m PROVE CrossedAt(s, t, m, at)[i] \in Bytes
  <2>1. CASE i \in at
    <3>1. at \cap 1..i \in SUBSET at /\ i \in at \cap 1..i
      BY <2>1
    <3>2. Cardinality(at \cap 1..i) \in 1..Cardinality(at) /\ Cardinality(at) \in Nat
      BY <1>4, <1>5, <3>1
    <3>3. Cardinality(at \cap 1..i) \in 1..Len(s)
      BY <1>4, <3>2
    <3>4. CrossedAt(s, t, m, at)[i] = s[Cardinality(at \cap 1..i)]
      BY <2>1, Zenon DEF CrossedAt
    <3> QED  BY <3>3, <3>4
  <2>2. CASE i \notin at
    <3>1. 1..i \ at \in SUBSET (1..m \ at) /\ i \in 1..i \ at
      BY <1>4, <2>2
    <3>2. 1..m \ at \in SUBSET (1..m)
      OBVIOUS
    <3>3. Cardinality(1..i \ at) \in 1..Cardinality(1..m \ at) /\ Cardinality(1..m \ at) \in Nat
      BY <1>5, <3>1, <3>2
    <3>4. Cardinality(1..i \ at) \in 1..Len(t)
      BY <1>4, <3>3
    <3>5. CrossedAt(s, t, m, at)[i] = t[Cardinality(1..i \ at)]
      BY <2>2, Zenon DEF CrossedAt
    <3> QED  BY <3>4, <3>5
  <2> QED  BY <2>1, <2>2
<1>7. CrossedAt(s, t, m, at) \in [1..m -> Bytes]
  <2>1. CrossedAt(s, t, m, at) = [i \in 1..m |-> CrossedAt(s, t, m, at)[i]]
    BY Zenon DEF CrossedAt
  <2> QED  BY <1>6, <2>1, Zenon
<1> QED  BY <1>3, <1>4, <1>7, IsSeq

LEMMA CrossFits ==
  ASSUME NEW d \in Seq(Bytes), NEW n \in 1..Len(d), NEW max \in 1..Len(d),
         cross \in Seq(Bytes), NEW r \in CrossOver(d, n, max)
  PROVE  Fits(d, n, max, r) /\ r.entry = <<>>
<1> DEFINE first == SubSeq(d, 1, n)
           both == {Result(Overwrite(d, 0, s), Len(s)) : s \in Crossed(first, cross, max)}
<1>1. first \in Seq(Bytes) /\ Len(d) \in Nat /\ max \in Nat /\ max <= Len(d) /\ n \in Nat
  OBVIOUS
<1>2. CASE r \in Fails(d)
  BY <1>1, <1>2, FailsFit
<1>3. CASE r \notin Fails(d)
  <2>1. /\ cross # <<>>
        /\ \/ r \in both
           \/ r \in {q \in InsertPartOf(cross, d, n, max) : q.size > 0}
           \/ r \in CopyPartOf(cross, d, n)
    BY <1>3, Zenon DEF CrossOver
  <2>2. CASE r \in both
    <3>1. PICK s \in Crossed(first, cross, max) : r = Result(Overwrite(d, 0, s), Len(s))
      <4> HIDE DEF first
      <4> QED  BY <2>2, Zenon
    <3>2. s \in Seq(Bytes) /\ Len(s) \in 1..max
      <4> HIDE DEF first
      <4> QED  BY <1>1, <3>1, CrossedSeq
    <3>3. 0 + Len(s) <= Len(d) /\ Len(s) \in Nat /\ Len(s) <= max /\ 0 \in Nat
      BY <1>1, <3>2
    <3>4. /\ Overwrite(d, 0, s) \in Seq(Bytes) /\ Len(Overwrite(d, 0, s)) = Len(d)
          /\ \A i \in 1..Len(d) :
               Overwrite(d, 0, s)[i] = IF i \in 0 + 1..0 + Len(s) THEN s[i - 0] ELSE d[i]
      <4>1. IsOver(Overwrite(d, 0, s), d, 0, s)
        BY <3>2, <3>3, Overwritten
      <4> QED  BY <4>1 DEF IsOver
    <3> DEFINE b == Overwrite(d, 0, s)
               m == Len(s)
    <3>5. \A i \in m + 1..Len(d) : b[i] = d[i]
      <4>1. \A i \in m + 1..Len(d) : i \in 1..Len(d) /\ i \notin 0 + 1..0 + m
        BY <1>1, <3>3
      <4> QED  BY <3>4, <4>1
    <3> HIDE DEF b, m
    <3>6. b \in Seq(Bytes) /\ Len(b) = Len(d) /\ m \in Nat /\ m <= max /\ r = Result(b, m)
      BY <3>1, <3>3, <3>4 DEF b, m
    <3> QED  BY <1>1, <3>5, <3>6, ResultFits
  <2>3. CASE r \in {q \in InsertPartOf(cross, d, n, max) : q.size > 0}
    <3>1. r \in InsertPartOf(cross, d, n, max)
      BY <2>3, Zenon
    <3> QED  BY <2>1, <3>1, InsertPartFits
  <2>4. CASE r \in CopyPartOf(cross, d, n)
    BY <2>1, <2>4, CopyPartFits
  <2> QED  BY <2>1, <2>2, <2>3, <2>4, Zenon
<1> QED  BY <1>2, <1>3
-----------------------------------------------------------------------------
(* Words of the dictionaries, and of the recent compares.                  *)
InsertedWord(d, n, de) ==
  {Result(InsertBytes(d, n, at, de.w), n + Len(de.w)) : at \in Positions(de, n, Rand(n + 1))}
OverwrittenWord(d, n, de) ==
  {Result(Overwrite(d, at, de.w), n) : at \in Positions(de, n, Rand(n + 1 - Len(de.w)))}

LEMMA ApplyFits ==
  ASSUME NEW d \in Seq(Bytes), NEW n \in 1..Len(d), NEW max \in 1..Len(d),
         NEW de \in Entry, NEW r \in ApplyDictionaryEntry(d, n, max, de)
  PROVE  Fits(d, n, max, r) /\ r.entry = <<>>
<1> DEFINE k == Len(de.w)
<1>1. /\ de.w \in Seq(Bytes) /\ k \in Nat /\ n \in Nat /\ max \in Nat
      /\ de.hint \in Nat \/ de.hint = NoHint
  BY DEF Entry
<1>2. CASE r \in Fails(d)
  BY <1>1, <1>2, FailsFit
<1>3. CASE r \notin Fails(d)
  <2>1. \/ ~(n + k > max) /\ r \in InsertedWord(d, n, de)
        \/ ~(k > n) /\ r \in OverwrittenWord(d, n, de)
    BY <1>3, Zenon DEF ApplyDictionaryEntry, InsertedWord, OverwrittenWord
  <2>2. CASE ~(n + k > max) /\ r \in InsertedWord(d, n, de)
    <3>1. PICK at \in Positions(de, n, Rand(n + 1)) : r = Result(InsertBytes(d, n, at, de.w), n + k)
      BY <2>2, Zenon DEF InsertedWord
    <3>2. at \in Nat /\ at <= n
      <4>1. CASE at \in Rand(n + 1)
        BY <1>1, <4>1, Rands
      <4>2. CASE HintFits(de, n) /\ at = de.hint
        BY <1>1, <4>2 DEF HintFits
      <4> QED  BY <3>1, <4>1, <4>2 DEF Positions
    <3>3. n + Len(de.w) <= max
      BY <1>1, <2>2
    <3> QED  BY <1>1, <3>1, <3>2, <3>3, InsertFits
  <2>3. CASE ~(k > n) /\ r \in OverwrittenWord(d, n, de)
    <3>1. PICK at \in Positions(de, n, Rand(n + 1 - k)) : r = Result(Overwrite(d, at, de.w), n)
      BY <2>3, Zenon DEF OverwrittenWord
    <3>2. at \in Nat /\ at + Len(de.w) <= n
      <4>1. CASE at \in Rand(n + 1 - k)
        <5>1. k <= n
          BY <1>1, <2>3
        <5> QED  BY <1>1, <4>1, <5>1, PlaceOf
      <4>2. CASE HintFits(de, n) /\ at = de.hint
        BY <1>1, <4>2 DEF HintFits
      <4> QED  BY <3>1, <4>1, <4>2 DEF Positions
    <3> QED  BY <1>1, <3>1, <3>2, OverwriteFits
  <2> QED  BY <2>1, <2>2, <2>3
<1> QED  BY <1>2, <1>3

LEMMA WithEntryFits ==
  ASSUME NEW d \in Seq(Bytes), NEW n \in 1..Len(d), NEW max \in 1..Len(d),
         NEW de \in Entry, NEW dict, NEW k, Names(<<dict, k, de>>),
         NEW r \in WithEntry(ApplyDictionaryEntry(d, n, max, de), dict, k, de)
  PROVE  Fits(d, n, max, r)
<1>1. PICK q \in ApplyDictionaryEntry(d, n, max, de) :
        r = IF q.size = 0 THEN q ELSE [q EXCEPT !.entry = <<dict, k, de>>]
  BY Zenon DEF WithEntry
<1>2. Fits(d, n, max, q)
  BY <1>1, ApplyFits
<1>3. r.buf = q.buf /\ r.size = q.size /\ r.entry \in {q.entry, <<dict, k, de>>}
  <2>1. CASE q.size = 0
    BY <1>1, <2>1
  <2>2. CASE q.size # 0
    <3>1. q \in Fails(d) \/ q \in InsertedWord(d, n, de) \/ q \in OverwrittenWord(d, n, de)
      BY <1>1, Zenon DEF ApplyDictionaryEntry, InsertedWord, OverwrittenWord
    <3>2. \E b, m : q = Result(b, m)
      BY <3>1, Zenon DEF Fails, InsertedWord, OverwrittenWord
    <3>3. PICK b, m : q = [buf |-> b, size |-> m, entry |-> <<>>]
      BY <3>2, Zenon DEF Result
    <3>4. r = [buf |-> b, size |-> m, entry |-> <<dict, k, de>>]
      BY <1>1, <2>2, <3>3
    <3> QED  BY <3>3, <3>4
  <2> QED  BY <2>1, <2>2
<1>4. Names(r.entry)
  BY <1>2, <1>3 DEF Fits
<1> QED  BY <1>2, <1>3, <1>4 DEF Fits

LEMMA FromDictionaryFits ==
  ASSUME NEW d \in Seq(Bytes), NEW n \in 1..Len(d), NEW max \in 1..Len(d),
         NEW D \in Seq(Entry), NEW dict, \A k \in DOMAIN D : Names(<<dict, k, D[k]>>),
         NEW r \in AddWordFromDictionary(D, dict, d, n, max)
  PROVE  Fits(d, n, max, r)
<1>1. CASE r \in Fails(d)
  BY <1>1, FailsFit
<1>2. CASE r \notin Fails(d)
  <2>1. r \in UNION {WithEntry(ApplyDictionaryEntry(d, n, max, D[k]), dict, k, D[k]) : k \in DOMAIN D}
    BY <1>2, Zenon DEF AddWordFromDictionary
  <2>2. PICK k \in DOMAIN D : r \in WithEntry(ApplyDictionaryEntry(d, n, max, D[k]), dict, k, D[k])
    BY <2>1, Zenon
  <2>3. D[k] \in Entry
    BY <2>2
  <2> QED  BY <2>2, <2>3, WithEntryFits
<1> QED  BY <1>1, <1>2

Near(words, places) == {[w |-> v, hint |-> at] : v \in words, at \in places}
Anywhere(words) == {[w |-> v, hint |-> NoHint] : v \in words}
Guess(d, n, x, y) ==
  IF Found(d, n, x) # {} THEN Near(Mutations[y], Found(d, n, x))
  ELSE IF Found(d, n, y) # {} THEN Near(Mutations[x], Found(d, n, y))
  ELSE Anywhere(Mutations[x])

LEMMA Guesses ==
  ASSUME NEW a, NEW b, NEW d, NEW n
  PROVE  MakeDictionaryEntryFromCMP(a, b, d, n) = Guess(d, n, a, b) \cup Guess(d, n, b, a)
BY DEF MakeDictionaryEntryFromCMP, Guess, Near, Anywhere

LEMMA NearEntry ==
  ASSUME NEW words, words \subseteq Seq(Bytes), NEW places, places \subseteq Nat
  PROVE  Near(words, places) \subseteq Entry /\ Anywhere(words) \subseteq Entry
BY DEF Near, Anywhere, Entry

LEMMA GuessEntry ==
  ASSUME NEW d \in Seq(Bytes), NEW n \in 1..Len(d), NEW x \in Seq(Bytes), NEW y \in Seq(Bytes),
         Mutations[x] \subseteq Seq(Bytes), Mutations[y] \subseteq Seq(Bytes),
         NEW de \in Guess(d, n, x, y)
  PROVE  de \in Entry
<1>1. \A v \in Seq(Bytes) : Found(d, n, v) \subseteq Nat
  BY DEF Found
<1>2. CASE Found(d, n, x) # {}
  <2>1. de \in Near(Mutations[y], Found(d, n, x))
    BY <1>2, Zenon DEF Guess
  <2> QED  BY <1>1, <2>1, NearEntry
<1>3. CASE Found(d, n, x) = {} /\ Found(d, n, y) # {}
  <2>1. de \in Near(Mutations[x], Found(d, n, y))
    BY <1>3, Zenon DEF Guess
  <2> QED  BY <1>1, <2>1, NearEntry
<1>4. CASE Found(d, n, x) = {} /\ Found(d, n, y) = {}
  <2>1. de \in Anywhere(Mutations[x])
    BY <1>4, Zenon DEF Guess
  <2> QED  BY <1>1, <2>1, NearEntry
<1> QED  BY <1>2, <1>3, <1>4

LEMMA TORCFits ==
  ASSUME NEW d \in Seq(Bytes), NEW n \in 1..Len(d), NEW max \in 1..Len(d),
         NEW r \in AddWordFromTORC(d, n, max)
  PROVE  Fits(d, n, max, r)
<1> DEFINE guesses == UNION {MakeDictionaryEntryFromCMP(c[1], c[2], d, n) : c \in Compares}
           seen == {[w |-> w, hint |-> NoHint] : w \in MemMemWords}
           used == {e \in guesses \cup seen : e.w # <<>>}
           From(de) == WithEntry(ApplyDictionaryEntry(d, n, max, de), "cmp", 0, de)
<1>1. CASE r \in Fails(d)
  BY <1>1, FailsFit
<1>2. CASE r \notin Fails(d)
  <2>1. r \in UNION {From(de) : de \in used}
    BY <1>2, Zenon DEF AddWordFromTORC
  <2>2. PICK de \in used : r \in From(de)
    <3> HIDE DEF used, From
    <3> QED  BY <2>1, Zenon
  <2>3. de \in Entry
    <3>1. CASE de \in guesses
      <4>1. PICK c \in Compares : de \in MakeDictionaryEntryFromCMP(c[1], c[2], d, n)
        BY <3>1, Zenon
      <4>2. /\ c[1] \in Seq(Bytes) /\ Mutations[c[1]] \subseteq Seq(Bytes)
            /\ c[2] \in Seq(Bytes) /\ Mutations[c[2]] \subseteq Seq(Bytes)
        BY MutationAssumption
      <4>3. de \in Guess(d, n, c[1], c[2]) \/ de \in Guess(d, n, c[2], c[1])
        BY <4>1, Guesses, Zenon
      <4> QED  BY <4>2, <4>3, GuessEntry
    <3>2. CASE de \in seen
      <4>1. PICK w \in MemMemWords : de = [w |-> w, hint |-> NoHint]
        BY <3>2
      <4>2. w \in Seq(Bytes)
        BY MutationAssumption
      <4> QED  BY <4>1, <4>2 DEF Entry
    <3> QED  BY <2>2, <3>1, <3>2, Zenon
  <2>4. Names(<<"cmp", 0, de>>)
    BY <2>3, Zenon DEF Names
  <2> QED  BY <2>2, <2>3, <2>4, WithEntryFits
<1> QED  BY <1>1, <1>2

LEMMA ManualWords ==
  /\ ManualEntries \in Seq(Entry) /\ Len(ManualEntries) = Len(ManualDictionary)
  /\ DOMAIN ManualEntries = DOMAIN ManualDictionary
<1>1. ManualDictionary \in Seq(Seq(Bytes))
  BY MutationAssumption
<1>2. \A k \in 1..Len(ManualDictionary) : [w |-> ManualDictionary[k], hint |-> NoHint] \in Entry
  BY <1>1 DEF Entry
<1>3. ManualEntries \in [1..Len(ManualDictionary) -> Entry] /\ Len(ManualDictionary) \in Nat
  BY <1>1, <1>2 DEF ManualEntries
<1>4. ManualEntries \in Seq(Entry) /\ Len(ManualEntries) = Len(ManualDictionary)
  BY <1>3, IsSeq
<1> QED  BY <1>1, <1>3, <1>4

(* Every mutator, with every random number.                                *)
LEMMA AllFit ==
  ASSUME NEW d \in Seq(Bytes), NEW n \in 1..Len(d), NEW max \in 1..Len(d),
         cross \in Seq(Bytes), auto \in Seq(Entry), NEW m \in Mutators,
         NEW r \in Results(m, d, n, max)
  PROVE  Fits(d, n, max, r)
<1>1. \A k \in DOMAIN auto : Names(<<"auto", k, auto[k]>>)
  BY Zenon DEF Names
<1>2. \A k \in DOMAIN ManualEntries : Names(<<"manual", k, ManualEntries[k]>>)
  BY Zenon DEF Names
<1>3. CASE m = "ShuffleBytes"
  <2>1. r \in ShuffleBytes(d, n, max)
    BY <1>3 DEF Results
  <2> QED  BY <2>1, ShuffleFits
<1>4. CASE m = "EraseBytes"
  <2>1. r \in EraseBytes(d, n, max)
    BY <1>4 DEF Results
  <2> QED  BY <2>1, EraseFits
<1>5. CASE m = "InsertByte"
  <2>1. r \in InsertByte(d, n, max)
    BY <1>5 DEF Results
  <2> QED  BY <2>1, InsertByteFits
<1>6. CASE m = "InsertRepeatedBytes"
  <2>1. r \in InsertRepeatedBytes(d, n, max)
    BY <1>6 DEF Results
  <2> QED  BY <2>1, InsertRepeatedFits
<1>7. CASE m = "ChangeByte"
  <2>1. r \in ChangeByte(d, n, max)
    BY <1>7 DEF Results
  <2> QED  BY <2>1, ChangeByteFits
<1>8. CASE m = "ChangeASCIIInt"
  <2>1. r \in ChangeASCIIInteger(d, n, max)
    BY <1>8 DEF Results
  <2> QED  BY <2>1, IntegerFits
<1>9. CASE m = "ChangeBinInt"
  <2>1. r \in ChangeBinaryInteger(d, n, max)
    BY <1>9 DEF Results
  <2> QED  BY <2>1, BinaryFits
<1>10. CASE m = "CopyPart"
  <2>1. r \in CopyPart(d, n, max)
    BY <1>10 DEF Results
  <2> QED  BY <2>1, CopyFits
<1>11. CASE m = "CrossOver"
  <2>1. r \in CrossOver(d, n, max)
    BY <1>11 DEF Results
  <2> QED  BY <2>1, CrossFits
<1>12. CASE m = "ManualDict"
  <2>1. r \in AddWordFromDictionary(ManualEntries, "manual", d, n, max)
    BY <1>12 DEF Results
  <2> QED  BY <1>2, <2>1, ManualWords, FromDictionaryFits
<1>13. CASE m = "PersAutoDict"
  <2>1. r \in AddWordFromDictionary(auto, "auto", d, n, max)
    BY <1>13 DEF Results
  <2> QED  BY <1>1, <2>1, FromDictionaryFits
<1>14. CASE m = "CMP"
  <2>1. r \in AddWordFromTORC(d, n, max)
    BY <1>14 DEF Results
  <2> QED  BY <2>1, TORCFits
<1> QED  BY <1>3, <1>4, <1>5, <1>6, <1>7, <1>8, <1>9, <1>10, <1>11, <1>12, <1>13, <1>14 DEF Mutators

-----------------------------------------------------------------------------
(* The places of the masked bytes.                                         *)
WithMasked(b, at, i) == IF b[i] THEN Append(at, i) ELSE at
Places(b, n) == {at \in Seq(1..n) : \A k \in DOMAIN at : b[at[k]]}

LEMMA MaskedPlaces ==
  ASSUME NEW b \in Seq(BOOLEAN), NEW m \in Nat
  PROVE  /\ Masked(b, m) \in Seq(1..m)
         /\ \A k \in DOMAIN Masked(b, m) : Masked(b, m)[k] \in DOMAIN b /\ b[Masked(b, m)[k]]
<1> DEFINE n == Min({m, Len(b)})
           T == Places(b, n)
           list == [i \in 1..n |-> i]
           fold == CHOOSE g : g = [s \in SUBSET (DOMAIN list) |->
                                     IF s = {} THEN <<>> ELSE WithMasked(b, g[s \ {Max(s)}], list[Max(s)])]
           step == [p \in 1..n |-> [at \in T |-> WithMasked(b, at, p)]]
<1>1. n \in Nat /\ n <= m /\ n <= Len(b) /\ Len(b) \in Nat
  <2>1. n = IF m <= Len(b) THEN m ELSE Len(b)
    BY LargerOf, m \in Int, Len(b) \in Int
  <2> QED  BY <2>1
<1>2. Masked(b, m) = fold[DOMAIN list]
  BY DEF Masked, WithMasked, FoldLeft, MapThenFoldSet
<1> HIDE DEF n
<1>3. <<>> \in T /\ DOMAIN list = 1..n
  BY DEF Places
<1>4. ASSUME NEW at \in T, NEW p \in 1..n PROVE WithMasked(b, at, p) \in T
  <2>1. at \in Seq(1..n) /\ \A k \in DOMAIN at : b[at[k]]
    BY DEF Places
  <2>2. CASE b[p]
    <3>1. Append(at, p) \in Seq(1..n) /\ Len(Append(at, p)) = Len(at) + 1
      BY <2>1
    <3>2. \A k \in DOMAIN Append(at, p) : b[Append(at, p)[k]]
      BY <2>1, <2>2, <3>1
    <3> QED  BY <2>2, <3>1, <3>2 DEF WithMasked, Places
  <2>3. CASE ~b[p]
    BY <2>3 DEF WithMasked
  <2> QED  BY <2>2, <2>3
<1> HIDE DEF T
<1>5. step \in [1..n -> [T -> T]]
  BY <1>4
<1>6. PICK g \in [SUBSET (1..n) -> T] :
        g = [s \in SUBSET (1..n) |-> IF s = {} THEN <<>> ELSE step[Max(s)][g[But(s)]]]
  <2> HIDE DEF step
  <2>1. Folds(n, T, <<>>, step, SUBSET (1..n))
    BY <1>1, <1>3, <1>5, FoldExists
  <2> QED  BY <2>1 DEF Folds
<1>7. g = [s \in SUBSET (DOMAIN list) |->
             IF s = {} THEN <<>> ELSE WithMasked(b, g[s \ {Max(s)}], list[Max(s)])]
  <2>1. ASSUME NEW s \in SUBSET (1..n), s # {}
        PROVE  step[Max(s)][g[But(s)]] = WithMasked(b, g[s \ {Max(s)}], list[Max(s)])
    <3>1. Max(s) \in 1..n /\ But(s) \in SUBSET (1..n)
      BY <1>1, <2>1, ButGreatest
    <3>2. g[But(s)] \in T
      BY <3>1
    <3> QED  BY <3>1, <3>2 DEF But
  <2> HIDE DEF step, list
  <2> QED  BY <1>3, <1>6, <2>1
<1>8. fold = [s \in SUBSET (DOMAIN list) |->
                IF s = {} THEN <<>> ELSE WithMasked(b, fold[s \ {Max(s)}], list[Max(s)])]
  <2> HIDE DEF list
  <2> QED  BY <1>7
<1> DEFINE Wrong == {s \in SUBSET (1..n) : fold[s] \notin T}
<1>9. Wrong = {}
  <2> HIDE DEF fold
  <2>1. \A s \in SUBSET (1..n) : fold[s] = IF s = {} THEN <<>> ELSE WithMasked(b, fold[But(s)], list[Max(s)])
    <3> HIDE DEF list
    <3> QED  BY <1>3, <1>8 DEF But
  <2>2. {} \notin Wrong
    BY <1>3, <2>1
  <2>3. ASSUME NEW s \in Wrong PROVE But(s) \in Wrong
    <3>1. s # {} /\ s \in SUBSET (1..n)
      BY <2>2
    <3>2. But(s) \in SUBSET (1..n) /\ Max(s) \in 1..n
      BY <1>1, <3>1, ButGreatest
    <3>3. fold[s] = WithMasked(b, fold[But(s)], Max(s)) /\ fold[s] \notin T
      BY <2>1, <3>1, <3>2
    <3> QED  BY <1>4, <3>2, <3>3
  <2>4. Wrong \in SUBSET SUBSET (1..n)
    OBVIOUS
  <2> HIDE DEF Wrong
  <2> QED  BY <1>1, <2>2, <2>3, <2>4, OneByOne
<1>10. Masked(b, m) \in T
  <2> HIDE DEF fold, list
  <2> QED  BY <1>2, <1>3, <1>9
<1>11. Masked(b, m) \in Seq(1..n) /\ \A k \in DOMAIN Masked(b, m) : b[Masked(b, m)[k]]
  BY <1>10 DEF T, Places
<1> DEFINE a == Masked(b, m)
<1>12. a \in Seq(1..m)
  <2> HIDE DEF a
  <2>1. a \in Seq(1..n)
    BY <1>11 DEF a
  <2>2. 1..n \subseteq 1..m
    BY <1>1
  <2> QED  BY <2>1, <2>2, SeqWider
<1>13. \A k \in DOMAIN a : a[k] \in DOMAIN b
  <2> HIDE DEF a
  <2>1. a \in Seq(1..n)
    BY <1>11 DEF a
  <2>2. 1..n \subseteq DOMAIN b
    BY <1>1
  <2> QED  BY <2>1, <2>2, SeqWider
<1> QED  BY <1>11, <1>12, <1>13

(* What a success makes of the automatic dictionary.                       *)
LEMMA WordEntry ==
  ASSUME DictTypes, NEW ref \in Refs
  PROVE  Word(ref) \in Entry
<1>1. CASE ref \in {"cmp"} \X (1..CmpRingSize)
  <2>1. ref[1] = "cmp" /\ ref[2] \in 1..CmpRingSize
    BY <1>1
  <2> QED  BY <2>1 DEF DictTypes, Word
<1>2. CASE ref \in {"auto"} \X DOMAIN auto
  <2>1. ref[1] = "auto" /\ ref[2] \in DOMAIN auto
    BY <1>2
  <2> QED  BY <2>1 DEF DictTypes, Word
<1>3. CASE ref \in {"manual"} \X DOMAIN ManualDictionary
  <2>1. ref[1] = "manual" /\ ref[2] \in DOMAIN ManualEntries
    BY <1>3, ManualWords
  <2> QED  BY <2>1, ManualWords DEF Word
<1> QED  BY <1>1, <1>2, <1>3 DEF Refs

Recorded(D) ==
  /\ D \in Seq(Entry) /\ Len(auto) <= Len(D) /\ Len(D) <= MaxDictSize
  /\ \A k \in DOMAIN auto : D[k] = auto[k]
  /\ \A j, k \in DOMAIN D : D[j].w = D[k].w => j = k

LEMMA AddRecorded ==
  ASSUME DictTypes, NEW D, Recorded(D), NEW de \in Entry
  PROVE  Recorded(AddEntry(D, de))
<1>1. CASE ContainsWord(D, de.w) \/ Len(D) >= MaxDictSize
  BY <1>1 DEF AddEntry
<1>2. CASE ~(ContainsWord(D, de.w) \/ Len(D) >= MaxDictSize)
  <2> DEFINE E == Append(D, de)
  <2>1. /\ D \in Seq(Entry) /\ E \in Seq(Entry) /\ Len(E) = Len(D) + 1 /\ Len(D) \in Nat
        /\ E[Len(D) + 1] = de /\ \A k \in 1..Len(D) : E[k] = D[k]
    BY DEF Recorded
  <2>2. Len(auto) <= Len(E) /\ Len(E) <= MaxDictSize
    <3>1. MaxDictSize \in Nat /\ Len(auto) \in Nat /\ Len(auto) <= Len(D) /\ ~(Len(D) >= MaxDictSize)
      BY <1>2, MutationAssumption DEF DictTypes, Recorded
    <3> QED  BY <2>1, <3>1
  <2>3. \A k \in DOMAIN auto : E[k] = auto[k]
    <3>1. \A k \in DOMAIN auto : k \in 1..Len(D) /\ D[k] = auto[k]
      BY <2>1 DEF DictTypes, Recorded
    <3> QED  BY <2>1, <3>1
  <2>4. \A k \in 1..Len(D) : D[k].w # de.w
    BY <1>2, <2>1 DEF ContainsWord
  <2>5. ASSUME NEW j \in 1..Len(D) + 1, NEW k \in 1..Len(D) + 1, E[j].w = E[k].w
        PROVE  j = k
    <3>1. CASE j \in 1..Len(D) /\ k \in 1..Len(D)
      <4>1. E[j] = D[j] /\ E[k] = D[k] /\ j \in DOMAIN D /\ k \in DOMAIN D
        BY <2>1, <3>1
      <4> HIDE DEF E
      <4> QED  BY <2>5, <4>1 DEF Recorded
    <3>2. CASE j = Len(D) + 1 /\ k \in 1..Len(D)
      <4> HIDE DEF E
      <4> QED  BY <2>1, <2>4, <2>5, <3>2
    <3>3. CASE j \in 1..Len(D) /\ k = Len(D) + 1
      <4> HIDE DEF E
      <4> QED  BY <2>1, <2>4, <2>5, <3>3
    <3>4. \A i \in 1..Len(D) + 1 : i \in 1..Len(D) \/ i = Len(D) + 1
      BY <2>1
    <3> QED  BY <3>1, <3>2, <3>3, <3>4
  <2> HIDE DEF E
  <2>6. DOMAIN E = 1..Len(D) + 1
    BY <2>1
  <2>7. Recorded(E)
    BY <2>1, <2>2, <2>3, <2>5, <2>6 DEF Recorded
  <2>8. AddEntry(D, de) = E
    BY <1>2, Zenon DEF AddEntry, E
  <2> QED  BY <2>7, <2>8
<1> QED  BY <1>1, <1>2

LEMMA RecordRight ==
  ASSUME DictTypes, KnownOnce, RecordSuccessfulMutationSequence
  PROVE  Recorded(auto')
<1> DEFINE n == Len(entries)
           T == {D \in Seq(Entry) : Recorded(D)}
           Op(D, p) == AddEntry(D, Word(entries[p]))
           fold == CHOOSE g : g = [s \in SUBSET (DOMAIN entries) |->
                                     IF s = {} THEN auto ELSE Op(g[s \ {Max(s)}], Max(s))]
           step == [p \in 1..n |-> [D \in T |-> Op(D, p)]]
<1>1. n \in Nat /\ DOMAIN entries = 1..n /\ \A p \in 1..n : entries[p] \in Refs
  BY DEF DictTypes
<1>2. auto' = fold[DOMAIN entries]
  BY DEF RecordSuccessfulMutationSequence, FoldLeft, MapThenFoldSet
<1>3. auto \in T
  BY DEF DictTypes, KnownOnce, Recorded
<1>4. ASSUME NEW D \in T, NEW p \in 1..n PROVE Op(D, p) \in T
  <2>1. Word(entries[p]) \in Entry
    BY <1>1, WordEntry
  <2>2. Recorded(Op(D, p))
    BY <2>1, AddRecorded
  <2> QED  BY <2>2 DEF Recorded
<1> HIDE DEF T, Op, n
<1>5. step \in [1..n -> [T -> T]]
  BY <1>4
<1>6. PICK g \in [SUBSET (1..n) -> T] :
        g = [s \in SUBSET (1..n) |-> IF s = {} THEN auto ELSE step[Max(s)][g[But(s)]]]
  <2> HIDE DEF step
  <2>1. Folds(n, T, auto, step, SUBSET (1..n))
    BY <1>1, <1>3, <1>5, FoldExists
  <2> QED  BY <2>1 DEF Folds
<1>7. g = [s \in SUBSET (DOMAIN entries) |-> IF s = {} THEN auto ELSE Op(g[s \ {Max(s)}], Max(s))]
  <2>1. ASSUME NEW s \in SUBSET (1..n), s # {}
        PROVE  step[Max(s)][g[But(s)]] = Op(g[s \ {Max(s)}], Max(s))
    <3>1. Max(s) \in 1..n /\ But(s) \in SUBSET (1..n)
      BY <1>1, <2>1, ButGreatest
    <3>2. g[But(s)] \in T
      BY <3>1
    <3> QED  BY <3>1, <3>2 DEF But
  <2> HIDE DEF step
  <2> QED  BY <1>1, <1>6, <2>1
<1>8. fold = [s \in SUBSET (DOMAIN entries) |-> IF s = {} THEN auto ELSE Op(fold[s \ {Max(s)}], Max(s))]
  BY <1>7
<1> DEFINE Wrong == {s \in SUBSET (1..n) : fold[s] \notin T}
<1>9. Wrong = {}
  <2> HIDE DEF fold
  <2>1. \A s \in SUBSET (1..n) : fold[s] = IF s = {} THEN auto ELSE Op(fold[But(s)], Max(s))
    BY <1>1, <1>8 DEF But
  <2>2. {} \notin Wrong
    BY <1>3, <2>1
  <2>3. ASSUME NEW s \in Wrong PROVE But(s) \in Wrong
    <3>1. s # {} /\ s \in SUBSET (1..n)
      BY <2>2
    <3>2. But(s) \in SUBSET (1..n) /\ Max(s) \in 1..n
      BY <1>1, <3>1, ButGreatest
    <3>3. fold[s] = Op(fold[But(s)], Max(s)) /\ fold[s] \notin T
      BY <2>1, <3>1
    <3> QED  BY <1>4, <3>2, <3>3
  <2>4. Wrong \in SUBSET SUBSET (1..n)
    OBVIOUS
  <2> HIDE DEF Wrong
  <2> QED  BY <1>1, <2>2, <2>3, <2>4, OneByOne
<1>10. auto' \in T
  <2> HIDE DEF fold
  <2> QED  BY <1>1, <1>2, <1>9
<1> QED  BY <1>10 DEF T

-----------------------------------------------------------------------------
(* The invariant about the entries, for given values of the variables.     *)
LaterIn(E, k) == {j \in DOMAIN E : j > k /\ E[j][1] = "cmp"}
WordOf(ref, R, D) ==
  CASE ref[1] = "cmp" -> R[ref[2]]
    [] ref[1] = "auto" -> D[ref[2]]
    [] ref[1] = "manual" -> ManualEntries[ref[2]]
RightAt(E, R, x, D, ap, k) ==
  IF E[k][1] = "cmp"
    THEN /\ R[E[k][2]].w \in ToSet(ap)
         /\ Cardinality(LaterIn(E, k)) < CmpRingSize =>
              /\ E[k][2] + Cardinality(LaterIn(E, k)) \in {x, x + CmpRingSize}
              /\ R[E[k][2]].w = ap[k]
    ELSE WordOf(E[k], R, D).w = ap[k]
AllRight(E, R, x, D, ap) == \A k \in DOMAIN E : RightAt(E, R, x, D, ap, k)
Once(D) == \A j, k \in DOMAIN D : D[j].w = D[k].w => j = k
RefsOf(D) ==
  ({"cmp"} \X (1..CmpRingSize)) \cup ({"auto"} \X DOMAIN D)
    \cup ({"manual"} \X DOMAIN ManualDictionary)
DictOf(E, R, x, D, ap) ==
  /\ R \in [1..CmpRingSize -> Entry] /\ x \in 0..CmpRingSize - 1
  /\ D \in Seq(Entry) /\ Len(D) <= MaxDictSize
  /\ E \in Seq(RefsOf(D)) /\ ap \in Seq(Seq(Bytes)) /\ Len(ap) = Len(E)

LEMMA Unfolded ==
  /\ EntriesRight <=> AllRight(entries, ring, ringIdx, auto, applied)
  /\ EntriesRight' <=> AllRight(entries', ring', ringIdx', auto', applied')
  /\ KnownOnce <=> Once(auto)
  /\ KnownOnce' <=> Once(auto')
  /\ DictTypes <=> DictOf(entries, ring, ringIdx, auto, applied)
  /\ DictTypes' <=> DictOf(entries', ring', ringIdx', auto', applied')
<1>1. EntriesRight <=> AllRight(entries, ring, ringIdx, auto, applied)
  BY DEF EntriesRight, EntryRight, After, Later, Word, AllRight, RightAt, LaterIn, WordOf
<1>2. EntriesRight' <=> AllRight(entries', ring', ringIdx', auto', applied')
  BY DEF EntriesRight, EntryRight, After, Later, Word, ManualEntries, AllRight, RightAt, LaterIn, WordOf
<1>3. (KnownOnce <=> Once(auto)) /\ (KnownOnce' <=> Once(auto'))
  BY DEF KnownOnce, Once
<1>4. DictTypes <=> DictOf(entries, ring, ringIdx, auto, applied)
  BY DEF DictTypes, Refs, DictOf, RefsOf
<1>5. DictTypes' <=> DictOf(entries', ring', ringIdx', auto', applied')
  BY DEF DictTypes, Refs, DictOf, RefsOf
<1> QED  BY <1>1, <1>2, <1>3, <1>4, <1>5

DictsRight == DictTypes /\ EntriesRight /\ KnownOnce

LEMMA DictsSame ==
  ASSUME DictsRight, UNCHANGED dictVars
  PROVE  DictsRight'
<1>1. entries' = entries /\ ring' = ring /\ ringIdx' = ringIdx /\ auto' = auto /\ applied' = applied
  BY DEF dictVars
<1>2. DictTypes' /\ EntriesRight' /\ KnownOnce'
  BY <1>1, Unfolded DEF DictsRight
<1> QED  BY <1>2 DEF DictsRight

LEMMA DictsEmptied ==
  ASSUME DictsRight, ClearEntries, UNCHANGED <<ring, ringIdx, auto>>
  PROVE  DictsRight'
<1>1. entries' = <<>> /\ ring' = ring /\ ringIdx' = ringIdx /\ auto' = auto /\ applied' = <<>>
  BY DEF ClearEntries
<1>2. AllRight(entries', ring', ringIdx', auto', applied')
  BY <1>1 DEF AllRight
<1>3. DictOf(entries', ring', ringIdx', auto', applied')
  BY <1>1, Unfolded DEF DictsRight, DictOf
<1>4. DictTypes' /\ EntriesRight' /\ KnownOnce'
  BY <1>1, <1>2, <1>3, Unfolded DEF DictsRight
<1> QED  BY <1>4 DEF DictsRight

(* An entry of a dictionary is added to the sequence.                      *)
LEMMA RightBefore ==
  ASSUME NEW E, NEW R, NEW x, NEW D, NEW ap, DictOf(E, R, x, D, ap), NEW ref \in RefsOf(D), NEW w
  PROVE  /\ Append(E, ref) \in Seq(RefsOf(D)) /\ Len(Append(E, ref)) = Len(E) + 1
         /\ Len(E) \in Nat /\ Len(Append(ap, w)) = Len(E) + 1
         /\ \A k \in 1..Len(E) : /\ Append(E, ref)[k] = E[k] /\ Append(ap, w)[k] = ap[k]
                                /\ E[k] \in RefsOf(D)
         /\ Append(E, ref)[Len(E) + 1] = ref /\ Append(ap, w)[Len(E) + 1] = w
         /\ w \in ToSet(Append(ap, w)) /\ ToSet(ap) \subseteq ToSet(Append(ap, w))
<1>1. E \in Seq(RefsOf(D)) /\ ap \in Seq(Seq(Bytes)) /\ Len(ap) = Len(E) /\ Len(E) \in Nat
  BY DEF DictOf
<1> DEFINE T == {w} \cup Seq(Bytes)
<1>2. ap \in Seq(T) /\ w \in T
  BY <1>1, SeqWider
<1> HIDE DEF T
<1>3. /\ Append(ap, w) \in Seq(T) /\ Len(Append(ap, w)) = Len(E) + 1
      /\ \A k \in 1..Len(E) : Append(ap, w)[k] = ap[k]
      /\ Append(ap, w)[Len(E) + 1] = w
  BY <1>1, <1>2
<1>4. /\ Append(E, ref) \in Seq(RefsOf(D)) /\ Len(Append(E, ref)) = Len(E) + 1
      /\ \A k \in 1..Len(E) : Append(E, ref)[k] = E[k] /\ E[k] \in RefsOf(D)
      /\ Append(E, ref)[Len(E) + 1] = ref
  BY <1>1
<1>5. DOMAIN Append(ap, w) = 1..Len(E) + 1 /\ DOMAIN ap = 1..Len(E)
  BY <1>1, <1>3
<1>6. w \in ToSet(Append(ap, w)) /\ ToSet(ap) \subseteq ToSet(Append(ap, w))
  <2>1. Len(E) + 1 \in 1..Len(E) + 1 /\ \A k \in 1..Len(E) : k \in 1..Len(E) + 1
    BY <1>1
  <2> QED  BY <1>3, <1>5, <2>1 DEF ToSet
<1> QED  BY <1>1, <1>3, <1>4, <1>6

LEMMA LaterAppended ==
  ASSUME NEW S, NEW E \in Seq(S), NEW ref \in S, NEW k \in 1..Len(E)
  PROVE  /\ Cardinality(LaterIn(E, k)) \in Nat
         /\ Cardinality(LaterIn(Append(E, ref), k)) =
              Cardinality(LaterIn(E, k)) + IF ref[1] = "cmp" THEN 1 ELSE 0
         /\ Cardinality(LaterIn(Append(E, ref), Len(E) + 1)) = 0
<1> DEFINE n == Len(E)
           F == Append(E, ref)
<1>1. /\ n \in Nat /\ DOMAIN E = 1..n /\ DOMAIN F = 1..n + 1
      /\ F[n + 1] = ref /\ \A j \in 1..n : F[j] = E[j]
  OBVIOUS
<1> HIDE DEF F
<1>2. LaterIn(E, k) \in SUBSET (1..n)
  BY <1>1 DEF LaterIn
<1>3. IsFiniteSet(LaterIn(E, k)) /\ Cardinality(LaterIn(E, k)) \in Nat
  BY <1>1, <1>2, UpToFinite
<1>4. LaterIn(F, n + 1) = {}
  BY <1>1 DEF LaterIn
<1>5. Cardinality(LaterIn(F, n + 1)) = 0
  BY <1>4, FS_EmptySet
<1>6. LaterIn(F, k) = LaterIn(E, k) \cup IF ref[1] = "cmp" THEN {n + 1} ELSE {}
  <2>1. ASSUME NEW j \in 1..n PROVE j \in LaterIn(F, k) <=> j \in LaterIn(E, k)
    BY <1>1 DEF LaterIn
  <2>2. n + 1 \in LaterIn(F, k) <=> ref[1] = "cmp"
    BY <1>1 DEF LaterIn
  <2>3. LaterIn(F, k) \subseteq 1..n + 1 /\ LaterIn(E, k) \subseteq 1..n
    BY <1>1 DEF LaterIn
  <2>4. \A j \in 1..n + 1 : j \in 1..n \/ j = n + 1
    BY <1>1
  <2> HIDE DEF n
  <2> QED  BY <2>1, <2>2, <2>3, <2>4
<1>7. Cardinality(LaterIn(F, k)) = Cardinality(LaterIn(E, k)) + IF ref[1] = "cmp" THEN 1 ELSE 0
  <2>1. CASE ref[1] = "cmp"
    <3>1. LaterIn(F, k) = LaterIn(E, k) \cup {n + 1} /\ n + 1 \notin LaterIn(E, k)
      BY <1>1, <1>2, <1>6, <2>1
    <3>2. Cardinality(LaterIn(E, k) \cup {n + 1}) = Cardinality(LaterIn(E, k)) + 1
      BY <1>3, <3>1, FS_AddElement
    <3> QED  BY <2>1, <3>1, <3>2
  <2>2. CASE ref[1] # "cmp"
    <3>1. LaterIn(F, k) = LaterIn(E, k)
      BY <1>6, <2>2
    <3> QED  BY <1>3, <2>2, <3>1
  <2> QED  BY <2>1, <2>2
<1> QED  BY <1>3, <1>5, <1>7 DEF F

LEMMA OldEntryAdded ==
  ASSUME NEW E, NEW R, NEW x, NEW D, NEW ap, DictOf(E, R, x, D, ap), AllRight(E, R, x, D, ap),
         NEW ref \in RefsOf(D), ref[1] # "cmp", WordOf(ref, R, D) \in Entry
  PROVE  /\ DictOf(Append(E, ref), R, x, D, Append(ap, WordOf(ref, R, D).w))
         /\ AllRight(Append(E, ref), R, x, D, Append(ap, WordOf(ref, R, D).w))
<1> DEFINE w == WordOf(ref, R, D).w
           F == Append(E, ref)
           q == Append(ap, w)
<1>1. /\ F \in Seq(RefsOf(D)) /\ Len(F) = Len(E) + 1 /\ Len(E) \in Nat /\ Len(q) = Len(E) + 1
      /\ \A k \in 1..Len(E) : F[k] = E[k] /\ q[k] = ap[k]
      /\ F[Len(E) + 1] = ref /\ q[Len(E) + 1] = w
      /\ ToSet(ap) \subseteq ToSet(q)
  BY RightBefore
<1>2. w \in Seq(Bytes)
  BY DEF Entry
<1>3. q \in Seq(Seq(Bytes))
  <2> HIDE DEF w
  <2> QED  BY <1>2 DEF DictOf
<1>4. DictOf(F, R, x, D, q)
  <2> HIDE DEF F, q
  <2> QED  BY <1>1, <1>3 DEF DictOf
<1>5. ASSUME NEW k \in 1..Len(E) PROVE RightAt(F, R, x, D, q, k)
  <2>1. RightAt(E, R, x, D, ap, k) /\ F[k] = E[k] /\ q[k] = ap[k]
    <3>1. k \in DOMAIN E
      BY DEF DictOf
    <3> QED  BY <1>1, <3>1 DEF AllRight
  <2>2. Cardinality(LaterIn(F, k)) = Cardinality(LaterIn(E, k)) /\ Cardinality(LaterIn(E, k)) \in Nat
    <3>1. E \in Seq(RefsOf(D))
      BY DEF DictOf
    <3>2. /\ Cardinality(LaterIn(E, k)) \in Nat
          /\ Cardinality(LaterIn(F, k)) = Cardinality(LaterIn(E, k)) + IF ref[1] = "cmp" THEN 1 ELSE 0
      BY <3>1, LaterAppended
    <3> HIDE DEF F
    <3> QED  BY <3>2
  <2> HIDE DEF F, q
  <2> QED  BY <1>1, <2>1, <2>2 DEF RightAt
<1>6. RightAt(F, R, x, D, q, Len(E) + 1)
  <2> HIDE DEF F, q
  <2> QED  BY <1>1 DEF RightAt, w
<1>7. AllRight(F, R, x, D, q)
  <2>1. DOMAIN F = 1..Len(E) + 1
    <3> HIDE DEF F
    <3> QED  BY <1>1
  <2>2. \A k \in 1..Len(E) + 1 : k \in 1..Len(E) \/ k = Len(E) + 1
    BY <1>1
  <2> HIDE DEF F, q
  <2> QED  BY <1>5, <1>6, <2>1, <2>2 DEF AllRight
<1> QED  BY <1>4, <1>7

LEMMA RingTurns ==
  ASSUME NEW N \in Nat \ {0}, NEW x \in 0..N - 1
  PROVE  /\ (x + 1) % N \in 0..N - 1
         /\ x + 1 \in {(x + 1) % N, ((x + 1) % N) + N}
         /\ \A p \in 1..N, c \in Nat :
              c + 1 < N /\ p + c \in {x, x + N} =>
                p # x + 1 /\ p + (c + 1) \in {(x + 1) % N, ((x + 1) % N) + N}
<1>1. (x + 1) % N = IF x + 1 = N THEN 0 ELSE x + 1
  <2>1. CASE x + 1 = N
    BY <2>1
  <2>2. CASE x + 1 # N
    BY <2>2
  <2> QED  BY <2>1, <2>2
<1> DEFINE y == (x + 1) % N
<1>2. y = IF x + 1 = N THEN 0 ELSE x + 1
  BY <1>1
<1> HIDE DEF y
<1>3. y \in 0..N - 1 /\ x + 1 \in {y, y + N}
  BY <1>2
<1>4. ASSUME NEW p \in 1..N, NEW c \in Nat, c + 1 < N, p + c \in {x, x + N}
      PROVE  p # x + 1 /\ p + (c + 1) \in {y, y + N}
  BY <1>2, <1>4
<1> QED  BY <1>3, <1>4 DEF y

LEMMA CmpEntryAdded ==
  ASSUME NEW E, NEW R, NEW x, NEW D, NEW ap, DictOf(E, R, x, D, ap), AllRight(E, R, x, D, ap),
         NEW de \in Entry
  PROVE  /\ DictOf(Append(E, <<"cmp", x + 1>>), [R EXCEPT ![x + 1] = de], (x + 1) % CmpRingSize,
                   D, Append(ap, de.w))
         /\ AllRight(Append(E, <<"cmp", x + 1>>), [R EXCEPT ![x + 1] = de], (x + 1) % CmpRingSize,
                     D, Append(ap, de.w))
<1> DEFINE N == CmpRingSize
           ref == <<"cmp", x + 1>>
           w == de.w
           F == Append(E, ref)
           q == Append(ap, w)
           S == [R EXCEPT ![x + 1] = de]
           y == (x + 1) % N
<1>1. /\ R \in [1..N -> Entry] /\ x \in 0..N - 1 /\ E \in Seq(RefsOf(D))
      /\ N \in Nat \ {0} /\ x + 1 \in 1..N
  BY MutationAssumption DEF DictOf
<1>2. ref \in RefsOf(D) /\ ref[1] = "cmp" /\ ref[2] = x + 1
  BY <1>1 DEF RefsOf
<1> HIDE DEF ref
<1>3. /\ F \in Seq(RefsOf(D)) /\ Len(F) = Len(E) + 1 /\ Len(E) \in Nat /\ Len(q) = Len(E) + 1
      /\ \A k \in 1..Len(E) : F[k] = E[k] /\ q[k] = ap[k] /\ E[k] \in RefsOf(D)
      /\ F[Len(E) + 1] = ref /\ q[Len(E) + 1] = w
      /\ w \in ToSet(q) /\ ToSet(ap) \subseteq ToSet(q)
  BY <1>2, RightBefore
<1>4. w \in Seq(Bytes)
  BY DEF Entry
<1>5. q \in Seq(Seq(Bytes))
  <2> HIDE DEF w
  <2> QED  BY <1>4 DEF DictOf
<1>6. S \in [1..N -> Entry] /\ S[x + 1] = de /\ \A p \in 1..N : p # x + 1 => S[p] = R[p]
  BY <1>1
<1>7. /\ y \in 0..N - 1 /\ x + 1 \in {y, y + N}
      /\ \A p \in 1..N, c \in Nat :
           c + 1 < N /\ p + c \in {x, x + N} => p # x + 1 /\ p + (c + 1) \in {y, y + N}
  <2> HIDE DEF N
  <2> QED  BY <1>1, RingTurns
<1> HIDE DEF S, y
<1>8. DictOf(F, S, y, D, q)
  <2> HIDE DEF F, q
  <2> QED  BY <1>3, <1>5, <1>6, <1>7 DEF DictOf
<1>9. ASSUME NEW k \in 1..Len(E) PROVE RightAt(F, S, y, D, q, k)
  <2> DEFINE c == Cardinality(LaterIn(E, k))
             cf == Cardinality(LaterIn(F, k))
  <2>1. RightAt(E, R, x, D, ap, k) /\ F[k] = E[k] /\ q[k] = ap[k] /\ E[k] \in RefsOf(D)
    <3>1. k \in DOMAIN E
      BY DEF DictOf
    <3> QED  BY <1>3, <3>1 DEF AllRight
  <2>2. cf = c + 1 /\ c \in Nat
    <3>1. /\ Cardinality(LaterIn(E, k)) \in Nat
          /\ Cardinality(LaterIn(F, k)) = Cardinality(LaterIn(E, k)) + IF ref[1] = "cmp" THEN 1 ELSE 0
      BY <1>1, <1>2, LaterAppended
    <3> HIDE DEF F
    <3> QED  BY <1>2, <3>1
  <2>3. CASE E[k][1] = "cmp"
    <3> DEFINE p == E[k][2]
    <3>1. p \in 1..N
      BY <2>1, <2>3 DEF RefsOf
    <3>2. /\ R[p].w \in ToSet(ap)
          /\ c < N => p + c \in {x, x + N} /\ R[p].w = ap[k]
      BY <2>1, <2>3 DEF RightAt
    <3> HIDE DEF F, q, c, cf, p
    <3>3. S[p].w \in ToSet(q)
      BY <1>3, <1>6, <3>1, <3>2 DEF w
    <3>4. cf < N => p + cf \in {y, y + N} /\ S[p].w = q[k]
      <4>1. SUFFICES ASSUME cf < N PROVE p + cf \in {y, y + N} /\ S[p].w = q[k]
        OBVIOUS
      <4>2. c < N /\ c + 1 < N
        BY <1>1, <2>2, <4>1
      <4>3. p + c \in {x, x + N} /\ R[p].w = ap[k]
        BY <3>2, <4>2
      <4>4. p # x + 1 /\ p + (c + 1) \in {y, y + N}
        BY <1>7, <2>2, <3>1, <4>2, <4>3
      <4> QED  BY <1>6, <2>1, <2>2, <3>1, <4>3, <4>4
    <3> QED  BY <2>1, <2>3, <3>3, <3>4 DEF RightAt, p, cf
  <2>4. CASE E[k][1] # "cmp"
    <3> HIDE DEF F, q, c, cf
    <3>1. WordOf(E[k], R, D).w = ap[k]
      BY <2>1, <2>4 DEF RightAt
    <3>2. WordOf(E[k], S, D) = WordOf(E[k], R, D)
      <4>1. E[k][1] \in {"auto", "manual"}
        BY <2>1, <2>4 DEF RefsOf
      <4> QED  BY <4>1 DEF WordOf
    <3> QED  BY <2>1, <2>4, <3>1, <3>2 DEF RightAt
  <2> QED  BY <2>3, <2>4
<1>10. RightAt(F, S, y, D, q, Len(E) + 1)
  <2> DEFINE cf == Cardinality(LaterIn(F, Len(E) + 1))
  <2>1. cf = 0
    <3>1. CASE Len(E) > 0
      <4>1. 1 \in 1..Len(E)
        BY <1>3, <3>1
      <4> QED  BY <1>1, <1>2, <4>1, LaterAppended
    <3>2. CASE Len(E) = 0
      <4>1. LaterIn(F, Len(E) + 1) = {}
        <5> HIDE DEF F
        <5>1. DOMAIN F = 1..1
          BY <1>3, <3>2
        <5> QED  BY <3>2, <5>1 DEF LaterIn
      <4> QED  BY <4>1, FS_EmptySet
    <3> QED  BY <1>3, <3>1, <3>2
  <2>2. S[ref[2]].w = w /\ ref[2] + 0 \in {y, y + N}
    BY <1>1, <1>2, <1>6, <1>7
  <2> HIDE DEF F, q, cf
  <2> QED  BY <1>2, <1>3, <2>1, <2>2 DEF RightAt, cf
<1>11. AllRight(F, S, y, D, q)
  <2>1. DOMAIN F = 1..Len(E) + 1
    <3> HIDE DEF F
    <3> QED  BY <1>3
  <2>2. \A k \in 1..Len(E) + 1 : k \in 1..Len(E) \/ k = Len(E) + 1
    BY <1>3
  <2> HIDE DEF F, q
  <2> QED  BY <1>9, <1>10, <2>1, <2>2 DEF AllRight
<1> QED  BY <1>8, <1>11 DEF S, y, ref

LEMMA Remembered ==
  ASSUME DictsRight, NEW e, Names(e), Remember(e), UNCHANGED auto
  PROVE  DictsRight'
<1>1. /\ DictOf(entries, ring, ringIdx, auto, applied)
      /\ AllRight(entries, ring, ringIdx, auto, applied) /\ Once(auto)
  BY Unfolded DEF DictsRight
<1>2. SUFFICES /\ DictOf(entries', ring', ringIdx', auto', applied')
               /\ AllRight(entries', ring', ringIdx', auto', applied')
  BY <1>1, Unfolded DEF DictsRight
<1>3. CASE e = <<>>
  <2>1. entries' = entries /\ ring' = ring /\ ringIdx' = ringIdx /\ applied' = applied
    BY <1>3 DEF Remember
  <2> QED  BY <1>1, <2>1
<1>4. CASE \E de \in Entry : e = <<"cmp", 0, de>>
  <2>1. PICK de \in Entry : e = <<"cmp", 0, de>>
    BY <1>4
  <2>2. e[1] = "cmp" /\ e[3] = de /\ e # <<>>
    BY <2>1
  <2>3. /\ entries' = Append(entries, <<"cmp", ringIdx + 1>>)
        /\ ring' = [ring EXCEPT ![ringIdx + 1] = de]
        /\ ringIdx' = (ringIdx + 1) % CmpRingSize /\ applied' = Append(applied, de.w)
    BY <2>2 DEF Remember, Slot
  <2>4. /\ DictOf(Append(entries, <<"cmp", ringIdx + 1>>), [ring EXCEPT ![ringIdx + 1] = de],
                  (ringIdx + 1) % CmpRingSize, auto, Append(applied, de.w))
        /\ AllRight(Append(entries, <<"cmp", ringIdx + 1>>), [ring EXCEPT ![ringIdx + 1] = de],
                    (ringIdx + 1) % CmpRingSize, auto, Append(applied, de.w))
    BY <1>1, CmpEntryAdded
  <2> QED  BY <2>3, <2>4, Zenon
<1>5. CASE \E k \in DOMAIN auto : e = <<"auto", k, auto[k]>>
  <2>1. PICK k \in DOMAIN auto : e = <<"auto", k, auto[k]>>
    BY <1>5
  <2> DEFINE ref == <<"auto", k>>
  <2>2. e[1] = "auto" /\ e[2] = k /\ e[3] = auto[k] /\ e # <<>>
    BY <2>1
  <2>3. ref[1] = "auto" /\ ref[2] = k /\ ref \in RefsOf(auto)
    BY <2>1 DEF RefsOf
  <2>4. WordOf(ref, ring, auto) = auto[k]
    <3> HIDE DEF ref
    <3> QED  BY <2>3 DEF WordOf
  <2>5. auto[k] \in Entry
    BY <1>1 DEF DictOf
  <2>6. /\ entries' = Append(entries, ref) /\ applied' = Append(applied, auto[k].w)
        /\ ring' = ring /\ ringIdx' = ringIdx
    BY <2>2 DEF Remember
  <2> HIDE DEF ref
  <2>7. /\ DictOf(Append(entries, ref), ring, ringIdx, auto, Append(applied, auto[k].w))
        /\ AllRight(Append(entries, ref), ring, ringIdx, auto, Append(applied, auto[k].w))
    BY <1>1, <2>3, <2>4, <2>5, OldEntryAdded
  <2> QED  BY <2>6, <2>7, Zenon
<1>6. CASE \E k \in DOMAIN ManualEntries : e = <<"manual", k, ManualEntries[k]>>
  <2>1. PICK k \in DOMAIN ManualEntries : e = <<"manual", k, ManualEntries[k]>>
    BY <1>6
  <2> DEFINE ref == <<"manual", k>>
  <2>2. e[1] = "manual" /\ e[2] = k /\ e[3] = ManualEntries[k] /\ e # <<>>
    BY <2>1
  <2>3. ref[1] = "manual" /\ ref[2] = k /\ ref \in RefsOf(auto)
    BY <2>1, ManualWords DEF RefsOf
  <2>4. WordOf(ref, ring, auto) = ManualEntries[k]
    <3> HIDE DEF ref
    <3> QED  BY <2>3 DEF WordOf
  <2>5. ManualEntries[k] \in Entry
    BY ManualWords
  <2>6. /\ entries' = Append(entries, ref) /\ applied' = Append(applied, ManualEntries[k].w)
        /\ ring' = ring /\ ringIdx' = ringIdx
    BY <2>2 DEF Remember
  <2> HIDE DEF ref
  <2>7. /\ DictOf(Append(entries, ref), ring, ringIdx, auto, Append(applied, ManualEntries[k].w))
        /\ AllRight(Append(entries, ref), ring, ringIdx, auto, Append(applied, ManualEntries[k].w))
    BY <1>1, <2>3, <2>4, <2>5, OldEntryAdded
  <2> QED  BY <2>6, <2>7, Zenon
<1> QED  BY <1>3, <1>4, <1>5, <1>6 DEF Names

LEMMA DictsRecorded ==
  ASSUME DictsRight, RecordSuccessfulMutationSequence, UNCHANGED <<entries, ring, ringIdx, applied>>
  PROVE  DictsRight'
<1>1. /\ DictOf(entries, ring, ringIdx, auto, applied)
      /\ AllRight(entries, ring, ringIdx, auto, applied)
      /\ entries' = entries /\ ring' = ring /\ ringIdx' = ringIdx /\ applied' = applied
  BY Unfolded DEF DictsRight
<1>2. Recorded(auto')
  BY RecordRight DEF DictsRight
<1>3. DOMAIN auto \subseteq DOMAIN auto'
  BY <1>1, <1>2 DEF DictOf, Recorded
<1>4. RefsOf(auto) \subseteq RefsOf(auto')
  BY <1>3 DEF RefsOf
<1>5. entries \in Seq(RefsOf(auto'))
  BY <1>1, <1>4, SeqWider DEF DictOf
<1>6. DictOf(entries', ring', ringIdx', auto', applied')
  BY <1>1, <1>2, <1>5 DEF DictOf, Recorded
<1>7. ASSUME NEW k \in DOMAIN entries PROVE RightAt(entries, ring, ringIdx, auto', applied, k)
  <2>1. RightAt(entries, ring, ringIdx, auto, applied, k) /\ entries[k] \in RefsOf(auto)
    BY <1>1 DEF AllRight, DictOf
  <2>2. WordOf(entries[k], ring, auto') = WordOf(entries[k], ring, auto)
    <3>1. CASE entries[k][1] = "auto"
      <4>1. entries[k][2] \in DOMAIN auto
        BY <2>1, <3>1 DEF RefsOf
      <4>2. auto'[entries[k][2]] = auto[entries[k][2]]
        BY <1>2, <4>1 DEF Recorded
      <4> QED  BY <3>1, <4>2 DEF WordOf
    <3>2. CASE entries[k][1] \in {"cmp", "manual"}
      BY <3>2 DEF WordOf
    <3>3. entries[k][1] \in {"auto", "cmp", "manual"}
      BY <2>1 DEF RefsOf
    <3> QED  BY <3>1, <3>2, <3>3
  <2> QED  BY <2>1, <2>2 DEF RightAt
<1>8. AllRight(entries', ring', ringIdx', auto', applied')
  BY <1>1, <1>7 DEF AllRight
<1>9. Once(auto')
  BY <1>2 DEF Recorded, Once
<1> QED  BY <1>6, <1>8, <1>9, Unfolded DEF DictsRight

-----------------------------------------------------------------------------
(* The buffer.                                                             *)
LEMMA Context ==
  ASSUME SeqTypes, cross \in options.case.units \cup {<<>>}
  PROVE  /\ Capacity \in Nat \ {0} /\ Tries \in Nat \ {0} /\ MutateDepth \in Nat \ {0}
         /\ options.case \in Cases /\ options.ascii \in BOOLEAN
         /\ options.case.mutators \subseteq Mutators
         /\ \A u \in options.case.units : u \in Seq(Bytes) /\ Len(u) \in 1..Capacity /\ u # <<>>
         /\ unit \in Seq(Bytes) /\ cross \in Seq(Bytes) /\ mask \in Seq(BOOLEAN)
<1>1. /\ Capacity \in Nat \ {0} /\ Tries \in Nat \ {0} /\ MutateDepth \in Nat \ {0}
  BY MutationAssumption
<1>2. options.case \in Cases /\ options.ascii \in BOOLEAN
  BY DEF SeqTypes
<1>3. /\ options.case.mutators \subseteq Mutators /\ options.case.masks \subseteq Seq(BOOLEAN)
      /\ \A u \in options.case.units : u \in Seq(Bytes) /\ Len(u) \in 1..Capacity
  <2> DEFINE c == options.case
  <2>1. c \in Cases
    BY <1>2
  <2> HIDE DEF c
  <2>2. /\ c.mutators \subseteq Mutators /\ c.masks \subseteq Seq(BOOLEAN)
        /\ \A u \in c.units : u \in Seq(Bytes) /\ Len(u) \in 1..Capacity
    BY <2>1, MutationAssumption
  <2> QED  BY <2>2 DEF c
<1>4. \A u \in options.case.units : u # <<>>
  BY <1>1, <1>3
<1>5. <<>> \in Seq(Bytes) /\ <<>> \in Seq(BOOLEAN)
  OBVIOUS
<1>6. unit \in Seq(Bytes) /\ cross \in Seq(Bytes) /\ mask \in Seq(BOOLEAN)
  BY <1>3, <1>5, Zenon DEF SeqTypes
<1> QED  BY <1>1, <1>2, <1>3, <1>4, <1>6

LEMMA Converted ==
  ASSUME NEW d \in Seq(Bytes), NEW n \in Nat
  PROVE  /\ ToASCII(d, n) \in Seq(Bytes) /\ Len(ToASCII(d, n)) = Len(d)
         /\ \A i \in 1..Len(d) :
              /\ i <= n => ASCII[ToASCII(d, n)[i]] = ToASCII(d, n)[i]
              /\ i > n => ToASCII(d, n)[i] = d[i]
<1>1. ASCII \in [Bytes -> Bytes] /\ \A b \in Bytes : ASCII[ASCII[b]] = ASCII[b]
  BY MutationAssumption
<1> DEFINE t == [i \in 1..Len(d) |-> IF i <= n THEN ASCII[d[i]] ELSE d[i]]
<1>2. ToASCII(d, n) = t
  BY DEF ToASCII
<1>3. t \in [1..Len(d) -> Bytes] /\ Len(d) \in Nat
  BY <1>1
<1>4. t \in Seq(Bytes) /\ Len(t) = Len(d)
  <2> HIDE DEF t
  <2> QED  BY <1>3, IsSeq
<1>5. \A i \in 1..Len(d) : /\ i <= n => ASCII[t[i]] = t[i]
                           /\ i > n => t[i] = d[i]
  BY <1>1
<1> QED  BY <1>2, <1>4, <1>5

(* Where the bytes of a buffer go.                                         *)
FromBuffer(buf, i) == i \in DOMAIN mask /\ mask[i] /\ \E k \in 1..Len(buf) : data'[i] = buf[k]

LEMMA BackRight ==
  ASSUME IInv, pc = "try", NEW buf \in Seq(Bytes), Len(buf) = Len(work.buf),
         NEW n \in 1..Len(buf), ~work.masked => n <= maxLen, PutBack(buf, n)
  PROVE  /\ data' \in Seq(Bytes) /\ Len(data') = Capacity
         /\ size' \in 1..Capacity /\ size' <= maxLen
         /\ ~work.masked => data' = buf /\ size' = n
         /\ work.masked => size' = size /\ \A i \in 1..Capacity : data'[i] = data[i] \/ FromBuffer(buf, i)
<1>1. /\ Capacity \in Nat /\ data \in Seq(Bytes) /\ Len(data) = Capacity
      /\ size \in 1..Capacity /\ maxLen \in 0..Capacity /\ mask \in Seq(BOOLEAN)
  BY Context, MutationAssumption DEF IInv, OnDuty, SeqTypes
<1>2. CASE ~work.masked
  <2>1. data' = buf /\ size' = n
    BY <1>2, Zenon DEF PutBack
  <2>2. Len(work.buf) = Capacity
    BY <1>2 DEF IInv, WorkRight
  <2>3. n \in Nat /\ n >= 1 /\ n <= Capacity /\ n <= maxLen
    BY <1>1, <1>2, <2>2
  <2> QED  BY <1>1, <1>2, <2>1, <2>2, <2>3
<1>3. CASE work.masked
  <2> DEFINE at == Masked(mask, size)
             b == [i \in 1..Capacity |->
                     IF \E k \in DOMAIN at : at[k] = i THEN buf[CHOOSE k \in DOMAIN at : at[k] = i]
                     ELSE data[i]]
  <2>1. data' = [i \in DOMAIN data |->
                     IF \E k \in DOMAIN at : at[k] = i THEN buf[CHOOSE k \in DOMAIN at : at[k] = i]
                     ELSE data[i]]
        /\ size' = size
    BY <1>3, Zenon DEF PutBack
  <2>2. data' = b
    <3>1. DOMAIN data = 1..Capacity
      BY <1>1
    <3> QED  BY <2>1, <3>1
  <2>3. /\ at \in Seq(1..size)
        /\ \A k \in DOMAIN at : at[k] \in DOMAIN mask /\ mask[at[k]]
    <3>1. size \in Nat /\ mask \in Seq(BOOLEAN)
      BY <1>1
    <3> QED  BY <3>1, MaskedPlaces, Zenon
  <2>4. size <= maxLen /\ Len(buf) = Len(at)
    BY <1>3 DEF IInv, WorkRight
  <2> HIDE DEF at
  <2>5. ASSUME NEW i \in 1..Capacity
        PROVE  /\ b[i] \in Bytes
               /\ \/ b[i] = data[i]
                  \/ i \in DOMAIN mask /\ mask[i] /\ \E k \in 1..Len(buf) : b[i] = buf[k]
    <3>1. CASE \E k \in DOMAIN at : at[k] = i
      <4> DEFINE k == CHOOSE k \in DOMAIN at : at[k] = i
      <4>1. k \in DOMAIN at /\ at[k] = i
        BY <3>1
      <4>2. b[i] = buf[k]
        BY <3>1
      <4>3. k \in 1..Len(buf)
        BY <2>3, <2>4, <4>1
      <4> HIDE DEF k, b
      <4>4. buf[k] \in Bytes
        BY <4>3
      <4> QED  BY <2>3, <4>1, <4>2, <4>3, <4>4
    <3>2. CASE ~\E k \in DOMAIN at : at[k] = i
      <4>1. b[i] = data[i]
        BY <3>2
      <4> QED  BY <1>1, <4>1
    <3> QED  BY <3>1, <3>2
  <2>6. b \in [1..Capacity -> Bytes]
    BY <2>5
  <2> HIDE DEF b
  <2>7. b \in Seq(Bytes) /\ Len(b) = Capacity
    BY <1>1, <2>6, IsSeq
  <2>8. \A i \in 1..Capacity : data'[i] = data[i] \/ FromBuffer(buf, i)
    BY <2>2, <2>5 DEF FromBuffer
  <2> QED  BY <1>1, <1>3, <2>1, <2>2, <2>4, <2>7, <2>8
<1> QED  BY <1>2, <1>3

-----------------------------------------------------------------------------
(* The steps.                                                              *)
MaskStays ==
  work.masked /\ pc' = "run" =>
    size' = size /\ \A i \in DOMAIN data : (i > Len(mask) \/ ~mask[i]) => data'[i] = data[i]

LEMMA MaskStaysSo ==
  ASSUME mask \in Seq(BOOLEAN), data \in Seq(Bytes), Len(data) = Capacity, NEW buf,
         work.masked => size' = size /\ \A i \in 1..Capacity : data'[i] = data[i] \/ FromBuffer(buf, i)
  PROVE  MaskStays
<1>1. \A i : FromBuffer(buf, i) => ~(i > Len(mask) \/ ~mask[i])
  BY DEF FromBuffer
<1>2. DOMAIN data = 1..Capacity
  OBVIOUS
<1> QED  BY <1>1, <1>2 DEF MaskStays

LEMMA Starts ==
  ASSUME NEW u \in Seq(Bytes), Len(u) \in 1..Capacity, data \in Seq(Bytes), Len(data) = Capacity,
         Capacity \in Nat, data' = Overwrite(data, 0, u), size' = Len(u)
  PROVE  /\ data' \in Seq(Bytes) /\ Len(data') = Capacity
         /\ size' \in 1..Capacity /\ \A i \in 1..size' : data'[i] = u[i]
<1>1. 0 + Len(u) <= Len(data) /\ Len(u) \in Nat /\ 0 \in Nat
  OBVIOUS
<1>2. /\ Overwrite(data, 0, u) \in Seq(Bytes) /\ Len(Overwrite(data, 0, u)) = Len(data)
      /\ \A i \in 1..Len(data) :
           Overwrite(data, 0, u)[i] = IF i \in 0 + 1..0 + Len(u) THEN u[i - 0] ELSE data[i]
  <2>1. IsOver(Overwrite(data, 0, u), data, 0, u)
    BY <1>1, Overwritten
  <2> QED  BY <2>1 DEF IsOver
<1>3. ASSUME NEW i \in 1..Len(u) PROVE Overwrite(data, 0, u)[i] = u[i]
  <2>1. i \in 1..Len(data) /\ i \in 0 + 1..0 + Len(u) /\ i - 0 = i
    BY <1>1
  <2> QED  BY <1>2, <2>1
<1> QED  BY <1>2, <1>3

LEMMA StartFuzzRight ==
  ASSUME IInv, StartFuzz
  PROVE  IInv'
<1> USE DEF IInv
<1>1. /\ caller = "fuzz" /\ ClearEntries /\ unit' \in options.case.units
      /\ mask' \in options.case.masks /\ cross' \in options.case.units \cup {<<>>}
      /\ data' = Overwrite(data, 0, unit') /\ size' = Len(unit')
      /\ maxLen' \in {Len(unit'), Capacity} /\ depth' = 0 /\ pc' = "mutate"
      /\ caller' = caller /\ options' = options /\ work' = work /\ iter' = iter
      /\ ring' = ring /\ ringIdx' = ringIdx /\ auto' = auto
  BY DEF StartFuzz, Corpus
<1>2. /\ Capacity \in Nat \ {0} /\ MutateDepth \in Nat \ {0}
      /\ unit' \in Seq(Bytes) /\ Len(unit') \in 1..Capacity /\ unit' # <<>>
  BY <1>1, Context DEF OnDuty
<1>3. /\ data' \in Seq(Bytes) /\ Len(data') = Capacity
      /\ size' \in 1..Capacity /\ \A i \in 1..size' : data'[i] = unit'[i]
  BY <1>1, <1>2, Starts DEF OnDuty
<1>4. DictsRight'
  BY <1>1, DictsEmptied DEF DictsRight
<1>5. SeqTypes'
  BY <1>1, <1>2 DEF SeqTypes
<1>6. OnDuty'
  BY <1>1, <1>2, <1>3 DEF OnDuty
<1>7. WorkRight'
  BY <1>1 DEF WorkRight
<1>8. ASCIIKept'
  <2>1. IsASCII(unit') => Plain(data', size')
    BY <1>1, <1>2, <1>3 DEF IsASCII, Plain
  <2> QED  BY <1>1, <2>1 DEF ASCIIKept
<1> QED  BY <1>4, <1>5, <1>6, <1>7, <1>8 DEF DictsRight

LEMMA StartMinimizeRight ==
  ASSUME IInv, StartMinimize
  PROVE  IInv'
<1> USE DEF IInv
<1>1. /\ caller = "minimize" /\ ClearEntries /\ unit' \in options.case.units
      /\ Len(unit') = Capacity /\ Len(unit') >= 2
      /\ data' = Overwrite(data, 0, unit') /\ size' = Len(unit')
      /\ maxLen' = Len(unit') - 1 /\ depth' = 0 /\ pc' = "mutate"
      /\ caller' = caller /\ options' = options /\ mask' = mask /\ cross' = cross
      /\ work' = work /\ iter' = iter /\ ring' = ring /\ ringIdx' = ringIdx /\ auto' = auto
  BY DEF StartMinimize
<1>2. /\ Capacity \in Nat \ {0} /\ MutateDepth \in Nat \ {0}
      /\ unit' \in Seq(Bytes) /\ Len(unit') \in 1..Capacity /\ unit' # <<>>
  BY <1>1, Context DEF OnDuty
<1>3. /\ data' \in Seq(Bytes) /\ Len(data') = Capacity /\ size' \in 1..Capacity
  BY <1>1, <1>2, Starts DEF OnDuty
<1>4. DictsRight'
  BY <1>1, DictsEmptied DEF DictsRight
<1>5. SeqTypes'
  BY <1>1, <1>2 DEF SeqTypes
<1>6. OnDuty'
  BY <1>1, <1>2, <1>3 DEF OnDuty
<1>7. WorkRight'
  BY <1>1 DEF WorkRight
<1>8. ASCIIKept'
  BY <1>1 DEF ASCIIKept
<1> QED  BY <1>4, <1>5, <1>6, <1>7, <1>8 DEF DictsRight

LEMMA MutateRight ==
  ASSUME IInv, Mutate
  PROVE  IInv'
<1> USE DEF IInv
<1>1. /\ pc = "mutate" /\ iter' = 0 /\ pc' = "try"
      /\ caller' = caller /\ options' = options /\ maxLen' = maxLen /\ unit' = unit
      /\ mask' = mask /\ data' = data /\ size' = size /\ cross' = cross /\ depth' = depth
      /\ UNCHANGED dictVars
  BY DEF Mutate, seqVars
<1>2. /\ Capacity \in Nat \ {0} /\ Tries \in Nat \ {0} /\ mask \in Seq(BOOLEAN)
      /\ data \in Seq(Bytes) /\ Len(data) = Capacity /\ size \in 1..Capacity
      /\ maxLen \in 0..Capacity
  BY <1>1, Context DEF OnDuty, SeqTypes
<1>3. DictsRight'
  BY <1>1, DictsSame DEF DictsRight
<1>4. SeqTypes'
  BY <1>1 DEF SeqTypes
<1>5. OnDuty'
  BY <1>1, <1>2 DEF OnDuty
<1>6. CASE caller = "fuzz" /\ MaskApplies
  <2> DEFINE at == Masked(mask, size)
             buf == [k \in DOMAIN at |-> data[at[k]]]
  <2>1. work' = [buf |-> buf, size |-> Len(at), max |-> Len(at), masked |-> TRUE]
    BY <1>6 DEF Mutate
  <2>2. at \in Seq(1..size)
    <3>1. size \in Nat
      BY <1>2
    <3> QED  BY <1>2, <3>1, MaskedPlaces, Zenon
  <2>3. at # <<>> /\ size <= maxLen
    BY <1>6 DEF MaskApplies
  <2> HIDE DEF at
  <2>4. Len(at) \in Nat /\ Len(at) >= 1 /\ DOMAIN at = 1..Len(at)
    BY <2>2, <2>3
  <2>5. \A k \in 1..Len(at) : at[k] \in 1..size
    <3> DEFINE T == 1..size
    <3>1. at \in Seq(T)
      BY <2>2
    <3> HIDE DEF T
    <3>2. \A k \in 1..Len(at) : at[k] \in T
      BY <2>4, <3>1
    <3> QED  BY <3>2 DEF T
  <2>6. buf \in [1..Len(at) -> Bytes] /\ \A k \in 1..Len(at) : buf[k] = data[at[k]]
    <3>1. \A k \in 1..Len(at) : data[at[k]] \in Bytes
      BY <1>2, <2>5
    <3> QED  BY <2>4, <3>1
  <2> HIDE DEF buf
  <2>7. buf \in Seq(Bytes) /\ Len(buf) = Len(at)
    BY <2>4, <2>6, IsSeq
  <2>8. /\ work'.buf = buf /\ work'.size = Len(at) /\ work'.max = Len(at) /\ work'.masked = TRUE
        /\ work' \in [buf : Seq(Bytes), size : Nat, max : Nat, masked : BOOLEAN]
    BY <2>1, <2>4, <2>7
  <2>9. WorkRight'
    <3>1. Len(work'.buf) = work'.max /\ work'.size \in 1..Len(work'.buf) /\ work'.size = work'.max
      BY <2>4, <2>7, <2>8
    <3>2. work'.max = Len(Masked(mask', size'))
      BY <1>1, <2>8 DEF at
    <3> QED  BY <1>1, <1>6, <2>3, <2>8, <3>1, <3>2 DEF WorkRight
  <2>10. ASCIIKept'
    <3>1. Plain(data, size) => Plain(work'.buf, work'.max)
      BY <2>5, <2>6, <2>8 DEF Plain
    <3> QED  BY <1>1, <3>1 DEF ASCIIKept
  <2> QED  BY <1>3, <1>4, <1>5, <2>9, <2>10 DEF DictsRight
<1>7. CASE ~(caller = "fuzz" /\ MaskApplies)
  <2>1. work' = [buf |-> data, size |-> size, max |-> maxLen, masked |-> FALSE]
    BY <1>7 DEF Mutate
  <2>2. /\ work'.buf = data /\ work'.size = size /\ work'.max = maxLen /\ work'.masked = FALSE
        /\ work' \in [buf : Seq(Bytes), size : Nat, max : Nat, masked : BOOLEAN]
    BY <1>2, <2>1
  <2>3. WorkRight'
    BY <1>1, <1>2, <2>2 DEF WorkRight
  <2>4. ASCIIKept'
    BY <1>1, <2>2 DEF ASCIIKept
  <2> QED  BY <1>3, <1>4, <1>5, <2>3, <2>4 DEF DictsRight
<1> QED  BY <1>6, <1>7

LEMMA TryRight ==
  ASSUME IInv, Try
  PROVE  IInv' /\ MaskStays
<1> USE DEF IInv
<1>0. PICK m \in options.case.mutators : \E r \in Results(m, work.buf, work.size, work.max) :
        /\ Remember(r.entry)
        /\ work' = [work EXCEPT !.buf = r.buf]
        /\ IF Accepts(r)
             THEN /\ PutBack(IF options.ascii THEN ToASCII(r.buf, r.size) ELSE r.buf, r.size)
                  /\ iter' = 0 /\ pc' = "run"
             ELSE iter' = iter + 1 /\ UNCHANGED <<data, size, pc>>
  BY Zenon DEF Try
<1>1. PICK r \in Results(m, work.buf, work.size, work.max) :
        /\ Remember(r.entry)
        /\ work' = [work EXCEPT !.buf = r.buf]
        /\ IF Accepts(r)
             THEN /\ PutBack(IF options.ascii THEN ToASCII(r.buf, r.size) ELSE r.buf, r.size)
                  /\ iter' = 0 /\ pc' = "run"
             ELSE iter' = iter + 1 /\ UNCHANGED <<data, size, pc>>
  BY <1>0, Zenon
<1>2. /\ pc = "try" /\ iter < Tries
      /\ caller' = caller /\ options' = options /\ maxLen' = maxLen /\ unit' = unit
      /\ mask' = mask /\ cross' = cross /\ depth' = depth /\ auto' = auto
  BY DEF Try, seqVars
<1>3. /\ Capacity \in Nat \ {0} /\ Tries \in Nat \ {0} /\ cross \in Seq(Bytes)
      /\ m \in Mutators /\ options.ascii \in BOOLEAN /\ auto \in Seq(Entry)
      /\ data \in Seq(Bytes) /\ Len(data) = Capacity /\ size \in 1..Capacity /\ size \in Nat
      /\ maxLen \in 1..Capacity /\ mask \in Seq(BOOLEAN)
  BY <1>0, <1>2, Context DEF OnDuty, SeqTypes, DictTypes
<1> DEFINE d == work.buf
           n == work.size
           max == work.max
<1>4. /\ d \in Seq(Bytes) /\ n \in 1..Len(d) /\ max \in 1..Len(d) /\ work.masked \in BOOLEAN
      /\ Len(d) = IF work.masked THEN max ELSE Capacity
  <2>1. /\ work \in [buf : Seq(Bytes), size : Nat, max : Nat, masked : BOOLEAN]
        /\ Len(d) = IF work.masked THEN max ELSE Capacity
        /\ n \in 1..Len(d) /\ (~work.masked => max = maxLen)
    BY <1>2 DEF WorkRight
  <2>2. /\ d \in Seq(Bytes) /\ n \in Nat /\ max \in Nat /\ work.masked \in BOOLEAN
        /\ Len(d) = IF work.masked THEN max ELSE Capacity
    BY <2>1
  <2>3. n \in 1..Len(d) /\ (~work.masked => max = maxLen)
    BY <2>1
  <2> HIDE DEF d, n, max
  <2>4. max \in 1..Len(d)
    <3>1. CASE work.masked
      <4>1. Len(d) = max /\ Len(d) \in Nat
        BY <2>2, <3>1
      <4> QED  BY <2>3, <4>1
    <3>2. CASE ~work.masked
      <4>1. Len(d) = Capacity /\ max = maxLen
        BY <2>2, <2>3, <3>2
      <4> QED  BY <1>3, <4>1
    <3> QED  BY <3>1, <3>2
  <2> QED  BY <2>2, <2>3, <2>4
<1> HIDE DEF d, n, max
<1>5. Fits(d, n, max, r)
  <2>1. r \in Results(m, d, n, max)
    BY <1>1 DEF d, n, max
  <2> QED  BY <1>3, <1>4, <2>1, AllFit
<1>6. /\ r.buf \in Seq(Bytes) /\ Len(r.buf) = Len(d) /\ r.size \in Nat
      /\ n <= max => r.size <= max
      /\ \A i \in r.size + 1..Len(d) : r.buf[i] = d[i]
      /\ Names(r.entry)
  BY <1>5, Zenon DEF Fits
<1>7. DictsRight'
  BY <1>1, <1>2, <1>6, Remembered DEF DictsRight
<1>8. SeqTypes'
  BY <1>2 DEF SeqTypes
<1>9. /\ work' \in [buf : Seq(Bytes), size : Nat, max : Nat, masked : BOOLEAN]
      /\ work'.buf = r.buf /\ work'.size = n /\ work'.max = max /\ work'.masked = work.masked
  <2>1. work \in [buf : Seq(Bytes), size : Nat, max : Nat, masked : BOOLEAN]
    BY DEF WorkRight
  <2> QED  BY <1>1, <1>6, <2>1 DEF n, max
<1>10. CASE Accepts(r)
  <2> DEFINE b == IF options.ascii THEN ToASCII(r.buf, r.size) ELSE r.buf
  <2>1. PutBack(b, r.size) /\ iter' = 0 /\ pc' = "run" /\ r.size \in 1..max
    <3>1. r.size > 0 /\ r.size <= max
      BY <1>10 DEF Accepts, max
    <3>2. r.size \in 1..max
      BY <1>4, <1>6, <3>1
    <3> QED  BY <1>1, <1>10, <3>2
  <2>2. /\ b \in Seq(Bytes) /\ Len(b) = Len(d)
        /\ options.ascii => \A i \in 1..Len(d) : /\ i <= r.size => ASCII[b[i]] = b[i]
                                                 /\ i > r.size => b[i] = d[i]
    <3>1. CASE options.ascii
      <4>1. /\ ToASCII(r.buf, r.size) \in Seq(Bytes) /\ Len(ToASCII(r.buf, r.size)) = Len(r.buf)
            /\ \A i \in 1..Len(r.buf) :
                 /\ i <= r.size => ASCII[ToASCII(r.buf, r.size)[i]] = ToASCII(r.buf, r.size)[i]
                 /\ i > r.size => ToASCII(r.buf, r.size)[i] = r.buf[i]
        BY <1>6, Converted
      <4>2. b = ToASCII(r.buf, r.size)
        BY <3>1
      <4>3. \A i \in 1..Len(d) : i > r.size => i \in r.size + 1..Len(d)
        BY <1>4, <1>6
      <4> HIDE DEF b
      <4> QED  BY <1>6, <4>1, <4>2, <4>3
    <3>2. CASE ~options.ascii
      BY <1>6, <3>2
    <3> QED  BY <1>3, <3>1, <3>2
  <2> HIDE DEF b
  <2>3. /\ data' \in Seq(Bytes) /\ Len(data') = Capacity
        /\ size' \in 1..Capacity /\ size' <= maxLen
        /\ ~work.masked => data' = b /\ size' = r.size
        /\ work.masked => size' = size /\ \A i \in 1..Capacity : data'[i] = data[i] \/ FromBuffer(b, i)
    <3>1. r.size \in 1..Len(b) /\ Len(b) = Len(work.buf)
      BY <1>4, <2>1, <2>2 DEF d
    <3>2. ~work.masked => r.size <= maxLen
      BY <1>2, <2>1 DEF WorkRight, max
    <3> QED  BY <1>2, <2>1, <2>2, <3>1, <3>2, BackRight
  <2>4. OnDuty'
    BY <1>2, <1>3, <2>1, <2>3 DEF OnDuty
  <2>5. WorkRight'
    <3>1. Len(work'.buf) = IF work'.masked THEN work'.max ELSE Capacity
      BY <1>4, <1>6, <1>9
    <3>2. work.masked => caller = "fuzz"
      BY DEF WorkRight
    <3> QED  BY <1>2, <1>9, <2>1, <3>1, <3>2 DEF WorkRight
  <2>6. ASCIIKept'
    <3>1. SUFFICES ASSUME options.ascii
                   PROVE  /\ ~work.masked => Plain(data', size')
                          /\ work.masked /\ caller = "fuzz" /\ IsASCII(unit) => Plain(data', size')
      BY <1>2, <1>9, <2>1 DEF ASCIIKept
    <3>2. CASE ~work.masked
      <4>1. Plain(b, r.size)
        BY <1>4, <2>1, <2>2, <3>1 DEF Plain
      <4> QED  BY <2>3, <3>2, <4>1
    <3>3. ASSUME work.masked, caller = "fuzz", IsASCII(unit) PROVE Plain(data', size')
      <4>1. Plain(data, size) /\ Plain(d, max) /\ Len(d) = max
        BY <1>2, <1>4, <3>1, <3>3 DEF ASCIIKept, d, max
      <4>2. \A k \in 1..Len(b) : ASCII[b[k]] = b[k]
        <5>1. ASSUME NEW k \in 1..Len(b) PROVE ASCII[b[k]] = b[k]
          <6>1. k \in 1..Len(d) /\ (k <= r.size \/ k > r.size)
            BY <1>6, <2>2
          <6> QED  BY <2>2, <3>1, <4>1, <6>1 DEF Plain
        <5> QED  BY <5>1
      <4>3. ASSUME NEW i \in 1..size PROVE ASCII[data'[i]] = data'[i]
        <5>1. i \in 1..Capacity
          BY <1>3
        <5>2. CASE data'[i] = data[i]
          BY <4>1, <5>2 DEF Plain
        <5>3. CASE FromBuffer(b, i)
          BY <4>2, <5>3 DEF FromBuffer
        <5> QED  BY <2>3, <3>3, <5>1, <5>2, <5>3
      <4> QED  BY <2>3, <3>3, <4>3 DEF Plain
    <3> QED  BY <1>4, <3>2, <3>3
  <2>7. MaskStays
    BY <1>3, <2>3, MaskStaysSo
  <2> QED  BY <1>7, <1>8, <2>4, <2>5, <2>6, <2>7 DEF DictsRight
<1>11. CASE ~Accepts(r)
  <2>1. iter' = iter + 1 /\ data' = data /\ size' = size /\ pc' = pc
    BY <1>1, <1>11
  <2>2. OnDuty'
    BY <1>2, <1>3, <2>1 DEF OnDuty
  <2>3. WorkRight'
    <3>1. Len(r.buf) = IF work.masked THEN max ELSE Capacity
      BY <1>4, <1>6
    <3>2. n \in 1..Len(r.buf)
      BY <1>4, <1>6
    <3>3. IF work.masked
            THEN /\ size <= maxLen
                 /\ max = Len(Masked(mask, size)) /\ n = max
            ELSE max = maxLen
      BY <1>2 DEF WorkRight, n, max
    <3>4. work.masked => caller = "fuzz"
      BY DEF WorkRight
    <3> QED  BY <1>2, <1>9, <2>1, <3>1, <3>2, <3>3, <3>4 DEF WorkRight
  <2>4. ASCIIKept'
    <3>1. ASSUME options.ascii, work.masked, Plain(d, max) PROVE Plain(r.buf, max)
      <4>1. n = max /\ Len(d) = max
        BY <1>2, <1>4, <3>1 DEF WorkRight, n, max
      <4>2. r.size = 0
        <5>1. ~(r.size > 0 /\ r.size <= max)
          BY <1>11 DEF Accepts, max
        <5> QED  BY <1>4, <1>6, <4>1, <5>1
      <4>3. \A i \in 1..max : r.buf[i] = d[i]
        BY <1>4, <1>6, <4>1, <4>2
      <4> QED  BY <3>1, <4>3 DEF Plain
    <3>2. options.ascii /\ caller = "fuzz" /\ IsASCII(unit) =>
            Plain(data, size) /\ (work.masked => Plain(d, max))
      BY <1>2 DEF ASCIIKept, d, max
    <3> QED  BY <1>2, <1>9, <2>1, <3>1, <3>2 DEF ASCIIKept
  <2>5. MaskStays
    BY <1>2, <2>1 DEF MaskStays
  <2> QED  BY <1>7, <1>8, <2>2, <2>3, <2>4, <2>5 DEF DictsRight
<1> QED  BY <1>10, <1>11

LEMMA FallbackRight ==
  ASSUME IInv, Fallback
  PROVE  IInv' /\ MaskStays
<1> USE DEF IInv
<1> DEFINE b == Overwrite(work.buf, 0, <<Space>>)
<1>1. /\ pc = "try" /\ PutBack(b, 1) /\ iter' = 0 /\ pc' = "run"
      /\ caller' = caller /\ options' = options /\ maxLen' = maxLen /\ unit' = unit
      /\ mask' = mask /\ cross' = cross /\ work' = work /\ depth' = depth /\ UNCHANGED dictVars
  BY DEF Fallback, seqVars
<1>2. /\ Capacity \in Nat \ {0} /\ Tries \in Nat \ {0} /\ options.ascii \in BOOLEAN
      /\ size \in 1..Capacity /\ size \in Nat /\ maxLen \in 1..Capacity /\ mask \in Seq(BOOLEAN)
      /\ Space \in Bytes /\ ASCII[Space] = Space
  BY <1>1, Context, MutationAssumption DEF OnDuty, SeqTypes
<1>3. /\ work.buf \in Seq(Bytes) /\ Len(work.buf) \in Nat /\ Len(work.buf) >= 1
      /\ Len(work.buf) = IF work.masked THEN work.max ELSE Capacity
  <2>1. work.buf \in Seq(Bytes) /\ work.size \in 1..Len(work.buf)
    BY <1>1 DEF WorkRight
  <2>2. Len(work.buf) = IF work.masked THEN work.max ELSE Capacity
    BY <1>1 DEF WorkRight
  <2> QED  BY <2>1, <2>2
<1>4. /\ b \in Seq(Bytes) /\ Len(b) = Len(work.buf)
      /\ b[1] = Space /\ \A i \in 1..Len(work.buf) : i # 1 => b[i] = work.buf[i]
  <2> DEFINE s == <<Space>>
  <2>1. s \in Seq(Bytes) /\ Len(s) = 1 /\ s[1] = Space
    BY <1>2
  <2> HIDE DEF s
  <2>2. 0 \in Nat /\ 0 + Len(s) <= Len(work.buf)
    BY <1>3, <2>1
  <2>3. /\ Overwrite(work.buf, 0, s) \in Seq(Bytes)
        /\ Len(Overwrite(work.buf, 0, s)) = Len(work.buf)
        /\ \A i \in 1..Len(work.buf) :
             Overwrite(work.buf, 0, s)[i] = IF i \in 0 + 1..0 + Len(s) THEN s[i - 0] ELSE work.buf[i]
    <3>1. IsOver(Overwrite(work.buf, 0, s), work.buf, 0, s)
      BY <1>3, <2>1, <2>2, Overwritten
    <3> QED  BY <3>1 DEF IsOver
  <2>4. 1 \in 1..Len(work.buf) /\ 1 \in 0 + 1..0 + Len(s) /\ 1 - 0 = 1
    BY <1>3, <2>1
  <2>5. \A i \in 1..Len(work.buf) : i # 1 => i \notin 0 + 1..0 + Len(s)
    BY <2>1
  <2>6. b = Overwrite(work.buf, 0, s)
    BY DEF s
  <2> HIDE DEF b
  <2> QED  BY <2>1, <2>3, <2>4, <2>5, <2>6
<1> HIDE DEF b
<1>5. /\ data' \in Seq(Bytes) /\ Len(data') = Capacity
      /\ size' \in 1..Capacity /\ size' <= maxLen
      /\ ~work.masked => data' = b /\ size' = 1
      /\ work.masked => size' = size /\ \A i \in 1..Capacity : data'[i] = data[i] \/ FromBuffer(b, i)
  <2>1. 1 \in 1..Len(b) /\ 1 <= maxLen
    BY <1>2, <1>3, <1>4
  <2> QED  BY <1>1, <1>4, <2>1, BackRight
<1>6. DictsRight'
  BY <1>1, DictsSame DEF DictsRight
<1>7. SeqTypes'
  BY <1>1 DEF SeqTypes
<1>8. OnDuty'
  BY <1>1, <1>2, <1>5 DEF OnDuty
<1>9. WorkRight'
  BY <1>1, <1>3 DEF WorkRight
<1>10. ASCIIKept'
  <2>1. SUFFICES ASSUME options.ascii
                 PROVE  /\ ~work.masked => Plain(data', size')
                        /\ work.masked /\ caller = "fuzz" /\ IsASCII(unit) => Plain(data', size')
    <3>1. work.masked \in BOOLEAN
      BY DEF WorkRight
    <3> QED  BY <1>1, <3>1 DEF ASCIIKept
  <2>2. CASE ~work.masked
    BY <1>2, <1>4, <1>5, <2>2 DEF Plain
  <2>3. ASSUME work.masked, caller = "fuzz", IsASCII(unit) PROVE Plain(data', size')
    <3>1. Plain(data, size) /\ Plain(work.buf, work.max) /\ Len(work.buf) = work.max
      BY <1>1, <1>3, <2>1, <2>3 DEF ASCIIKept
    <3>2. \A k \in 1..Len(b) : ASCII[b[k]] = b[k]
      BY <1>2, <1>4, <3>1 DEF Plain
    <3>3. ASSUME NEW i \in 1..size PROVE ASCII[data'[i]] = data'[i]
      <4>1. i \in 1..Capacity
        BY <1>2
      <4>2. CASE data'[i] = data[i]
        BY <3>1, <4>2 DEF Plain
      <4>3. CASE FromBuffer(b, i)
        BY <3>2, <4>3 DEF FromBuffer
      <4> QED  BY <1>5, <2>3, <4>1, <4>2, <4>3
    <3> QED  BY <1>5, <2>3, <3>3 DEF Plain
  <2> QED  BY <2>2, <2>3
<1>11. MaskStays
  BY <1>2, <1>5, MaskStaysSo DEF OnDuty
<1> QED  BY <1>6, <1>7, <1>8, <1>9, <1>10, <1>11 DEF DictsRight

LEMMA SequenceEnds ==
  ASSUME SeqTypes, WorkRight, EndSequence, caller' = caller, options' = options,
         iter \in 0..Tries, iter' = iter
  PROVE  SeqTypes' /\ OnDuty' /\ WorkRight' /\ ASCIIKept'
<1>1. /\ pc' = "start" /\ data' = Blank /\ size' = 0 /\ maxLen' = Capacity /\ depth' = 0
      /\ unit' = <<>> /\ mask' = <<>> /\ cross' = <<>> /\ work' = NoWork
  BY DEF EndSequence
<1>2. Capacity \in Nat \ {0} /\ MutateDepth \in Nat \ {0} /\ Space \in Bytes
  BY MutationAssumption
<1>3. data' \in Seq(Bytes) /\ Len(data') = Capacity
  <2>1. Blank \in [1..Capacity -> Bytes] /\ Capacity \in Nat
    BY <1>2 DEF Blank
  <2> QED  BY <1>1, <2>1, IsSeq
<1>4. SeqTypes'
  BY <1>1, <1>2 DEF SeqTypes
<1>5. OnDuty'
  BY <1>1, <1>2, <1>3 DEF OnDuty
<1>6. WorkRight'
  <2>1. NoWork \in [buf : Seq(Bytes), size : Nat, max : Nat, masked : BOOLEAN] /\ ~NoWork.masked
    BY DEF NoWork
  <2> QED  BY <1>1, <2>1 DEF WorkRight
<1>7. ASCIIKept'
  BY <1>1 DEF ASCIIKept
<1> QED  BY <1>4, <1>5, <1>6, <1>7

LEMMA RunNewCoverageRight ==
  ASSUME IInv, RunNewCoverage
  PROVE  IInv'
<1> USE DEF IInv
<1>1. /\ RecordSuccessfulMutationSequence /\ EndSequence
      /\ caller' = caller /\ options' = options /\ iter' = iter
      /\ entries' = entries /\ ring' = ring /\ ringIdx' = ringIdx /\ applied' = applied
  BY DEF RunNewCoverage
<1>2. DictsRight'
  BY <1>1, DictsRecorded DEF DictsRight
<1>3. SeqTypes' /\ OnDuty' /\ WorkRight' /\ ASCIIKept'
  BY <1>1, SequenceEnds DEF OnDuty
<1> QED  BY <1>2, <1>3 DEF DictsRight

LEMMA RunLastRight ==
  ASSUME IInv, RunLast
  PROVE  IInv'
<1> USE DEF IInv
<1>1. EndSequence /\ caller' = caller /\ options' = options /\ iter' = iter /\ UNCHANGED dictVars
  BY DEF RunLast
<1>2. DictsRight'
  BY <1>1, DictsSame DEF DictsRight
<1>3. SeqTypes' /\ OnDuty' /\ WorkRight' /\ ASCIIKept'
  BY <1>1, SequenceEnds DEF OnDuty
<1> QED  BY <1>2, <1>3 DEF DictsRight

LEMMA RunNothingNewRight ==
  ASSUME IInv, RunNothingNew
  PROVE  IInv'
<1> USE DEF IInv
<1>1. /\ pc = "run" /\ depth + 1 < MutateDepth
      /\ pc' = "mutate" /\ depth' = depth + 1 /\ work' = NoWork
      /\ caller' = caller /\ options' = options /\ maxLen' = maxLen /\ unit' = unit
      /\ mask' = mask /\ data' = data /\ iter' = iter /\ UNCHANGED dictVars
      /\ IF caller = "fuzz" THEN cross' \in {cross, <<>>} /\ size' = size
                            ELSE size' = Len(unit) /\ cross' = cross
  BY DEF RunNothingNew, seqVars
<1>2. /\ Capacity \in Nat \ {0} /\ MutateDepth \in Nat \ {0}
      /\ unit # <<>> => Len(unit) \in 1..Capacity
  BY Context DEF OnDuty, SeqTypes
<1>3. DictsRight'
  BY <1>1, DictsSame DEF DictsRight
<1>4. SeqTypes'
  BY <1>1 DEF SeqTypes
<1>5. OnDuty'
  BY <1>1, <1>2 DEF OnDuty
<1>6. WorkRight'
  <2>1. NoWork \in [buf : Seq(Bytes), size : Nat, max : Nat, masked : BOOLEAN] /\ ~NoWork.masked
    BY DEF NoWork
  <2> QED  BY <1>1, <2>1 DEF WorkRight
<1>7. ASCIIKept'
  BY <1>1 DEF ASCIIKept
<1> QED  BY <1>3, <1>4, <1>5, <1>6, <1>7 DEF DictsRight

-----------------------------------------------------------------------------
(* The invariant holds in the beginning and after every step.              *)
LEMMA InitRight ==
  ASSUME Init
  PROVE  IInv
<1>1. /\ pc = "start" /\ caller \in {"fuzz", "minimize"}
      /\ options \in [ascii : BOOLEAN, case : Cases]
      /\ data = Blank /\ size = 0 /\ maxLen = Capacity /\ unit = <<>> /\ mask = <<>> /\ cross = <<>>
      /\ work = NoWork /\ iter = 0 /\ depth = 0 /\ entries = <<>>
      /\ ring = [k \in 1..CmpRingSize |-> NoWord] /\ ringIdx = 0 /\ auto = <<>> /\ applied = <<>>
  BY DEF Init
<1>2. /\ Capacity \in Nat \ {0} /\ MutateDepth \in Nat \ {0} /\ Tries \in Nat \ {0}
      /\ CmpRingSize \in Nat \ {0} /\ MaxDictSize \in Nat \ {0} /\ Space \in Bytes
  BY MutationAssumption
<1>3. data \in Seq(Bytes) /\ Len(data) = Capacity
  <2>1. Blank \in [1..Capacity -> Bytes] /\ Capacity \in Nat
    BY <1>2 DEF Blank
  <2> QED  BY <1>1, <2>1, IsSeq
<1>4. SeqTypes
  BY <1>1, <1>2 DEF SeqTypes
<1>5. OnDuty
  BY <1>1, <1>2, <1>3 DEF OnDuty
<1>6. WorkRight
  <2>1. NoWork \in [buf : Seq(Bytes), size : Nat, max : Nat, masked : BOOLEAN] /\ ~NoWork.masked
    BY DEF NoWork
  <2> QED  BY <1>1, <2>1 DEF WorkRight
<1>7. ASCIIKept
  BY <1>1 DEF ASCIIKept
<1>8. DictTypes
  <2>1. NoWord \in Entry
    BY DEF NoWord, Entry
  <2>2. ring \in [1..CmpRingSize -> Entry] /\ ringIdx \in 0..CmpRingSize - 1
    BY <1>1, <1>2, <2>1
  <2> QED  BY <1>1, <1>2, <2>2 DEF DictTypes
<1>9. EntriesRight /\ KnownOnce
  BY <1>1 DEF EntriesRight, KnownOnce
<1> QED  BY <1>4, <1>5, <1>6, <1>7, <1>8, <1>9 DEF IInv

LEMMA Stays ==
  ASSUME IInv, UNCHANGED vars
  PROVE  IInv'
<1> USE DEF IInv
<1>1. /\ pc' = pc /\ caller' = caller /\ options' = options /\ maxLen' = maxLen /\ unit' = unit
      /\ mask' = mask /\ data' = data /\ size' = size /\ cross' = cross /\ work' = work
      /\ iter' = iter /\ depth' = depth /\ UNCHANGED dictVars
  BY DEF vars, seqVars
<1>2. DictsRight'
  BY <1>1, DictsSame DEF DictsRight
<1>3. SeqTypes' /\ OnDuty'
  BY <1>1 DEF SeqTypes, OnDuty
<1>4. WorkRight'
  BY <1>1 DEF WorkRight
<1>5. ASCIIKept'
  BY <1>1, Zenon DEF ASCIIKept, Plain, IsASCII
<1> QED  BY <1>2, <1>3, <1>4, <1>5 DEF DictsRight

LEMMA StepRight ==
  ASSUME IInv, [Next]_vars
  PROVE  IInv'
<1>1. CASE StartFuzz
  BY <1>1, StartFuzzRight
<1>2. CASE StartMinimize
  BY <1>2, StartMinimizeRight
<1>3. CASE Mutate
  BY <1>3, MutateRight
<1>4. CASE Try
  BY <1>4, TryRight
<1>5. CASE Fallback
  BY <1>5, FallbackRight
<1>6. CASE RunNewCoverage
  BY <1>6, RunNewCoverageRight
<1>7. CASE RunNothingNew
  BY <1>7, RunNothingNewRight
<1>8. CASE RunLast
  BY <1>8, RunLastRight
<1>9. CASE UNCHANGED vars
  BY <1>9, Stays
<1> QED  BY <1>1, <1>2, <1>3, <1>4, <1>5, <1>6, <1>7, <1>8, <1>9 DEF Next

(* The inductive invariant: the buffer, the data and the entries of the    *)
(* sequence fit together after every step of MutateImpl and its callers.   *)
THEOREM MutationConsistent == Spec => []IInv
<1>1. Init => IInv
  BY InitRight
<1>2. IInv /\ [Next]_vars => IInv'
  BY StepRight
<1> QED  BY <1>1, <1>2, PTL DEF Spec

LEMMA BufferKept ==
  ASSUME IInv
  PROVE  WithinBuffer
<1> USE DEF IInv
<1>1. /\ Capacity \in Nat \ {0} /\ Tries \in Nat \ {0} /\ MutateDepth \in Nat \ {0}
      /\ CmpRingSize \in Nat \ {0}
  BY MutationAssumption
<1>2. Len(ring) = CmpRingSize
  BY <1>1, IsSeq DEF DictTypes
<1>3. TypeOK
  <2>1. {unit, cross} \subseteq options.case.units \cup {<<>>}
    BY DEF SeqTypes, OnDuty
  <2>2. depth \in 0..MutateDepth
    BY <1>1 DEF OnDuty
  <2> QED  BY <1>2, <2>1, <2>2 DEF TypeOK, SeqTypes, OnDuty, DictTypes
<1>4. pc \in {"try", "run"} => Len(work.buf) = IF work.masked THEN work.max ELSE Capacity
  BY DEF WorkRight
<1>5. pc = "run" => size \in 1..maxLen
  BY <1>1 DEF OnDuty, SeqTypes
<1> QED  BY <1>3, <1>4, <1>5 DEF WithinBuffer, OnDuty

(* MutateImpl and its mutators never write behind the buffer they are      *)
(* given, and what is executed has at least one byte and at most as many   *)
(* as the caller allows (WithinBuffer), for every capacity and dictionary. *)
THEOREM NeverOverrun == Spec => []WithinBuffer
<1>1. IInv => WithinBuffer
  BY BufferKept
<1> QED  BY <1>1, MutationConsistent, PTL

LEMMA IsPlain ==
  ASSUME IInv
  PROVE  OnlyASCII
<1> SUFFICES ASSUME options.ascii, pc = "run", work.masked => IsASCII(unit)
             PROVE  IsASCII(SubSeq(data, 1, size))
  BY DEF OnlyASCII
<1>1. Plain(data, size)
  <2>1. CASE ~work.masked
    BY <2>1 DEF IInv, ASCIIKept
  <2>2. CASE work.masked
    BY <2>2 DEF IInv, ASCIIKept, WorkRight
  <2> QED  BY <2>1, <2>2
<1>2. data \in Seq(Bytes) /\ size \in 0..Len(data) /\ Len(data) \in Nat
  BY DEF IInv, OnDuty
<1>3. DOMAIN SubSeq(data, 1, size) = 1..size /\ \A i \in 1..size : SubSeq(data, 1, size)[i] = data[i]
  BY <1>2
<1> QED  BY <1>1, <1>3 DEF IsASCII, Plain

(* With -only_ascii what is executed is ASCII, whatever the words of the   *)
(* dictionaries and the units to cross over with are (OnlyASCII).          *)
THEOREM ExecutesASCII == Spec => []OnlyASCII
<1>1. IInv => OnlyASCII
  BY IsPlain
<1> QED  BY <1>1, MutationConsistent, PTL

LEMMA NotOverwritten ==
  ASSUME IInv
  PROVE  EntriesAreApplied
<1> DEFINE cmps == {k \in DOMAIN entries : entries[k][1] = "cmp"}
<1> SUFFICES ASSUME Cardinality(cmps) <= CmpRingSize, NEW k \in DOMAIN entries
             PROVE  Word(entries[k]).w = applied[k]
  BY DEF EntriesAreApplied
<1>1. EntryRight(k)
  BY DEF IInv, EntriesRight
<1>2. CASE entries[k][1] # "cmp"
  BY <1>1, <1>2 DEF EntryRight
<1>3. CASE entries[k][1] = "cmp"
  <2>1. DOMAIN entries = 1..Len(entries) /\ Len(entries) \in Nat
    BY DEF IInv, DictTypes
  <2>2. cmps \in SUBSET (1..Len(entries)) /\ Later(k) \in SUBSET cmps /\ Later(k) \in SUBSET (1..Len(entries))
    BY <2>1 DEF Later
  <2>3. k \in cmps /\ k \notin Later(k)
    BY <1>3, <2>1 DEF Later
  <2> HIDE DEF cmps
  <2>4. /\ IsFiniteSet(cmps) /\ Cardinality(cmps) \in Nat
        /\ IsFiniteSet(Later(k)) /\ Cardinality(Later(k)) \in Nat
    BY <2>1, <2>2, UpToFinite
  <2>5. Cardinality(Later(k)) <= Cardinality(cmps) /\ Cardinality(Later(k)) # Cardinality(cmps)
    <3>1. Later(k) # cmps
      BY <2>3
    <3> QED  BY <2>2, <2>4, <3>1, FS_Subset
  <2>6. After(k) < CmpRingSize
    <3>1. CmpRingSize \in Nat
      BY MutationAssumption
    <3> QED  BY <2>4, <2>5, <3>1 DEF After
  <2>7. ring[entries[k][2]].w = applied[k]
    BY <1>1, <1>3, <2>6 DEF EntryRight
  <2> QED  BY <1>3, <2>7 DEF Word
<1> QED  BY <1>2, <1>3

(* The addresses in CurrentDictionaryEntrySequence still hold the words    *)
(* that were applied, for a ring of every size and sequences of every      *)
(* length, until the ring has come round (EntriesAreApplied).              *)
THEOREM AddressesHold == Spec => []EntriesAreApplied
<1>1. IInv => EntriesAreApplied
  BY NotOverwritten
<1> QED  BY <1>1, MutationConsistent, PTL

LEMMA FromThisSequence ==
  ASSUME IInv
  PROVE  RecordedOnce
<1>1. ASSUME NEW k \in DOMAIN entries PROVE Word(entries[k]).w \in ToSet(applied)
  <2>1. EntryRight(k)
    BY DEF IInv, EntriesRight
  <2>2. CASE entries[k][1] = "cmp"
    BY <2>1, <2>2 DEF EntryRight, Word
  <2>3. CASE entries[k][1] # "cmp"
    <3>1. Word(entries[k]).w = applied[k]
      BY <2>1, <2>3 DEF EntryRight
    <3>2. k \in DOMAIN applied
      BY DEF IInv, DictTypes
    <3> QED  BY <3>1, <3>2 DEF ToSet
  <2> QED  BY <2>2, <2>3
<1> QED  BY <1>1 DEF IInv, KnownOnce, RecordedOnce

(* A success records no word twice, and only words that were applied since *)
(* the sequence began (RecordedOnce).                                      *)
THEOREM RecordsApplied == Spec => []RecordedOnce
<1>1. IInv => RecordedOnce
  BY FromThisSequence
<1> QED  BY <1>1, MutationConsistent, PTL

LEMMA StepKeepsMask ==
  ASSUME IInv, [Next]_vars
  PROVE  [MaskStays]_vars
<1>1. CASE Try
  BY <1>1, TryRight
<1>2. CASE Fallback
  BY <1>2, FallbackRight
<1>3. CASE StartFuzz \/ StartMinimize
  BY <1>3 DEF StartFuzz, StartMinimize, MaskStays
<1>4. CASE Mutate
  BY <1>4 DEF Mutate, MaskStays
<1>5. CASE RunNewCoverage \/ RunLast
  BY <1>5 DEF RunNewCoverage, RunLast, EndSequence, MaskStays
<1>6. CASE RunNothingNew
  BY <1>6 DEF RunNothingNew, MaskStays
<1>7. CASE UNCHANGED vars
  BY <1>7
<1> QED  BY <1>1, <1>2, <1>3, <1>4, <1>5, <1>6, <1>7 DEF Next

(* MutateWithMask changes nothing but bytes that the mask allows, however  *)
(* long the unit is and whatever the mutator did with the bytes it was     *)
(* given (MaskKept).                                                       *)
THEOREM MaskAlwaysKept == Spec => MaskKept
<1>1. IInv /\ [Next]_vars => [MaskStays]_vars
  BY StepKeepsMask
<1>2. []IInv /\ [][Next]_vars => [][MaskStays]_vars
  BY <1>1, PTL
<1>3. [][MaskStays]_vars <=> MaskKept
  BY DEF MaskStays, MaskKept
<1> QED  BY <1>2, <1>3, MutationConsistent, PTL DEF Spec
=============================================================================
