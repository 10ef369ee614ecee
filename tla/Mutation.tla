------------------------------ MODULE Mutation ------------------------------
(***************************************************************************)
(* The mutation dispatcher (FuzzerMutate.cpp, FuzzerCrossOver.cpp) with    *)
(* its dictionaries (FuzzerDictionary.h), under its two callers in         *)
(* FuzzerLoop.cpp: MutateAndTestOne, which mutates an input of the corpus, *)
(* by its data flow mask if it has one, and MinimizeCrashLoop, which       *)
(* mutates a crashing unit to one that is shorter.                         *)
(*                                                                         *)
(* A mutator is the set of the results that its random numbers can give:   *)
(* buffer, new size (0 when it fails) and the dictionary entry it used.    *)
(* Bytes are members of a small set; arithmetic on them gives any of the   *)
(* bytes it could.  A write past the end makes the buffer longer, which    *)
(* WithinBuffer forbids.                                                   *)
(***************************************************************************)
EXTENDS Integers, Sequences, FiniteSets, SequencesExt

CONSTANTS
  Bytes, Space, Digits,
  ASCII,             \* what ToASCII makes of a byte
  Capacity,          \* MaxInputLen, the length of CurrentUnitData
  ManualDictionary,  \* the words of -dict
  Compares,          \* pairs in the tables of recent compares, bytes swapped or not
  Mutations,         \* of an operand: with -1, 0 or 1 added
  MemMemWords,       \* words in MMT
  Cases,             \* what behaviours draw from: mutators; units, the corpus;
                     \* masks, DataFlowTraceForFocusFunction, <<>> for none
  MinBytesToInsert, Tries, CmpRingSize, MaxDictSize, MutateDepth

Mutators ==
  {"ShuffleBytes", "EraseBytes", "InsertByte", "InsertRepeatedBytes", "ChangeByte",
   "ChangeASCIIInt", "ChangeBinInt", "CopyPart", "CrossOver", "ManualDict", "PersAutoDict", "CMP"}

ASSUME MutationAssumption ==
  /\ Space \in Bytes /\ Digits \subseteq Bytes
  /\ ASCII \in [Bytes -> Bytes] /\ ASCII[Space] = Space
  /\ \A b \in Bytes : ASCII[ASCII[b]] = ASCII[b]
  /\ \A c \in Cases :
       /\ c.mutators \subseteq Mutators
       /\ \A u \in c.units : u \in Seq(Bytes) /\ Len(u) \in 1..Capacity
       /\ c.masks \subseteq Seq(BOOLEAN)
  /\ ManualDictionary \in Seq(Seq(Bytes)) /\ MemMemWords \subseteq Seq(Bytes)
  /\ \A c \in Compares : \A i \in {1, 2} : c[i] \in Seq(Bytes) /\ Mutations[c[i]] \subseteq Seq(Bytes)
  /\ {Capacity, MinBytesToInsert, Tries, CmpRingSize, MaxDictSize, MutateDepth}
       \subseteq Nat \ {0}

VARIABLES
  pc,       \* start, mutate, try, run
  caller,   \* fuzz, minimize
  options,  \* -only_ascii, and the case
  data,     \* CurrentUnitData
  size,
  maxLen,   \* CurrentMaxMutationLen or MaxMutationLen
  unit,     \* the unit the sequence starts from
  mask,
  cross,    \* CrossOverWith
  work,     \* the buffer MutateImpl works on: the data, or its masked bytes
  iter,     \* tries of MutateImpl
  depth,    \* mutations of this sequence
  entries,  \* CurrentDictionaryEntrySequence, as references
  ring,     \* CmpDictionaryEntriesDeque
  ringIdx,  \* CmpDictionaryEntriesDequeIdx, modulo the size of the ring
  auto,     \* PersistentAutoDictionary
  applied   \* history: the words of CurrentDictionaryEntrySequence when added

dictVars == <<entries, ring, ringIdx, auto, applied>>
seqVars == <<caller, options, maxLen, unit, mask>>
vars == <<pc, seqVars, data, size, cross, work, iter, depth, dictVars>>

Blank == [i \in 1..Capacity |-> Space]
NoHint == -1
NoWord == [w |-> <<>>, hint |-> NoHint]
NoWork == [buf |-> <<>>, size |-> 0, max |-> 0, masked |-> FALSE]

(* Random numbers below n, and 0 when n is 0 (FuzzerRandom.h:30).          *)
Rand(n) == IF n = 0 THEN {0} ELSE 0..(n - 1)

(* memmove and memcpy of the bytes s to To + at.                           *)
Overwrite(To, at, s) ==
  [i \in 1..Max({Len(To), at + Len(s)}) |->
     IF i \in at + 1..at + Len(s) THEN s[i - at] ELSE To[i]]

(* Moves the tail of the first n bytes out of the way of s.                *)
InsertBytes(To, n, at, s) == Overwrite(To, at, s \o SubSeq(To, at + 1, n))

Result(buf, n) == [buf |-> buf, size |-> n, entry |-> <<>>]
Fails(buf) == {Result(buf, 0)}
-----------------------------------------------------------------------------
ShuffleBytes(d, n, max) ==
  IF n > max \/ n = 0 THEN Fails(d)
  ELSE UNION {{Result(Overwrite(d, at, [i \in 1..k + 1 |-> d[at + p[i]]]), n) :
                 p \in Bijection(1..k + 1, 1..k + 1), at \in Rand(n - k - 1)} :
              k \in Rand(Min({n, 8}))}

EraseBytes(d, n, max) ==
  IF n <= 1 THEN Fails(d)
  ELSE UNION {{Result(Overwrite(d, at, SubSeq(d, at + k + 2, n)), n - k - 1) :
                 at \in Rand(n - k)} : k \in Rand(n \div 2)}

InsertByte(d, n, max) ==
  IF n >= max THEN Fails(d)
  ELSE {Result(InsertBytes(d, n, at, <<b>>), n + 1) : at \in Rand(n + 1), b \in Bytes}

InsertRepeatedBytes(d, n, max) ==
  IF n + MinBytesToInsert >= max THEN Fails(d)
  ELSE UNION {{Result(InsertBytes(d, n, at, [i \in 1..k + MinBytesToInsert |-> b]),
                      n + k + MinBytesToInsert) : at \in Rand(n + 1), b \in Bytes} :
              k \in Rand(Min({max - n, 128}) - MinBytesToInsert + 1)}

(* ChangeByte and ChangeBit; the data has a first byte also if n is 0.     *)
ChangeByte(d, n, max) ==
  IF n > max THEN Fails(d)
  ELSE {Result(Overwrite(d, at, <<b>>), n) : at \in Rand(n), b \in Bytes}

(* The digits from the first one at or after a random place are replaced   *)
(* by as many of another number.                                           *)
ChangeASCIIInteger(d, n, max) ==
  LET Starts == {at \in 0..n - 1 : d[at + 1] \in Digits}
      End(at) == Max({e \in at + 1..n : \A i \in at + 1..e : d[i] \in Digits})
  IN IF n > max \/ Starts = {} THEN Fails(d)
     ELSE Fails(d) \cup
          UNION {{Result(Overwrite(d, at, s), n) : s \in [1..End(at) - at -> Digits]} :
                 at \in Starts}

(* An integer of 1, 2, 4 or 8 bytes anywhere.                              *)
ChangeBinaryInteger(d, n, max) ==
  IF n > max THEN Fails(d)
  ELSE UNION {IF n < k THEN Fails(d)
              ELSE {Result(Overwrite(d, at, s), n) : at \in Rand(n - k + 1), s \in [1..k -> Bytes]} :
              k \in {1, 2, 4, 8}}

(* CopyPartOf and InsertPartOf take bytes of From as they were before.     *)
CopyPartOf(from, to, n) ==
  UNION {UNION {LET k == Min({c + 1, Len(from)})
                IN {Result(Overwrite(to, at, SubSeq(from, f + 1, f + k)), n) :
                      f \in Rand(Len(from) - k + 1)} :
                c \in Rand(n - at)} : at \in Rand(n)}

InsertPartOf(from, to, n, max) ==
  IF n >= max THEN Fails(to)
  ELSE UNION {{Result(InsertBytes(to, n, at, SubSeq(from, f + 1, f + c + 1)), n + c + 1) :
                 f \in Rand(Len(from) - c), at \in Rand(n + 1)} :
              c \in Rand(Min({max - n, Len(from)}))}

CopyPart(d, n, max) ==
  IF n > max \/ n = 0 THEN Fails(d)
  ELSE LET from == SubSeq(d, 1, n)
       IN CopyPartOf(from, d, n) \cup
          (IF n = max THEN {} ELSE InsertPartOf(from, d, n, max))

(* Parts of the two units in turn, from the first one first, as many bytes *)
(* as random: every sequence whose bytes at some places, the first one     *)
(* among them, are those s begins with and at the other places those of t. *)
Crossed(s, t, max) ==
  UNION {{[i \in 1..m |-> IF i \in at THEN s[Cardinality(at \cap 1..i)]
                                      ELSE t[Cardinality(1..i \ at)]] :
            at \in {S \in SUBSET (1..m) : /\ 1 \in S /\ Cardinality(S) <= Len(s)
                                         /\ Cardinality(1..m \ S) <= Len(t)}} :
         m \in 1..max}

CrossOver(d, n, max) ==
  IF n > max \/ n = 0 \/ cross = <<>> THEN Fails(d)
  ELSE {Result(Overwrite(d, 0, s), Len(s)) :
          s \in Crossed(SubSeq(d, 1, n), cross, max)} \cup
       {r \in InsertPartOf(cross, d, n, max) : r.size > 0} \cup
       CopyPartOf(cross, d, n)
-----------------------------------------------------------------------------
(* Inserts or overwrites a word, sometimes where its position hint says.   *)
HintAlways(de, n) == de.hint # NoHint  \* mutant: hints of longer units
HintFits(de, n) == de.hint # NoHint /\ de.hint + Len(de.w) < n

Positions(de, n, random) == random \cup (IF HintFits(de, n) THEN {de.hint} ELSE {})

ApplyDictionaryEntry(d, n, max, de) ==
  LET k == Len(de.w)
  IN (IF n + k > max THEN Fails(d)
      ELSE {Result(InsertBytes(d, n, at, de.w), n + k) : at \in Positions(de, n, Rand(n + 1))}) \cup
     (IF k > n THEN Fails(d)
      ELSE {Result(Overwrite(d, at, de.w), n) : at \in Positions(de, n, Rand(n + 1 - k))})

(* A result that did not fail names the entry that was applied: where it   *)
(* is stored, and what it is now.                                          *)
WithEntry(results, dict, at, de) ==
  {IF r.size = 0 THEN r ELSE [r EXCEPT !.entry = <<dict, at, de>>] : r \in results}

AddWordFromDictionary(D, dict, d, n, max) ==
  IF n > max \/ D = <<>> THEN Fails(d)
  ELSE UNION {WithEntry(ApplyDictionaryEntry(d, n, max, D[k]), dict, k, D[k]) : k \in DOMAIN D}

(* Where one of the two operands is found in the data, what the other one  *)
(* is near to may satisfy the comparison.                                  *)
Found(d, n, w) == {at \in 0..n - Len(w) : SubSeq(d, at + 1, at + Len(w)) = w}

MakeDictionaryEntryFromCMP(a, b, d, n) ==
  LET Guess(x, y) ==
        IF Found(d, n, x) # {}
          THEN {[w |-> v, hint |-> at] : v \in Mutations[y], at \in Found(d, n, x)}
        ELSE IF Found(d, n, y) # {}
          THEN {[w |-> v, hint |-> at] : v \in Mutations[x], at \in Found(d, n, y)}
        ELSE {[w |-> v, hint |-> NoHint] : v \in Mutations[x]}
  IN Guess(a, b) \cup Guess(b, a)

(* The size is not compared with max here.  An empty word is not used.     *)
AddWordFromTORC(d, n, max) ==
  LET guesses == UNION {MakeDictionaryEntryFromCMP(c[1], c[2], d, n) : c \in Compares}
      seen == {[w |-> w, hint |-> NoHint] : w \in MemMemWords}
  IN Fails(d) \cup
     UNION {WithEntry(ApplyDictionaryEntry(d, n, max, de), "cmp", 0, de) :
                     de \in {e \in guesses \cup seen : e.w # <<>>}}

ManualEntries == [k \in DOMAIN ManualDictionary |-> [w |-> ManualDictionary[k], hint |-> NoHint]]

Results(mutator, d, n, max) ==
  CASE mutator = "ShuffleBytes" -> ShuffleBytes(d, n, max)
    [] mutator = "EraseBytes" -> EraseBytes(d, n, max)
    [] mutator = "InsertByte" -> InsertByte(d, n, max)
    [] mutator = "InsertRepeatedBytes" -> InsertRepeatedBytes(d, n, max)
    [] mutator = "ChangeByte" -> ChangeByte(d, n, max)
    [] mutator = "ChangeASCIIInt" -> ChangeASCIIInteger(d, n, max)
    [] mutator = "ChangeBinInt" -> ChangeBinaryInteger(d, n, max)
    [] mutator = "CopyPart" -> CopyPart(d, n, max)
    [] mutator = "CrossOver" -> CrossOver(d, n, max)
    [] mutator = "ManualDict" -> AddWordFromDictionary(ManualEntries, "manual", d, n, max)
    [] mutator = "PersAutoDict" -> AddWordFromDictionary(auto, "auto", d, n, max)
    [] mutator = "CMP" -> AddWordFromTORC(d, n, max)

ToASCIIButLast(d, n) == [i \in DOMAIN d |-> IF i < n THEN ASCII[d[i]] ELSE d[i]]  \* mutant
ToASCII(d, n) == [i \in DOMAIN d |-> IF i <= n THEN ASCII[d[i]] ELSE d[i]]
-----------------------------------------------------------------------------
Init ==
  /\ pc = "start" /\ caller \in {"fuzz", "minimize"}
  /\ options \in [ascii : BOOLEAN, case : Cases]
  /\ data = Blank /\ size = 0 /\ maxLen = Capacity
  /\ unit = <<>> /\ mask = <<>> /\ cross = <<>>
  /\ work = NoWork /\ iter = 0 /\ depth = 0
  /\ entries = <<>> /\ ring = [k \in 1..CmpRingSize |-> NoWord] /\ ringIdx = 0
  /\ auto = <<>> /\ applied = <<>>

IsASCII(u) == \A i \in DOMAIN u : ASCII[u[i]] = u[i]

(* Seeds get into the corpus as they are, with -only_ascii too.            *)
Corpus == options.case.units

ClearEntries == entries' = <<>> /\ applied' = <<>>

(* StartMutationSequence, the draw of an input with its mask, and of one   *)
(* to cross over with; TmpMaxMutationLen is at least the input's length.   *)
StartFuzz ==
  /\ pc = "start" /\ caller = "fuzz"
  /\ ClearEntries
  /\ unit' \in Corpus /\ mask' \in options.case.masks
  /\ cross' \in IF "CrossOver" \in options.case.mutators THEN Corpus \cup {<<>>} ELSE {<<>>}
  /\ data' = Overwrite(data, 0, unit') /\ size' = Len(unit')
  /\ maxLen' \in {Len(unit'), Capacity}
  /\ depth' = 0 /\ pc' = "mutate"
  /\ UNCHANGED <<caller, options, work, iter, ring, ringIdx, auto>>

(* The internal step of -minimize_crash: its MaxInputLen is the length of  *)
(* the unit, its MaxMutationLen one less.                                  *)
StartMinimize ==
  /\ pc = "start" /\ caller = "minimize"
  /\ ClearEntries
  /\ unit' \in {u \in options.case.units : Len(u) = Capacity}
  /\ Len(unit') >= 2  \* a smaller one is small enough
  /\ data' = Overwrite(data, 0, unit') /\ size' = Len(unit')
  /\ maxLen' = Len(unit') - 1
  /\ depth' = 0 /\ pc' = "mutate"
  /\ UNCHANGED <<caller, options, mask, cross, work, iter, ring, ringIdx, auto>>

(* The places of the masked ones among the first n bytes.                  *)
Masked(m, n) ==
  FoldLeft(LAMBDA at, i : IF m[i] THEN Append(at, i) ELSE at, <<>>,
           [i \in 1..Min({n, Len(m)}) |-> i])

MaskApplies == mask # <<>> /\ size <= maxLen /\ Masked(mask, size) # <<>>

(* MutateWithMask works on a copy of the masked bytes, Mutate on the data. *)
Mutate ==
  /\ pc = "mutate"
  /\ work' = IF caller = "fuzz" /\ MaskApplies
               THEN LET at == Masked(mask, size)
                    IN [buf |-> [k \in DOMAIN at |-> data[at[k]]], size |-> Len(at),
                        max |-> Len(at), masked |-> TRUE]
               ELSE [buf |-> data, size |-> size, max |-> maxLen, masked |-> FALSE]
  /\ iter' = 0 /\ pc' = "try"
  /\ UNCHANGED <<seqVars, data, size, cross, depth, dictVars>>

(* The entry used is remembered by its address; one made of a comparison   *)
(* has its place in a ring.                                                *)
SlotFixed == 1  \* mutant: always the first one
Slot == ringIdx + 1

Remember(entry) ==
  IF entry = <<>> THEN UNCHANGED <<entries, ring, ringIdx, applied>>
  ELSE /\ applied' = Append(applied, entry[3].w)
       /\ IF entry[1] = "cmp"
            THEN /\ ring' = [ring EXCEPT ![Slot] = entry[3]]
                 /\ ringIdx' = (ringIdx + 1) % CmpRingSize
                 /\ entries' = Append(entries, <<"cmp", Slot>>)
            ELSE /\ entries' = Append(entries, <<entry[1], entry[2]>>)
                 /\ UNCHANGED <<ring, ringIdx>>

(* What the caller of MutateImpl makes of its result: the masked bytes all *)
(* go back to their places and the size is kept.                           *)
PutBackSize(buf, n) ==  \* mutant: to the first places, with the mutated size
  data' = Overwrite(data, 0, SubSeq(buf, 1, n)) /\ size' = n
PutBack(buf, n) ==
  IF work.masked
    THEN /\ data' = LET at == Masked(mask, size)
                    IN [i \in DOMAIN data |->
                          IF \E k \in DOMAIN at : at[k] = i
                            THEN buf[CHOOSE k \in DOMAIN at : at[k] = i] ELSE data[i]]
         /\ size' = size
    ELSE data' = buf /\ size' = n

Accepts(r) == r.size > 0 /\ r.size <= work.max

(* One try of MutateImpl.  One that is rejected may have changed the       *)
(* buffer, and what it remembered stays.                                   *)
Try ==
  /\ pc = "try" /\ iter < Tries
  /\ \E m \in options.case.mutators : \E r \in Results(m, work.buf, work.size, work.max) :
       /\ Remember(r.entry)
       /\ work' = [work EXCEPT !.buf = r.buf]
       /\ IF Accepts(r)
            THEN /\ PutBack(IF options.ascii THEN ToASCII(r.buf, r.size) ELSE r.buf, r.size)
                 /\ iter' = 0 /\ pc' = "run"
            ELSE iter' = iter + 1 /\ UNCHANGED <<data, size, pc>>
  /\ UNCHANGED <<seqVars, cross, depth, auto>>

(* No try was accepted.                                                    *)
Fallback ==
  /\ pc = "try" /\ iter = Tries
  /\ PutBack(Overwrite(work.buf, 0, <<Space>>), 1)
  /\ iter' = 0 /\ pc' = "run"
  /\ UNCHANGED <<seqVars, cross, work, depth, dictVars>>
-----------------------------------------------------------------------------
Word(ref) ==
  CASE ref[1] = "cmp" -> ring[ref[2]]
    [] ref[1] = "auto" -> auto[ref[2]]
    [] ref[1] = "manual" -> ManualEntries[ref[2]]

ContainsWord(D, w) == \E k \in DOMAIN D : D[k].w = w

AddKnown(D, de) == Append(D, de)  \* mutant: also words that are known
AddEntry(D, de) ==
  IF ContainsWord(D, de.w) \/ Len(D) >= MaxDictSize THEN D ELSE Append(D, de)

RecordSuccessfulMutationSequence ==
  auto' = FoldLeft(LAMBDA D, ref : AddEntry(D, Word(ref)), auto, entries)

(* The locals of the caller end with the sequence; the next one begins     *)
(* with a unit of its own in the buffer.                                   *)
EndSequence ==
  /\ pc' = "start"
  /\ data' = Blank /\ size' = 0 /\ maxLen' = Capacity /\ depth' = 0
  /\ unit' = <<>> /\ mask' = <<>> /\ cross' = <<>> /\ work' = NoWork

(* The unit is executed.  New coverage ends the sequence.                  *)
RunNewCoverage ==
  /\ pc = "run" /\ caller = "fuzz"
  /\ RecordSuccessfulMutationSequence
  /\ EndSequence
  /\ UNCHANGED <<caller, options, iter, entries, ring, ringIdx, applied>>

(* What is executed may evict the unit to cross over with.  The internal   *)
(* step mutates the same number of bytes again.                            *)
RunNothingNew ==
  /\ pc = "run" /\ depth + 1 < MutateDepth
  /\ pc' = "mutate" /\ depth' = depth + 1 /\ work' = NoWork
  /\ IF caller = "fuzz" THEN cross' \in {cross, <<>>} /\ UNCHANGED size
                        ELSE size' = Len(unit) /\ UNCHANGED cross
  /\ UNCHANGED <<seqVars, data, iter, dictVars>>

(* -mutate_depth is reached, or with -reduce_depth nothing was found.      *)
RunLast ==
  /\ pc = "run" /\ (depth + 1 = MutateDepth \/ caller = "fuzz")
  /\ EndSequence
  /\ UNCHANGED <<caller, options, iter, dictVars>>

Next == StartFuzz \/ StartMinimize \/ Mutate \/ Try \/ Fallback
        \/ RunNewCoverage \/ RunNothingNew \/ RunLast

Spec == Init /\ [][Next]_vars
-----------------------------------------------------------------------------
TypeOK ==
  /\ pc \in {"start", "mutate", "try", "run"} /\ caller \in {"fuzz", "minimize"}
  /\ data \in Seq(Bytes) /\ size \in 0..Capacity /\ maxLen \in 0..Capacity
  /\ {unit, cross} \subseteq options.case.units \cup {<<>>}
  /\ iter \in 0..Tries /\ depth \in 0..MutateDepth
  /\ Len(ring) = CmpRingSize /\ Len(auto) <= MaxDictSize /\ Len(applied) = Len(entries)

(* No mutator, accepted or not, writes behind the buffer it was given, and *)
(* what is executed has 1 to maxLen bytes (the assertions of               *)
(* FuzzerLoop.cpp:753 and 927).                                            *)
WithinBuffer ==
  /\ TypeOK
  /\ Len(data) = Capacity
  /\ pc \in {"try", "run"} => Len(work.buf) = IF work.masked THEN work.max ELSE Capacity
  /\ pc = "run" => size \in 1..maxLen

(* FuzzerFlags.def:120: with -only_ascii what is executed is ASCII, also   *)
(* from a unit that is not and with words and units to cross over with     *)
(* that are not.  A mutation by a mask converts only what it puts back     *)
(* first, so there it takes a unit that is ASCII.                          *)
OnlyASCII ==
  options.ascii /\ pc = "run" /\ (work.masked => IsASCII(unit)) => IsASCII(SubSeq(data, 1, size))

(* Mutate.h: a masked mutation leaves the size and all other bytes alone,  *)
(* whatever the mutator did to the number of bytes it was given.           *)
MaskKept ==
  [][work.masked /\ pc' = "run" =>
       size' = size /\ \A i \in DOMAIN data : (i > Len(mask) \/ ~mask[i]) => data'[i] = data[i]]_vars

(* The addresses in the sequence still hold the words that were applied,   *)
(* so these are what a success records, as long as the sequence made no    *)
(* more entries of comparisons than the ring has places.                   *)
EntriesAreApplied ==
  Cardinality({k \in DOMAIN entries : entries[k][1] = "cmp"}) <= CmpRingSize =>
    \A k \in DOMAIN entries : Word(entries[k]).w = applied[k]

(* Also when it made more, only words applied since the sequence began get *)
(* into the automatic dictionary, and none of them twice.                  *)
RecordedOnce ==
  /\ \A j, k \in DOMAIN auto : auto[j].w = auto[k].w => j = k
  /\ \A k \in DOMAIN entries : Word(entries[k]).w \in ToSet(applied)
-----------------------------------------------------------------------------
(* What the proofs rest on: the inductive invariant.                       *)
Entry == [w : Seq(Bytes), hint : Nat \cup {NoHint}]
Refs ==
  ({"cmp"} \X (1..CmpRingSize)) \cup ({"auto"} \X DOMAIN auto)
    \cup ({"manual"} \X DOMAIN ManualDictionary)

DictTypes ==
  /\ ring \in [1..CmpRingSize -> Entry] /\ ringIdx \in 0..CmpRingSize - 1
  /\ auto \in Seq(Entry) /\ Len(auto) <= MaxDictSize
  /\ entries \in Seq(Refs) /\ applied \in Seq(Seq(Bytes)) /\ Len(applied) = Len(entries)

SeqTypes ==
  /\ caller \in {"fuzz", "minimize"} /\ options \in [ascii : BOOLEAN, case : Cases]
  /\ maxLen \in 0..Capacity /\ unit \in options.case.units \cup {<<>>}
  /\ mask \in options.case.masks \cup {<<>>}

(* A sequence is on: there is a unit, room for a byte, and something to    *)
(* mutate.                                                                 *)
OnDuty ==
  /\ pc \in {"start", "mutate", "try", "run"}
  /\ data \in Seq(Bytes) /\ Len(data) = Capacity /\ size \in 0..Capacity
  /\ cross \in options.case.units \cup {<<>>}
  /\ iter \in 0..Tries /\ depth \in 0..MutateDepth - 1
  /\ pc # "start" => unit # <<>> /\ maxLen > 0 /\ size > 0
  /\ pc = "run" => size <= maxLen

(* The buffer of MutateImpl is the data, or as long as there are masked    *)
(* bytes to put back; a try that is rejected leaves it that way.           *)
WorkRight ==
  /\ work \in [buf : Seq(Bytes), size : Nat, max : Nat, masked : BOOLEAN]
  /\ work.masked => caller = "fuzz"
  /\ pc \in {"try", "run"} =>
       Len(work.buf) = IF work.masked THEN work.max ELSE Capacity
  /\ pc = "try" =>
       /\ work.size \in 1..Len(work.buf)
       /\ IF work.masked
            THEN /\ size <= maxLen
                 /\ work.max = Len(Masked(mask, size)) /\ work.size = work.max
            ELSE work.max = maxLen

(* A byte that is ASCII is not replaced by one that is not.                *)
Plain(u, n) == \A i \in 1..n : ASCII[u[i]] = u[i]
ASCIIKept ==
  options.ascii =>
    /\ pc = "run" /\ ~work.masked => Plain(data, size)
    /\ pc # "start" /\ caller = "fuzz" /\ IsASCII(unit) =>
         /\ Plain(data, size)
         /\ pc = "try" /\ work.masked => Plain(work.buf, work.max)

(* The places of the ring were given out one after the other, so an entry  *)
(* is where it was put until the ring has come round.                      *)
Later(k) == {j \in DOMAIN entries : j > k /\ entries[j][1] = "cmp"}
After(k) == Cardinality(Later(k))
EntryRight(k) ==
  IF entries[k][1] = "cmp"
    THEN /\ ring[entries[k][2]].w \in ToSet(applied)
         /\ After(k) < CmpRingSize =>
              /\ entries[k][2] + After(k) \in {ringIdx, ringIdx + CmpRingSize}
              /\ ring[entries[k][2]].w = applied[k]
    ELSE Word(entries[k]).w = applied[k]
EntriesRight == \A k \in DOMAIN entries : EntryRight(k)
KnownOnce == \A j, k \in DOMAIN auto : auto[j].w = auto[k].w => j = k

IInv ==
  /\ SeqTypes /\ DictTypes /\ OnDuty /\ WorkRight
  /\ ASCIIKept /\ EntriesRight /\ KnownOnce
=============================================================================
