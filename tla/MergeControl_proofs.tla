------------------------ MODULE MergeControl_proofs ------------------------
(***************************************************************************)
(* Proofs about MergeControl, for lines that fit the buffer of the stream  *)
(* (~LongLines): an inductive invariant, what it implies for the control   *)
(* file and for the result of a merge, and that the control file keeps the *)
(* promise of RunOnce.                                                     *)
(***************************************************************************)
EXTENDS MergeControl, FiniteSetTheorems, TLAPS

(* How a line changes the number of STARTED lines up to any place.         *)
LEMMA StartedNat ==
  ASSUME NEW log \in Seq(LineType), NEW k \in 0..Len(log)
  PROVE  StartedIn(log, k) \in Nat
<1>1. IsFiniteSet(1..k)
  BY FS_Interval
<1>2. IsFiniteSet({m \in 1..k : log[m].mark = "STARTED"})
  BY <1>1, FS_Subset
<1> QED
  BY <1>2, FS_CardinalityType DEF StartedIn

LEMMA StartedAppend ==
  ASSUME NEW log \in Seq(LineType), NEW line \in LineType, NEW k \in 0..Len(log)
  PROVE  StartedIn(Append(log, line), k) = StartedIn(log, k)
<1>1. \A m \in 1..k : Append(log, line)[m] = log[m]
  OBVIOUS
<1>2. {m \in 1..k : Append(log, line)[m].mark = "STARTED"} = {m \in 1..k : log[m].mark = "STARTED"}
  BY <1>1, Zenon
<1> QED
  BY <1>2, Zenon DEF StartedIn

LEMMA StartedNew ==
  ASSUME NEW log \in Seq(LineType), NEW line \in LineType
  PROVE  StartedIn(Append(log, line), Len(log) + 1) =
           IF line.mark = "STARTED" THEN StartedIn(log, Len(log)) + 1 ELSE StartedIn(log, Len(log))
<1> DEFINE new == Append(log, line)
           S == {m \in 1..Len(log) : log[m].mark = "STARTED"}
           T == {m \in 1..(Len(log) + 1) : new[m].mark = "STARTED"}
<1>1. IsFiniteSet(1..Len(log))
  BY FS_Interval
<1>2. IsFiniteSet(S)
  BY <1>1, FS_Subset
<1>3. \A m \in 1..Len(log) : new[m] = log[m]
  OBVIOUS
<1>4. new[Len(log) + 1] = line /\ Len(log) \in Nat
  OBVIOUS
<1>5. CASE line.mark = "STARTED"
  <2>1. T = S \cup {Len(log) + 1}
    BY <1>3, <1>4, <1>5
  <2>2. Len(log) + 1 \notin S
    OBVIOUS
  <2>3. Cardinality(T) = Cardinality(S) + 1
    BY <1>2, <2>1, <2>2, FS_AddElement
  <2> QED
    BY <1>5, <2>3 DEF StartedIn
<1>6. CASE line.mark # "STARTED"
  <2>1. T = S
    BY <1>3, <1>4, <1>6
  <2> QED
    BY <1>6, <2>1, Zenon DEF StartedIn
<1> QED
  BY <1>5, <1>6

(* What a line adds to what is recorded of an input.                       *)
LEMMA HasFtAppend ==
  ASSUME NEW c \in FileType, NEW line \in LineType, NEW i,
         NEW d \in FileType, d.log = Append(c.log, line)
  PROVE  HasFt(d, i) <=> HasFt(c, i) \/ (line.mark = "FT" /\ line.id = i)
<1>1. /\ DOMAIN d.log = DOMAIN c.log \cup {Len(c.log) + 1}
      /\ \A k \in DOMAIN c.log : d.log[k] = c.log[k]
      /\ d.log[Len(c.log) + 1] = line
  BY DEF FileType
<1> QED
  BY <1>1, Zenon DEF HasFt

LEMMA FtAppend ==
  ASSUME NEW c \in FileType, NEW line \in LineType, NEW i,
         NEW d \in FileType, d.log = Append(c.log, line)
  PROVE  FtOf(d, i) = FtOf(c, i) \cup (IF line.mark = "FT" /\ line.id = i THEN line.feats ELSE {})
<1>1. /\ DOMAIN d.log = DOMAIN c.log \cup {Len(c.log) + 1}
      /\ \A k \in DOMAIN c.log : d.log[k] = c.log[k]
      /\ d.log[Len(c.log) + 1] = line
  BY DEF FileType
<1> DEFINE S == {k \in DOMAIN c.log : c.log[k].mark = "FT" /\ c.log[k].id = i}
           T == {k \in DOMAIN d.log : d.log[k].mark = "FT" /\ d.log[k].id = i}
           new == Len(c.log) + 1
<1>2. \A k : k \in T <=> k \in S \/ (k = new /\ line.mark = "FT" /\ line.id = i)
  BY <1>1, Len(c.log) + 1 \notin DOMAIN c.log DEF FileType
<1>3. \A k \in S : d.log[k].feats = c.log[k].feats
  BY <1>1
<1>4. \A f : f \in FtOf(d, i) <=> \E k \in T : f \in d.log[k].feats
  BY DEF FtOf
<1>5. \A f : f \in FtOf(c, i) <=> \E k \in S : f \in c.log[k].feats
  BY DEF FtOf
<1>6. d.log[new].feats = line.feats
  BY <1>1
<1> HIDE DEF S, T, new
<1> QED
  BY <1>2, <1>3, <1>4, <1>5, <1>6

LEMMA LinesAppend ==
  ASSUME NEW c \in FileType, LinesRight(c), NEW line \in LineType, NEW d \in FileType,
         d.names = c.names, d.log = Append(c.log, line),
         ~line.torn, line.mark \in {"STARTED", "FT", "COV"},
         line.id = StartedIn(d.log, Len(c.log) + 1), line.id \in DOMAIN c.names
  PROVE  LinesRight(d)
<1> SUFFICES ASSUME NEW k \in DOMAIN d.log
             PROVE  /\ ~d.log[k].torn /\ d.log[k].mark \in {"STARTED", "FT", "COV"}
                    /\ d.log[k].id = StartedIn(d.log, k)
                    /\ d.log[k].id \in DOMAIN c.names
  BY DEF LinesRight
<1>1. c.log \in Seq(LineType)
  BY DEF FileType
<1>2. CASE k \in DOMAIN c.log
  <2>1. d.log[k] = c.log[k]
    BY <1>1, <1>2
  <2>2. k \in 0..Len(c.log)
    BY <1>1, <1>2
  <2>3. StartedIn(d.log, k) = StartedIn(c.log, k)
    BY <1>1, <2>2, StartedAppend
  <2> QED
    BY <1>2, <2>1, <2>3 DEF LinesRight
<1>3. CASE k \notin DOMAIN c.log
  <2>1. k = Len(c.log) + 1 /\ d.log[k] = line
    BY <1>1, <1>3
  <2> QED
    BY <2>1
<1> QED
  BY <1>2, <1>3

(* The control file after the lines that an inner process writes.          *)
LEMMA LogType ==
  ASSUME NEW c \in FileType, NEW log \in Seq(LineType), NEW d, d = [c EXCEPT !.log = log]
  PROVE  d \in FileType /\ d.names = c.names /\ d.first = c.first /\ d.log = log
<1>1. d = [names |-> c.names, first |-> c.first, log |-> log]
  BY DEF FileType
<1> QED
  BY <1>1 DEF FileType

LEMMA NamesLength == ASSUME NEW c \in FileType PROVE Len(c.names) \in Nat /\ DOMAIN c.names = 1..Len(c.names)
BY DEF FileType

LEMMA ProcessedNat ==
  ASSUME NEW c \in FileType
  PROVE  FirstNotProcessed(c) \in Nat
<1>1. c.log \in Seq(LineType) /\ Len(c.log) \in 0..Len(c.log)
  BY DEF FileType
<1> QED
  BY <1>1, StartedNat DEF FirstNotProcessed

LEMMA Starting ==
  ASSUME NEW c \in FileType, LinesRight(c), NEW n \in Nat, n = FirstNotProcessed(c) + 1,
         n <= Len(c.names), NEW d \in FileType,
         d.names = c.names, d.log = Append(c.log, Line("STARTED", n, {}))
  PROVE  /\ FirstNotProcessed(d) = n
         /\ LinesRight(d)
         /\ \A i : HasFt(d, i) <=> HasFt(c, i)
         /\ \A i : FtOf(d, i) = FtOf(c, i)
<1> DEFINE line == Line("STARTED", n, {})
<1>1. line \in LineType
  BY DEF Line, LineType
<1>2. c.log \in Seq(LineType)
  BY DEF FileType
<1>3. d.names = c.names /\ d.log = Append(c.log, line)
  OBVIOUS
<1>5. line.mark = "STARTED" /\ line.id = n /\ ~line.torn
  BY DEF Line
<1> HIDE DEF line
<1>6. Len(d.log) = Len(c.log) + 1
  BY <1>2, <1>3
<1>7. StartedIn(d.log, Len(c.log) + 1) = n
  BY <1>1, <1>2, <1>3, <1>5, StartedNew DEF FirstNotProcessed
<1>8. FirstNotProcessed(d) = n
  BY <1>6, <1>7 DEF FirstNotProcessed
<1>9. line.id \in DOMAIN c.names
  BY <1>5, ProcessedNat, NamesLength
<1>10. LinesRight(d)
  BY <1>1, <1>3, <1>5, <1>7, <1>9, LinesAppend
<1>11. \A i : HasFt(d, i) <=> HasFt(c, i)
  <2> TAKE i
  <2> QED
    BY <1>1, <1>3, <1>5, HasFtAppend
<1>12. \A i : FtOf(d, i) = FtOf(c, i)
  <2> TAKE i
  <2>1. FtOf(d, i) = FtOf(c, i) \cup (IF line.mark = "FT" /\ line.id = i THEN line.feats ELSE {})
    BY <1>1, <1>3, FtAppend
  <2> QED
    BY <2>1, <1>5
<1> QED
  BY <1>8, <1>10, <1>11, <1>12

FlushedLog(log, n, fs) == log \o <<Line("FT", n, fs), Line("COV", n, {})>>

LEMMA Flushing ==
  ASSUME NEW c \in FileType, LinesRight(c),
         NEW n \in Nat, n = FirstNotProcessed(c), n \in DOMAIN c.names,
         NEW fs \in SUBSET Features, NEW d \in FileType, d.names = c.names,
         d.log = FlushedLog(c.log, n, fs)
  PROVE  /\ FirstNotProcessed(d) = n
         /\ LinesRight(d)
         /\ \A i : HasFt(d, i) <=> HasFt(c, i) \/ i = n
         /\ \A i : i # n => FtOf(d, i) = FtOf(c, i)
         /\ FtOf(d, n) = FtOf(c, n) \cup fs
<1> DEFINE ft == Line("FT", n, fs)
           cov == Line("COV", n, {})
<1>1. ft \in LineType /\ cov \in LineType
  BY ProcessedNat DEF Line, LineType
<1>2. c.log \in Seq(LineType)
  BY DEF FileType
<1>3. /\ ft.mark = "FT" /\ ft.id = n /\ ft.feats = fs /\ ~ft.torn
      /\ cov.mark = "COV" /\ cov.id = n /\ cov.feats = {} /\ ~cov.torn
  BY DEF Line
<1>5. d.names = c.names /\ d.log = c.log \o <<ft, cov>>
  BY DEF FlushedLog
<1> HIDE DEF ft, cov
<1>4. PICK e \in FileType : e.names = c.names /\ e.log = Append(c.log, ft)
  <2>1. Append(c.log, ft) \in Seq(LineType)
    BY <1>1, <1>2
  <2> QED
    BY <2>1, LogType, ZenonT(40)
<1>6. d.log = Append(e.log, cov)
  BY <1>1, <1>2, <1>4, <1>5
<1>7. e.log \in Seq(LineType) /\ Len(e.log) = Len(c.log) + 1
  BY <1>1, <1>2, <1>4
<1>8. Len(d.log) = Len(e.log) + 1
  BY <1>1, <1>6, <1>7
<1>9. StartedIn(e.log, Len(c.log) + 1) = n
  BY <1>1, <1>2, <1>3, <1>4, StartedNew DEF FirstNotProcessed
<1>10. StartedIn(d.log, Len(e.log) + 1) = n
  BY <1>1, <1>3, <1>6, <1>7, <1>9, StartedNew
<1>11. FirstNotProcessed(d) = n
  BY <1>8, <1>10 DEF FirstNotProcessed
<1>12. LinesRight(e)
  BY <1>1, <1>3, <1>4, <1>9, LinesAppend
<1>13. LinesRight(d)
  BY <1>1, <1>3, <1>4, <1>5, <1>6, <1>10, <1>12, LinesAppend
<1>14. \A i : HasFt(d, i) <=> HasFt(c, i) \/ i = n
  <2> TAKE i
  <2>1. HasFt(e, i) <=> HasFt(c, i) \/ i = n
    BY <1>1, <1>3, <1>4, HasFtAppend
  <2>2. HasFt(d, i) <=> HasFt(e, i)
    BY <1>1, <1>3, <1>6, HasFtAppend
  <2> QED
    BY <2>1, <2>2, Zenon
<1>15. \A i : FtOf(d, i) = FtOf(c, i) \cup (IF i = n THEN fs ELSE {})
  <2> TAKE i
  <2>1. FtOf(e, i) = FtOf(c, i) \cup (IF ft.mark = "FT" /\ ft.id = i THEN ft.feats ELSE {})
    BY <1>1, <1>4, FtAppend
  <2>2. FtOf(d, i) = FtOf(e, i) \cup (IF cov.mark = "FT" /\ cov.id = i THEN cov.feats ELSE {})
    BY <1>1, <1>6, FtAppend
  <2> QED
    BY <2>1, <2>2, <1>3
<1> QED
  BY <1>11, <1>13, <1>14, <1>15

(* A listing of a directory, and the list that is written from two.        *)
LEMMA ListingRight ==
  ASSUME NEW S \in SUBSET Contents, IsFiniteSet(S), NEW dir \in {"in", "out"},
         NEW s \in Listings(S, dir)
  PROVE  /\ s \in Seq(FileNames)
         /\ \A i \in DOMAIN s : s[i] \in S \X {dir}
         /\ \A i, j \in DOMAIN s : i < j => /\ s[i] # s[j]
                                            /\ SizeOf[Content(s[i])] <= SizeOf[Content(s[j])]
<1> DEFINE use == {c \in S : \A i \in DOMAIN known : known[i].name # <<c, dir>>}
<1>1. IsFiniteSet(use)
  BY FS_Subset
<1>2. Cardinality(use) \in Nat
  BY <1>1, FS_CardinalityType
<1>3. s \in [1..Cardinality(use) -> use \X {dir}]
  BY DEF Listings
<1>4. use \X {dir} \subseteq FileNames /\ use \X {dir} \subseteq S \X {dir}
  BY DEF FileNames
<1> HIDE DEF use
<1>5. s \in Seq(FileNames)
  BY <1>2, <1>3, <1>4
<1>6. \A i \in DOMAIN s : s[i] \in S \X {dir}
  BY <1>3, <1>4
<1>7. \A i, j \in DOMAIN s : i < j => /\ s[i] # s[j]
                                      /\ SizeOf[Content(s[i])] <= SizeOf[Content(s[j])]
  BY DEF Listings
<1> QED
  BY <1>5, <1>6, <1>7

LEMMA ListRight ==
  ASSUME outDir \in SUBSET Contents, IsFiniteSet(outDir),
         NEW old \in Listings(outDir, "out"), NEW new \in Listings(InDir, "in"), NEW c,
         c = [names |-> old \o new, first |-> Len(old), log |-> <<>>]
  PROVE  /\ c \in FileType /\ c.first = Len(old) /\ Len(c.names) = Len(old) + Len(new)
         /\ Len(old) \in Nat /\ Len(new) \in Nat
         /\ FirstNotProcessed(c) = 0 /\ \A i : ~HasFt(c, i)
         /\ LinesRight(c) /\ NamesRight(c) /\ FeaturesRight(c)
<1>1. /\ old \in Seq(FileNames)
      /\ \A i \in DOMAIN old : old[i] \in outDir \X {"out"}
      /\ \A i, j \in DOMAIN old : i < j => /\ old[i] # old[j]
                                           /\ SizeOf[Content(old[i])] <= SizeOf[Content(old[j])]
  BY ListingRight
<1>2. /\ new \in Seq(FileNames)
      /\ \A i \in DOMAIN new : new[i] \in InDir \X {"in"}
      /\ \A i, j \in DOMAIN new : i < j => /\ new[i] # new[j]
                                           /\ SizeOf[Content(new[i])] <= SizeOf[Content(new[j])]
  BY ListingRight, MergeAssumption
<1>3. c.log = <<>> /\ c.names = old \o new /\ c.first = Len(old)
  OBVIOUS
<1>4. old \o new \in Seq(FileNames) /\ Len(old \o new) = Len(old) + Len(new)
  BY <1>1, <1>2
<1>5. c \in FileType
  <2>1. <<>> \in Seq(LineType)
    OBVIOUS
  <2> QED
    BY <1>1, <1>4, <2>1 DEF FileType
<1>6. FirstNotProcessed(c) = 0
  <2>1. 1..Len(c.log) = {}
    BY <1>3
  <2>2. {m \in 1..Len(c.log) : c.log[m].mark = "STARTED"} = {}
    BY <2>1
  <2> QED
    BY <2>2, FS_EmptySet DEF FirstNotProcessed, StartedIn
<1>7. DOMAIN c.log = {}
  BY <1>3
<1>8. \A i : ~HasFt(c, i) /\ FtOf(c, i) = {}
  BY <1>7 DEF HasFt, FtOf
<1>9. LinesRight(c)
  BY <1>7 DEF LinesRight
<1>10. FeaturesRight(c)
  BY <1>8 DEF FeaturesRight
<1>11. NamesRight(c)
  <2>1. Len(old) \in Nat /\ Len(new) \in Nat /\ DOMAIN old = 1..Len(old) /\ DOMAIN new = 1..Len(new)
    BY <1>1, <1>2
  <2>2. /\ DOMAIN (old \o new) = 1..(Len(old) + Len(new))
        /\ \A i \in 1..(Len(old) + Len(new)) :
             (old \o new)[i] = IF i <= Len(old) THEN old[i] ELSE new[i - Len(old)]
    BY <1>1, <1>2
  <2>3. \A i \in DOMAIN c.names :
          c.names[i] \in IF i <= c.first THEN outDir \X {"out"} ELSE InDir \X {"in"}
    <3> SUFFICES ASSUME NEW i \in DOMAIN c.names
                 PROVE  c.names[i] \in IF i <= c.first THEN outDir \X {"out"} ELSE InDir \X {"in"}
      OBVIOUS
    <3>1. CASE i <= Len(old)
      <4>1. i \in DOMAIN old /\ c.names[i] = old[i]
        BY <1>3, <2>1, <2>2, <3>1
      <4> QED
        BY <1>1, <1>3, <3>1, <4>1
    <3>2. CASE ~(i <= Len(old))
      <4>1. i - Len(old) \in DOMAIN new /\ c.names[i] = new[i - Len(old)]
        BY <1>3, <2>1, <2>2, <3>2
      <4> QED
        BY <1>2, <1>3, <3>2, <4>1
    <3> QED
      BY <3>1, <3>2
  <2>4. \A i, j \in DOMAIN c.names :
          i < j => /\ c.names[i] # c.names[j]
                   /\ c.first < i => SizeOf[Content(c.names[i])] <= SizeOf[Content(c.names[j])]
    <3> SUFFICES ASSUME NEW i \in DOMAIN c.names, NEW j \in DOMAIN c.names, i < j
                 PROVE  /\ c.names[i] # c.names[j]
                        /\ c.first < i => SizeOf[Content(c.names[i])] <= SizeOf[Content(c.names[j])]
      OBVIOUS
    <3>1. i \in 1..(Len(old) + Len(new)) /\ j \in 1..(Len(old) + Len(new))
      BY <1>3, <2>2
    <3>2. CASE j <= Len(old)
      <4>1. i \in DOMAIN old /\ j \in DOMAIN old /\ c.names[i] = old[i] /\ c.names[j] = old[j]
        BY <1>3, <2>1, <2>2, <3>1, <3>2
      <4>2. ~(c.first < i)
        BY <1>3, <2>1, <3>1, <3>2
      <4> QED
        BY <1>1, <4>1, <4>2
    <3>3. CASE i <= Len(old) /\ ~(j <= Len(old))
      <4>1. ~(c.first < i)
        BY <1>3, <2>1, <3>1, <3>3
      <4>2. c.names[i] \in outDir \X {"out"} /\ c.names[j] \in InDir \X {"in"}
        BY <1>3, <2>3, <3>3
      <4> QED
        BY <4>1, <4>2
    <3>4. CASE ~(i <= Len(old)) /\ ~(j <= Len(old))
      <4>1. /\ i - Len(old) \in DOMAIN new /\ j - Len(old) \in DOMAIN new
            /\ i - Len(old) < j - Len(old)
            /\ c.names[i] = new[i - Len(old)] /\ c.names[j] = new[j - Len(old)]
        BY <1>3, <2>1, <2>2, <3>1, <3>4
      <4> QED
        BY <1>2, <4>1
    <3> QED
      BY <2>1, <3>1, <3>2, <3>3, <3>4
  <2> QED
    BY <1>3, <1>4, <1>6, <2>1, <2>3, <2>4, SMTT(30) DEF NamesRight
<1>12. Len(c.names) = Len(old) + Len(new) /\ c.first = Len(old)
  BY <1>3, <1>4
<1>13. Len(old) \in Nat /\ Len(new) \in Nat
  BY <1>1, <1>2
<1> QED
  BY <1>5, <1>6, <1>8, <1>9, <1>10, <1>11, <1>12, <1>13, Zenon

(* Which steps touch what.                                                 *)
LEMMA Frames ==
  ASSUME ~LongLines, [Next]_vars
  PROVE  /\ UNCHANGED cf \/ RemoveControlFile \/ WriteControlFile \/ InnerStarts \/ InnerFlushes
         /\ UNCHANGED outDir \/ CopyFile
         /\ UNCHANGED known \/ Reuse \/ Rerun
         /\ UNCHANGED selectVars \/ ReadControlFile \/ MergeStep \/ SetCoverStep \/ CopyFile \/ Rerun
         /\ UNCHANGED <<setCover, runs>> \/ Rerun
<1>1. CASE Progress
  BY <1>1 DEF Progress, Overwrite, NothingToDo, Reuse, Resume, RemoveControlFile,
     WriteControlFile,
       Launch, GiveUp, InnerParses, InnerStarts, InnerCrashes, InnerRuns, InnerFlushes,
       InnerFinishes, ReadControlFile, MergeStep, SetCoverStep, Selected, CopyFile, CopiedAll,
       selectVars, bounds, outerVars
<1>2. CASE Next /\ ~Progress
  BY <1>2 DEF Next, OuterExitsGracefully, InnerExitsGracefully, InnerFailsToStart,
     InnerIsKilled,
       OuterIsKilled, Rerun, Stopped, vars, selectVars, bounds, outerVars
<1>3. CASE UNCHANGED vars
  BY <1>3 DEF vars, selectVars, bounds, outerVars
<1> QED
  BY <1>1, <1>2, <1>3

LEMMA InitIInv == Init => IInv
<1> SUFFICES ASSUME Init PROVE IInv
  OBVIOUS
<1>1. Off \in InnerType
  BY DEF Off, InnerType
<1>2. TypeOK
  <2>1. <<>> \in Seq(InfoType) /\ <<>> \in Seq(FileNames)
    OBVIOUS
  <2>2. outDir \subseteq Contents /\ runs \in 1..MaxRuns /\ kills \in 0..MaxKills
    BY MergeAssumption DEF Init
  <2>3. attempt \in 0..attempts /\ attempts \in Nat /\ rest \subseteq DOMAIN files
    BY DEF Init
  <2> QED
    BY <1>1, <2>1, <2>2, <2>3, Zenon DEF Init, TypeOK
<1>3. IsFiniteSet(outDir)
  BY MergeAssumption DEF Init
<1>4. Turns /\ AttemptsRight /\ AttemptsSuffice
  BY DEF Init, Turns, AttemptsRight, AttemptsSuffice, Off
<1>5. SeenRight /\ KnownRight
  BY DEF Init, SeenRight, KnownRight, Off
<1>6. SelectionRight /\ PickedRight /\ OnlyNewCoverageAdded
  BY DEF Init, SelectionRight, PickedRight, OnlyNewCoverageAdded, PickedContents,
     ContentFeatures, Ended
<1> QED
  BY <1>2, <1>3, <1>4, <1>5, <1>6 DEF IInv, Init

(* What an inner process does to the control file.                         *)
LEMMA StartsFile ==
  ASSUME IInv, InnerStarts
  PROVE  /\ cf \in FileType /\ cf' \in FileType /\ cf'.names = cf.names /\ cf'.first = cf.first
         /\ inner.idx = FirstNotProcessed(cf) + 1 /\ inner.idx \in DOMAIN cf.names
         /\ FirstNotProcessed(cf') = inner.idx
         /\ LinesRight(cf')
         /\ \A i : HasFt(cf', i) <=> HasFt(cf, i)
         /\ \A i : FtOf(cf', i) = FtOf(cf, i)
<1>1. cf # NoFile /\ cf \in FileType /\ LinesRight(cf)
  BY DEF IInv, TypeOK, Turns, InnerStarts
<1>2. inner.idx = FirstNotProcessed(cf) + 1 /\ inner.idx <= Len(cf.names) /\ inner.idx \in Nat
  BY DEF IInv, TypeOK, Turns, InnerStarts, InnerType
<1>3. inner.idx \in DOMAIN cf.names
  BY <1>1, <1>2, ProcessedNat, NamesLength
<1>4. AppendLine(cf.log, Line("STARTED", inner.idx, {}))
        = Append(cf.log, Line("STARTED", inner.idx, {}))
  BY <1>1 DEF AppendLine, LinesRight, FileType
<1> DEFINE log == Append(cf.log, Line("STARTED", inner.idx, {}))
<1>5. log \in Seq(LineType)
  <2>1. Line("STARTED", inner.idx, {}) \in LineType
    BY <1>2 DEF Line, LineType
  <2>2. cf.log \in Seq(LineType)
    BY <1>1 DEF FileType
  <2> QED
    BY <2>1, <2>2
<1>6. cf' = [cf EXCEPT !.log = log]
  BY <1>4 DEF InnerStarts
<1> HIDE DEF log
<1>7. cf' \in FileType /\ cf'.names = cf.names /\ cf'.first = cf.first /\ cf'.log = log
  BY <1>1, <1>5, <1>6, LogType
<1>8. /\ FirstNotProcessed(cf') = inner.idx
      /\ LinesRight(cf')
      /\ \A i : HasFt(cf', i) <=> HasFt(cf, i)
      /\ \A i : FtOf(cf', i) = FtOf(cf, i)
  <2> DEFINE d == cf'
             n == inner.idx
  <2>1. d \in FileType /\ d.names = cf.names /\ d.log = Append(cf.log, Line("STARTED", n, {}))
    BY <1>7 DEF log
  <2> HIDE DEF d, n
  <2>2. n \in Nat /\ n = FirstNotProcessed(cf) + 1 /\ n <= Len(cf.names)
    BY <1>2 DEF n
  <2>3. /\ FirstNotProcessed(d) = n
        /\ LinesRight(d)
        /\ \A i : HasFt(d, i) <=> HasFt(cf, i)
        /\ \A i : FtOf(d, i) = FtOf(cf, i)
    BY <1>1, <2>1, <2>2, Starting
  <2> QED
    BY <2>3 DEF d, n
<1> QED
  BY <1>1, <1>2, <1>3, <1>7, <1>8

LEMMA FlushesFile ==
  ASSUME IInv, InnerFlushes
  PROVE  /\ cf \in FileType /\ cf' \in FileType /\ cf'.names = cf.names /\ cf'.first = cf.first
         /\ inner.idx = FirstNotProcessed(cf) /\ inner.idx \in DOMAIN cf.names
         /\ FirstNotProcessed(cf') = inner.idx
         /\ LinesRight(cf')
         /\ \A i : HasFt(cf', i) <=> HasFt(cf, i) \/ i = inner.idx
         /\ \A i : i # inner.idx => FtOf(cf', i) = FtOf(cf, i)
         /\ FtOf(cf', inner.idx) = FtOf(cf, inner.idx) \cup inner.buf
<1>1. cf # NoFile /\ cf \in FileType /\ LinesRight(cf)
  BY DEF IInv, TypeOK, Turns, InnerFlushes
<1>2. inner.idx = FirstNotProcessed(cf) /\ inner.idx \in DOMAIN cf.names /\ inner.idx \in Nat
  BY DEF IInv, TypeOK, Turns, InnerFlushes, InnerType
<1>3. inner.buf \in SUBSET Features
  BY DEF IInv, TypeOK, InnerType
<1> DEFINE log == cf.log \o <<Line("FT", inner.idx, inner.buf), Line("COV", inner.idx, {})>>
<1>5. log \in Seq(LineType)
  <2>1. Line("FT", inner.idx, inner.buf) \in LineType /\ Line("COV", inner.idx, {}) \in LineType
    BY <1>2, <1>3 DEF Line, LineType
  <2>2. cf.log \in Seq(LineType)
    BY <1>1 DEF FileType
  <2> QED
    BY <2>1, <2>2
<1>6. cf' = [cf EXCEPT !.log = log]
  BY DEF InnerFlushes
<1> HIDE DEF log
<1>7. cf' \in FileType /\ cf'.names = cf.names /\ cf'.first = cf.first /\ cf'.log = log
  BY <1>1, <1>5, <1>6, LogType
<1>8. /\ FirstNotProcessed(cf') = inner.idx
      /\ LinesRight(cf')
      /\ \A i : HasFt(cf', i) <=> HasFt(cf, i) \/ i = inner.idx
      /\ \A i : i # inner.idx => FtOf(cf', i) = FtOf(cf, i)
      /\ FtOf(cf', inner.idx) = FtOf(cf, inner.idx) \cup inner.buf
  <2> DEFINE d == cf'
             n == inner.idx
             fs == inner.buf
  <2>1. d \in FileType /\ d.names = cf.names
        /\ d.log = FlushedLog(cf.log, n, fs)
    BY <1>7 DEF log, FlushedLog
  <2> HIDE DEF d, n, fs
  <2>2. n \in Nat /\ n = FirstNotProcessed(cf) /\ n \in DOMAIN cf.names /\ fs \in SUBSET Features
    BY <1>2, <1>3 DEF n, fs
  <2>3. /\ FirstNotProcessed(d) = n
        /\ LinesRight(d)
        /\ \A i : HasFt(d, i) <=> HasFt(cf, i) \/ i = n
        /\ \A i : i # n => FtOf(d, i) = FtOf(cf, i)
        /\ FtOf(d, n) = FtOf(cf, n) \cup fs
    BY <1>1, <2>1, <2>2, Flushing
  <2> QED
    BY <2>3 DEF d, n, fs
<1> QED
  BY <1>1, <1>2, <1>7, <1>8

(* What Merger::Parse makes of a control file.                             *)
LEMMA FtType == ASSUME NEW c \in FileType, NEW i PROVE FtOf(c, i) \subseteq Features
<1>1. c.log \in Seq(LineType)
  BY DEF FileType
<1>2. \A k \in DOMAIN c.log : c.log[k] \in LineType
  BY <1>1
<1>3. \A k \in DOMAIN c.log : c.log[k].feats \subseteq Features
  BY <1>2 DEF LineType
<1> QED
  BY <1>3 DEF FtOf

LEMMA FilesRight ==
  ASSUME NEW c \in FileType
  PROVE  /\ ParsedFiles(c) \in Seq(InfoType)
         /\ Len(ParsedFiles(c)) = Len(c.names)
         /\ \A i \in DOMAIN c.names :
              /\ ParsedFiles(c)[i].name = c.names[i]
              /\ ParsedFiles(c)[i].feats = FtOf(c, i)
              /\ i <= FirstNotProcessed(c) =>
                   ParsedFiles(c)[i].size = SizeOf[Content(c.names[i])]
<1>1. c.names \in Seq(FileNames)
  BY DEF FileType
<1>2. \A i \in DOMAIN c.names : c.names[i] \in FileNames /\ SizeOf[Content(c.names[i])] \in Nat
  BY <1>1, MergeAssumption DEF FileNames, Content
<1> DEFINE info(i) ==
      [name |-> c.names[i],
       size |-> IF i <= FirstNotProcessed(c) THEN SizeOf[Content(c.names[i])] ELSE 0,
       feats |-> FtOf(c, i)]
<1>3. \A i \in DOMAIN c.names : info(i) \in InfoType
  BY <1>2, FtType DEF InfoType
<1>4. ParsedFiles(c) = [i \in DOMAIN c.names |-> info(i)]
  BY DEF ParsedFiles
<1>5. DOMAIN c.names = 1..Len(c.names) /\ Len(c.names) \in Nat
  BY <1>1
<1>6. /\ \A i \in DOMAIN c.names :
           /\ info(i).name = c.names[i]
           /\ info(i).feats = FtOf(c, i)
           /\ i <= FirstNotProcessed(c) => info(i).size = SizeOf[Content(c.names[i])]
  OBVIOUS
<1> HIDE DEF info
<1>7. ParsedFiles(c) \in Seq(InfoType) /\ Len(ParsedFiles(c)) = Len(c.names)
  BY <1>3, <1>4, <1>5
<1> QED
  BY <1>4, <1>6, <1>7

(* The lists of files stay what they are.                                  *)
LEMMA FileTypeStep ==
  ASSUME IInv, ~LongLines, [Next]_vars
  PROVE  cf' = NoFile \/ cf' \in FileType
<1>1. CASE UNCHANGED cf
  BY <1>1 DEF IInv, TypeOK
<1>2. CASE RemoveControlFile
  BY <1>2 DEF RemoveControlFile
<1>3. CASE WriteControlFile
  BY <1>3, ListRight DEF WriteControlFile, IInv, TypeOK
<1>4. CASE InnerStarts
  BY <1>4, StartsFile
<1>5. CASE InnerFlushes
  BY <1>5, FlushesFile
<1> QED
  BY <1>1, <1>2, <1>3, <1>4, <1>5, Frames

LEMMA KnownTypeStep ==
  ASSUME IInv, ~LongLines, [Next]_vars
  PROVE  known' \in Seq(InfoType)
<1>1. CASE UNCHANGED known
  BY <1>1 DEF IInv, TypeOK
<1>2. CASE Reuse
  <2>1. cf \in FileType /\ known' = ParsedFiles(cf)
    BY <1>2 DEF Reuse, Parses, IInv, TypeOK
  <2> QED
    BY <2>1, FilesRight
<1>3. CASE Rerun
  BY <1>3 DEF Rerun
<1> QED
  BY <1>1, <1>2, <1>3, Frames

(* Taking a file.                                                          *)
LEMMA TakeType ==
  ASSUME TypeOK, NEW i \in rest, Take(i)
  PROVE  /\ all' \subseteq Features /\ picked' \in Seq(FileNames)
         /\ rest' \subseteq DOMAIN files
         /\ Len(picked') = Len(picked) + 1 /\ Len(picked) \in Nat
         /\ DOMAIN picked' = 1..(Len(picked) + 1) /\ DOMAIN picked = 1..Len(picked)
         /\ \A k \in DOMAIN picked : picked'[k] = picked[k]
         /\ picked'[Len(picked) + 1] = files[i].name
<1>1. files[i] \in InfoType /\ picked \in Seq(FileNames)
  BY DEF TypeOK
<1>2. files[i].name \in FileNames /\ files[i].feats \subseteq Features
  BY <1>1 DEF InfoType
<1>3. picked' = Append(picked, files[i].name)
  BY DEF Take
<1>4. /\ picked' \in Seq(FileNames)
      /\ Len(picked') = Len(picked) + 1 /\ Len(picked) \in Nat
      /\ DOMAIN picked' = 1..(Len(picked) + 1) /\ DOMAIN picked = 1..Len(picked)
      /\ \A k \in DOMAIN picked : picked'[k] = picked[k]
      /\ picked'[Len(picked) + 1] = files[i].name
  BY <1>1, <1>2, <1>3
<1>5. all' \subseteq Features /\ rest' \subseteq DOMAIN files
  BY <1>2 DEF Take, TypeOK
<1> QED
  BY <1>4, <1>5

(* WriteToOutputCorpus, of the first of the files that are left to copy.   *)
LEMMA CopyType ==
  ASSUME TypeOK, CopyFile
  PROVE  /\ picked' \in Seq(FileNames) /\ added' \in Seq(FileNames)
         /\ Len(picked) \in Nat \ {0} /\ DOMAIN picked = 1..Len(picked) /\ Head(picked) = picked[1]
         /\ DOMAIN picked' = 1..(Len(picked) - 1)
         /\ \A k \in 1..(Len(picked) - 1) : picked'[k] = picked[k + 1]
         /\ Len(added) \in Nat /\ DOMAIN added = 1..Len(added)
         /\ DOMAIN added' = 1..(Len(added) + 1)
         /\ \A k \in 1..Len(added) : added'[k] = added[k]
         /\ added'[Len(added) + 1] = picked[1]
         /\ outDir' = outDir \cup {Content(picked[1])} /\ outDir' \subseteq Contents
<1>1. picked \in Seq(FileNames) /\ picked # <<>> /\ added \in Seq(FileNames)
  BY DEF TypeOK, CopyFile
<1>2. picked' = Tail(picked) /\ added' = Append(added, Head(picked))
  BY DEF CopyFile
<1>3. /\ Len(picked) \in Nat \ {0} /\ DOMAIN picked = 1..Len(picked) /\ Head(picked) = picked[1]
      /\ picked[1] \in FileNames
  BY <1>1
<1>4. /\ picked' \in Seq(FileNames)
      /\ DOMAIN picked' = 1..(Len(picked) - 1)
      /\ \A k \in 1..(Len(picked) - 1) : picked'[k] = picked[k + 1]
  BY <1>1, <1>2
<1>5. /\ added' \in Seq(FileNames)
      /\ Len(added) \in Nat /\ DOMAIN added = 1..Len(added)
      /\ DOMAIN added' = 1..(Len(added) + 1)
      /\ \A k \in 1..Len(added) : added'[k] = added[k]
      /\ added'[Len(added) + 1] = picked[1]
  BY <1>1, <1>2, <1>3
<1>6. outDir' = outDir \cup {Content(picked[1])} /\ outDir' \subseteq Contents
  BY <1>3 DEF CopyFile, TypeOK, FileNames, Content
<1> QED
  BY <1>3, <1>4, <1>5, <1>6

(* What the outer process selects from.                                    *)
LEMMA ConcatFiles ==
  ASSUME NEW s \in Seq(InfoType), NEW t \in Seq(InfoType)
  PROVE  /\ s \o t \in Seq(InfoType) /\ DOMAIN (s \o t) = 1..(Len(s) + Len(t))
         /\ Len(s) \in Nat /\ Len(t) \in Nat /\ DOMAIN t = 1..Len(t) /\ DOMAIN s = 1..Len(s)
         /\ \A i \in 1..Len(s) : (s \o t)[i] = s[i]
         /\ \A i \in 1..Len(t) : (s \o t)[Len(s) + i] = t[i]
OBVIOUS

LEMMA ReadFiles ==
  ASSUME IInv, ReadControlFile, Parses(cf)
  PROVE  /\ cf \in FileType /\ cf.first \in Nat /\ cf.first <= Len(cf.names)
         /\ Len(cf.names) \in Nat /\ Len(known) \in Nat
         /\ files' = ParsedFiles(cf) \o known /\ files' \in Seq(InfoType)
         /\ DOMAIN files' = 1..(Len(cf.names) + Len(known))
         /\ rest' = (cf.first + 1)..(Len(cf.names) + Len(known)) /\ rest' \subseteq DOMAIN files'
<1>1. cf \in FileType
  BY DEF IInv, TypeOK, Parses
<1>2. known \in Seq(InfoType)
  BY DEF IInv, TypeOK
<1>3. cf.first \in Nat /\ cf.first <= Len(cf.names)
  BY <1>1 DEF Parses, FileType
<1>4. Len(cf.names) \in Nat /\ Len(known) \in Nat
  BY <1>1, <1>2, NamesLength
<1>5. ParsedFiles(cf) \in Seq(InfoType) /\ Len(ParsedFiles(cf)) = Len(cf.names)
  BY <1>1, FilesRight
<1>6. files' = ParsedFiles(cf) \o known /\ rest' = (cf.first + 1)..(Len(cf.names) + Len(known))
  BY DEF ReadControlFile
<1>7. files' \in Seq(InfoType) /\ DOMAIN files' = 1..(Len(cf.names) + Len(known))
  <2> PICK p \in Seq(InfoType) : p = ParsedFiles(cf)
    BY <1>5
  <2>1. p \o known \in Seq(InfoType) /\ DOMAIN (p \o known) = 1..(Len(p) + Len(known))
    BY <1>2, ConcatFiles, Zenon
  <2> QED
    BY <1>5, <1>6, <2>1, Zenon
<1>8. rest' \subseteq DOMAIN files'
  BY <1>3, <1>4, <1>6, <1>7
<1> QED
  BY <1>1, <1>3, <1>4, <1>6, <1>7, <1>8

LEMMA SelectTypeStep ==
  ASSUME IInv, ~LongLines, [Next]_vars
  PROVE  /\ files' \in Seq(InfoType) /\ rest' \subseteq DOMAIN files' /\ all' \subseteq Features
         /\ picked' \in Seq(FileNames) /\ added' \in Seq(FileNames)
         /\ outDir' \subseteq Contents /\ IsFiniteSet(outDir')
<1> USE DEF selectVars
<1>1. TypeOK /\ IsFiniteSet(outDir)
  BY DEF IInv
<1>2. CASE CopyFile
  <2>1. outDir' \subseteq Contents /\ picked' \in Seq(FileNames) /\ added' \in Seq(FileNames)
    BY <1>1, <1>2, CopyType
  <2>2. IsFiniteSet(outDir')
    BY <1>1, <1>2, FS_AddElement DEF CopyFile
  <2> QED
    BY <1>1, <1>2, <2>1, <2>2 DEF CopyFile, TypeOK
<1>3. outDir' \subseteq Contents /\ IsFiniteSet(outDir')
  BY <1>1, <1>2, Frames DEF TypeOK
<1>4. CASE UNCHANGED selectVars
  BY <1>1, <1>3, <1>4 DEF TypeOK
<1>5. CASE ReadControlFile
  <2>1. CASE Parses(cf)
    <3>1. files' \in Seq(InfoType) /\ rest' \subseteq DOMAIN files'
      BY <1>5, <2>1, ReadFiles
    <3>2. all' \subseteq Features
      <4>1. all' = FirstCorpusFeatures(cf) /\ cf \in FileType
        BY <1>1, <1>5, <2>1 DEF ReadControlFile, Parses, TypeOK
      <4>2. \A i \in DOMAIN cf.names : ParsedFiles(cf)[i].feats \subseteq Features
        BY <4>1, FilesRight, FtType
      <4> QED
        BY <4>1, <4>2 DEF FirstCorpusFeatures
    <3> QED
      BY <1>1, <1>3, <1>5, <3>1, <3>2 DEF ReadControlFile, TypeOK
  <2>2. CASE ~Parses(cf)
    BY <1>1, <1>3, <1>5, <2>2 DEF ReadControlFile, TypeOK
  <2> QED
    BY <2>1, <2>2
<1>6. CASE MergeStep
  <2> PICK i \in rest : IF New(i) # {} THEN Take(i) ELSE rest' = rest \ {i} /\ UNCHANGED <<all, picked>>
    BY <1>6 DEF MergeStep
  <2>1. CASE Take(i)
    BY <1>1, <1>3, <1>6, <2>1, TakeType DEF MergeStep, TypeOK
  <2>2. CASE rest' = rest \ {i} /\ UNCHANGED <<all, picked>>
    BY <1>1, <1>3, <1>6, <2>2 DEF MergeStep, TypeOK
  <2> QED
    BY <2>1, <2>2
<1>7. CASE SetCoverStep
  <2> PICK i \in rest : Take(i)
    BY <1>7 DEF SetCoverStep
  <2> QED
    BY <1>1, <1>3, <1>7, TakeType DEF SetCoverStep, TypeOK
<1>8. CASE Rerun
  <2>1. <<>> \in Seq(InfoType) /\ <<>> \in Seq(FileNames)
    OBVIOUS
  <2> QED
    BY <1>3, <1>8, <2>1 DEF Rerun
<1> QED
  BY <1>2, <1>4, <1>5, <1>6, <1>7, <1>8, Frames

(* The rest of the types.                                                  *)
LEMMA OffType == Off \in InnerType /\ [Off EXCEPT !.pc = "parse"] \in InnerType
BY DEF Off, InnerType

LEMMA InnerTypeStep ==
  ASSUME IInv, [Next]_vars
  PROVE  inner' \in InnerType
<1>1. inner \in InnerType /\ (inner.pc # "off" => cf \in FileType)
  BY DEF IInv, TypeOK, Turns
<1>2. CASE UNCHANGED inner \/ inner' = Off \/ Launch
  BY <1>1, <1>2, OffType DEF Launch
<1>3. CASE InnerParses
  <2>1. ResumeAt(cf) \in Nat
    BY <1>1, <1>3, ProcessedNat DEF ResumeAt, InnerParses
  <2> QED
    BY <1>1, <1>3, <2>1, OffType DEF InnerParses, InnerEnds, InnerType
<1>4. CASE InnerStarts
  BY <1>1, <1>4 DEF InnerStarts, InnerType
<1>5. CASE InnerRuns
  <2>1. Running \in Contents
    BY <1>1, <1>5 DEF InnerRuns, Running, IInv, Turns, FileType, FileNames, Content
  <2>2. FeaturesOf[Running] \subseteq Features
    BY <2>1, MergeAssumption
  <2> QED
    BY <1>1, <1>5, <2>2 DEF InnerRuns, InnerType, Reported
<1>6. CASE InnerFlushes
  <2>1. inner' = [pc |-> "loop", idx |-> inner.idx + 1, ran |-> inner.ran, seen |-> inner.seen, buf |-> {}]
    BY <1>1, <1>6 DEF InnerFlushes, InnerType
  <2> QED
    BY <1>1, <2>1 DEF InnerType
<1> QED
  BY <1>2, <1>3, <1>4, <1>5, <1>6
  DEF Next, Progress, Overwrite, NothingToDo, Reuse, Resume, RemoveControlFile, WriteControlFile,
      GiveUp, InnerCrashes, InnerFinishes, ReadControlFile, MergeStep, SetCoverStep, Selected,
      CopyFile, CopiedAll, OuterExitsGracefully, InnerExitsGracefully, InnerFailsToStart,
      InnerIsKilled, OuterIsKilled, Rerun, Stopped, InnerEnds, vars

LEMMA AttemptTypeStep ==
  ASSUME IInv, ~LongLines, [Next]_vars
  PROVE  attempts' \in Nat /\ attempt' \in 0..attempts'
<1>1. attempts \in Nat /\ attempt \in 0..attempts
  BY DEF IInv, TypeOK
<1>2. CASE WriteControlFile
  <2>1. attempt' = 0
    BY <1>2 DEF WriteControlFile, IInv, AttemptsRight
  <2>2. PICK old \in Listings(outDir, "out"), new \in Listings(InDir, "in") :
          attempts' = Len(old) + Len(new)
    BY <1>2 DEF WriteControlFile
  <2>3. Len(old) \in Nat /\ Len(new) \in Nat
    BY ListRight DEF IInv, TypeOK
  <2> QED
    BY <2>1, <2>2, <2>3
<1>3. CASE Resume
  <2>1. cf \in FileType
    BY <1>3 DEF Resume, Parses, IInv, TypeOK
  <2>2. Len(cf.names) - FirstNotProcessed(cf) \in Nat
    BY <1>3, <2>1, ProcessedNat, NamesLength DEF Resume, Complete
  <2>3. attempt' = 0
    BY <1>3 DEF Resume, IInv, AttemptsRight
  <2> QED
    BY <1>3, <2>2, <2>3 DEF Resume, AttemptsLeft
<1>4. CASE Launch
  BY <1>1, <1>4 DEF Launch, MoreAttempts, NextAttempt
<1>5. CASE Rerun
  BY <1>5 DEF Rerun
<1>6. CASE UNCHANGED <<attempts, attempt>>
  BY <1>1, <1>6
<1> QED
  BY <1>2, <1>3, <1>4, <1>5, <1>6
  DEF Next, Progress, Overwrite, NothingToDo, Reuse, RemoveControlFile,
      InnerParses, InnerStarts, InnerRuns, InnerFlushes,
      GiveUp, InnerCrashes, InnerFinishes, ReadControlFile, MergeStep, SetCoverStep, Selected,
      CopyFile, CopiedAll, OuterExitsGracefully, InnerExitsGracefully, InnerFailsToStart,
      InnerIsKilled, OuterIsKilled, Stopped, InnerEnds, vars, outerVars

LEMMA ControlTypeStep ==
  ASSUME IInv, [Next]_vars
  PROVE  /\ pc' \in {"start", "create", "header", "attempt", "wait", "read", "select", "copy"} \cup Ended
         /\ setCover' \in BOOLEAN /\ kills' \in 0..MaxKills /\ runs' \in 1..MaxRuns
         /\ idle' \in BOOLEAN
<1>1. /\ pc \in {"start", "create", "header", "attempt", "wait", "read", "select", "copy"} \cup Ended
      /\ setCover \in BOOLEAN /\ kills \in 0..MaxKills /\ runs \in 1..MaxRuns /\ idle \in BOOLEAN
  BY DEF IInv, TypeOK
<1>2. MaxKills \in Nat /\ MaxRuns \in Nat
  BY MergeAssumption
<1>3. pc' \in {"start", "create", "header", "attempt", "wait", "read", "select", "copy"} \cup Ended
  BY <1>1
  DEF Next, Progress, Overwrite, NothingToDo, Reuse, Resume, RemoveControlFile, WriteControlFile,
      Launch, GiveUp, InnerParses, InnerStarts, InnerRuns, InnerFlushes, Rerun,
      InnerCrashes, InnerFinishes, ReadControlFile, MergeStep, SetCoverStep, Selected,
      CopyFile, CopiedAll, OuterExitsGracefully, InnerExitsGracefully, InnerFailsToStart,
      InnerIsKilled, OuterIsKilled, Stopped, InnerEnds, vars, outerVars, Goto, Ended
<1>4. CASE InnerIsKilled
  BY <1>1, <1>2, <1>3, <1>4 DEF InnerIsKilled
<1>5. CASE Rerun
  <2>1. runs' \in 1..MaxRuns /\ kills' \in 0..MaxKills
    BY <1>1, <1>2, <1>5 DEF Rerun
  <2>2. setCover' \in BOOLEAN /\ idle' \in BOOLEAN
    BY <1>5, Zenon DEF Rerun
  <2> QED
    BY <1>3, <2>1, <2>2
<1>6. CASE ~InnerIsKilled /\ ~Rerun
  <2>1. UNCHANGED <<setCover, kills, runs>>
    BY <1>6
    DEF Next, Progress, Overwrite, NothingToDo, Reuse, Resume, RemoveControlFile, WriteControlFile,
      Launch, GiveUp, InnerParses, InnerStarts, InnerRuns, InnerFlushes,
      InnerCrashes, InnerFinishes, ReadControlFile, MergeStep, SetCoverStep, Selected,
      CopyFile, CopiedAll, OuterExitsGracefully, InnerExitsGracefully, InnerFailsToStart,
      OuterIsKilled, Stopped, vars, bounds
  <2>2. UNCHANGED idle \/ idle' = TRUE
    BY <1>6
    DEF Next, Progress, Overwrite, NothingToDo, Reuse, Resume, RemoveControlFile, WriteControlFile,
      Launch, GiveUp, InnerParses, InnerStarts, InnerRuns, InnerFlushes,
      InnerCrashes, InnerFinishes, ReadControlFile, MergeStep, SetCoverStep, Selected,
      CopyFile, CopiedAll, OuterExitsGracefully, InnerExitsGracefully, InnerFailsToStart,
      OuterIsKilled, Stopped, vars, outerVars
  <2> QED
    BY <1>1, <1>3, <2>1, <2>2
<1> QED
  BY <1>3, <1>4, <1>5, <1>6

LEMMA TypeStep == ASSUME IInv, ~LongLines, [Next]_vars PROVE TypeOK'
BY FileTypeStep, KnownTypeStep, SelectTypeStep, InnerTypeStep, AttemptTypeStep, ControlTypeStep
DEF TypeOK

(* The features of the first n inputs only grow.                           *)
LEMMA UpToMonotone ==
  ASSUME NEW c, NEW m \in Nat, NEW n \in Nat, m <= n
  PROVE  FtUpTo(c, m) \subseteq FtUpTo(c, n)
BY DEF FtUpTo

LEMMA UpToHas ==
  ASSUME NEW c, NEW n \in Nat, NEW k \in 1..n
  PROVE  FtOf(c, k) \subseteq FtUpTo(c, n)
BY DEF FtUpTo

LEMMA UpToSame ==
  ASSUME NEW c, NEW d, NEW n, \A i : FtOf(d, i) = FtOf(c, i)
  PROVE  FtUpTo(d, n) = FtUpTo(c, n)
BY DEF FtUpTo

LEMMA UpToGrows ==
  ASSUME NEW c, NEW d, NEW n, \A i : FtOf(c, i) \subseteq FtOf(d, i)
  PROVE  FtUpTo(c, n) \subseteq FtUpTo(d, n)
BY DEF FtUpTo

(* What is recorded has been started.                                      *)
LEMMA RecordedStarted ==
  ASSUME NEW c \in FileType, LinesRight(c), NEW i, HasFt(c, i)
  PROVE  i \in DOMAIN c.names /\ i <= FirstNotProcessed(c)
<1>1. PICK k \in DOMAIN c.log : c.log[k].mark = "FT" /\ c.log[k].id = i
  BY DEF HasFt
<1>2. i = StartedIn(c.log, k) /\ i \in DOMAIN c.names
  BY <1>1 DEF LinesRight
<1>3. c.log \in Seq(LineType)
  BY DEF FileType
<1>4. k \in 0..Len(c.log) /\ Len(c.log) \in Nat
  BY <1>1, <1>3
<1>5. IsFiniteSet(1..Len(c.log))
  BY <1>4, FS_Interval
<1>6. IsFiniteSet({m \in 1..Len(c.log) : c.log[m].mark = "STARTED"})
  BY <1>5, FS_Subset
<1>7. {m \in 1..k : c.log[m].mark = "STARTED"} \subseteq {m \in 1..Len(c.log) : c.log[m].mark = "STARTED"}
  BY <1>4
<1>8. StartedIn(c.log, k) <= StartedIn(c.log, Len(c.log))
  BY <1>6, <1>7, FS_Subset DEF StartedIn
<1> QED
  BY <1>2, <1>8 DEF FirstNotProcessed

(* The three facts about the control file are kept by every step.          *)
LEMMA LinesStep ==
  ASSUME IInv, ~LongLines, [Next]_vars, cf' # NoFile
  PROVE  LinesRight(cf)'
<1>1. CASE UNCHANGED cf
  BY <1>1 DEF IInv, LinesRight, StartedIn
<1>2. CASE WriteControlFile
  <2> PICK c : c = cf'
    OBVIOUS
  <2>1. LinesRight(c)
    BY <1>2, ListRight DEF WriteControlFile, IInv, TypeOK
  <2> QED
    BY <2>1 DEF LinesRight, StartedIn
<1>3. CASE InnerStarts
  BY <1>3, StartsFile DEF LinesRight, StartedIn
<1>4. CASE InnerFlushes
  BY <1>4, FlushesFile DEF LinesRight, StartedIn
<1> QED
  BY <1>1, <1>2, <1>3, <1>4, Frames DEF RemoveControlFile

LEMMA NamesStep ==
  ASSUME IInv, ~LongLines, [Next]_vars, cf' # NoFile
  PROVE  NamesRight(cf)'
<1>1. CASE cf # NoFile /\ cf'.names = cf.names /\ cf'.first = cf.first
           /\ FirstNotProcessed(cf)' <= Len(cf.names)
  <2>1. outDir \subseteq outDir'
    BY Frames DEF CopyFile
  <2>2. NamesRight(cf)
    BY <1>1 DEF IInv
  <2>3. \A i \in DOMAIN cf.names :
          cf.names[i] \in IF i <= cf.first THEN outDir' \X {"out"} ELSE InDir \X {"in"}
    BY <2>1, <2>2 DEF NamesRight
  <2> QED
    BY <1>1, <2>2, <2>3 DEF NamesRight
<1>2. CASE UNCHANGED cf
  BY <1>1, <1>2 DEF IInv, NamesRight, FirstNotProcessed, StartedIn
<1>3. CASE WriteControlFile
  <2> PICK c : c = cf'
    OBVIOUS
  <2>1. NamesRight(c)
    BY <1>3, ListRight DEF WriteControlFile, IInv, TypeOK
  <2>2. outDir' = outDir
    BY <1>3 DEF WriteControlFile
  <2> QED
    BY <2>1, <2>2 DEF NamesRight, FirstNotProcessed, StartedIn
<1>4. CASE InnerStarts
  <2>1. FirstNotProcessed(cf') <= Len(cf.names)
    BY <1>4, StartsFile, NamesLength
  <2> QED
    BY <1>1, <1>4, <2>1, StartsFile DEF FirstNotProcessed, StartedIn, IInv, Turns, InnerStarts
<1>5. CASE InnerFlushes
  <2>1. FirstNotProcessed(cf') <= Len(cf.names)
    BY <1>5, FlushesFile, NamesLength
  <2> QED
    BY <1>1, <1>5, <2>1, FlushesFile DEF FirstNotProcessed, StartedIn, IInv, Turns, InnerFlushes
<1> QED
  BY <1>2, <1>3, <1>4, <1>5, Frames DEF RemoveControlFile

(* A run of its own setting has had it from its start.                     *)
LEMMA CoverOnlyBefore ==
  ASSUME IInv, ~LongLines, [Next]_vars, CoverOnly'
  PROVE  CoverOnly /\ ~Rerun
<1>1. runs \in Nat \ {0}
  BY MergeAssumption DEF IInv, TypeOK
<1>2. ~Rerun
  BY <1>1 DEF Rerun, CoverOnly
<1> QED
  BY <1>2, Frames DEF CoverOnly

LEMMA FeaturesStep ==
  ASSUME IInv, ~LongLines, [Next]_vars, cf' # NoFile
  PROVE  FeaturesRight(cf)'
<1>0. CoverOnly' => CoverOnly
  BY CoverOnlyBefore
<1>1. CASE UNCHANGED cf
  BY <1>0, <1>1 DEF IInv, FeaturesRight, FtOf, FtUpTo, HasFt
<1>2. CASE WriteControlFile
  <2> PICK c : c = cf'
    OBVIOUS
  <2>1. FeaturesRight(c)
    BY <1>2, ListRight DEF WriteControlFile, IInv, TypeOK
  <2> QED
    BY <1>0, <2>1 DEF FeaturesRight, FtOf, FtUpTo, HasFt
<1>3. ASSUME NEW c, c = cf', cf # NoFile, cf \in FileType, c.names = cf.names,
             \A i \in DOMAIN cf.names :
               /\ FtOf(c, i) \subseteq FeaturesOf[Content(cf.names[i])]
               /\ HasFt(c, i) => FeaturesOf[Content(cf.names[i])] \subseteq FtUpTo(c, i)
               /\ CoverOnly /\ HasFt(c, i) => FtOf(c, i) = FeaturesOf[Content(cf.names[i])]
      PROVE  FeaturesRight(cf)'
  <2>1. \A i \in DOMAIN c.names :
               /\ FtOf(c, i) \subseteq FeaturesOf[Content(c.names[i])]
               /\ HasFt(c, i) => FeaturesOf[Content(c.names[i])] \subseteq FtUpTo(c, i)
               /\ CoverOnly /\ HasFt(c, i) => FtOf(c, i) = FeaturesOf[Content(c.names[i])]
    BY <1>3, Zenon
  <2>2. FeaturesRight(c)
    BY <2>1 DEF FeaturesRight
  <2> QED
    BY <1>0, <1>3, <2>2 DEF FeaturesRight, FtOf, FtUpTo, HasFt
<1>4. CASE InnerStarts
  <2> PICK c : c = cf'
    OBVIOUS
  <2>1. /\ c.names = cf.names /\ cf \in FileType /\ cf # NoFile
        /\ \A i : HasFt(c, i) <=> HasFt(cf, i)
        /\ \A i : FtOf(c, i) = FtOf(cf, i)
    BY <1>4, StartsFile DEF IInv, Turns, InnerStarts
  <2>2. \A i : FtUpTo(c, i) = FtUpTo(cf, i)
    BY <2>1, UpToSame
  <2>3. FeaturesRight(cf)
    BY <2>1 DEF IInv
  <2>4. \A i \in DOMAIN cf.names :
               /\ FtOf(c, i) \subseteq FeaturesOf[Content(cf.names[i])]
               /\ HasFt(c, i) => FeaturesOf[Content(cf.names[i])] \subseteq FtUpTo(c, i)
               /\ CoverOnly /\ HasFt(c, i) => FtOf(c, i) = FeaturesOf[Content(cf.names[i])]
    BY <2>1, <2>2, <2>3 DEF FeaturesRight
  <2> QED
    BY <1>3, <2>1, <2>4
<1>5. CASE InnerFlushes
  <2> PICK c : c = cf'
    OBVIOUS
  <2> PICK n : n = inner.idx
    OBVIOUS
  <2>1. /\ c.names = cf.names /\ cf \in FileType /\ cf # NoFile /\ c \in FileType
        /\ n = FirstNotProcessed(cf) /\ n \in DOMAIN cf.names /\ n \in Nat
        /\ \A i : HasFt(c, i) <=> HasFt(cf, i) \/ i = n
        /\ \A i : i # n => FtOf(c, i) = FtOf(cf, i)
        /\ FtOf(c, n) = FtOf(cf, n) \cup inner.buf
    BY <1>5, FlushesFile, ProcessedNat DEF IInv, Turns, InnerFlushes
  <2>2. \A i : FtUpTo(cf, i) \subseteq FtUpTo(c, i)
    BY <2>1, UpToGrows
  <2>3. FeaturesRight(cf) /\ LinesRight(cf)
    BY <2>1 DEF IInv
  <2>4. Running = Content(cf.names[n]) /\ ~HasFt(cf, n)
    BY <1>5 DEF Running, InnerFlushes, IInv, Turns
  <2>5. /\ inner.buf \subseteq FeaturesOf[Content(cf.names[n])]
        /\ FeaturesOf[Content(cf.names[n])] \subseteq FtUpTo(cf, n) \cup inner.buf
        /\ CoverOnly => inner.buf = FeaturesOf[Content(cf.names[n])]
    BY <1>5, <2>1, <2>4 DEF IInv, SeenRight, InnerFlushes
  <2>6. FtOf(cf, n) = {}
    BY <2>4 DEF HasFt, FtOf
  <2>7. inner.buf \subseteq FtUpTo(c, n)
    BY <2>1, UpToHas, NamesLength
  <2> SUFFICES ASSUME NEW i \in DOMAIN cf.names
               PROVE  /\ FtOf(c, i) \subseteq FeaturesOf[Content(cf.names[i])]
                      /\ HasFt(c, i) => FeaturesOf[Content(cf.names[i])] \subseteq FtUpTo(c, i)
                      /\ CoverOnly /\ HasFt(c, i) => FtOf(c, i) = FeaturesOf[Content(cf.names[i])]
    BY <1>3, <2>1
  <2>8. CASE i = n
    <3>1. FtOf(c, i) = inner.buf
      BY <2>1, <2>6, <2>8
    <3>2. FeaturesOf[Content(cf.names[i])] \subseteq FtUpTo(c, i)
      BY <2>2, <2>5, <2>7, <2>8
    <3> QED
      BY <2>5, <2>8, <3>1, <3>2
  <2>9. CASE i # n
    BY <2>1, <2>2, <2>3, <2>9 DEF FeaturesRight
  <2> QED
    BY <2>8, <2>9
<1> QED
  BY <1>1, <1>2, <1>4, <1>5, Frames DEF RemoveControlFile

LEMMA FileStep == ASSUME IInv, ~LongLines, [Next]_vars
                  PROVE  (cf # NoFile => LinesRight(cf) /\ NamesRight(cf) /\ FeaturesRight(cf))'
BY LinesStep, NamesStep, FeaturesStep

(* Whatever was killed, a control file with a list parses.                 *)
LEMMA ParsesAlways == IInv => ControlFileParses
<1> SUFFICES ASSUME IInv, cf # NoFile, cf.names # <<>>
             PROVE  Parses(cf) /\ FirstNotProcessed(cf) <= Len(cf.names)
  BY DEF ControlFileParses
<1>1. LinesRight(cf) /\ NamesRight(cf)
  BY DEF IInv
<1> QED
  BY <1>1 DEF Parses, LinesRight, NamesRight

LEMMA TurnsStep == ASSUME IInv, ~LongLines, [Next]_vars PROVE Turns'
<1> USE DEF IInv, Goto, Ended, Complete
<1>0. Turns /\ (cf = NoFile \/ cf \in FileType)
  BY DEF TypeOK
<1>1. CASE Overwrite
  <2>1. cf = NoFile \/ cf.names = <<>>
    BY <1>1, ParsesAlways DEF Overwrite, ControlFileParses
  <2> QED
    BY <1>0, <1>1, <2>1 DEF Overwrite, Turns, outerVars, selectVars, bounds
<1>2. CASE NothingToDo
  BY <1>0, <1>2 DEF NothingToDo, Turns, bounds
<1>3. CASE Reuse
  BY <1>0, <1>3 DEF Reuse, Turns, bounds, Parses
<1>4. CASE Resume
  BY <1>0, <1>4 DEF Resume, Turns, bounds, Parses
<1>5. CASE RemoveControlFile
  BY <1>0, <1>5 DEF RemoveControlFile, Turns, bounds
<1>6. CASE WriteControlFile
  <2>1. cf' \in FileType
    BY <1>6, ListRight DEF WriteControlFile, TypeOK
  <2> QED
    BY <1>0, <1>6, <2>1, NoFileAssumption DEF WriteControlFile, Turns, bounds
<1>7. CASE Launch
  BY <1>0, <1>7 DEF Launch, Turns, bounds, Off
<1>8. CASE OuterExitsGracefully \/ GiveUp
  BY <1>0, <1>8 DEF OuterExitsGracefully, GiveUp, Turns, bounds
<1>9. CASE InnerParses
  <2>1. CASE Parses(cf)
    <3>1. inner'.pc = "loop" /\ inner'.idx = FirstNotProcessed(cf) + 1
      BY <1>9, <2>1 DEF TypeOK, InnerType, InnerParses, ResumeAt
    <3>2. pc' = pc /\ pc = "wait" /\ UNCHANGED <<runs, known, cf>>
      BY <1>0, <1>9, <2>1 DEF InnerParses, Turns, bounds
    <3> QED
      BY <1>0, <3>1, <3>2 DEF Turns
  <2>2. CASE ~Parses(cf)
    BY <1>0, <1>9, <2>2 DEF InnerParses, InnerEnds, Turns, bounds, Off
  <2> QED
    BY <2>1, <2>2
<1>10. CASE InnerStarts
  <2>1. /\ cf \in FileType /\ cf' \in FileType /\ cf'.names = cf.names
        /\ inner.idx = FirstNotProcessed(cf) + 1 /\ inner.idx \in DOMAIN cf.names
        /\ FirstNotProcessed(cf') = inner.idx
        /\ HasFt(cf', inner.idx) <=> HasFt(cf, inner.idx)
    BY <1>10, StartsFile
  <2>2. cf' # NoFile /\ cf # NoFile
    BY <2>1, NoFileAssumption
  <2>3. ~HasFt(cf, inner.idx)
    BY <2>1, <2>2, RecordedStarted, ProcessedNat
  <2>4. inner' = [inner EXCEPT !.pc = "run", !.ran = TRUE]
    BY <1>10 DEF InnerStarts
  <2>5. inner'.pc = "run" /\ inner'.ran /\ inner'.idx = inner.idx
    BY <2>4 DEF TypeOK, InnerType
  <2>6. pc' = pc /\ pc = "wait" /\ UNCHANGED <<runs, known>>
    BY <1>0, <1>10 DEF InnerStarts, Turns, outerVars, bounds
  <2> QED
    BY <1>0, <2>1, <2>2, <2>3, <2>5, <2>6 DEF Turns
<1>11. CASE InnerCrashes \/ InnerFinishes \/ InnerFailsToStart \/ InnerExitsGracefully
  BY <1>0, <1>11 DEF InnerCrashes, InnerFinishes, InnerFailsToStart, InnerExitsGracefully,
    InnerEnds, Turns, bounds, Off
<1>12. CASE InnerRuns
  <2>1. inner'.pc = "flush" /\ inner'.ran = inner.ran /\ inner'.idx = inner.idx
    BY <1>12 DEF TypeOK, InnerType, InnerRuns
  <2> QED
    BY <1>0, <1>12, <2>1 DEF InnerRuns, Turns, outerVars, bounds
<1>13. CASE InnerFlushes
  <2>1. /\ cf' \in FileType /\ FirstNotProcessed(cf') = inner.idx
    BY <1>13, FlushesFile
  <2>2. inner'.pc = "loop" /\ inner'.idx = inner.idx + 1
    BY <1>13 DEF TypeOK, InnerType, InnerFlushes
  <2>3. pc' = pc /\ pc = "wait" /\ UNCHANGED <<runs, known>>
    BY <1>0, <1>13 DEF InnerFlushes, Turns, outerVars, bounds
  <2> QED
    BY <1>0, <2>1, <2>2, <2>3, NoFileAssumption DEF Turns
<1>14. CASE InnerIsKilled
  BY <1>0, <1>14 DEF InnerIsKilled, InnerEnds, Turns, bounds, Off
<1>15. CASE ReadControlFile
  BY <1>0, <1>15 DEF ReadControlFile, Turns, bounds, Parses
<1>16. CASE MergeStep \/ SetCoverStep
  BY <1>0, <1>16 DEF MergeStep, SetCoverStep, Turns, outerVars, bounds
<1>17. CASE Selected \/ CopyFile \/ CopiedAll
  BY <1>0, <1>17 DEF Selected, CopyFile, CopiedAll, Turns, outerVars, bounds
<1>18. CASE OuterIsKilled
  BY <1>0, <1>18 DEF OuterIsKilled, Turns, bounds, Off
<1>19. CASE Rerun
  <2>1. runs' # 1
    BY <1>19, MergeAssumption DEF Rerun, TypeOK
  <2> QED
    BY <1>0, <1>19, <2>1 DEF Rerun, Turns
<1>20. CASE Stopped \/ UNCHANGED vars
  BY <1>0, <1>20 DEF Stopped, vars, Turns, outerVars, bounds
<1> QED
  BY <1>1, <1>2, <1>3, <1>4, <1>5, <1>6, <1>7, <1>8, <1>9, <1>10, <1>11, <1>12, <1>13, <1>14,
     <1>15, <1>16, <1>17, <1>18, <1>19, <1>20 DEF Next, Progress

(* Every attempt that executes an input leaves one input less.             *)
LEMMA AttemptsStep == ASSUME IInv, ~LongLines, [Next]_vars PROVE AttemptsRight' /\ AttemptsSuffice'
<1> USE DEF Goto, outerVars
<1>0. /\ Turns /\ AttemptsRight /\ AttemptsSuffice
      /\ attempts \in Nat /\ attempt \in Nat /\ attempt <= attempts
      /\ inner \in InnerType /\ (cf = NoFile \/ cf \in FileType)
  BY DEF IInv, TypeOK
<1>a. ASSUME cf \in FileType
      PROVE  Left \in Int /\ FirstNotProcessed(cf) \in Nat /\ Len(cf.names) \in Nat
  BY <1>a, ProcessedNat, NamesLength DEF Left
<1>b. cf # NoFile => FirstNotProcessed(cf) <= Len(cf.names)
  BY DEF IInv, NamesRight
<1>1. CASE Overwrite \/ NothingToDo \/ Reuse \/ RemoveControlFile
  BY <1>0, <1>1 DEF Overwrite, NothingToDo, Reuse, RemoveControlFile, AttemptsRight,
     AttemptsSuffice
<1>2. CASE Resume
  <2>1. cf \in FileType
    BY <1>0, <1>2 DEF Resume, Parses
  <2> QED
    BY <1>0, <1>2, <1>a, <2>1 DEF Resume, AttemptsLeft, AttemptsRight, AttemptsSuffice, Left
<1>3. CASE WriteControlFile
  <2> PICK old \in Listings(outDir, "out"), new \in Listings(InDir, "in") :
         /\ cf' = [names |-> old \o new, first |-> Len(old), log |-> <<>>]
         /\ attempts' = Len(old) + Len(new)
    BY <1>3 DEF WriteControlFile
  <2> PICK c : c = [names |-> old \o new, first |-> Len(old), log |-> <<>>]
    OBVIOUS
  <2>1. /\ Len(c.names) = Len(old) + Len(new) /\ Len(old) \in Nat /\ Len(new) \in Nat
        /\ FirstNotProcessed(c) = 0
    BY ListRight, ZenonT(40) DEF IInv, TypeOK
  <2>2. Left' = attempts'
    BY <2>1 DEF Left
  <2>3. attempt' = 0 /\ pc' = "attempt"
    BY <1>0, <1>3 DEF WriteControlFile, AttemptsRight
  <2> QED
    BY <2>1, <2>2, <2>3 DEF AttemptsRight, AttemptsSuffice
<1>4. CASE Launch
  <2>1. inner'.ran = FALSE /\ attempt' = attempt + 1 /\ pc' = "wait" /\ pc = "attempt"
    BY <1>4 DEF Launch, Off, NextAttempt
  <2>2. cf \in FileType
    BY <1>0, <2>1 DEF Turns
  <2>3. Left' = Left /\ idle' = idle /\ attempts' = attempts
    BY <1>4 DEF Launch, Left
  <2> QED
    BY <1>0, <1>a, <2>1, <2>2, <2>3 DEF AttemptsRight, AttemptsSuffice
<1>5. CASE OuterExitsGracefully
  BY <1>5 DEF OuterExitsGracefully, AttemptsRight, AttemptsSuffice
<1>6. CASE GiveUp
  <2>1. cf \in FileType /\ cf # NoFile
    BY <1>0, <1>6 DEF Turns, GiveUp
  <2> QED
    BY <1>0, <1>6, <1>a, <1>b, <2>1 DEF GiveUp, MoreAttempts, AttemptsRight, AttemptsSuffice,
       Left
<1>7. CASE InnerParses \/ InnerFailsToStart
  <2>1. CASE pc' = pc
    <3>1. pc = "wait" /\ inner'.ran = inner.ran /\ UNCHANGED <<cf, attempt, attempts, idle>>
      BY <1>0, <1>7, <2>1 DEF InnerParses, InnerFailsToStart, InnerEnds, InnerType, Turns
    <3> QED
      BY <1>0, <2>1, <3>1 DEF AttemptsRight, AttemptsSuffice, Left
  <2>2. CASE idle'
    BY <1>0, <1>7, <2>2 DEF InnerParses, InnerFailsToStart, InnerEnds, Turns, AttemptsRight,
       AttemptsSuffice
  <2> QED
    BY <1>7, <2>1, <2>2 DEF InnerParses, InnerFailsToStart
<1>8. CASE InnerStarts
  <2>1. pc = "wait" /\ inner'.ran /\ UNCHANGED <<pc, attempt, attempts, idle>>
    BY <1>0, <1>8 DEF InnerStarts, Turns, InnerType
  <2>2. /\ cf \in FileType /\ cf'.names = cf.names
        /\ FirstNotProcessed(cf') = FirstNotProcessed(cf) + 1
    BY <1>8, StartsFile
  <2>3. Left' = Left - 1
    BY <1>a, <2>2 DEF Left
  <2>4. inner'.ran = TRUE
    BY <1>0, <1>8 DEF InnerStarts, InnerType
  <2> QED
    BY <1>0, <1>a, <2>1, <2>2, <2>3, <2>4 DEF AttemptsRight, AttemptsSuffice
<1>9. CASE InnerCrashes
  <2>1. pc = "wait" /\ inner.ran /\ pc' = "attempt" /\ UNCHANGED <<cf, attempt, attempts, idle>>
    BY <1>0, <1>9 DEF InnerCrashes, InnerEnds, Turns
  <2>2. Left' = Left
    BY <2>1 DEF Left
  <2>3. ~idle => Left + attempt <= attempts
    BY <1>0, <1>a, <2>1 DEF AttemptsRight, Turns
  <2> QED
    BY <2>1, <2>2, <2>3 DEF AttemptsRight, AttemptsSuffice
<1>10. CASE InnerRuns
  <2>1. pc = "wait" /\ inner'.ran = inner.ran /\ UNCHANGED <<pc, cf, attempt, attempts, idle>>
    BY <1>0, <1>10 DEF InnerRuns, InnerType, Turns
  <2> QED
    BY <1>0, <2>1 DEF AttemptsRight, AttemptsSuffice, Left
<1>11. CASE InnerFlushes
  <2>1. pc = "wait" /\ inner'.ran = inner.ran /\ UNCHANGED <<pc, attempt, attempts, idle>>
    BY <1>0, <1>11 DEF InnerFlushes, InnerType, Turns
  <2>2. cf'.names = cf.names /\ FirstNotProcessed(cf') = FirstNotProcessed(cf)
    BY <1>11, FlushesFile
  <2>3. Left' = Left
    BY <2>2 DEF Left
  <2> QED
    BY <1>0, <2>1, <2>3 DEF AttemptsRight, AttemptsSuffice
<1>12. CASE InnerFinishes
  <2>1. cf \in FileType /\ cf # NoFile /\ inner.idx = FirstNotProcessed(cf) + 1
    BY <1>0, <1>12 DEF InnerFinishes, Turns
  <2>2. FirstNotProcessed(cf) = Len(cf.names)
    BY <1>12, <1>a, <1>b, <2>1 DEF InnerFinishes
  <2> QED
    BY <1>12, <2>2 DEF InnerFinishes, InnerEnds, AttemptsRight, AttemptsSuffice
<1>13. CASE InnerExitsGracefully
  BY <1>13 DEF InnerExitsGracefully, InnerEnds, AttemptsRight, AttemptsSuffice
<1>14. CASE InnerIsKilled
  <2>1. pc = "wait" /\ pc' = "attempt" /\ UNCHANGED <<cf, attempt, attempts>>
    BY <1>0, <1>14 DEF InnerIsKilled, InnerEnds, Turns
  <2>4. idle' = (idle \/ ~inner.ran)
    BY <1>14, Zenon DEF InnerIsKilled
  <2>2. Left' = Left
    BY <2>1 DEF Left
  <2>3. ~idle /\ inner.ran => Left + attempt <= attempts
    BY <1>0, <1>a, <2>1 DEF AttemptsRight, Turns
  <2> QED
    BY <2>1, <2>2, <2>3, <2>4 DEF AttemptsRight, AttemptsSuffice
<1>15. CASE ReadControlFile \/ MergeStep \/ SetCoverStep \/ Selected \/ CopyFile \/ CopiedAll
  BY <1>15 DEF ReadControlFile, MergeStep, SetCoverStep, Selected, CopyFile, CopiedAll,
    AttemptsRight, AttemptsSuffice
<1>16. CASE OuterIsKilled \/ Rerun
  BY <1>16 DEF OuterIsKilled, Rerun, AttemptsRight, AttemptsSuffice
<1>17. CASE Stopped \/ UNCHANGED vars
  BY <1>0, <1>17 DEF Stopped, vars, AttemptsRight, AttemptsSuffice, Left
<1> QED
  BY <1>1, <1>2, <1>3, <1>4, <1>5, <1>6, <1>7, <1>8, <1>9, <1>10, <1>11, <1>12, <1>13, <1>14,
     <1>15, <1>16, <1>17 DEF Next, Progress

(* Nothing that an inner process has seen is forgotten.                    *)
LEMMA SeenQuiet ==
  ASSUME SeenRight, UNCHANGED <<cf, inner>>, CoverOnly' => CoverOnly
  PROVE  SeenRight'
BY DEF SeenRight, Running

LEMMA SeenStep == ASSUME IInv, ~LongLines, [Next]_vars PROVE SeenRight'
<1>0. /\ Turns /\ SeenRight /\ inner \in InnerType
      /\ CoverOnly' => CoverOnly
  BY CoverOnlyBefore DEF IInv, TypeOK
<1>a. ASSUME inner'.pc = "off" \/ inner'.pc = "parse", inner'.buf = {}, inner'.seen = {} PROVE SeenRight'
  BY <1>a DEF SeenRight
<1>1. CASE UNCHANGED <<cf, inner>>
  BY <1>0, <1>1, SeenQuiet
<1>2. CASE inner' = Off \/ Launch
  BY <1>2, <1>a DEF Launch, Off
<1>3. CASE RemoveControlFile \/ WriteControlFile
  <2>1. inner' = Off
    BY <1>0, <1>3 DEF RemoveControlFile, WriteControlFile, Turns
  <2> QED
    BY <1>2, <2>1
<1>4. CASE InnerParses /\ inner'.pc = "loop"
  <2>1. inner'.pc = "loop" /\ inner'.seen = inner.seen /\ inner'.buf = inner.buf /\ cf' = cf
    <3>1. inner' = [inner EXCEPT !.pc = "loop", !.idx = ResumeAt(cf)]
      BY <1>4 DEF InnerParses, InnerEnds, Off
    <3> QED
      BY <1>0, <1>4, <3>1 DEF InnerParses, InnerType
  <2>2. inner.buf = {} /\ inner.seen \subseteq FtUpTo(cf, FirstNotProcessed(cf)) \cup inner.buf
    BY <1>0, <1>4 DEF InnerParses, SeenRight
  <2> QED
    BY <2>1, <2>2 DEF SeenRight
<1>5. CASE InnerStarts
  <2> PICK c, d : c = cf /\ d = cf'
    OBVIOUS
  <2>1. inner'.pc = "run" /\ inner'.seen = inner.seen /\ inner'.buf = inner.buf
    BY <1>0, <1>5 DEF InnerStarts, InnerType
  <2>2. inner.buf = {} /\ inner.seen \subseteq FtUpTo(c, FirstNotProcessed(c))
    BY <1>0, <1>5 DEF InnerStarts, SeenRight
  <2>3. /\ c \in FileType /\ FirstNotProcessed(d) = FirstNotProcessed(c) + 1
        /\ \A i : FtOf(d, i) = FtOf(c, i)
    BY <1>5, StartsFile
  <2>4. FtUpTo(c, FirstNotProcessed(c)) \subseteq FtUpTo(c, FirstNotProcessed(d))
    BY <2>3, UpToMonotone, ProcessedNat
  <2>5. FtUpTo(d, FirstNotProcessed(d)) = FtUpTo(c, FirstNotProcessed(d))
    BY <2>3, UpToSame
  <2>6. inner'.seen \subseteq FtUpTo(d, FirstNotProcessed(d)) \cup inner'.buf
    BY <2>1, <2>2, <2>4, <2>5
  <2> QED
    BY <2>1, <2>2, <2>6 DEF SeenRight
<1>6. CASE InnerRuns
  <2>1. /\ inner'.pc = "flush" /\ inner'.seen = inner.seen \cup FeaturesOf[Running]
        /\ inner'.buf = Reported /\ inner'.idx = inner.idx /\ cf' = cf
    BY <1>0, <1>6 DEF InnerRuns, InnerType
  <2>2. inner.seen \subseteq FtUpTo(cf, FirstNotProcessed(cf))
    BY <1>0, <1>6 DEF InnerRuns, SeenRight
  <2>3. Running' = Running
    BY <2>1 DEF Running
  <2>4. /\ Reported \subseteq FeaturesOf[Running]
        /\ FeaturesOf[Running] \subseteq Reported \cup inner.seen
        /\ CoverOnly => Reported = FeaturesOf[Running]
    BY DEF Reported, CoverOnly
  <2>5. FeaturesOf[Running] \subseteq FtUpTo(cf, FirstNotProcessed(cf)) \cup Reported
    BY <2>2, <2>4
  <2>6. inner'.seen \subseteq FtUpTo(cf, FirstNotProcessed(cf)) \cup Reported
    BY <2>1, <2>2, <2>5
  <2> QED
    BY <1>0, <2>1, <2>3, <2>4, <2>5, <2>6 DEF SeenRight
<1>7. CASE InnerFlushes
  <2> PICK c, d, n : c = cf /\ d = cf' /\ n = inner.idx
    OBVIOUS
  <2>1. inner'.pc = "loop" /\ inner'.seen = inner.seen /\ inner'.buf = {}
    BY <1>0, <1>7 DEF InnerFlushes, InnerType
  <2>2. inner.seen \subseteq FtUpTo(c, FirstNotProcessed(c)) \cup inner.buf
    BY <1>0, <1>7 DEF InnerFlushes, SeenRight
  <2>3. /\ c \in FileType /\ FirstNotProcessed(d) = n /\ FirstNotProcessed(c) = n /\ n \in DOMAIN c.names
        /\ \A i : i # n => FtOf(d, i) = FtOf(c, i)
        /\ FtOf(d, n) = FtOf(c, n) \cup inner.buf
    BY <1>7, FlushesFile
  <2>4. FtUpTo(c, n) \subseteq FtUpTo(d, n)
    BY <2>3, UpToGrows
  <2>5. FtOf(d, n) \subseteq FtUpTo(d, n)
    BY <2>3, UpToHas, NamesLength
  <2>6. inner'.seen \subseteq FtUpTo(d, n)
    BY <2>1, <2>2, <2>3, <2>4, <2>5
  <2> QED
    BY <2>1, <2>3, <2>6 DEF SeenRight
<1> QED
  BY <1>0, <1>1, <1>2, <1>3, <1>4, <1>5, <1>6, <1>7
  DEF Next, Progress, Overwrite, NothingToDo, Reuse, Resume, InnerParses,
      GiveUp, InnerCrashes, InnerFinishes, ReadControlFile, MergeStep, SetCoverStep, Selected,
      CopyFile, CopiedAll, OuterExitsGracefully, InnerExitsGracefully, InnerFailsToStart,
      InnerIsKilled, OuterIsKilled, Rerun, Stopped, InnerEnds, vars, outerVars, InnerType

LEMMA KnownStep == ASSUME IInv, ~LongLines, [Next]_vars PROVE KnownRight'
<1>1. CASE UNCHANGED known
  BY <1>1 DEF IInv, KnownRight
<1>2. CASE Reuse
  <2>1. cf \in FileType /\ cf # NoFile /\ known' = ParsedFiles(cf)
    BY <1>2 DEF Reuse, Parses, IInv, TypeOK
  <2>2. FeaturesRight(cf)
    BY <2>1 DEF IInv
  <2>3. DOMAIN ParsedFiles(cf) = DOMAIN cf.names
    BY DEF ParsedFiles
  <2>4. \A i \in DOMAIN cf.names :
          /\ ParsedFiles(cf)[i].name = cf.names[i] /\ ParsedFiles(cf)[i].feats = FtOf(cf, i)
          /\ ParsedFiles(cf)[i].size = SizeOf[Content(cf.names[i])]
    <3>1. \A i \in DOMAIN cf.names : i <= FirstNotProcessed(cf)
      BY <1>2, <2>1, NamesLength, ProcessedNat DEF Reuse, Complete
    <3> QED
      BY <2>1, <3>1, FilesRight
  <2> PICK k : k = ParsedFiles(cf)
    OBVIOUS
  <2>5. \A i \in DOMAIN k : /\ k[i].feats \subseteq FeaturesOf[Content(k[i].name)]
                            /\ k[i].size = SizeOf[Content(k[i].name)]
    BY <2>2, <2>3, <2>4 DEF FeaturesRight
  <2> QED
    BY <2>1, <2>5 DEF KnownRight
<1>3. CASE Rerun
  BY <1>3 DEF Rerun, KnownRight
<1> QED
  BY <1>1, <1>2, <1>3, Frames

(* The files that the outer process selects from.                          *)
LEMMA Sources ==
  ASSUME IInv, cf # NoFile, NEW fs, fs = ParsedFiles(cf) \o known
  PROVE  /\ Len(cf.names) \in Nat /\ Len(known) \in Nat
         /\ DOMAIN cf.names = 1..Len(cf.names) /\ DOMAIN known = 1..Len(known)
         /\ DOMAIN fs = 1..(Len(cf.names) + Len(known))
         /\ \A i \in 1..Len(cf.names) :
              /\ fs[i].name = cf.names[i] /\ fs[i].feats = FtOf(cf, i)
              /\ i <= FirstNotProcessed(cf) => fs[i].size = SizeOf[Content(cf.names[i])]
         /\ \A i \in 1..Len(known) : fs[Len(cf.names) + i] = known[i]
         /\ \A i \in DOMAIN fs : fs[i].feats \subseteq FeaturesOf[Content(fs[i].name)]
<1>1. cf \in FileType /\ known \in Seq(InfoType) /\ FeaturesRight(cf) /\ KnownRight
  BY DEF IInv, TypeOK
<1> PICK p : p = ParsedFiles(cf)
  OBVIOUS
<1>2. /\ p \in Seq(InfoType) /\ Len(p) = Len(cf.names)
      /\ \A i \in DOMAIN cf.names :
           /\ p[i].name = cf.names[i] /\ p[i].feats = FtOf(cf, i)
           /\ i <= FirstNotProcessed(cf) => p[i].size = SizeOf[Content(cf.names[i])]
  BY <1>1, FilesRight
<1>3. /\ DOMAIN (p \o known) = 1..(Len(p) + Len(known))
      /\ Len(p) \in Nat /\ Len(known) \in Nat /\ DOMAIN known = 1..Len(known)
      /\ \A i \in 1..Len(p) : (p \o known)[i] = p[i]
      /\ \A i \in 1..Len(known) : (p \o known)[Len(p) + i] = known[i]
  BY <1>1, <1>2, ConcatFiles, Zenon
<1>4. DOMAIN cf.names = 1..Len(cf.names)
  BY <1>1, NamesLength
<1>5. /\ DOMAIN fs = 1..(Len(cf.names) + Len(known))
      /\ \A i \in 1..Len(cf.names) : fs[i] = p[i]
      /\ \A i \in 1..Len(known) : fs[Len(cf.names) + i] = known[i]
  BY <1>2, <1>3, Zenon
<1>6. ASSUME NEW i \in DOMAIN fs PROVE fs[i].feats \subseteq FeaturesOf[Content(fs[i].name)]
  <2>1. CASE i <= Len(cf.names)
    <3>1. i \in 1..Len(cf.names)
      BY <1>2, <1>3, <1>5, <2>1
    <3> QED
      BY <1>1, <1>2, <1>4, <1>5, <3>1 DEF FeaturesRight
  <2>2. CASE ~(i <= Len(cf.names))
    <3>1. i - Len(cf.names) \in 1..Len(known) /\ i = Len(cf.names) + (i - Len(cf.names))
      BY <1>2, <1>3, <1>5, <2>2
    <3>2. fs[i] = known[i - Len(cf.names)]
      BY <1>5, <3>1
    <3> QED
      BY <1>1, <1>3, <3>1, <3>2 DEF KnownRight
  <2> QED
    BY <2>1, <2>2
<1>7. \A i \in 1..Len(cf.names) :
        /\ fs[i].name = cf.names[i] /\ fs[i].feats = FtOf(cf, i)
        /\ i <= FirstNotProcessed(cf) => fs[i].size = SizeOf[Content(cf.names[i])]
  BY <1>2, <1>4, <1>5
<1> QED
  BY <1>2, <1>3, <1>4, <1>5, <1>6, <1>7

LEMMA ContentGrows ==
  ASSUME NEW S, NEW T, S \subseteq T
  PROVE  ContentFeatures(S) \subseteq ContentFeatures(T)
BY DEF ContentFeatures

LEMMA ContentHas ==
  ASSUME NEW S, NEW x \in S
  PROVE  FeaturesOf[x] \subseteq ContentFeatures(S)
BY DEF ContentFeatures

LEMMA TakePicked ==
  ASSUME TypeOK, NEW i \in rest, Take(i)
  PROVE  PickedContents' = PickedContents \cup {Content(files[i].name)}
BY TakeType DEF PickedContents

LEMMA CopyPicked ==
  ASSUME TypeOK, CopyFile
  PROVE  /\ outDir' \cup PickedContents' = outDir \cup PickedContents
         /\ AddedContents' = AddedContents \cup {Content(picked[1])}
<1>1. /\ Len(picked) \in Nat \ {0} /\ DOMAIN picked = 1..Len(picked)
      /\ DOMAIN picked' = 1..(Len(picked) - 1)
      /\ \A k \in 1..(Len(picked) - 1) : picked'[k] = picked[k + 1]
      /\ outDir' = outDir \cup {Content(picked[1])}
  BY CopyType
<1>2. PickedContents' \subseteq PickedContents
  BY <1>1 DEF PickedContents
<1>3. Content(picked[1]) \in PickedContents
  BY <1>1 DEF PickedContents
<1>4. ASSUME NEW k \in DOMAIN picked, k # 1 PROVE Content(picked[k]) \in PickedContents'
  <2>1. k - 1 \in DOMAIN picked' /\ picked'[k - 1] = picked[k]
    BY <1>1, <1>4
  <2> QED
    BY <2>1 DEF PickedContents
<1>5. PickedContents \subseteq PickedContents' \cup {Content(picked[1])}
  BY <1>4 DEF PickedContents
<1>6. AddedContents' = AddedContents \cup {Content(picked[1])}
  BY CopyType DEF AddedContents
<1> QED
  BY <1>1, <1>2, <1>3, <1>5, <1>6

(* Reading the control file: the features of the first corpus are had.     *)
LEMMA ReadSelection ==
  ASSUME IInv, ReadControlFile, Parses(cf)
  PROVE  /\ files' = ParsedFiles(cf) \o known
         /\ \A i \in DOMAIN files' \ rest' : files'[i].feats \subseteq all'
         /\ \A i \in rest' : cf.first < i
         /\ all' \subseteq ContentFeatures(outDir)
<1>1. /\ cf \in FileType /\ cf.first \in Nat /\ cf.first <= Len(cf.names)
      /\ Len(cf.names) \in Nat /\ Len(known) \in Nat
      /\ files' = ParsedFiles(cf) \o known
      /\ DOMAIN files' = 1..(Len(cf.names) + Len(known))
      /\ rest' = (cf.first + 1)..(Len(cf.names) + Len(known))
  BY ReadFiles
<1>2. cf # NoFile
  BY DEF Parses
<1>3. DOMAIN cf.names = 1..Len(cf.names)
  BY <1>1, NamesLength
<1>4. all' = UNION {ParsedFiles(cf)[i].feats : i \in {k \in DOMAIN cf.names : k <= cf.first}}
  BY DEF ReadControlFile, FirstCorpusFeatures
<1>5. \A i \in DOMAIN cf.names : ParsedFiles(cf)[i].feats = FtOf(cf, i)
  BY <1>1, FilesRight
<1>6. ASSUME NEW i \in DOMAIN files' \ rest' PROVE files'[i].feats \subseteq all'
  <2>1. i \in 1..Len(cf.names) /\ i <= cf.first
    BY <1>1
  <2> PICK fs : fs = files'
    OBVIOUS
  <2>2. fs[i].feats = FtOf(cf, i)
    BY <1>1, <1>2, <2>1, Sources
  <2> QED
    BY <1>3, <1>4, <1>5, <2>1, <2>2
<1>7. ASSUME NEW i \in DOMAIN cf.names, i <= cf.first
      PROVE  FtOf(cf, i) \subseteq ContentFeatures(outDir)
  <2>1. cf.names[i] \in outDir \X {"out"}
    BY <1>2, <1>7 DEF IInv, NamesRight
  <2>2. Content(cf.names[i]) \in outDir
    BY <2>1 DEF Content
  <2>3. FtOf(cf, i) \subseteq FeaturesOf[Content(cf.names[i])]
    BY <1>2 DEF IInv, FeaturesRight
  <2> QED
    BY <2>2, <2>3, ContentHas
<1>8. all' \subseteq ContentFeatures(outDir)
  BY <1>4, <1>5, <1>7
<1>9. \A i \in rest' : cf.first < i
  BY <1>1
<1> QED
  BY <1>1, <1>6, <1>8, <1>9

(* Taking or skipping a file.                                              *)
LEMMA TakeSelection ==
  ASSUME IInv, pc = "select", NEW i \in rest, UNCHANGED <<files, outDir>>,
         Take(i) \/ (New(i) = {} /\ rest' = rest \ {i} /\ UNCHANGED <<all, picked>>)
  PROVE  /\ \A k \in DOMAIN files' \ rest' : files'[k].feats \subseteq all'
         /\ all' \subseteq ContentFeatures(outDir' \cup PickedContents')
         /\ all \subseteq all' /\ rest' = rest \ {i}
<1>1. /\ TypeOK /\ cf # NoFile /\ files = ParsedFiles(cf) \o known
      /\ \A k \in DOMAIN files \ rest : files[k].feats \subseteq all
      /\ all \subseteq ContentFeatures(outDir \cup PickedContents)
  BY DEF IInv, Turns, SelectionRight
<1>2. all \subseteq all' /\ files[i].feats \subseteq all' /\ rest' = rest \ {i}
  BY DEF Take, New
<1>3. \A k \in DOMAIN files' \ rest' : files'[k].feats \subseteq all'
  BY <1>1, <1>2
<1>4. CASE Take(i)
  <2>1. files[i].feats \subseteq FeaturesOf[Content(files[i].name)]
    BY <1>1, Sources DEF TypeOK
  <2>2. PickedContents' = PickedContents \cup {Content(files[i].name)}
    BY <1>1, <1>4, TakePicked
  <2> PICK S, T : S = outDir \cup PickedContents /\ T = outDir' \cup PickedContents'
    OBVIOUS
  <2>3. S \subseteq T /\ Content(files[i].name) \in T
    BY <2>2
  <2>4. ContentFeatures(S) \subseteq ContentFeatures(T)
    BY <2>3, ContentGrows
  <2>5. FeaturesOf[Content(files[i].name)] \subseteq ContentFeatures(T)
    BY <2>3, ContentHas
  <2>6. all' = all \cup files[i].feats
    BY <1>4 DEF Take
  <2>7. all' \subseteq ContentFeatures(T)
    BY <1>1, <2>1, <2>4, <2>5, <2>6
  <2> QED
    BY <1>2, <1>3, <2>7
<1>5. CASE UNCHANGED <<all, picked>>
  <2>1. outDir' \cup PickedContents' = outDir \cup PickedContents
    BY <1>5 DEF PickedContents
  <2> QED
    BY <1>1, <1>2, <1>3, <1>5, <2>1
<1> QED
  BY <1>4, <1>5

LEMMA SelectionStep == ASSUME IInv, ~LongLines, [Next]_vars PROVE SelectionRight'
<1> USE DEF Goto, outerVars, selectVars, Ended
<1>0. SelectionRight /\ Turns
  BY DEF IInv
<1>1. CASE ReadControlFile /\ Parses(cf)
  <2>1. /\ files' = ParsedFiles(cf) \o known
        /\ \A i \in DOMAIN files' \ rest' : files'[i].feats \subseteq all'
        /\ \A i \in rest' : cf.first < i
        /\ all' \subseteq ContentFeatures(outDir)
    BY <1>1, ReadSelection
  <2>2. pc' = "select" /\ picked' = <<>> /\ added' = <<>> /\ UNCHANGED <<cf, known, outDir>>
    BY <1>0, <1>1 DEF ReadControlFile, SelectionRight
  <2>3. all' \subseteq ContentFeatures(outDir' \cup PickedContents')
    <3> PICK T : T = outDir' \cup PickedContents'
      OBVIOUS
    <3>1. ContentFeatures(outDir) \subseteq ContentFeatures(T)
      BY <2>2, ContentGrows
    <3> QED
      BY <2>1, <3>1
  <2>4. files' = ParsedFiles(cf') \o known'
    BY <2>1, <2>2
  <2> QED
    BY <2>1, <2>2, <2>3, <2>4 DEF SelectionRight
<1>2. ASSUME pc = "select", NEW i \in rest, UNCHANGED <<pc, files, outDir, cf, known, added>>,
             Take(i) \/ (New(i) = {} /\ rest' = rest \ {i} /\ UNCHANGED <<all, picked>>)
      PROVE  SelectionRight'
  <2>1. /\ \A k \in DOMAIN files' \ rest' : files'[k].feats \subseteq all'
        /\ all' \subseteq ContentFeatures(outDir' \cup PickedContents')
        /\ rest' = rest \ {i}
    BY <1>2, TakeSelection
  <2>2. files' = ParsedFiles(cf') \o known' /\ added' = <<>> /\ \A k \in rest' : cf'.first < k
    BY <1>0, <1>2, <2>1 DEF SelectionRight
  <2> QED
    BY <1>2, <2>1, <2>2 DEF SelectionRight
<1>3. CASE MergeStep
  <2> PICK i \in rest : IF New(i) # {} THEN Take(i) ELSE rest' = rest \ {i} /\ UNCHANGED <<all, picked>>
    BY <1>3 DEF MergeStep
  <2> QED
    BY <1>2, <1>3 DEF MergeStep
<1>4. CASE SetCoverStep
  <2> PICK i \in rest : Take(i)
    BY <1>4 DEF SetCoverStep
  <2> QED
    BY <1>2, <1>4 DEF SetCoverStep
<1>5. CASE Selected
  <2>1. pc = "select" /\ pc' = "copy" /\ UNCHANGED <<files, rest, all, picked, added, outDir, cf, known>>
    BY <1>5 DEF Selected
  <2>2. \A i \in rest : New(i)' = {}
    BY <1>5, <2>1 DEF Selected, New
  <2> QED
    BY <1>0, <2>1, <2>2 DEF SelectionRight, PickedContents
<1>6. CASE CopyFile
  <2>1. pc = "copy" /\ UNCHANGED <<pc, files, rest, all, cf, known>>
    BY <1>6 DEF CopyFile
  <2>2. outDir' \cup PickedContents' = outDir \cup PickedContents
    BY <1>6, CopyPicked DEF IInv
  <2>3. \A i \in rest : New(i)' = {}
    BY <1>0, <2>1 DEF SelectionRight, New
  <2> QED
    BY <1>0, <2>1, <2>2, <2>3 DEF SelectionRight
<1>7. CASE CopiedAll
  <2>1. pc = "copy" /\ pc' = "done" /\ picked = <<>>
        /\ UNCHANGED <<files, rest, all, picked, added, outDir, cf, known>>
    BY <1>7 DEF CopiedAll
  <2>2. \A i \in rest : New(i)' = {}
    BY <1>0, <2>1 DEF SelectionRight, New
  <2> QED
    BY <1>0, <2>1, <2>2 DEF SelectionRight, PickedContents
<1>8. CASE UNCHANGED <<pc, selectVars, outDir, cf, known>>
  BY <1>0, <1>8 DEF SelectionRight, PickedContents, New
<1>9. CASE UNCHANGED selectVars /\ pc' \in {"create", "nothing", "attempt", "header", "wait", "graceful",
                                            "read", "failed", "killed"}
           /\ (pc \in {"select", "copy"} \cup Ended => pc' \in {"select", "copy"} \cup Ended)
  BY <1>0, <1>9 DEF SelectionRight
<1>10. CASE Rerun
  BY <1>10 DEF Rerun, SelectionRight
<1>11. CASE Progress
  BY <1>0, <1>1, <1>3, <1>4, <1>5, <1>6, <1>7, <1>8, <1>9, <1>11
  DEF Progress, Overwrite, NothingToDo, Reuse, Resume, RemoveControlFile, WriteControlFile,
      Launch, GiveUp, InnerParses, InnerStarts, InnerCrashes, InnerRuns, InnerFlushes,
      InnerFinishes, InnerEnds, ReadControlFile, Turns
<1>12. CASE Next /\ ~Progress
  BY <1>0, <1>8, <1>9, <1>10, <1>12
  DEF Next, OuterExitsGracefully, InnerExitsGracefully, InnerFailsToStart, InnerIsKilled,
      OuterIsKilled, Stopped, vars, InnerEnds, Turns
<1> QED
  BY <1>8, <1>11, <1>12 DEF vars

(* What the first corpus had when the selection began counts as had.       *)
LEMMA FirstHad ==
  ASSUME IInv, pc = "select"
  PROVE  ContentFeatures(RecordedFirst) \subseteq all
<1>1. /\ cf # NoFile /\ cf \in FileType /\ LinesRight(cf) /\ FeaturesRight(cf)
      /\ files = ParsedFiles(cf) \o known
      /\ \A i \in DOMAIN files \ rest : files[i].feats \subseteq all
      /\ \A i \in rest : cf.first < i
  BY DEF IInv, Turns, TypeOK, SelectionRight
<1>2. /\ Len(cf.names) \in Nat /\ Len(known) \in Nat
      /\ DOMAIN cf.names = 1..Len(cf.names)
      /\ DOMAIN files = 1..(Len(cf.names) + Len(known))
      /\ \A i \in 1..Len(cf.names) : files[i].feats = FtOf(cf, i)
  BY <1>1, Sources
<1>3. cf.first \in Nat /\ cf.first <= Len(cf.names)
  BY <1>1 DEF IInv, NamesRight, FileType
<1>4. ASSUME NEW k \in 1..cf.first, HasFt(cf, k)
      PROVE  FeaturesOf[Content(cf.names[k])] \subseteq all
  <2>1. k \in DOMAIN cf.names
    BY <1>2, <1>3
  <2>2. FeaturesOf[Content(cf.names[k])] \subseteq FtUpTo(cf, k)
    BY <1>1, <1>4, <2>1 DEF FeaturesRight
  <2>3. \A j \in 1..k : j \in 1..Len(cf.names) /\ j \in DOMAIN files \ rest
    BY <1>1, <1>2, <1>3
  <2>4. \A j \in 1..k : FtOf(cf, j) \subseteq all
    BY <1>1, <1>2, <2>3
  <2> QED
    BY <2>2, <2>4 DEF FtUpTo
<1> QED
  BY <1>4 DEF ContentFeatures, RecordedFirst

(* A file with features was executed, so that its size is the one noted.   *)
LEMMA SizeNoted ==
  ASSUME IInv, pc = "select", NEW i \in DOMAIN files, files[i].feats # {}
  PROVE  files[i].size = SizeOf[Content(files[i].name)]
<1>1. /\ cf # NoFile /\ cf \in FileType /\ LinesRight(cf)
      /\ files = ParsedFiles(cf) \o known /\ KnownRight
  BY DEF IInv, Turns, TypeOK, SelectionRight
<1>2. /\ Len(cf.names) \in Nat /\ Len(known) \in Nat /\ DOMAIN known = 1..Len(known)
      /\ DOMAIN files = 1..(Len(cf.names) + Len(known))
      /\ \A k \in 1..Len(cf.names) :
              /\ files[k].name = cf.names[k] /\ files[k].feats = FtOf(cf, k)
              /\ k <= FirstNotProcessed(cf) => files[k].size = SizeOf[Content(cf.names[k])]
      /\ \A k \in 1..Len(known) : files[Len(cf.names) + k] = known[k]
  BY <1>1, Sources
<1>3. CASE i <= Len(cf.names)
  <2>1. i \in 1..Len(cf.names)
    BY <1>2, <1>3
  <2>2. FtOf(cf, i) # {}
    BY <1>2, <2>1
  <2>3. HasFt(cf, i)
    BY <2>2 DEF FtOf, HasFt
  <2>4. i <= FirstNotProcessed(cf)
    BY <1>1, <2>3, RecordedStarted
  <2> QED
    BY <1>2, <2>1, <2>4
<1>4. CASE ~(i <= Len(cf.names))
  <2>1. i - Len(cf.names) \in 1..Len(known) /\ i = Len(cf.names) + (i - Len(cf.names))
    BY <1>2, <1>4
  <2>2. files[i] = known[i - Len(cf.names)]
    BY <1>2, <2>1
  <2> QED
    BY <1>1, <1>2, <2>1, <2>2, SMTT(30) DEF KnownRight
<1> QED
  BY <1>3, <1>4

(* Merger::Merge has looked at every smaller recorded input before.        *)
LEMMA SmallerHad ==
  ASSUME IInv, pc = "select", NEW i \in rest, \A j \in rest : ~Before(j, i), files[i].feats # {}
  PROVE  ContentFeatures(RecordedBelow(SizeOf[Content(files[i].name)])) \subseteq all
<1> DEFINE size == SizeOf[Content(files[i].name)]
<1>1. /\ cf # NoFile /\ cf \in FileType /\ LinesRight(cf) /\ FeaturesRight(cf) /\ NamesRight(cf)
      /\ files = ParsedFiles(cf) \o known
      /\ \A k \in DOMAIN files \ rest : files[k].feats \subseteq all
      /\ \A k \in rest : cf.first < k
      /\ i \in DOMAIN files
  BY DEF IInv, Turns, TypeOK, SelectionRight
<1>2. /\ Len(cf.names) \in Nat /\ Len(known) \in Nat
      /\ DOMAIN cf.names = 1..Len(cf.names)
      /\ DOMAIN files = 1..(Len(cf.names) + Len(known))
      /\ \A k \in 1..Len(cf.names) :
           /\ files[k].feats = FtOf(cf, k)
           /\ k <= FirstNotProcessed(cf) => files[k].size = SizeOf[Content(cf.names[k])]
  BY <1>1, Sources
<1>3. files[i].size = size
  BY <1>1, SizeNoted
<1>4. \A k \in DOMAIN cf.names : SizeOf[Content(cf.names[k])] \in Nat
  BY <1>1, MergeAssumption DEF FileType, FileNames, Content
<1>5. size \in Nat
  <2>1. files \in Seq(InfoType)
    BY DEF IInv, TypeOK
  <2>2. files[i] \in InfoType
    BY <1>1, <2>1
  <2>3. Content(files[i].name) \in Contents
    BY <2>2 DEF InfoType, FileNames, Content
  <2> QED
    BY <2>3, MergeAssumption
<1>6. cf.first \in Nat /\ FirstNotProcessed(cf) \in Nat
  BY <1>1, ProcessedNat DEF FileType
<1> HIDE DEF size
<1>7. ASSUME NEW k \in DOMAIN cf.names, HasFt(cf, k), SizeOf[Content(cf.names[k])] < size
      PROVE  FeaturesOf[Content(cf.names[k])] \subseteq all
  <2>1. FeaturesOf[Content(cf.names[k])] \subseteq FtUpTo(cf, k)
    BY <1>1, <1>7 DEF FeaturesRight
  <2>2. k <= FirstNotProcessed(cf)
    BY <1>1, <1>7, RecordedStarted
  <2>3. ASSUME NEW j \in 1..k PROVE FtOf(cf, j) \subseteq all
    <3>1. j \in 1..Len(cf.names) /\ j \in DOMAIN cf.names /\ j \in DOMAIN files /\ j <= FirstNotProcessed(cf)
      BY <1>2, <1>6, <2>2
    <3>2. cf.first < j => SizeOf[Content(cf.names[j])] < size
      <4>1. CASE j = k
        BY <1>7, <4>1
      <4>2. CASE j # k
        <5>1. j < k
          BY <1>2, <4>2
        <5>2. cf.first < j => SizeOf[Content(cf.names[j])] <= SizeOf[Content(cf.names[k])]
          BY <1>1, <3>1, <5>1 DEF NamesRight
        <5> QED
          BY <1>4, <1>5, <1>7, <3>1, <5>2
      <4> QED
        BY <4>1, <4>2
    <3>3. files[j].size = SizeOf[Content(cf.names[j])]
      BY <1>2, <3>1
    <3>4. cf.first < j => Before(j, i)
      BY <1>3, <3>2, <3>3 DEF Before
    <3>5. j \notin rest
      BY <1>1, <3>4
    <3> QED
      BY <1>1, <1>2, <3>1, <3>5, SMTT(30)
  <2> QED
    BY <2>1, <2>3 DEF FtUpTo
<1>8. ASSUME NEW x \in Recorded, SizeOf[x] < size PROVE FeaturesOf[x] \subseteq all
  <2> PICK k \in DOMAIN cf.names : HasFt(cf, k) /\ x = Content(cf.names[k])
    BY DEF Recorded
  <2> QED
    BY <1>7, <1>8
<1>9. ContentFeatures(RecordedFirst) \subseteq all
  BY FirstHad
<1>10. ContentFeatures(RecordedBelow(size)) \subseteq all
  BY <1>8, <1>9 DEF RecordedBelow, ContentFeatures
<1> QED
  BY <1>10 DEF size

(* The recorded inputs are a matter of the control file.                   *)
LEMMA RecordedKept ==
  ASSUME UNCHANGED cf
  PROVE  RecordedFirst' = RecordedFirst /\ \A n : RecordedBelow(n)' = RecordedBelow(n)
<1>1. RecordedFirst' = RecordedFirst
  BY DEF RecordedFirst, HasFt
<1>2. Recorded' = Recorded
  BY DEF Recorded, HasFt
<1> QED
  BY <1>1, <1>2 DEF RecordedBelow

LEMMA NewHas ==
  ASSUME IInv, pc = "select", NEW i \in rest, New(i) # {}, NEW S, ContentFeatures(S) \subseteq all
  PROVE  AddsCoverage(files[i].name, S)
<1>1. cf # NoFile /\ files = ParsedFiles(cf) \o known /\ i \in DOMAIN files
  BY DEF IInv, Turns, TypeOK, SelectionRight
<1>2. files[i].feats \subseteq FeaturesOf[Content(files[i].name)]
  BY <1>1, Sources
<1>3. PICK f \in files[i].feats : f \notin all
  BY DEF New
<1> QED
  BY <1>2, <1>3 DEF AddsCoverage

LEMMA MergePicked ==
  ASSUME IInv, MergeStep
  PROVE  PickedRight' /\ OnlyNewCoverageAdded'
<1>1. /\ pc = "select" /\ setCover = FALSE /\ setCover' = setCover /\ added' = <<>>
      /\ TypeOK /\ UNCHANGED cf
  BY DEF MergeStep, IInv, SelectionRight, TypeOK, Ended, bounds
<1>2. PICK i \in rest : /\ \A j \in rest : ~Before(j, i)
                        /\ IF New(i) # {} THEN Take(i)
                                          ELSE rest' = rest \ {i} /\ UNCHANGED <<all, picked>>
  BY DEF MergeStep
<1>3. \A n : RecordedBelow(n)' = RecordedBelow(n)
  BY <1>1, RecordedKept
<1>4. \A k \in DOMAIN picked :
        AddsCoverage(picked[k], RecordedBelow(SizeOf[Content(picked[k])]))
  BY <1>1 DEF IInv, PickedRight
<1>5. \A k \in DOMAIN picked' :
        AddsCoverage(picked'[k], RecordedBelow(SizeOf[Content(picked'[k])]))
  <2>1. CASE New(i) # {}
    <3>1. /\ DOMAIN picked' = 1..(Len(picked) + 1) /\ DOMAIN picked = 1..Len(picked)
          /\ Len(picked) \in Nat
          /\ \A k \in DOMAIN picked : picked'[k] = picked[k]
          /\ picked'[Len(picked) + 1] = files[i].name
      BY <1>1, <1>2, <2>1, TakeType
    <3>2. AddsCoverage(files[i].name, RecordedBelow(SizeOf[Content(files[i].name)]))
      <4>1. files[i].feats # {}
        BY <2>1 DEF New
      <4>2. ContentFeatures(RecordedBelow(SizeOf[Content(files[i].name)])) \subseteq all
        BY <1>1, <1>2, <4>1, SmallerHad
      <4> QED
        BY <1>1, <2>1, <4>2, NewHas
    <3>3. \A k \in DOMAIN picked' : k \in DOMAIN picked \/ k = Len(picked) + 1
      BY <3>1
    <3> QED
      BY <1>4, <3>1, <3>2, <3>3
  <2>2. CASE New(i) = {}
    BY <1>2, <1>4, <2>2
  <2> QED
    BY <2>1, <2>2
<1>6. ~CoverOnly'
  BY <1>1 DEF CoverOnly
<1>7. OnlyNewCoverageAdded'
  BY <1>1 DEF OnlyNewCoverageAdded
<1> QED
  BY <1>1, <1>3, <1>5, <1>6, <1>7 DEF PickedRight

LEMMA CoverPicked ==
  ASSUME IInv, SetCoverStep
  PROVE  PickedRight' /\ OnlyNewCoverageAdded'
<1>1. /\ pc = "select" /\ setCover /\ UNCHANGED <<pc, setCover, runs, cf>> /\ added = <<>> /\ added' = <<>>
      /\ TypeOK
  BY DEF SetCoverStep, IInv, SelectionRight, TypeOK, Ended, bounds, outerVars
<1>2. PICK i \in rest : New(i) # {} /\ Take(i)
  BY DEF SetCoverStep
<1>3. OnlyNewCoverageAdded'
  BY <1>1 DEF OnlyNewCoverageAdded
<1>4. ASSUME CoverOnly PROVE PickedRight'
  <2> DEFINE others(k) == {Content(picked[m]) : m \in 1..(k - 1)}
  <2>1. /\ \A k \in DOMAIN picked : AddsCoverage(picked[k], RecordedFirst \cup AddedContents \cup others(k))
        /\ ContentFeatures(PickedContents) \subseteq all
    BY <1>1, <1>4 DEF IInv, PickedRight
  <2>2. /\ DOMAIN picked' = 1..(Len(picked) + 1) /\ DOMAIN picked = 1..Len(picked)
        /\ Len(picked) \in Nat
        /\ \A k \in DOMAIN picked : picked'[k] = picked[k]
        /\ picked'[Len(picked) + 1] = files[i].name
    BY <1>1, <1>2, TakeType
  <2>3. RecordedFirst' = RecordedFirst /\ AddedContents' = AddedContents /\ AddedContents = {}
    <3>1. RecordedFirst' = RecordedFirst
      BY <1>1, RecordedKept
    <3> QED
      BY <1>1, <3>1 DEF AddedContents
  <2>4. \A k \in 1..(Len(picked) + 1) : {Content(picked'[m]) : m \in 1..(k - 1)} = others(k)
    BY <2>2
  <2>5. others(Len(picked) + 1) = PickedContents
    BY <2>2 DEF PickedContents
  <2>6. ContentFeatures(RecordedFirst \cup AddedContents \cup PickedContents) \subseteq all
    <3>1. ContentFeatures(RecordedFirst) \subseteq all
      BY <1>1, FirstHad
    <3> QED
      BY <2>1, <2>3, <3>1 DEF ContentFeatures
  <2>7. AddsCoverage(files[i].name, RecordedFirst \cup AddedContents \cup others(Len(picked) + 1))
    <3>1. AddsCoverage(files[i].name, RecordedFirst \cup AddedContents \cup PickedContents)
      BY <1>1, <1>2, <2>6, NewHas
    <3> QED
      BY <2>5, <3>1
  <2>8. ContentFeatures(PickedContents') \subseteq all'
    <3>1. /\ cf # NoFile /\ files = ParsedFiles(cf) \o known /\ i \in DOMAIN files
          /\ known = <<>> /\ FeaturesRight(cf)
      BY <1>1, <1>4 DEF IInv, Turns, TypeOK, SelectionRight, CoverOnly
    <3>2. /\ Len(cf.names) \in Nat /\ DOMAIN cf.names = 1..Len(cf.names)
          /\ DOMAIN files = 1..(Len(cf.names) + Len(known))
          /\ \A k \in 1..Len(cf.names) : files[k].name = cf.names[k] /\ files[k].feats = FtOf(cf, k)
      BY <3>1, Sources
    <3>3. i \in DOMAIN cf.names /\ files[i].name = cf.names[i] /\ files[i].feats = FtOf(cf, i)
      BY <3>1, <3>2
    <3>4. FtOf(cf, i) # {}
      BY <1>2, <3>3 DEF New
    <3>5. HasFt(cf, i)
      BY <3>4 DEF FtOf, HasFt
    <3>6. files[i].feats = FeaturesOf[Content(files[i].name)]
      BY <1>4, <3>1, <3>3, <3>5 DEF FeaturesRight
    <3>7. PickedContents' = PickedContents \cup {Content(files[i].name)}
      BY <1>1, <1>2, TakePicked
    <3>8. all' = all \cup files[i].feats
      BY <1>2 DEF Take
    <3> QED
      BY <2>1, <3>6, <3>7, <3>8 DEF ContentFeatures
  <2>9. ASSUME NEW k \in DOMAIN picked'
        PROVE  AddsCoverage(picked'[k], RecordedFirst' \cup AddedContents'
                                          \cup {Content(picked'[m]) : m \in 1..(k - 1)})
    <3>1. RecordedFirst' \cup AddedContents' \cup {Content(picked'[m]) : m \in 1..(k - 1)}
            = RecordedFirst \cup AddedContents \cup others(k)
      BY <2>2, <2>3, <2>4
    <3>2. k \in DOMAIN picked \/ k = Len(picked) + 1
      BY <2>2
    <3>3. AddsCoverage(picked'[k], RecordedFirst \cup AddedContents \cup others(k))
      BY <2>1, <2>2, <2>7, <3>2
    <3> QED
      BY <3>1, <3>3
  <2> QED
    BY <1>1, <2>8, <2>9 DEF PickedRight
<1>5. CASE ~CoverOnly
  <2>1. ~CoverOnly' /\ setCover'
    BY <1>1, <1>5, Zenon DEF CoverOnly
  <2> QED
    BY <1>3, <2>1 DEF PickedRight
<1> QED
  BY <1>3, <1>4, <1>5

LEMMA CopyPickedRight ==
  ASSUME IInv, CopyFile
  PROVE  PickedRight' /\ OnlyNewCoverageAdded'
<1>1. /\ pc = "copy" /\ pc' = "copy" /\ UNCHANGED <<setCover, runs, cf>> /\ TypeOK
      /\ PickedRight /\ OnlyNewCoverageAdded
  BY DEF CopyFile, IInv, outerVars, bounds
<1>2. /\ Len(picked) \in Nat \ {0} /\ DOMAIN picked = 1..Len(picked)
      /\ DOMAIN picked' = 1..(Len(picked) - 1)
      /\ \A k \in 1..(Len(picked) - 1) : picked'[k] = picked[k + 1]
      /\ Len(added) \in Nat /\ DOMAIN added = 1..Len(added)
      /\ DOMAIN added' = 1..(Len(added) + 1)
      /\ \A k \in 1..Len(added) : added'[k] = added[k]
      /\ added'[Len(added) + 1] = picked[1]
  BY <1>1, CopyType
<1>3. RecordedFirst' = RecordedFirst /\ \A n : RecordedBelow(n)' = RecordedBelow(n)
  BY <1>1, RecordedKept
<1>4. AddedContents' = AddedContents \cup {Content(picked[1])}
  BY <1>1, CopyPicked
<1> DEFINE Below(s) == \A k \in DOMAIN s :
             AddsCoverage(s[k], RecordedBelow(SizeOf[Content(s[k])]))
<1>5. ~setCover => Below(picked') /\ Below(added')
  <2> SUFFICES ASSUME ~setCover PROVE Below(picked') /\ Below(added')
    OBVIOUS
  <2>1. Below(picked) /\ Below(added)
    BY <1>1 DEF PickedRight, OnlyNewCoverageAdded
  <2>2. \A k \in DOMAIN picked' : k + 1 \in DOMAIN picked /\ picked'[k] = picked[k + 1]
    BY <1>2
  <2>3. Below(picked')
    BY <2>1, <2>2
  <2>4. \A k \in DOMAIN added' : \/ k \in DOMAIN added /\ added'[k] = added[k]
                                 \/ 1 \in DOMAIN picked /\ added'[k] = picked[1]
    BY <1>2
  <2>5. Below(added')
    BY <2>1, <2>4
  <2> QED
    BY <2>3, <2>5
<1>6. CoverOnly => /\ \A i \in DOMAIN picked' :
                        AddsCoverage(picked'[i], RecordedFirst \cup AddedContents'
                                                   \cup {Content(picked'[k]) : k \in 1..(i - 1)})
                   /\ \A i \in DOMAIN added' :
                        AddsCoverage(added'[i], RecordedFirst \cup {Content(added'[k]) : k \in 1..(i - 1)})
  <2> SUFFICES ASSUME CoverOnly
               PROVE  /\ \A i \in DOMAIN picked' :
                        AddsCoverage(picked'[i], RecordedFirst \cup AddedContents'
                                                   \cup {Content(picked'[k]) : k \in 1..(i - 1)})
                      /\ \A i \in DOMAIN added' :
                        AddsCoverage(added'[i], RecordedFirst \cup {Content(added'[k]) : k \in 1..(i - 1)})
    OBVIOUS
  <2>1. \A i \in DOMAIN picked :
          AddsCoverage(picked[i], RecordedFirst \cup AddedContents
                                    \cup {Content(picked[k]) : k \in 1..(i - 1)})
    BY <1>1 DEF PickedRight
  <2>2. \A i \in DOMAIN added :
          AddsCoverage(added[i], RecordedFirst \cup {Content(added[k]) : k \in 1..(i - 1)})
    BY <1>1 DEF OnlyNewCoverageAdded, CoverOnly
  <2>3. ASSUME NEW i \in DOMAIN picked'
        PROVE  AddsCoverage(picked'[i], RecordedFirst \cup AddedContents'
                                          \cup {Content(picked'[k]) : k \in 1..(i - 1)})
    <3>1. i \in 1..(Len(picked) - 1) /\ i + 1 \in DOMAIN picked /\ picked'[i] = picked[i + 1]
      BY <1>2
    <3>2. \A k \in 1..((i + 1) - 1) : k = 1 \/ (k - 1 \in 1..(i - 1) /\ picked'[k - 1] = picked[k])
      BY <1>2, <3>1
    <3>3. \A k \in 1..(i - 1) : k + 1 \in 1..((i + 1) - 1) /\ picked'[k] = picked[k + 1]
      BY <1>2, <3>1
    <3>4. 1 \in 1..((i + 1) - 1)
      BY <3>1
    <3>5. {Content(picked[1])} \cup {Content(picked'[k]) : k \in 1..(i - 1)}
            = {Content(picked[k]) : k \in 1..((i + 1) - 1)}
      <4>1. \A x : x \in {Content(picked[1])} \cup {Content(picked'[k]) : k \in 1..(i - 1)}
                     => x \in {Content(picked[k]) : k \in 1..((i + 1) - 1)}
        BY <3>3, <3>4
      <4>2. \A x : x \in {Content(picked[k]) : k \in 1..((i + 1) - 1)}
                     => x \in {Content(picked[1])} \cup {Content(picked'[k]) : k \in 1..(i - 1)}
        BY <3>2
      <4> QED
        BY <4>1, <4>2
    <3>6. RecordedFirst \cup AddedContents' \cup {Content(picked'[k]) : k \in 1..(i - 1)}
            = RecordedFirst \cup AddedContents \cup {Content(picked[k]) : k \in 1..((i + 1) - 1)}
      BY <1>4, <3>5
    <3> QED
      BY <2>1, <3>1, <3>6
  <2>4. ASSUME NEW i \in DOMAIN added'
        PROVE  AddsCoverage(added'[i], RecordedFirst \cup {Content(added'[k]) : k \in 1..(i - 1)})
    <3>1. \A k \in 1..(i - 1) : added'[k] = added[k]
      BY <1>2
    <3>2. {Content(added'[k]) : k \in 1..(i - 1)} = {Content(added[k]) : k \in 1..(i - 1)}
      BY <3>1
    <3>3. CASE i \in DOMAIN added
      BY <1>2, <2>2, <3>2, <3>3
    <3>4. CASE i \notin DOMAIN added
      <4>1. i = Len(added) + 1 /\ added'[i] = picked[1] /\ 1 \in DOMAIN picked
        BY <1>2, <3>4
      <4>2. {Content(added[k]) : k \in 1..(i - 1)} = AddedContents
        BY <1>2, <4>1 DEF AddedContents
      <4>3. {Content(picked[k]) : k \in 1..(1 - 1)} = {}
        OBVIOUS
      <4>4. AddsCoverage(picked[1], RecordedFirst \cup AddedContents \cup {Content(picked[k]) : k \in 1..(1 - 1)})
        BY <2>1, <4>1
      <4>5. RecordedFirst \cup AddedContents \cup {Content(picked[k]) : k \in 1..(1 - 1)}
              = RecordedFirst \cup {Content(added'[k]) : k \in 1..(i - 1)}
        BY <3>2, <4>2, <4>3
      <4> QED
        BY <4>1, <4>4, <4>5
    <3> QED
      BY <3>3, <3>4
  <2> QED
    BY <2>3, <2>4
<1>7. (setCover' <=> setCover) /\ (CoverOnly' <=> CoverOnly)
  BY <1>1 DEF CoverOnly
<1>8. PickedRight'
  BY <1>1, <1>3, <1>5, <1>6, <1>7 DEF PickedRight
<1>9. OnlyNewCoverageAdded'
  BY <1>1, <1>3, <1>5, <1>6, <1>7 DEF OnlyNewCoverageAdded, CoverOnly
<1> QED
  BY <1>8, <1>9

LEMMA PickedStep ==
  ASSUME IInv, ~LongLines, [Next]_vars
  PROVE  PickedRight' /\ OnlyNewCoverageAdded'
<1>1. PickedRight /\ OnlyNewCoverageAdded /\ SelectionRight
  BY DEF IInv
<1>2. CASE picked' = <<>> /\ added' = <<>> /\ pc' # "select"
  BY <1>2 DEF PickedRight, OnlyNewCoverageAdded
<1>3. CASE UNCHANGED <<picked, added, all, cf, setCover, runs>> /\ (pc' = "select" => pc = "select")
  <2>1. RecordedFirst' = RecordedFirst /\ \A n : RecordedBelow(n)' = RecordedBelow(n)
    BY <1>3, RecordedKept
  <2>2. AddedContents' = AddedContents /\ PickedContents' = PickedContents
    BY <1>3 DEF AddedContents, PickedContents
  <2>3. (setCover' <=> setCover) /\ (CoverOnly' <=> CoverOnly)
    BY <1>3 DEF CoverOnly
  <2>4. PickedRight'
    BY <1>1, <1>3, <2>1, <2>2, <2>3 DEF PickedRight
  <2>5. OnlyNewCoverageAdded'
    BY <1>1, <1>3, <2>1, <2>3 DEF OnlyNewCoverageAdded
  <2> QED
    BY <2>4, <2>5
<1>4. CASE ReadControlFile
  <2>1. picked' = <<>> /\ added' = <<>>
    BY <1>1, <1>4 DEF ReadControlFile, SelectionRight, Ended
  <2>2. PickedContents' = {}
    BY <2>1 DEF PickedContents
  <2> QED
    BY <2>1, <2>2 DEF PickedRight, OnlyNewCoverageAdded, ContentFeatures
<1>5. CASE RemoveControlFile \/ WriteControlFile \/ InnerStarts \/ InnerFlushes
  <2>1. picked' = picked /\ added' = added /\ pc' # "select" /\ pc \in {"create", "header", "wait"}
    BY <1>5 DEF RemoveControlFile, WriteControlFile, InnerStarts, InnerFlushes, selectVars,
      outerVars, Goto, IInv, Turns
  <2>2. picked = <<>> /\ added = <<>>
    BY <1>1, <2>1 DEF SelectionRight, Ended
  <2> QED
    BY <1>2, <2>1, <2>2
<1>6. CASE Rerun
  BY <1>2, <1>6 DEF Rerun, Goto
<1>7. CASE Next /\ UNCHANGED <<selectVars, cf, setCover, runs>>
  <2>1. pc' = "select" => pc = "select" \/ ReadControlFile
    BY <1>7 DEF Next, Progress, Overwrite, NothingToDo, Reuse, Resume, RemoveControlFile,
      WriteControlFile, Launch, GiveUp, InnerParses, InnerStarts, InnerCrashes, InnerRuns, InnerFlushes,
      InnerFinishes, MergeStep, SetCoverStep, Selected, CopyFile, CopiedAll,
      OuterExitsGracefully, InnerExitsGracefully, InnerFailsToStart, InnerIsKilled,
      OuterIsKilled, Rerun, Stopped, InnerEnds, Goto, outerVars, vars
  <2> QED
    BY <1>3, <1>4, <1>7, <2>1 DEF selectVars
<1>8. CASE UNCHANGED vars
  BY <1>3, <1>8 DEF vars, outerVars, selectVars, bounds
<1> QED
  BY <1>4, <1>5, <1>6, <1>7, <1>8, MergePicked, CoverPicked, CopyPickedRight, Frames

(* The invariant, and what the runs check of it.                           *)
LEMMA IInvStep == ASSUME IInv, ~LongLines, [Next]_vars PROVE IInv'
BY TypeStep, SelectTypeStep, FileStep, TurnsStep, AttemptsStep, SeenStep, KnownStep,
   SelectionStep, PickedStep DEF IInv

(* MergeControl: whatever dies and whenever, the control file and what the *)
(* outer process makes of it are consistent.                               *)
THEOREM MergeConsistent == ~LongLines => (Spec => []IInv)
<1> SUFFICES ASSUME ~LongLines PROVE Spec => []IInv
  OBVIOUS
<1>1. Init => IInv
  BY InitIInv
<1>2. IInv /\ [Next]_vars => IInv'
  BY IInvStep
<1> QED
  BY <1>1, <1>2, PTL DEF Spec

(* The control file tells the inner process where to resume, and the       *)
(* attempts are enough (FuzzerMerge.cpp:52-128, 475, 491-492).             *)
THEOREM ControlFileHolds == ~LongLines => (Spec => []ControlFileRight)
<1> SUFFICES ASSUME ~LongLines PROVE Spec => []ControlFileRight
  OBVIOUS
<1>1. IInv => ControlFileRight
  BY ParsesAlways DEF IInv, ControlFileRight
<1>2. Spec => []IInv
  BY MergeConsistent
<1> QED
  BY <1>1, <1>2, PTL

(* The features of every recorded and every known input are among those of *)
(* the files to select from.                                               *)
LEMMA AllHad ==
  ASSUME IInv, pc = "done"
  PROVE  NothingLost
<1>1. /\ cf # NoFile /\ FeaturesRight(cf) /\ files = ParsedFiles(cf) \o known /\ rest \subseteq DOMAIN files
      /\ \A i \in DOMAIN files \ rest : files[i].feats \subseteq all
      /\ \A i \in rest : New(i) = {}
      /\ all \subseteq ContentFeatures(outDir \cup PickedContents) /\ picked = <<>>
  BY DEF IInv, Turns, TypeOK, SelectionRight
<1>2. \A i \in DOMAIN files : files[i].feats \subseteq all
  BY <1>1 DEF New
<1>3. /\ Len(cf.names) \in Nat /\ Len(known) \in Nat
      /\ DOMAIN cf.names = 1..Len(cf.names) /\ DOMAIN known = 1..Len(known)
      /\ DOMAIN files = 1..(Len(cf.names) + Len(known))
      /\ \A i \in 1..Len(cf.names) : files[i].feats = FtOf(cf, i)
      /\ \A i \in 1..Len(known) : files[Len(cf.names) + i] = known[i]
  BY <1>1, Sources
<1>4. ASSUME NEW k \in DOMAIN cf.names, HasFt(cf, k)
      PROVE  FeaturesOf[Content(cf.names[k])] \subseteq all
  <2>1. FeaturesOf[Content(cf.names[k])] \subseteq FtUpTo(cf, k)
    BY <1>1, <1>4 DEF FeaturesRight
  <2>2. \A j \in 1..k : j \in 1..Len(cf.names) /\ j \in DOMAIN files
    BY <1>3
  <2>3. \A j \in 1..k : FtOf(cf, j) \subseteq all
    BY <1>2, <1>3, <2>2
  <2> QED
    BY <2>1, <2>3 DEF FtUpTo
<1>5. ContentFeatures(Recorded) \subseteq all
  BY <1>4 DEF ContentFeatures, Recorded
<1>6. ASSUME NEW k \in DOMAIN known PROVE known[k].feats \subseteq all
  <2>1. Len(cf.names) + k \in DOMAIN files /\ files[Len(cf.names) + k] = known[k]
    BY <1>3
  <2> QED
    BY <1>2, <2>1
<1>7. KnownFeatures \subseteq all
  BY <1>6 DEF KnownFeatures
<1>8. PickedContents = {}
  BY <1>1 DEF PickedContents
<1>9. outDir \cup PickedContents = outDir
  BY <1>8
<1> QED
  BY <1>1, <1>5, <1>7, <1>9 DEF NothingLost, OutFeatures

(* A merge loses no coverage, and copies no input without a new one        *)
(* (FuzzerMerge.h:10-11, 34).                                              *)
THEOREM MergeHolds == ~LongLines => (Spec => []MergeRight)
<1> SUFFICES ASSUME ~LongLines PROVE Spec => []MergeRight
  OBVIOUS
<1>1. IInv => MergeRight
  <2>1. IInv => NothingLost
    BY AllHad DEF NothingLost
  <2> QED
    BY <2>1 DEF IInv, MergeRight
<1>2. Spec => []IInv
  BY MergeConsistent
<1> QED
  BY <1>1, <1>2, PTL

(* The refinement: what has come of an input, as RunOnce sees it.          *)
LEMMA FateListed ==
  ASSUME NEW c \in FileType, NEW k \in DOMAIN c.names,
         \A j \in DOMAIN c.names : c.names[j] = c.names[k] => j = k
  PROVE  /\ HasFt(c, k) => Fate(c, c.names[k]) = "recorded"
         /\ ~HasFt(c, k) /\ k < FirstNotProcessed(c) => Fate(c, c.names[k]) = "lost"
         /\ ~HasFt(c, k) /\ k = FirstNotProcessed(c) => Fate(c, c.names[k]) = "running"
         /\ ~HasFt(c, k) /\ FirstNotProcessed(c) < k => Fate(c, c.names[k]) = "waiting"
<1> DEFINE f == FirstNotProcessed(c)
<1>1. (CHOOSE j \in DOMAIN c.names : c.names[j] = c.names[k]) = k
  OBVIOUS
<1>2. ~(c = NoFile \/ \A i \in DOMAIN c.names : c.names[i] # c.names[k])
  BY NoFileAssumption
<1>3. Fate(c, c.names[k]) = CASE HasFt(c, k) -> "recorded"
                              [] ~HasFt(c, k) /\ k < f -> "lost"
                              [] ~HasFt(c, k) /\ k = f -> "running"
                              [] OTHER -> "waiting"
  BY <1>1, <1>2, Zenon DEF Fate
<1>4. f \in Nat /\ k \in Nat
  BY ProcessedNat, NamesLength
<1> HIDE DEF f
<1>5. /\ k < f => ~(k = f) /\ ~(f < k)
      /\ f < k => ~(k = f) /\ ~(k < f)
      /\ k = f => ~(k < f)
  BY <1>4
<1>6. CASE HasFt(c, k)
  BY <1>3, <1>6
<1>7. CASE ~HasFt(c, k) /\ k < f
  <2>1. ~(~HasFt(c, k) /\ k = f)
    BY <1>5, <1>7
  <2>2. ~HasFt(c, k) /\ k < f
    BY <1>7
  <2>3. Fate(c, c.names[k]) = "lost"
    BY <1>3, <2>1, <2>2
  <2> QED
    BY <1>5, <2>2, <2>3 DEF f
<1>8. CASE ~HasFt(c, k) /\ k = f
  <2>1. ~(~HasFt(c, k) /\ k < f)
    BY <1>5, <1>8
  <2>2. ~HasFt(c, k) /\ k = f
    BY <1>8
  <2>3. Fate(c, c.names[k]) = "running"
    BY <1>3, <2>1, <2>2
  <2> QED
    BY <1>5, <2>2, <2>3 DEF f
<1>9. CASE ~HasFt(c, k) /\ f < k
  <2>1. ~HasFt(c, k) /\ ~(k < f) /\ ~(k = f)
    BY <1>5, <1>9
  <2>2. Fate(c, c.names[k]) = "waiting"
    BY <1>3, <2>1
  <2> QED
    BY <1>5, <1>9, <2>2 DEF f
<1> QED
  BY <1>6, <1>7, <1>8, <1>9 DEF f

LEMMA FateUnlisted ==
  ASSUME NEW c, NEW name, c = NoFile \/ \A i \in DOMAIN c.names : c.names[i] # name
  PROVE  Fate(c, name) = "unlisted"
BY DEF Fate

LEMMA NamesDiffer ==
  ASSUME IInv, cf # NoFile, NEW k \in DOMAIN cf.names, NEW j \in DOMAIN cf.names,
         cf.names[j] = cf.names[k]
  PROVE  j = k
<1>1. \A i, m \in DOMAIN cf.names : i < m => cf.names[i] # cf.names[m]
  BY DEF IInv, NamesRight
<1>2. DOMAIN cf.names = 1..Len(cf.names) /\ Len(cf.names) \in Nat
  BY NamesLength DEF IInv, TypeOK
<1>3. ~(j < k) /\ ~(k < j)
  BY <1>1
<1> QED
  BY <1>2, <1>3

(* An input on the list after a step of the inner process.                 *)
LEMMA FateNow ==
  ASSUME IInv, cf # NoFile, NEW k \in DOMAIN cf.names
  PROVE  /\ HasFt(cf, k) => Fate(cf, cf.names[k]) = "recorded"
         /\ ~HasFt(cf, k) /\ k < FirstNotProcessed(cf) => Fate(cf, cf.names[k]) = "lost"
         /\ ~HasFt(cf, k) /\ k = FirstNotProcessed(cf) => Fate(cf, cf.names[k]) = "running"
         /\ ~HasFt(cf, k) /\ FirstNotProcessed(cf) < k => Fate(cf, cf.names[k]) = "waiting"
<1>1. cf \in FileType
  BY DEF IInv, TypeOK
<1>2. \A j \in DOMAIN cf.names : cf.names[j] = cf.names[k] => j = k
  BY NamesDiffer
<1> QED
  BY <1>1, <1>2, FateListed

LEMMA FateNext ==
  ASSUME IInv, cf # NoFile, NEW d \in FileType, d.names = cf.names, NEW k \in DOMAIN cf.names
  PROVE  /\ HasFt(d, k) => Fate(d, cf.names[k]) = "recorded"
         /\ ~HasFt(d, k) /\ k < FirstNotProcessed(d) => Fate(d, cf.names[k]) = "lost"
         /\ ~HasFt(d, k) /\ k = FirstNotProcessed(d) => Fate(d, cf.names[k]) = "running"
         /\ ~HasFt(d, k) /\ FirstNotProcessed(d) < k => Fate(d, cf.names[k]) = "waiting"
<1>1. \A j \in DOMAIN d.names : d.names[j] = d.names[k] => j = k
  BY NamesDiffer
<1> QED
  BY <1>1, FateListed

(* The list that is replaced has nothing left to run.                      *)
LEMMA FateRemove ==
  ASSUME IInv, RemoveControlFile
  PROVE  Promise!List
<1>1. ASSUME NEW f \in FileNames PROVE Fate(cf, f) # "waiting"
  <2>1. CASE cf = NoFile \/ \A i \in DOMAIN cf.names : cf.names[i] # f
    BY <2>1, FateUnlisted
  <2>2. CASE cf # NoFile /\ \E i \in DOMAIN cf.names : cf.names[i] = f
    <3> PICK k \in DOMAIN cf.names : cf.names[k] = f
      BY <2>2
    <3>1. cf \in FileType /\ (cf.names = <<>> \/ Complete(cf))
      BY <2>2 DEF IInv, TypeOK, Turns, RemoveControlFile
    <3>2. k <= FirstNotProcessed(cf) /\ FirstNotProcessed(cf) \in Nat /\ k \in Nat
      BY <3>1, NamesLength, ProcessedNat DEF Complete
    <3>3. k < FirstNotProcessed(cf) \/ k = FirstNotProcessed(cf)
      BY <3>2
    <3> QED
      BY <2>2, <3>3, FateNow
  <2> QED
    BY <2>1, <2>2
<1>2. \A f \in FileNames : Fate(cf', f) = "unlisted"
  <2> PICK d : d = cf'
    OBVIOUS
  <2>1. d = NoFile
    BY DEF RemoveControlFile
  <2> QED
    BY <2>1, FateUnlisted
<1> QED
  BY <1>1, <1>2 DEF Promise!List

(* The new list waits for its turn.                                        *)
LEMMA FateWrite ==
  ASSUME IInv, WriteControlFile
  PROVE  Promise!List
<1>1. \A f \in FileNames : Fate(cf, f) = "unlisted"
  BY FateUnlisted DEF IInv, Turns, WriteControlFile
<1>2. ASSUME NEW f \in FileNames PROVE Fate(cf', f) \in {"waiting", "unlisted"}
  <2> PICK d : d = cf'
    OBVIOUS
  <2>1. d \in FileType /\ d # NoFile /\ FirstNotProcessed(d) = 0 /\ \A i : ~HasFt(d, i)
    BY ListRight, NoFileAssumption DEF WriteControlFile, IInv, TypeOK
  <2>2. CASE \A i \in DOMAIN d.names : d.names[i] # f
    BY <2>2, FateUnlisted
  <2>3. CASE \E i \in DOMAIN d.names : d.names[i] = f
    <3> PICK k \in DOMAIN d.names : d.names[k] = f
      BY <2>3
    <3>1. k \in Nat /\ 0 < k
      BY <2>1, NamesLength
    <3>2. NamesRight(d)
      BY ListRight DEF WriteControlFile, IInv, TypeOK
    <3>3. \A i, j \in DOMAIN d.names : i < j => d.names[i] # d.names[j]
      BY <3>2 DEF NamesRight
    <3>4. ASSUME NEW j \in DOMAIN d.names, d.names[j] = d.names[k] PROVE j = k
      <4>1. j \in Nat
        BY <2>1, NamesLength
      <4>2. ~(j < k) /\ ~(k < j)
        BY <3>3, <3>4
      <4> QED
        BY <3>1, <4>1, <4>2
    <3> QED
      BY <2>1, <3>1, <3>4, FateListed
  <2> QED
    BY <2>2, <2>3
<1> QED
  BY <1>1, <1>2 DEF Promise!List

(* An input is started: the one that was running has lost its turn.        *)
LEMMA FateStart ==
  ASSUME IInv, InnerStarts
  PROVE  Promise!Start(cf.names[inner.idx])
<1> DEFINE n == inner.idx
           name == cf.names[n]
<1>1. /\ cf \in FileType /\ cf # NoFile
      /\ n = FirstNotProcessed(cf) + 1 /\ n \in DOMAIN cf.names
      /\ \A k \in DOMAIN cf.names : k \in Nat
      /\ FirstNotProcessed(cf) \in Nat
  BY StartsFile, NamesLength, ProcessedNat, NoFileAssumption
<1>2. PICK d \in FileType : /\ d = cf' /\ d # NoFile /\ d.names = cf.names /\ FirstNotProcessed(d) = n
                            /\ \A i : HasFt(d, i) <=> HasFt(cf, i)
  BY StartsFile, NoFileAssumption
<1>3. ~HasFt(cf, n)
  BY <1>1, RecordedStarted DEF IInv
<1>4. Fate(cf, name) = "waiting"
  BY <1>1, <1>3, FateNow
<1>5. ASSUME NEW g \in FileNames
      PROVE  Fate(d, g) = IF g = name THEN "running"
                          ELSE IF Fate(cf, g) = "running" THEN "lost" ELSE Fate(cf, g)
  <2>1. CASE \A i \in DOMAIN cf.names : cf.names[i] # g
    <3>1. Fate(cf, g) = "unlisted" /\ Fate(d, g) = "unlisted"
      BY <1>2, <2>1, FateUnlisted
    <3> QED
      BY <1>1, <2>1, <3>1
  <2>2. CASE \E i \in DOMAIN cf.names : cf.names[i] = g
    <3> PICK k \in DOMAIN cf.names : cf.names[k] = g
      BY <2>2
    <3>1. g = name => k = n
      BY <1>1, NamesDiffer
    <3>2. /\ HasFt(cf, k) => Fate(cf, g) = "recorded" /\ Fate(d, g) = "recorded"
          /\ ~HasFt(cf, k) /\ k < n => Fate(d, g) = "lost"
          /\ ~HasFt(cf, k) /\ k = n => Fate(d, g) = "running"
          /\ ~HasFt(cf, k) /\ n < k => Fate(d, g) = "waiting"
      BY <1>1, <1>2, FateNow, FateNext
    <3>3. /\ ~HasFt(cf, k) /\ k < FirstNotProcessed(cf) => Fate(cf, g) = "lost"
          /\ ~HasFt(cf, k) /\ k = FirstNotProcessed(cf) => Fate(cf, g) = "running"
          /\ ~HasFt(cf, k) /\ FirstNotProcessed(cf) < k => Fate(cf, g) = "waiting"
      BY <1>1, FateNow
    <3>4. k \in Nat /\ n \in Nat
      BY <1>1
    <3>5. CASE HasFt(cf, k)
      <4>1. g # name
        BY <1>3, <3>1, <3>5
      <4> QED
        BY <3>2, <3>5, <4>1
    <3>6. CASE ~HasFt(cf, k) /\ k < FirstNotProcessed(cf)
      <4>1. k < n /\ g # name
        BY <1>1, <3>1, <3>4, <3>6
      <4> QED
        BY <3>2, <3>3, <3>6, <4>1
    <3>7. CASE ~HasFt(cf, k) /\ k = FirstNotProcessed(cf)
      <4>1. k < n /\ g # name
        BY <1>1, <3>1, <3>4, <3>7
      <4> QED
        BY <3>2, <3>3, <3>7, <4>1
    <3>8. CASE ~HasFt(cf, k) /\ k = n
      BY <3>2, <3>8
    <3>9. CASE ~HasFt(cf, k) /\ n < k
      <4>1. FirstNotProcessed(cf) < k /\ g # name
        BY <1>1, <3>1, <3>4, <3>9
      <4> QED
        BY <3>2, <3>3, <3>9, <4>1
    <3>10. k < FirstNotProcessed(cf) \/ k = FirstNotProcessed(cf) \/ k = n \/ n < k
      BY <1>1, <3>4
    <3> QED
      BY <3>5, <3>6, <3>7, <3>8, <3>9, <3>10
  <2> QED
    BY <2>1, <2>2
<1>6. name \in FileNames
  BY <1>1 DEF FileType
<1>7. [g \in FileNames |-> Fate(d, g)] =
        [g \in FileNames |-> IF g = name THEN "running"
                             ELSE IF Fate(cf, g) = "running" THEN "lost" ELSE Fate(cf, g)]
  BY <1>5
<1> QED
  BY <1>2, <1>4, <1>6, <1>7 DEF Promise!Start

(* The coverage of the input that is running is recorded.                  *)
LEMMA FateRecord ==
  ASSUME IInv, InnerFlushes
  PROVE  Promise!Record(cf.names[inner.idx])
<1> DEFINE n == inner.idx
           name == cf.names[n]
<1>1. /\ cf \in FileType /\ cf # NoFile
      /\ n = FirstNotProcessed(cf) /\ n \in DOMAIN cf.names /\ name \in FileNames
      /\ \A k \in DOMAIN cf.names : k \in Nat
      /\ ~HasFt(cf, n)
  <2>1. cf \in FileType /\ n = FirstNotProcessed(cf) /\ n \in DOMAIN cf.names
    BY FlushesFile
  <2>2. ~HasFt(cf, n)
    BY DEF IInv, Turns, InnerFlushes
  <2>3. name \in FileNames
    BY <2>1 DEF FileType
  <2> QED
    BY <2>1, <2>2, <2>3, NamesLength, NoFileAssumption
<1>2. PICK d \in FileType : /\ d = cf' /\ d # NoFile /\ d.names = cf.names /\ FirstNotProcessed(d) = n
                            /\ \A i : HasFt(d, i) <=> HasFt(cf, i) \/ i = n
  BY FlushesFile, NoFileAssumption
<1>3. Fate(cf, name) = "running"
  BY <1>1, FateNow
<1>4. Fate(d, name) = "recorded"
  BY <1>1, <1>2, FateNext
<1>5. ASSUME NEW g \in FileNames, g # name
      PROVE  Fate(d, g) = Fate(cf, g)
  <2>1. CASE \A i \in DOMAIN cf.names : cf.names[i] # g
    BY <1>2, <2>1, FateUnlisted
  <2>2. CASE \E i \in DOMAIN cf.names : cf.names[i] = g
    <3> PICK k \in DOMAIN cf.names : cf.names[k] = g
      BY <2>2
    <3>1. k # n /\ k \in Nat /\ n \in Nat
      BY <1>1, <1>5
    <3>2. HasFt(d, k) <=> HasFt(cf, k)
      BY <1>2, <3>1
    <3>3. k < n \/ n < k
      BY <3>1
    <3> QED
      BY <1>1, <1>2, <3>2, <3>3, FateNow, FateNext
  <2> QED
    BY <2>1, <2>2
<1>6. [g \in FileNames |-> Fate(d, g)] =
        [[g \in FileNames |-> Fate(cf, g)] EXCEPT ![name] = "recorded"]
  BY <1>1, <1>4, <1>5
<1> QED
  BY <1>1, <1>2, <1>3, <1>6 DEF Promise!Record

(* The control file keeps the promise of RunOnce (FuzzerMerge.h:16-30).    *)
THEOREM RunsOnce == ~LongLines => (Spec => RunsInputsOnce)
<1> SUFFICES ASSUME ~LongLines PROVE Spec => RunsInputsOnce
  OBVIOUS
<1>1. Init => Promise!Init
  <2> SUFFICES ASSUME Init PROVE Promise!Init
    OBVIOUS
  <2>1. \A f \in FileNames : Fate(cf, f) = "unlisted"
    BY FateUnlisted DEF Init
  <2> QED
    BY <2>1 DEF Promise!Init
<1>2. IInv /\ [Next]_vars => [Promise!Next]_[name \in FileNames |-> Fate(cf, name)]
  <2> SUFFICES ASSUME IInv, [Next]_vars
               PROVE  Promise!Next \/ UNCHANGED [name \in FileNames |-> Fate(cf, name)]
    OBVIOUS
  <2>1. CASE UNCHANGED cf
    BY <2>1
  <2>2. CASE RemoveControlFile \/ WriteControlFile
    BY <2>2, FateRemove, FateWrite DEF Promise!Next
  <2>3. CASE InnerStarts
    <3>1. cf.names[inner.idx] \in FileNames
      BY <2>3, StartsFile DEF FileType
    <3> QED
      BY <2>3, <3>1, FateStart DEF Promise!Next
  <2>4. CASE InnerFlushes
    <3>1. cf.names[inner.idx] \in FileNames
      BY <2>4, FlushesFile DEF FileType
    <3> QED
      BY <2>4, <3>1, FateRecord DEF Promise!Next
  <2> QED
    BY <2>1, <2>2, <2>3, <2>4, Frames
<1>3. Spec => []IInv
  BY MergeConsistent
<1> QED
  BY <1>1, <1>2, <1>3, PTL DEF Spec, RunsInputsOnce, Promise!Spec
=============================================================================
