---------------------------- MODULE MergeControl ----------------------------
(***************************************************************************)
(* The crash-resistant merge (FuzzerMerge.cpp, and Merge of                *)
(* FuzzerDriver.cpp).  An outer process writes the names of all inputs     *)
(* into a control file and launches inner processes, one after the other,  *)
(* until one of them reaches the end of the list.  An inner process runs   *)
(* the inputs; it appends STARTED before a run and FT and COV after it, so *)
(* that its successor knows where to resume.  Then the outer process       *)
(* selects new inputs by what the control file says and copies them into   *)
(* the first corpus.                                                       *)
(*                                                                         *)
(* Both processes may be killed at any step, and the merge may be run      *)
(* again with the same control file (-merge_control_file).                 *)
(***************************************************************************)
EXTENDS Integers, Sequences, FiniteSets

CONSTANTS
  Contents,     \* what a file can hold
  Features,     \* coverage features
  SizeOf,       \* the size of every content
  FeaturesOf,   \* the features the execution of a content reports
  Bad,          \* contents that crash the target
  InDir,        \* contents of the files in the corpora to merge
  OutDirs,      \* sets of contents the first corpus may hold at the start
  LongLines,    \* whether FT and COV lines can exceed the buffer of the stream
  MaxKills,     \* bound on kills of inner processes
  MaxRuns,      \* bound on runs of the merge
  NoFile        \* the control file does not exist

ASSUME MergeAssumption ==
  /\ SizeOf \in [Contents -> Nat \ {0}]
  /\ FeaturesOf \in [Contents -> SUBSET Features]
  /\ Bad \subseteq Contents
  /\ InDir \subseteq Contents /\ InDir # {}  \* with no input at all, nothing is done
  /\ IsFiniteSet(InDir)
  /\ OutDirs \subseteq SUBSET Contents /\ \A S \in OutDirs : IsFiniteSet(S)
  /\ LongLines \in BOOLEAN
  /\ MaxKills \in Nat /\ MaxRuns \in Nat \ {0}

VARIABLES
  pc,        \* where the outer process is, or how it ended
  outDir,    \* contents of the files in the first corpus
  cf,        \* the control file: [names, first, log]
  known,     \* KnownFiles
  attempts,  \* NumAttempts
  attempt,   \* attempts made
  inner,     \* the inner process: [pc, idx, ran, seen, buf]
  files,     \* M.Files of the outer process, when it selects
  rest,      \* indices into files not looked at yet
  all,       \* AllFeatures of Merge, Covered of SetCoverMerge
  picked,    \* NewFiles that are not copied yet
  added,     \* history: NewFiles copied in this run, in order
  idle,      \* history: an inner process of this run executed nothing, or
             \*          left before the end of the list
  setCover,  \* -set_cover_merge, chosen anew by every run of the merge
  kills, runs

outerVars == <<pc, known, attempts, attempt, idle>>
selectVars == <<files, rest, all, picked, added>>
bounds == <<setCover, kills, runs>>
vars == <<outerVars, selectVars, outDir, cf, inner, bounds>>

(* A file is named by its content and its directory; the name of a file in *)
(* the first corpus is the hash of its content.                            *)
FileNames == Contents \X {"in", "out"}
Content(name) == name[1]
Off == [pc |-> "off", idx |-> 0, ran |-> FALSE, seen |-> {}, buf |-> {}]
-----------------------------------------------------------------------------
(* How a directory may be listed: the files that KnownFiles does not name, *)
(* sorted by size; equal ones come in any order (std::sort compares sizes  *)
(* only, FuzzerIO.h:90, and the directory gives them in no order).         *)
Listings(S, dir) ==
  LET use == {c \in S : \A i \in DOMAIN known : known[i].name # <<c, dir>>}
  IN {s \in [1..Cardinality(use) -> use \X {dir}] :
        \A i, j \in DOMAIN s : i < j => /\ s[i] # s[j]
                                       /\ SizeOf[Content(s[i])] <= SizeOf[Content(s[j])]}

Line(mark, i, fs) == [mark |-> mark, id |-> i, feats |-> fs, torn |-> FALSE]

(* Text appended behind a line that has no end becomes part of that line:  *)
(* the parser stops reading numbers there and never sees the marker.       *)
AppendLine(log, line) ==
  IF log # <<>> /\ log[Len(log)].torn
    THEN [log EXCEPT ![Len(log)].torn = FALSE]
    ELSE Append(log, line)

StartedIn(log, k) == Cardinality({m \in 1..k : log[m].mark = "STARTED"})

(* FirstNotProcessedFile: the number of STARTED lines.                     *)
FirstNotProcessed(c) == StartedIn(c.log, Len(c.log))

(* Merger::Parse: the STARTED lines count up, and every other line belongs *)
(* to the file started last.                                               *)
Parses(c) ==
  /\ c # NoFile
  /\ c.names # <<>> /\ c.first <= Len(c.names)
  /\ \A k \in DOMAIN c.log :
       /\ c.log[k].mark \in {"STARTED", "FT", "COV"}
       /\ c.log[k].id = StartedIn(c.log, k)

HasFt(c, i) == \E k \in DOMAIN c.log : c.log[k].mark = "FT" /\ c.log[k].id = i

FtOf(c, i) ==
  UNION {c.log[k].feats : k \in {m \in DOMAIN c.log : c.log[m].mark = "FT" /\ c.log[m].id = i}}

ParsedFiles(c) ==
  [i \in DOMAIN c.names |->
     [name |-> c.names[i],
      size |-> IF i <= FirstNotProcessed(c) THEN SizeOf[Content(c.names[i])] ELSE 0,
      feats |-> FtOf(c, i)]]
-----------------------------------------------------------------------------
Init ==
  /\ pc = "start" /\ outDir \in OutDirs /\ cf = NoFile
  /\ known = <<>> /\ attempts = 0 /\ attempt = 0 /\ inner = Off
  /\ files = <<>> /\ rest = {} /\ all = {} /\ picked = <<>> /\ added = <<>>
  /\ idle = FALSE /\ setCover \in BOOLEAN /\ kills = 0 /\ runs = 1

Goto(label) == pc' = label

(* A control file that does not parse is overwritten.                      *)
Overwrite ==
  /\ pc = "start" /\ ~Parses(cf)
  /\ Goto("create")
  /\ UNCHANGED <<known, attempts, attempt, idle, selectVars, outDir, cf, inner, bounds>>

CompleteTooEarly(c) == FirstNotProcessed(c) + 1 >= Len(c.names)  \* mutant
Complete(c) == FirstNotProcessed(c) >= Len(c.names)
SameNumber(c) == Len(c.names) = Cardinality(outDir) + Cardinality(InDir)

(* "nothing to do, merge has been completed before": exit(0).              *)
NothingToDo ==
  /\ pc = "start" /\ Parses(cf) /\ Complete(cf) /\ SameNumber(cf)
  /\ Goto("nothing")
  /\ UNCHANGED <<known, attempts, attempt, idle, selectVars, outDir, cf, inner, bounds>>

(* The corpora have changed: start again, with the coverage that is known. *)
Reuse ==
  /\ pc = "start" /\ Parses(cf) /\ Complete(cf) /\ ~SameNumber(cf)
  /\ known' = ParsedFiles(cf)
  /\ Goto("create")
  /\ UNCHANGED <<attempts, attempt, idle, selectVars, outDir, cf, inner, bounds>>

AttemptsLeft(c) == Len(c.names) - FirstNotProcessed(c)

Resume ==
  /\ pc = "start" /\ Parses(cf) /\ ~Complete(cf)
  /\ attempts' = AttemptsLeft(cf)
  /\ Goto("attempt")
  /\ UNCHANGED <<known, attempt, idle, selectVars, outDir, cf, inner, bounds>>

(* WriteNewControlFile removes the old file first.                         *)
RemoveControlFile ==
  /\ pc = "create"
  /\ cf' = NoFile
  /\ Goto("header")
  /\ UNCHANGED <<known, attempts, attempt, idle, selectVars, outDir, inner, bounds>>

WriteControlFile ==
  /\ pc = "header"
  /\ \E old \in Listings(outDir, "out"), new \in Listings(InDir, "in") :
       /\ cf' = [names |-> old \o new, first |-> Len(old), log |-> <<>>]
       /\ attempts' = Len(old) + Len(new)
  /\ Goto("attempt")
  /\ UNCHANGED <<known, attempt, idle, selectVars, outDir, inner, bounds>>

MoreAttempts == attempt < attempts

NextAttemptSame == attempt  \* mutant: the increment is missing
NextAttempt == attempt + 1

Launch ==
  /\ pc = "attempt" /\ MoreAttempts
  /\ attempt' = NextAttempt
  /\ inner' = [Off EXCEPT !.pc = "parse"]
  /\ Goto("wait")
  /\ UNCHANGED <<known, attempts, idle, selectVars, outDir, cf, bounds>>

OuterExitsGracefully ==
  /\ pc = "attempt" /\ MoreAttempts
  /\ Goto("graceful")
  /\ UNCHANGED <<known, attempts, attempt, idle, selectVars, outDir, cf, inner, bounds>>

GiveUp ==
  /\ pc = "attempt" /\ ~MoreAttempts
  /\ Goto("read")
  /\ UNCHANGED <<known, attempts, attempt, idle, selectVars, outDir, cf, inner, bounds>>
-----------------------------------------------------------------------------
(* The inner process ends; the outer process goes on to read the control   *)
(* file after exit code 0 and to the next attempt after any other one.     *)
InnerEnds(code) ==
  /\ inner' = Off
  /\ Goto(IF code = 0 THEN "read" ELSE "attempt")

(* Mutant: the input that failed is tried again.                           *)
ResumeAtFailed(c) ==
  LET f == FirstNotProcessed(c) IN IF f > 0 /\ ~HasFt(c, f) THEN f ELSE f + 1
ResumeAt(c) == FirstNotProcessed(c) + 1

InnerParses ==
  /\ inner.pc = "parse"
  /\ IF Parses(cf)
       THEN /\ inner' = [inner EXCEPT !.pc = "loop", !.idx = ResumeAt(cf)]
            /\ UNCHANGED <<pc, idle>>
       ELSE InnerEnds(1) /\ idle' = TRUE
  /\ UNCHANGED <<known, attempts, attempt, selectVars, outDir, cf, bounds>>

InnerStarts ==
  /\ inner.pc = "loop" /\ inner.idx <= Len(cf.names)
  /\ cf' = [cf EXCEPT !.log = AppendLine(@, Line("STARTED", inner.idx, {}))]
  /\ inner' = [inner EXCEPT !.pc = "run", !.ran = TRUE]
  /\ UNCHANGED <<outerVars, selectVars, outDir, bounds>>

Running == Content(cf.names[inner.idx])

InnerCrashes ==
  /\ inner.pc = "run" /\ Running \in Bad
  /\ InnerEnds(1)
  /\ UNCHANGED <<known, attempts, attempt, idle, selectVars, outDir, cf, bounds>>

(* Without -set_cover_merge only features that this process has not seen   *)
(* before are reported.                                                    *)
Reported == IF setCover THEN FeaturesOf[Running] ELSE FeaturesOf[Running] \ inner.seen

InnerRuns ==
  /\ inner.pc = "run" /\ Running \notin Bad
  /\ inner' = [inner EXCEPT !.pc = "flush", !.buf = Reported, !.seen = @ \cup FeaturesOf[Running]]
  /\ UNCHANGED <<outerVars, selectVars, outDir, cf, bounds>>

InnerFlushes ==
  /\ inner.pc = "flush"
  /\ cf' = [cf EXCEPT !.log = @ \o <<Line("FT", inner.idx, inner.buf), Line("COV", inner.idx, {})>>]
  /\ inner' = [inner EXCEPT !.pc = "loop", !.idx = @ + 1, !.buf = {}]
  /\ UNCHANGED <<outerVars, selectVars, outDir, bounds>>

InnerFinishes ==
  /\ inner.pc = "loop" /\ inner.idx > Len(cf.names)
  /\ InnerEnds(0)
  /\ UNCHANGED <<known, attempts, attempt, idle, selectVars, outDir, cf, bounds>>

(* The target cannot be initialised, or the process cannot be started.     *)
InnerFailsToStart ==
  /\ inner.pc = "parse"
  /\ InnerEnds(1)
  /\ idle' = TRUE
  /\ UNCHANGED <<known, attempts, attempt, selectVars, outDir, cf, bounds>>

(* SIGUSR1 reached the inner process only: it exits with code 0.           *)
InnerExitsGracefully ==
  /\ inner.pc = "loop" /\ inner.idx <= Len(cf.names)
  /\ InnerEnds(0)
  /\ idle' = TRUE
  /\ UNCHANGED <<known, attempts, attempt, selectVars, outDir, cf, bounds>>

(* The inner process is killed at any point: by a flaky input, by the RSS  *)
(* thread, by the system.  What is in the buffer of the stream is lost;    *)
(* when the lines were too long for it, a part of them is in the file.     *)
TornFeatures == {S \cup T : S \in SUBSET inner.buf, T \in {{}} \cup {{f} : f \in Features}}
Torn(line) == [line EXCEPT !.torn = TRUE]
TornLogs ==
  {Append(cf.log, Torn(Line("FT", inner.idx, fs))) : fs \in TornFeatures} \cup
  {cf.log \o <<Line("FT", inner.idx, inner.buf), Torn(Line(mark, inner.idx, {}))>> :
     mark \in {"COV", "CUT"}}

InnerIsKilled ==
  /\ inner.pc # "off" /\ kills < MaxKills
  /\ kills' = kills + 1
  /\ \/ UNCHANGED cf
     \/ LongLines /\ inner.pc = "flush" /\ \E log \in TornLogs : cf' = [cf EXCEPT !.log = log]
  /\ idle' = (idle \/ ~inner.ran)
  /\ InnerEnds(1)
  /\ UNCHANGED <<known, attempts, attempt, selectVars, outDir, setCover, runs>>
-----------------------------------------------------------------------------
(* The outer process reads the control file.  Files that were known before *)
(* are appended as new ones.                                               *)
FirstCorpusFeaturesOneMore(c) ==  \* mutant
  UNION {ParsedFiles(c)[i].feats : i \in {k \in DOMAIN c.names : k <= c.first + 1}}
FirstCorpusFeatures(c) ==
  UNION {ParsedFiles(c)[i].feats : i \in {k \in DOMAIN c.names : k <= c.first}}

ReadControlFile ==
  /\ pc = "read"
  /\ IF Parses(cf)
       THEN /\ files' = ParsedFiles(cf) \o known
            /\ all' = FirstCorpusFeatures(cf)
            /\ rest' = (cf.first + 1)..(Len(cf.names) + Len(known))
            /\ Goto("select")
       ELSE Goto("failed") /\ UNCHANGED <<files, all, rest>>
  /\ UNCHANGED <<known, attempts, attempt, idle, picked, added, outDir, cf, inner, bounds>>

New(i) == files[i].feats \ all

(* Merger::Merge: once the features of the first corpus are taken away,    *)
(* files are looked at by size, and among equal ones those with more       *)
(* features first; the order of the others is that of an unstable sort.    *)
AtStart(i) == files[i].feats \ FirstCorpusFeatures(cf)

Before(i, j) ==
  \/ files[i].size < files[j].size
  \/ files[i].size = files[j].size /\ Cardinality(AtStart(i)) > Cardinality(AtStart(j))

Take(i) ==
  /\ all' = all \cup files[i].feats
  /\ picked' = Append(picked, files[i].name)
  /\ rest' = rest \ {i}

MergeStep ==
  /\ pc = "select" /\ ~setCover
  /\ \E i \in rest :
       /\ \A j \in rest : ~Before(j, i)
       /\ IF New(i) # {}
            THEN Take(i)
            ELSE rest' = rest \ {i} /\ UNCHANGED <<all, picked>>
  /\ UNCHANGED <<outerVars, files, added, outDir, cf, inner, bounds>>

(* Merger::SetCoverMerge: the file with the most features not covered yet, *)
(* the smaller and then the first one on a tie.                            *)
Better(i, j) ==
  \/ Cardinality(New(i)) > Cardinality(New(j))
  \/ Cardinality(New(i)) = Cardinality(New(j)) /\ files[i].size < files[j].size

SetCoverStep ==
  /\ pc = "select" /\ setCover
  /\ \E i \in rest :
       /\ New(i) # {}
       /\ \A j \in rest : ~Better(j, i) /\ (Better(i, j) \/ i <= j)
       /\ Take(i)
  /\ UNCHANGED <<outerVars, files, added, outDir, cf, inner, bounds>>

Selected ==
  /\ pc = "select" /\ \A i \in rest : New(i) = {}
  /\ setCover \/ rest = {}
  /\ Goto("copy")
  /\ UNCHANGED <<known, attempts, attempt, idle, selectVars, outDir, cf, inner, bounds>>

(* WriteToOutputCorpus, one file after the other.                          *)
CopyFile ==
  /\ pc = "copy" /\ picked # <<>>
  /\ outDir' = outDir \cup {Content(Head(picked))}
  /\ picked' = Tail(picked)
  /\ added' = Append(added, Head(picked))
  /\ UNCHANGED <<outerVars, files, rest, all, cf, inner, bounds>>

CopiedAll ==
  /\ pc = "copy" /\ picked = <<>>
  /\ Goto("done")
  /\ UNCHANGED <<known, attempts, attempt, idle, selectVars, outDir, cf, inner, bounds>>
-----------------------------------------------------------------------------
Ended == {"done", "nothing", "failed", "graceful", "killed"}

(* The outer process is killed, and a running inner process with it (they  *)
(* are in one process group).                                              *)
OuterIsKilled ==
  /\ pc \notin Ended /\ runs < MaxRuns
  /\ Goto("killed") /\ inner' = Off
  /\ UNCHANGED <<known, attempts, attempt, idle, selectVars, outDir, cf, bounds>>

(* The user merges again with the same control file.                       *)
Rerun ==
  /\ pc \in Ended /\ runs < MaxRuns
  /\ runs' = runs + 1 /\ setCover' \in BOOLEAN
  /\ Goto("start")
  /\ known' = <<>> /\ attempts' = 0 /\ attempt' = 0 /\ idle' = FALSE
  /\ files' = <<>> /\ rest' = {} /\ all' = {} /\ picked' = <<>> /\ added' = <<>>
  /\ UNCHANGED <<outDir, cf, inner, kills>>

Stopped == pc \in Ended /\ UNCHANGED vars

Progress ==
  \/ Overwrite \/ NothingToDo \/ Reuse \/ Resume
  \/ RemoveControlFile \/ WriteControlFile \/ Launch \/ GiveUp
  \/ InnerParses \/ InnerStarts \/ InnerCrashes \/ InnerRuns \/ InnerFlushes \/ InnerFinishes
  \/ ReadControlFile \/ MergeStep \/ SetCoverStep \/ Selected \/ CopyFile \/ CopiedAll

Next ==
  \/ Progress
  \/ OuterExitsGracefully \/ InnerExitsGracefully
  \/ InnerFailsToStart \/ InnerIsKilled \/ OuterIsKilled \/ Rerun \/ Stopped

Spec == Init /\ [][Next]_vars

(* Both processes run; nobody has to kill or to rerun anything.            *)
FairSpec == Spec /\ WF_vars(Progress)
-----------------------------------------------------------------------------
LineType == [mark : {"STARTED", "FT", "COV", "CUT"}, id : Nat, feats : SUBSET Features, torn : BOOLEAN]
FileType == [names : Seq(FileNames), first : Nat, log : Seq(LineType)]
ASSUME NoFileAssumption == NoFile \notin FileType
InfoType == [name : FileNames, size : Nat, feats : SUBSET Features]
InnerType ==
  [pc : {"off", "parse", "loop", "run", "flush"}, idx : Nat, ran : BOOLEAN,
   seen : SUBSET Features, buf : SUBSET Features]

TypeOK ==
  /\ pc \in {"start", "create", "header", "attempt", "wait", "read", "select", "copy"} \cup Ended
  /\ outDir \subseteq Contents
  /\ cf = NoFile \/ cf \in FileType
  /\ known \in Seq(InfoType) /\ files \in Seq(InfoType)
  /\ attempts \in Nat /\ attempt \in 0..attempts
  /\ inner \in InnerType
  /\ rest \subseteq DOMAIN files /\ all \subseteq Features
  /\ picked \in Seq(FileNames) /\ added \in Seq(FileNames)
  /\ setCover \in BOOLEAN /\ kills \in 0..MaxKills /\ runs \in 1..MaxRuns /\ idle \in BOOLEAN

(* However the processes were killed, a control file that lists inputs     *)
(* parses: its STARTED lines count up by one and every FT and COV line     *)
(* belongs to the input started before it (Merger::Parse), no input is     *)
(* started twice, and no input behind the end of the list (:95).           *)
ControlFileParses ==
  cf # NoFile /\ cf.names # <<>> =>
    /\ Parses(cf)
    /\ FirstNotProcessed(cf) <= Len(cf.names)

(* Every attempt that executes an input leaves one input less to process,  *)
(* so the number of attempts fixed at the start is enough: all inputs have *)
(* been started when the outer process reads the control file, unless an   *)
(* inner process executed nothing (:475, :491-492).                        *)
AttemptsSuffice ==
  pc = "read" /\ ~idle => FirstNotProcessed(cf) = Len(cf.names)

(* The control file is what the outer process and the next inner process   *)
(* expect, whenever one of them reads it.                                  *)
ControlFileRight == TypeOK /\ ControlFileParses /\ AttemptsSuffice

ContentFeatures(S) == UNION {FeaturesOf[c] : c \in S}
OutFeatures == ContentFeatures(outDir)

(* Inputs in the control file or known from an earlier one whose execution *)
(* was recorded.                                                           *)
Recorded == {Content(cf.names[i]) : i \in {k \in DOMAIN cf.names : HasFt(cf, k)}}
KnownFeatures == UNION {known[i].feats : i \in DOMAIN known}

(* A merge loses no coverage: when it has succeeded, the first corpus has  *)
(* every feature of every input that was executed to its end, although an  *)
(* inner process only writes down what is new to it, and forgets what it   *)
(* had seen when it is replaced.                                           *)
NothingLost ==
  pc = "done" => ContentFeatures(Recorded) \cup KnownFeatures \subseteq OutFeatures

(* The recorded inputs of the first corpus, and those smaller than size.   *)
RecordedFirst == {Content(cf.names[k]) : k \in {m \in 1..cf.first : HasFt(cf, m)}}
RecordedBelow(size) ==
  {c \in Recorded : SizeOf[c] < size} \cup RecordedFirst

(* FuzzerMerge.h:10-11, 34: "only inputs with new coverage are added",     *)
(* "choosing first the smallest inputs".  An input that was copied has a   *)
(* feature that no recorded input of the first corpus has and no recorded  *)
(* input that is smaller.  (Another one of its size, copied before it, may *)
(* have all its features: an inner process does not write down again what  *)
(* it has seen before.)  The set cover, which is told all the features of  *)
(* an input, copies none whose features the first corpus and the inputs    *)
(* copied before it have; runs = 1: the control file is not one that a     *)
(* merge without set cover left behind.                                    *)
AddsCoverage(name, others) == ~ FeaturesOf[Content(name)] \subseteq ContentFeatures(others)

OnlyNewCoverageAdded ==
  \A i \in DOMAIN added :
    /\ ~setCover => AddsCoverage(added[i], RecordedBelow(SizeOf[Content(added[i])]))
    /\ setCover /\ runs = 1 =>
         AddsCoverage(added[i], RecordedFirst \cup {Content(added[k]) : k \in 1..(i - 1)})

(* The result of a merge: all the coverage, and no file without a new one. *)
MergeRight == NothingLost /\ OnlyNewCoverageAdded

(* The control file as RunOnce describes it: the input of the last STARTED *)
(* line is running, or was when its process died.                          *)
Fate(c, name) ==
  IF c = NoFile \/ \A i \in DOMAIN c.names : c.names[i] # name
    THEN "unlisted"
    ELSE LET i == CHOOSE k \in DOMAIN c.names : c.names[k] = name
             f == FirstNotProcessed(c)
         IN CASE HasFt(c, i) -> "recorded"
              [] ~HasFt(c, i) /\ i < f -> "lost"
              [] ~HasFt(c, i) /\ i = f -> "running"
              [] OTHER -> "waiting"

Promise == INSTANCE RunOnce WITH Files <- FileNames, fate <- [name \in FileNames |-> Fate(cf, name)]

(* The control file keeps the promise of RunOnce: inputs are executed at   *)
(* most once and in order, and a crash, a kill or a second merge with the  *)
(* same file loses nothing that was recorded (FuzzerMerge.h:16-30).        *)
RunsInputsOnce == Promise!Spec

(* A merge ends, even when no inner process ever gets to an input.         *)
MergeEnds == pc = "start" ~> pc \in Ended

(* What the outer process says when it has nothing to do, "merge has been  *)
(* completed before" (FuzzerMerge.cpp:458-462).                            *)
CompletedBefore == pc = "nothing" => ContentFeatures(Recorded) \subseteq OutFeatures

(* FuzzerMerge.h:11, for a merge that reuses coverage too: no input is     *)
(* copied whose features are all had by inputs of the first corpus that    *)
(* the control file, the known files or this run of the merge put there.   *)
RecordedOut ==
  RecordedFirst \cup
  {Content(known[k].name) : k \in {m \in DOMAIN known :
                                    known[m].name[2] = "out" /\ known[m].feats # {}}} \cup
  {Content(added[k]) : k \in DOMAIN added}

OnlyNewCoverage ==
  pc = "copy" /\ picked # <<>> /\ Content(Head(picked)) \notin outDir =>
    ~ FeaturesOf[Content(Head(picked))] \subseteq ContentFeatures(RecordedOut)

(* FuzzerMerge.h:13: "The process should tolerate the crashes, OOMs,       *)
(* leaks, etc."                                                            *)
ToleratesKills == pc = "failed" => cf # NoFile /\ cf.names = <<>>
-----------------------------------------------------------------------------
(* What the proofs rest on: the inductive invariant, for LongLines = FALSE. *)

(* Every line of the log is whole and belongs to the input started last.   *)
LinesRight(c) ==
  \A k \in DOMAIN c.log :
    /\ ~c.log[k].torn /\ c.log[k].mark \in {"STARTED", "FT", "COV"}
    /\ c.log[k].id = StartedIn(c.log, k)
    /\ c.log[k].id \in DOMAIN c.names

(* The list: files of the first corpus, then those to merge, by size.      *)
NamesRight(c) ==
  /\ c.first <= Len(c.names) /\ FirstNotProcessed(c) <= Len(c.names)
  /\ \A i \in DOMAIN c.names :
       c.names[i] \in IF i <= c.first THEN outDir \X {"out"} ELSE InDir \X {"in"}
  /\ \A i, j \in DOMAIN c.names :
       i < j => /\ c.names[i] # c.names[j]
                /\ c.first < i => SizeOf[Content(c.names[i])] <= SizeOf[Content(c.names[j])]

(* Who may look at the control file, and what an inner process is doing.   *)
Turns ==
  /\ pc = "header" => cf = NoFile
  /\ pc \in {"attempt", "wait", "read", "select", "copy", "done"} => cf # NoFile
  /\ pc = "create" => cf = NoFile \/ cf.names = <<>> \/ Complete(cf)
  /\ runs = 1 => known = <<>> /\ (pc = "start" => cf = NoFile)
  /\ inner.pc = "off" => inner = Off
  /\ inner.pc # "off" => pc = "wait"
  /\ inner.pc = "loop" => inner.idx = FirstNotProcessed(cf) + 1
  /\ inner.pc \in {"run", "flush"} =>
       /\ inner.ran /\ inner.idx = FirstNotProcessed(cf)
       /\ inner.idx \in DOMAIN cf.names /\ ~HasFt(cf, inner.idx)

(* The attempts left are enough for the inputs left, each of which costs   *)
(* one at most.                                                            *)
Left == Len(cf.names) - FirstNotProcessed(cf)
AttemptsRight ==
  /\ pc \in {"start", "create", "header"} => attempt = 0
  /\ ~idle => /\ pc = "attempt" => Left + attempt <= attempts
              /\ pc = "wait" => Left + attempt <= attempts + (IF inner.ran THEN 0 ELSE 1)

(* What was written down for the first n inputs.                           *)
FtUpTo(c, n) == UNION {FtOf(c, k) : k \in 1..n}

(* Every line was written with the setting of this run.                    *)
CoverOnly == setCover /\ runs = 1

(* The features of a recorded input are written down, for it or for an     *)
(* input before it.                                                        *)
FeaturesRight(c) ==
  \A i \in DOMAIN c.names :
    /\ FtOf(c, i) \subseteq FeaturesOf[Content(c.names[i])]
    /\ HasFt(c, i) => FeaturesOf[Content(c.names[i])] \subseteq FtUpTo(c, i)
    /\ CoverOnly /\ HasFt(c, i) => FtOf(c, i) = FeaturesOf[Content(c.names[i])]

(* What an inner process has seen is written down or in its buffer.        *)
SeenRight ==
  /\ inner.pc # "flush" => inner.buf = {}
  /\ inner.pc # "off" =>
       inner.seen \subseteq FtUpTo(cf, FirstNotProcessed(cf)) \cup inner.buf
  /\ inner.pc = "flush" =>
       /\ inner.buf \subseteq FeaturesOf[Running]
       /\ FeaturesOf[Running] \subseteq FtUpTo(cf, FirstNotProcessed(cf)) \cup inner.buf
       /\ CoverOnly => inner.buf = FeaturesOf[Running]

KnownRight ==
  \A i \in DOMAIN known :
    /\ known[i].feats \subseteq FeaturesOf[Content(known[i].name)]
    /\ known[i].size = SizeOf[Content(known[i].name)]

(* Features that count as had are those of the first corpus, once the      *)
(* files that were selected are in it.                                     *)
PickedContents == {Content(picked[k]) : k \in DOMAIN picked}
SelectionRight ==
  /\ pc \in {"select", "copy", "done"} =>
       /\ files = ParsedFiles(cf) \o known
       /\ \A i \in DOMAIN files \ rest : files[i].feats \subseteq all
       /\ \A i \in rest : cf.first < i
       /\ all \subseteq ContentFeatures(outDir \cup PickedContents)
  /\ pc \in {"copy", "done"} => \A i \in rest : New(i) = {}
  /\ pc = "done" => picked = <<>>
  /\ pc \notin {"select", "copy"} \cup Ended => picked = <<>>
  /\ pc \notin {"copy"} \cup Ended => added = <<>>

(* OnlyNewCoverageAdded, of the files that will be copied too.             *)
AddedContents == {Content(added[k]) : k \in DOMAIN added}
PickedRight ==
  /\ ~setCover => \A i \in DOMAIN picked :
       AddsCoverage(picked[i], RecordedBelow(SizeOf[Content(picked[i])]))
  /\ CoverOnly =>
       /\ \A i \in DOMAIN picked :
            AddsCoverage(picked[i], RecordedFirst \cup AddedContents
                                      \cup {Content(picked[k]) : k \in 1..(i - 1)})
       /\ pc = "select" => ContentFeatures(PickedContents) \subseteq all

IInv ==
  /\ TypeOK
  /\ IsFiniteSet(outDir)
  /\ cf # NoFile => LinesRight(cf) /\ NamesRight(cf) /\ FeaturesRight(cf)
  /\ Turns /\ AttemptsRight /\ AttemptsSuffice
  /\ SeenRight /\ KnownRight
  /\ SelectionRight /\ PickedRight /\ OnlyNewCoverageAdded
=============================================================================
