------------------------------ MODULE DataFlow ------------------------------
(***************************************************************************)
(* Data flow traces from their making to their use: CollectDataFlow        *)
(* (FuzzerDataFlowTrace.cpp) runs the program instrumented by              *)
(* dataflow/DataFlow.cpp once for every file of a corpus; a fuzzing        *)
(* process with -focus_function then reads what that wrote and gives units *)
(* of its corpus the mask of the bytes that matter to the focus function.  *)
(*                                                                         *)
(* The target is deterministic: an execution is a sequence of basic blocks *)
(* and of comparisons of certain bytes.  The instrumented process may be   *)
(* killed, before it writes its file or in the middle of it.               *)
(***************************************************************************)
EXTENDS Lists, Integers, FiniteSets, SequencesExt, TLC

CONSTANTS
  Lengths,    \* by file, the length of the unit in it
  Programs,   \* targets: by file the events <<"block", f, b>> and <<"cmp", bytes>>
  Blocks,     \* by function, 0 and up, the number of its basic blocks
  NumLabels,  \* kNumLabels, 8 in the code
  MaxKilled   \* bound: processes killed

Files == DOMAIN Lengths
Functions == DOMAIN Blocks
NumFuncs == Cardinality(Functions)

ASSUME DataFlowAssumption ==
  /\ NumLabels \in Nat \ {0} /\ MaxKilled \in Nat
  /\ IsFiniteSet(Files)
  /\ \A u \in Files : Lengths[u] \in Nat \ {0}  \* GetSizedFilesFromDir lists no other
  /\ IsFiniteSet(Functions) /\ Functions = 0..NumFuncs - 1
  /\ \A f \in Functions : Blocks[f] \in Nat \ {0}
  /\ \A p \in DOMAIN Programs : \A u \in Files : \A e \in ToSet(Programs[p][u]) :
       /\ e[1] = "cmp" => e[2] \subseteq 0..Lengths[u] - 1
       /\ e[1] = "block" => <<"block", e[2], 0>> \in ToSet(Programs[p][u])  \* by its entry

VARIABLES
  program,
  pc,       \* collect, run, coverage, focus, traces, done; abort
  todo,     \* files to collect
  unit, labels, executed,  \* of the instrumented process, its file; __dft
  dir,      \* the traces that were written: by file, the lines
  killed,
  corpus,   \* CorporaFiles of the fuzzing process
  unread,   \* the files it has not read
  focus,    \* FocusFuncIdx
  coverage, withDFT,  \* BlockCoverage: Functions, FunctionsWithDFT
  traces    \* Traces

collectVars == <<todo, unit, labels, executed, dir, killed>>
fuzzVars == <<unread, focus, coverage, withDFT, traces>>
flowVars == <<program, pc, collectVars, corpus, fuzzVars>>

AutoFocus == -1
NoFile == "none"
Events(u) == Programs[program][u]

FlowInit ==
  /\ program \in DOMAIN Programs /\ pc = "collect"
  /\ todo \in SUBSET Files \ {{}} /\ corpus \in SUBSET Files
  /\ unit = NoFile /\ labels = <<>> /\ executed = {} /\ dir = <<>> /\ killed = 0
  /\ unread = {} /\ focus \in Functions \cup {AutoFocus}
  /\ coverage = <<>> /\ withDFT = {} /\ traces = <<>>
-----------------------------------------------------------------------------
(* The function that was entered last: also after a call has returned.     *)
CurrentFunc(u, i) ==
  LET entries == {j \in 1..i : Events(u)[j][1] = "block" /\ Events(u)[j][3] = 0}
  IN IF entries = {} THEN 0 ELSE Events(u)[Max(entries)][2]

(* The bytes of u that function f compares.                                *)
Flow(u, f) ==
  UNION {Events(u)[i][2] : i \in {j \in DOMAIN Events(u) : Events(u)[j][1] = "cmp" /\ CurrentFunc(u, j) = f}}

BlocksOf(u) == {e \in ToSet(Events(u)) : e[1] = "block"}

NumIterations(u) == (Lengths[u] + NumLabels - 1) \div NumLabels

NextFile ==
  /\ pc = "collect" /\ unit' \in todo
  /\ todo' = todo \ {unit'}
  /\ labels' = <<>> /\ executed' = {} /\ pc' = "run"
  /\ UNCHANGED <<program, dir, killed, corpus, fuzzVars>>

(* main: the bytes from BaseIdx on have a label each, 0 to NumLabels - 1;  *)
(* the labels of what is compared go to the current function.              *)
Iterate ==
  /\ pc = "run" /\ Len(labels) < NumIterations(unit)
  /\ LET base == Len(labels) * NumLabels
         last == Min({base + NumLabels, Lengths[unit]})
     IN labels' = Append(labels, [f \in Functions |-> {i - base : i \in Flow(unit, f) \cap base..last - 1}])
  /\ executed' = executed \cup BlocksOf(unit)
  /\ UNCHANGED <<program, pc, todo, unit, dir, killed, corpus, fuzzVars>>

(* PrintDataFlow: a line for a function with any label, as many bits as    *)
(* the iterations had labels; only the last one can have fewer.            *)
LenWithoutTail(iter) == NumLabels  \* mutant
LenOfIteration(iter) ==
  LET tail == Lengths[unit] % NumLabels
  IN IF iter = Len(labels) /\ tail # 0 THEN tail ELSE NumLabels

NumBits == (Len(labels) - 1) * NumLabels + LenOfIteration(Len(labels))

Bits(f) == [i \in 1..NumBits |-> (i - 1) % NumLabels \in labels[(i - 1) \div NumLabels + 1][f]]

HasAny(f) == \E iter \in DOMAIN labels : labels[iter][f] # {}

FLine(f) == <<"F", f, Bits(f)>>
FLines == Only([k \in 1..NumFuncs |-> FLine(k - 1)], {FLine(f) : f \in {g \in Functions : HasAny(g)}})

(* PrintCoverage: the executed blocks but the entry, and their number.     *)
Ran(f, b) == <<"block", f, b>> \in executed

RanBlocks(f) == Only([b \in 1..Blocks[f] - 1 |-> b], {b \in 1..Blocks[f] - 1 : Ran(f, b)})

CLine(f) == <<"C", f, Append(RanBlocks(f), Blocks[f])>>
CLines == Only([k \in 1..NumFuncs |-> CLine(k - 1)], {CLine(f) : f \in {g \in Functions : Ran(g, 0)}})

(* A function or a table with one more, or another, entry.                 *)
Put(t, x, y) == [z \in DOMAIN t \cup {x} |-> IF z = x THEN y ELSE t[z]]

WriteTrace ==
  /\ pc = "run" /\ Len(labels) = NumIterations(unit)
  /\ dir' = Put(dir, unit, FLines \o CLines)
  /\ unit' = NoFile /\ pc' = "collect"
  /\ UNCHANGED <<program, todo, labels, executed, killed, corpus, fuzzVars>>

(* A part of the lines, the last one maybe cut between two of its words.   *)
Cuts(lines) ==
  {SubSeq(lines, 1, k) : k \in 0..Len(lines) - 1} \cup
  UNION {{Append(SubSeq(lines, 1, k - 1), <<lines[k][1], lines[k][2], SubSeq(lines[k][3], 1, n)>>) :
            n \in 0..Len(lines[k][3]) - 1} : k \in DOMAIN lines}

(* CollectDataFlow does not look at the exit code.                         *)
KillInstrumented ==
  /\ pc = "run" /\ killed < MaxKilled /\ killed' = killed + 1
  /\ \/ UNCHANGED dir
     \/ /\ Len(labels) = NumIterations(unit)
        /\ \E c \in Cuts(FLines \o CLines) : dir' = Put(dir, unit, c)
  /\ unit' = NoFile /\ pc' = "collect"
  /\ UNCHANGED <<program, todo, labels, executed, corpus, fuzzVars>>
-----------------------------------------------------------------------------
(* Init of DataFlowTrace: of the files in the directory those that are     *)
(* named after a unit of the corpus, and functions.txt.                    *)
StartFuzzing ==
  /\ pc = "collect" /\ todo = {}
  /\ unread' = DOMAIN dir \cap corpus
  /\ pc' = IF focus = AutoFocus THEN "coverage" ELSE "traces"
  /\ UNCHANGED <<program, collectVars, corpus, focus, coverage, withDFT, traces>>

CountEntryOnce(counters, bbs) ==  \* mutant: the entry is marked, not counted
  [b \in DOMAIN counters |-> IF b = 0 THEN 1 ELSE counters[b] + Cardinality({k \in DOMAIN bbs : bbs[k] = b})]
Count(counters, bbs) ==
  [b \in DOMAIN counters |-> counters[b] + Cardinality({k \in DOMAIN bbs : bbs[k] = b})
                             + IF b = 0 THEN 1 ELSE 0]

(* AppendCoverage: one line; FALSE ends the file.                          *)
Readable(cov, line) ==
  \/ line[1] = "F"
  \/ /\ line[1] = "C" /\ line[3] # <<>>
     /\ \A bb \in ToSet(Front(line[3])) : bb < Last(line[3])
     /\ line[2] \in DOMAIN cov => Cardinality(DOMAIN cov[line[2]]) = Last(line[3])

Appended(cov, line) ==
  IF line[1] = "F" THEN cov
  ELSE LET f == line[2]
           counters == IF f \in DOMAIN cov THEN cov[f] ELSE [b \in 0..Last(line[3]) - 1 |-> 0]
       IN Put(cov, f, Count(counters, Front(line[3])))

ReadLine(st, line) ==
  IF st.ok /\ Readable(st.cov, line) THEN [st EXCEPT !.cov = Appended(st.cov, line)]
  ELSE [st EXCEPT !.ok = FALSE]

AppendCoverage(cov, lines) ==
  LET after[k \in 0..Len(lines)] ==
        IF k = 0 THEN [cov |-> cov, ok |-> TRUE] ELSE ReadLine(after[k - 1], lines[k])
  IN after[Len(lines)].cov

(* ReadCoverage, file by file in the order of the directory.  F lines      *)
(* count also behind a C line that is not read: they come first.           *)
ReadCoverage ==
  /\ pc = "coverage"
  /\ \E u \in unread :
       /\ unread' = unread \ {u}
       /\ coverage' = AppendCoverage(coverage, dir[u])
       /\ withDFT' = withDFT \cup {l[2] : l \in {x \in ToSet(dir[u]) : x[1] = "F"}}
  /\ UNCHANGED <<program, pc, collectVars, corpus, focus, traces>>

(* FunctionWeights, as fractions.                                          *)
SmallestNonZeroCounter(counters) ==
  Min({counters[b] : b \in {x \in DOMAIN counters : counters[x] > 0}})
NumberOfUncoveredBlocks(counters) == Cardinality({b \in DOMAIN counters : counters[b] = 0})

AllWeights(f) == <<1, 1>>  \* mutant: also of functions that are not covered
Weight(f) ==
  IF f \notin DOMAIN coverage THEN <<0, 1>>
  ELSE <<(IF f \in withDFT THEN 1000 ELSE 1) * (NumberOfUncoveredBlocks(coverage[f]) + 1),
         SmallestNonZeroCounter(coverage[f])>>

(* The distribution draws a function of positive weight.  If there is none *)
(* it divides by zero: the index is not a number and FunctionNames is read *)
(* anywhere, but with one function the weights are not looked at.          *)
ChooseFocus ==
  /\ pc = "coverage" /\ unread = {}
  /\ LET weighted == {f \in Functions : Weight(f)[1] > 0}
     IN IF weighted # {} THEN focus' \in weighted /\ pc' = "traces"
        ELSE IF NumFuncs = 1 THEN focus' = 0 /\ pc' = "traces"
        ELSE focus' = NumFuncs /\ pc' = "abort"
  /\ unread' = DOMAIN dir \cap corpus
  /\ UNCHANGED <<program, collectVars, corpus, coverage, withDFT, traces>>

(* The first line of the focus function.  A line that was cut is the last  *)
(* one of its file: cut before its space it is not parsed, cut behind it   *)
(* fails the assertion of ParseDFTLine.                                    *)
ReadTrace ==
  /\ pc = "traces"
  /\ \E u \in unread :
       LET ofFocus == Only(dir[u], {l \in ToSet(dir[u]) : l[1] = "F" /\ l[2] = focus /\ l[3] # <<>>})
       IN \/ /\ ofFocus # <<>>
             /\ traces' = Put(traces, u, ofFocus[1][3])
             /\ unread' = unread \ {u} /\ UNCHANGED pc
          \/ /\ ofFocus = <<>>
             /\ unread' = unread \ {u} /\ UNCHANGED <<pc, traces>>
          \/ /\ ofFocus = <<>> /\ \E l \in ToSet(dir[u]) : l[1] = "F" /\ l[3] = <<>>
             /\ pc' = "abort" /\ UNCHANGED <<unread, traces>>
  /\ UNCHANGED <<program, collectVars, corpus, focus, coverage, withDFT>>

ReadAll ==
  /\ pc = "traces" /\ unread = {} /\ pc' = "done"
  /\ UNCHANGED <<program, collectVars, corpus, fuzzVars>>

FlowEnded == pc \in {"done", "abort"} /\ UNCHANGED flowVars

FlowNext ==
  \/ NextFile \/ Iterate \/ WriteTrace \/ KillInstrumented
  \/ StartFuzzing \/ ReadCoverage \/ ChooseFocus \/ ReadTrace \/ ReadAll \/ FlowEnded

FlowSpec == FlowInit /\ [][FlowNext]_flowVars
-----------------------------------------------------------------------------
(* The traces that a process fuzzes by mark exactly the bytes of a unit    *)
(* that the focus function compares, at their places, whatever the length  *)
(* and however many runs of the instrumented program it took; units whose  *)
(* bytes do not flow there have none.  Of a file that was cut they are a   *)
(* part, never wrong bits.                                                 *)
Exact(u) == [i \in 1..Lengths[u] |-> i - 1 \in Flow(u, focus)]

TracesExact ==
  pc = "done" =>
    /\ \A u \in DOMAIN traces : IsPrefix(traces[u], Exact(u))
    /\ killed = 0 =>
         /\ DOMAIN traces = {u \in DOMAIN dir \cap corpus : Flow(u, focus) # {}}
         /\ \A u \in DOMAIN traces : traces[u] = Exact(u)

(* FuzzerDataFlowTrace.h:117: "Each counter represents how many input      *)
(* files trigger the given basic block"; cut files are counted too low,    *)
(* never too high.                                                         *)
CountersRight ==
  pc = "traces" =>
    \A f \in DOMAIN coverage : \A b \in DOMAIN coverage[f] :
      LET n == Cardinality({u \in DOMAIN dir \cap corpus : <<"block", f, b>> \in BlocksOf(u)})
      IN IF killed = 0 THEN coverage[f][b] = n ELSE coverage[f][b] <= n

(* -focus_function=auto takes a function that the corpus executes.         *)
FocusExecuted ==
  pc = "traces" /\ coverage # <<>> =>
    \E u \in corpus : <<"block", focus, 0>> \in BlocksOf(u)

(* The assertion in FuzzerDataFlowTrace.cpp: the focus is one of the       *)
(* functions.                                                              *)
FocusIsFunction == focus < NumFuncs
=============================================================================
