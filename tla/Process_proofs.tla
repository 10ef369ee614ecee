--------------------------- MODULE Process_proofs ---------------------------
(***************************************************************************)
(* Proofs about a process of the fuzzer: the execution of one unit, with   *)
(* its artifact, its exit code and its timeouts (UnitExecution), the       *)
(* driver with the modes that start other processes (Driver), and the data *)
(* flow traces, from the processes that write them to the one that fuzzes  *)
(* by them (DataFlow).                                                     *)
(***************************************************************************)
EXTENDS UnitExecution, Driver, DataFlow, FiniteSetTheorems, WellFoundedInduction, TLAPS

(* The timeout and the period of SIGALRM are positive.                     *)
LEMMA Times == Timeout \in Nat \ {0} /\ Period \in Nat \ {0}
BY ExecutionAssumption DEF Timeout, Period

(* CrashCallback, ExitCallback, RssLimitCallback: a handler that goes on   *)
(* has the crash state, if there is one to have.                           *)
LEMMA Acquires ==
  ASSUME TypeOK, acquired => sanitizer, Acquire, UNCHANGED sanitizer
  PROVE  acquired' \in BOOLEAN /\ (acquired => acquired') /\ (acquired' => sanitizer')
BY Zenon DEF TypeOK, Acquire, MayReport, MainType, CurType, ClockType

(* AlarmCallback acquires it for a timeout only, or finds it acquired.     *)
LEMMA AlarmAcquires ==
  ASSUME TypeOK, acquired => sanitizer, AcquireInAlarm, UNCHANGED sanitizer
  PROVE  /\ acquired' \in BOOLEAN /\ (acquired' => sanitizer')
         /\ TimedOut \/ (acquired <=> acquired')
         /\ TimedOut /\ ~MayReport => acquired'
BY Zenon DEF TypeOK, AcquireInAlarm, MayReport, MainType, CurType, ClockType

(* An artifact that was written stays.                                     *)
LEMMA FiledStays == ASSUME artifacts \subseteq artifacts', NEW kind, Filed(kind) PROVE Filed(kind)'
BY DEF Filed

(* Each part of the invariant is kept by every step.                       *)
LEMMA TypeStep == TypeOK /\ UnitInPlace /\ ClocksAgree /\ [Next]_vars => TypeOK'
<1> SUFFICES ASSUME TypeOK, UnitInPlace, ClocksAgree, [Next]_vars PROVE TypeOK'
  OBVIOUS
<1> USE Times
<1>a. acquired => sanitizer
  BY DEF ClocksAgree
<1>1. CASE MutateInPlace
  BY <1>1 DEF MutateInPlace, At, TypeOK, MainType, CurType, ClockType, Kinds, Threads
<1>2. ASSUME NEW u \in Units, Mutated(u) PROVE TypeOK'
  <2>1. main' \in MainType
    BY <1>2 DEF Mutated, At, TypeOK, MainType
  <2>2. cur' \in CurType
    BY <1>2 DEF Mutated, UnitInPlace, At, MainType, TypeOK, CurType
  <2>3. clock' \in ClockType
    BY <1>2 DEF Mutated, TypeOK, ClockType, MainType, CurType
  <2> QED
    BY <1>2, <2>1, <2>2, <2>3 DEF Mutated, At, TypeOK, MainType
<1>3. ASSUME NEW u \in Units, ReadUnit(u) PROVE TypeOK'
  <2>1. main' \in MainType
    BY <1>3 DEF ReadUnit, At, TypeOK, MainType
  <2>2. cur' \in CurType
    BY <1>3 DEF ReadUnit, TypeOK, CurType, MainType, ClockType
  <2>3. clock' \in ClockType
    BY <1>3 DEF ReadUnit, TypeOK, ClockType, MainType, CurType
  <2> QED
    BY <1>3, <2>1, <2>2, <2>3 DEF ReadUnit, At, TypeOK, MainType
<1>4. CASE Copied
  BY <1>4 DEF Copied, At, UnitInPlace, TypeOK, MainType, CurType, ClockType
<1>5. CASE SetSize
  BY <1>5 DEF SetSize, At, Following, TypeOK, MainType, CurType, ClockType, Kinds, Threads
<1>6. CASE StartClock
  BY <1>6 DEF StartClock, At, Following, TypeOK, MainType, CurType, ClockType, Kinds, Threads
<1>7. CASE Enter
  BY <1>7 DEF Enter, At, Following, TypeOK, MainType, CurType, ClockType, Kinds, Threads
<1>8. CASE UserReturns
  BY <1>8 DEF UserReturns, At, RunningAfter, TypeOK, MainType, CurType, ClockType, Kinds,
     Threads
<1>9. CASE ClearSize
  BY <1>9 DEF ClearSize, At, TypeOK, MainType, CurType, ClockType, Kinds, Threads
<1>10. CASE ExecuteAgain
  <2>1. main' \in MainType
    BY <1>10 DEF ExecuteAgain, At, TypeOK, MainType
  <2>2. cur' \in CurType
    BY <1>10 DEF ExecuteAgain, UnitInPlace, At, MainType, TypeOK, CurType
  <2>3. clock' \in ClockType
    BY <1>10 DEF ExecuteAgain, TypeOK, ClockType, MainType, CurType
  <2> QED
    BY <1>10, <2>1, <2>2, <2>3 DEF ExecuteAgain, At, TypeOK, MainType
<1>11. CASE NextUnit
  BY <1>11 DEF NextUnit, At, TypeOK, MainType, CurType, ClockType, Kinds, Threads
<1>12. CASE FindLeak
  BY <1>12 DEF FindLeak, At, SizeForLeak, TypeOK, MainType, CurType, ClockType, Kinds, Threads
<1>13. CASE CrashCallback
  BY <1>13, <1>a, Acquires DEF CrashCallback, At, Report, TypeOK, Kinds, Threads, MainType,
     CurType, ClockType
<1>14. CASE DeathCallback
  BY <1>14 DEF DeathCallback, At, Report, TypeOK, MainType, CurType, ClockType, Kinds, Threads
<1>15. CASE HandleMalloc
  BY <1>15 DEF HandleMalloc, At, Report, TypeOK, MainType, CurType, ClockType, Kinds, Threads
<1>16. CASE CrashOnOverwrittenData
  BY <1>16 DEF CrashOnOverwrittenData, At, Report, TypeOK, MainType, CurType, ClockType, Kinds,
     Threads
<1>17. CASE ExitCallback
  BY <1>17, <1>a, Acquires, ZenonT(40) DEF ExitCallback, At, Report, TypeOK, Kinds, Threads, MainType,
     CurType, ClockType
<1>18. CASE AlarmCallback
  <2>1. clock' \in ClockType
    BY <1>18 DEF AlarmCallback, TypeOK, ClockType, MainType, CurType
  <2>2. CASE TimedOut /\ MayReport
    <3>1. main' = [main EXCEPT !.pc = "dump", !.report = "timeout"]
      BY <1>18, <2>2 DEF AlarmCallback, Report
    <3>2. main' \in MainType
      BY <3>1 DEF TypeOK, MainType, Kinds
    <3> QED
      BY <1>18, <1>a, <2>1, <3>1, <3>2, AlarmAcquires DEF AlarmCallback, TypeOK, MainType
  <2>3. CASE ~(TimedOut /\ MayReport)
    BY <1>18, <1>a, <2>1, <2>3, AlarmAcquires DEF AlarmCallback, TypeOK, MainType, CurType,
       ClockType
  <2> QED
    BY <2>2, <2>3
<1>19. CASE Dump
  BY <1>19 DEF Dump, At, Written, CurrentUnit, TypeOK, MainType, CurType, ClockType, Kinds,
     Threads
<1>20. CASE Die
  BY <1>20 DEF Die, At, CodeOf, TypeOK, MainType, CurType, ClockType, Kinds, Threads
<1>21. CASE MemoryGrows
  BY <1>21 DEF MemoryGrows, At, TypeOK, MainType, CurType, ClockType, Kinds, Threads
<1>22. CASE RssLimitCallback
  BY <1>22, <1>a, Acquires DEF RssLimitCallback, TypeOK, Kinds, Threads, MainType, CurType,
     ClockType
<1>23. CASE ThreadFails
  BY <1>23, <1>a, Acquires DEF ThreadFails, TypeOK, Kinds, Threads, MainType, CurType, ClockType
<1>24. ASSUME NEW t \in Threads, DumpOther(t) PROVE TypeOK'
  BY <1>24 DEF DumpOther, Written, TypeOK, MainType, CurType, ClockType, Kinds, Threads
<1>25. ASSUME NEW t \in Threads, DieOther(t) PROVE TypeOK'
  BY <1>25 DEF DieOther, CodeOf, TypeOK, MainType, CurType, ClockType, Kinds, Threads
<1>26. CASE Tick
  BY <1>26 DEF Tick, Later, TypeOK, MainType, CurType, ClockType, Kinds, Threads
<1>27. CASE LoopEnds
  BY <1>27 DEF LoopEnds, At, TypeOK, MainType, CurType, ClockType, Kinds, Threads
<1>28. CASE Exited
  BY <1>28 DEF Exited, vars, TypeOK, MainType, CurType, ClockType, Kinds, Threads
<1>29. CASE UNCHANGED vars
  BY <1>29 DEF vars, TypeOK, MainType, CurType, ClockType, Kinds, Threads
<1> QED
  BY <1>1, <1>2, <1>3, <1>4, <1>5, <1>6, <1>7, <1>8, <1>9, <1>10, <1>11, <1>12, <1>13, <1>14,
     <1>15, <1>16, <1>17, <1>18, <1>19, <1>20, <1>21, <1>22, <1>23, <1>24, <1>25, <1>26, <1>27,
     <1>28, <1>29 DEF Next

LEMMA UnitStep == TypeOK /\ UnitInPlace /\ [Next]_vars => UnitInPlace'
<1> SUFFICES ASSUME TypeOK, UnitInPlace, [Next]_vars PROVE UnitInPlace'
  OBVIOUS
<1> USE DEF TypeOK, MainType, CurType, ClockType, UnitInPlace, Reporting
<1> USE ExecutionAssumption
<1>1. CASE MutateInPlace
  BY <1>1 DEF MutateInPlace, At
<1>2. ASSUME NEW u \in Units, Mutated(u) PROVE UnitInPlace'
  BY <1>2 DEF Mutated, At
<1>3. ASSUME NEW u \in Units, ReadUnit(u) PROVE UnitInPlace'
  BY <1>3 DEF ReadUnit, At
<1>4. CASE Copied
  BY <1>4 DEF Copied, At
<1>5. CASE SetSize
  BY <1>5 DEF SetSize, At, Following
<1>6. CASE StartClock
  BY <1>6 DEF StartClock, At, Following
<1>7. CASE Enter
  BY <1>7 DEF Enter, At, Following
<1>8. CASE UserReturns
  BY <1>8 DEF UserReturns, At, RunningAfter
<1>9. CASE ClearSize
  BY <1>9 DEF ClearSize, At
<1>10. CASE ExecuteAgain
  BY <1>10 DEF ExecuteAgain, At
<1>11. CASE NextUnit
  BY <1>11 DEF NextUnit, At
<1>12. CASE FindLeak
  BY <1>12 DEF FindLeak, At, SizeForLeak
<1>13. CASE CrashCallback
  BY <1>13 DEF CrashCallback, At, Report
<1>14. CASE DeathCallback
  BY <1>14 DEF DeathCallback, At, Report
<1>15. CASE HandleMalloc
  BY <1>15 DEF HandleMalloc, At, Report
<1>16. CASE CrashOnOverwrittenData
  BY <1>16 DEF CrashOnOverwrittenData, At, Report
<1>17. CASE ExitCallback
  BY <1>17 DEF ExitCallback, At, Report
<1>18. CASE AlarmCallback
  BY <1>18, ZenonT(40) DEF AlarmCallback, TimedOut, Report
<1>19. CASE Dump
  BY <1>19 DEF Dump, At, Written, CurrentUnit
<1>20. CASE Die
  BY <1>20 DEF Die, At, CodeOf
<1>21. CASE MemoryGrows
  BY <1>21 DEF MemoryGrows, At
<1>22. CASE RssLimitCallback
  BY <1>22 DEF RssLimitCallback
<1>23. CASE ThreadFails
  BY <1>23 DEF ThreadFails
<1>24. ASSUME NEW t \in Threads, DumpOther(t) PROVE UnitInPlace'
  BY <1>24 DEF DumpOther, Written, Threads
<1>25. ASSUME NEW t \in Threads, DieOther(t) PROVE UnitInPlace'
  BY <1>25 DEF DieOther, CodeOf
<1>26. CASE Tick
  BY <1>26 DEF Tick, Later
<1>27. CASE LoopEnds
  BY <1>27 DEF LoopEnds, At
<1>28. CASE Exited
  BY <1>28 DEF Exited, vars
<1>29. CASE UNCHANGED vars
  BY <1>29 DEF vars
<1> QED
  BY <1>1, <1>2, <1>3, <1>4, <1>5, <1>6, <1>7, <1>8, <1>9, <1>10, <1>11, <1>12, <1>13, <1>14,
     <1>15, <1>16, <1>17, <1>18, <1>19, <1>20, <1>21, <1>22, <1>23, <1>24, <1>25, <1>26, <1>27,
     <1>28, <1>29 DEF Next

LEMMA FiledStep == TypeOK /\ UnitInPlace /\ ReportsFiled /\ [Next]_vars => ReportsFiled'
<1> SUFFICES ASSUME TypeOK, UnitInPlace, ReportsFiled, [Next]_vars PROVE ReportsFiled'
  OBVIOUS
<1>u. ASSUME UNCHANGED <<other, artifacts, code>>, main'.pc = "die" => UNCHANGED main
      PROVE  ReportsFiled'
  BY <1>u DEF ReportsFiled, CodeHasArtifact, Filed
<1>m. ASSUME artifacts \subseteq artifacts', UNCHANGED code
      PROVE  CodeHasArtifact' /\ code' \in {"none", "ok", "target", "timeout", "oom", "error"}
  BY <1>m DEF ReportsFiled, CodeHasArtifact
<1>c. ASSUME NEW kind \in Kinds \cup {"rss"}, Filed(kind), code' = CodeOf(kind),
             UNCHANGED <<main, other, artifacts>>
      PROVE  ReportsFiled'
  <2>1. CodeHasArtifact'
    BY <1>c DEF CodeHasArtifact, Filed, CodeOf, Prefix, Kinds
  <2> QED
    BY <1>c, <2>1 DEF ReportsFiled, CodeOf, Filed
<1>1. CASE MutateInPlace
  BY <1>1, <1>u DEF MutateInPlace, At, TypeOK, MainType, CurType, ClockType
<1>2. ASSUME NEW u \in Units, Mutated(u) PROVE ReportsFiled'
  BY <1>2, <1>u DEF Mutated, At, TypeOK, MainType, CurType, ClockType
<1>3. ASSUME NEW u \in Units, ReadUnit(u) PROVE ReportsFiled'
  BY <1>3, <1>u DEF ReadUnit, At, TypeOK, MainType, CurType, ClockType
<1>4. CASE Copied
  BY <1>4, <1>u DEF Copied, At, TypeOK, MainType, CurType, ClockType
<1>5. CASE SetSize
  BY <1>5, <1>u DEF SetSize, At, Following, TypeOK, MainType, CurType, ClockType
<1>6. CASE StartClock
  BY <1>6, <1>u DEF StartClock, At, Following, TypeOK, MainType, CurType, ClockType
<1>7. CASE Enter
  BY <1>7, <1>u DEF Enter, At, Following, TypeOK, MainType, CurType, ClockType
<1>8. CASE UserReturns
  BY <1>8, <1>u DEF UserReturns, At, TypeOK, MainType, CurType, ClockType
<1>9. CASE ClearSize
  BY <1>9, <1>u DEF ClearSize, At, TypeOK, MainType, CurType, ClockType
<1>10. CASE ExecuteAgain
  BY <1>10, <1>u DEF ExecuteAgain, At, TypeOK, MainType, CurType, ClockType
<1>11. CASE NextUnit
  BY <1>11, <1>u DEF NextUnit, At, TypeOK, MainType, CurType, ClockType
<1>12. CASE FindLeak
  BY <1>12, <1>u DEF FindLeak, At, TypeOK, MainType, CurType, ClockType
<1>13. CASE CrashCallback
  BY <1>13, <1>u DEF CrashCallback, At, Report, TypeOK, MainType, CurType, ClockType
<1>14. CASE DeathCallback
  BY <1>14, <1>u DEF DeathCallback, At, Report, TypeOK, MainType, CurType, ClockType
<1>15. CASE HandleMalloc
  BY <1>15, <1>u DEF HandleMalloc, At, Report, TypeOK, MainType, CurType, ClockType
<1>16. CASE CrashOnOverwrittenData
  BY <1>16, <1>u DEF CrashOnOverwrittenData, At, Report, TypeOK, MainType, CurType, ClockType
<1>17. CASE ExitCallback
  BY <1>17, ZenonT(40) DEF ExitCallback, At, Report, TypeOK, ReportsFiled, Filed, CodeHasArtifact,
     MainType, CurType, ClockType
<1>18. CASE AlarmCallback
  <2>1. main'.pc = "die" => UNCHANGED main
    <3>1. CASE TimedOut /\ MayReport
      <4>1. main' = [main EXCEPT !.pc = "dump", !.report = "timeout"]
        BY <1>18, <3>1 DEF AlarmCallback, Report
      <4> QED
        BY <4>1 DEF TypeOK, MainType
    <3> QED
      BY <1>18, <3>1 DEF AlarmCallback
  <2> QED
    BY <1>18, <1>u, <2>1 DEF AlarmCallback
<1>19. CASE Dump
  <2> DEFINE a == [prefix |-> Prefix(main.report), content |-> CurrentUnit, by |-> "main"]
  <2>1. /\ a \in artifacts' /\ artifacts \subseteq artifacts'
        /\ UNCHANGED <<other, code>> /\ main'.report = main.report
    BY <1>19 DEF Dump, Written, TypeOK, MainType
  <2>2. Filed(main.report)'
    BY <2>1 DEF Filed
  <2> QED
    BY <1>m, <2>1, <2>2, FiledStays DEF ReportsFiled
<1>20. CASE Die
  <2>1. code' = CodeOf(main.report) /\ Filed(main.report) /\ main.report \in Kinds
    BY <1>20 DEF Die, At, ReportsFiled, UnitInPlace, Reporting, TypeOK, MainType
  <2> QED
    BY <1>20, <1>c, <2>1 DEF Die, Kinds
<1>21. CASE MemoryGrows
  BY <1>21, <1>u DEF MemoryGrows, At, TypeOK, MainType, CurType, ClockType
<1>22. CASE RssLimitCallback
  BY <1>22, ZenonT(40) DEF RssLimitCallback, TypeOK, ReportsFiled, Filed, CodeHasArtifact, MainType,
     CurType, ClockType
<1>23. CASE ThreadFails
  <2>1. PICK kind \in {"crash", "malloc"} : other' = [other EXCEPT !["target"] = [pc |-> "dump", kind |-> kind]]
    BY <1>23 DEF ThreadFails
  <2> QED
    BY <1>23, <2>1 DEF ThreadFails, Threads, ReportsFiled, Filed, CodeHasArtifact
<1>24. ASSUME NEW t \in Threads, DumpOther(t) PROVE ReportsFiled'
  <2> PICK kind : kind = other[t].kind
    OBVIOUS
  <2> DEFINE a == [prefix |-> Prefix(kind), content |-> Mixed, by |-> t]
  <2>1. a \in artifacts' /\ artifacts \subseteq artifacts' /\ UNCHANGED <<main, code>>
    BY <1>24 DEF DumpOther, Written
  <2>2. Filed(kind)'
    BY <2>1 DEF Filed
  <2>3. other'[t].kind = kind /\ \A s \in Threads \ {t} : other'[s] = other[s]
    BY <1>24 DEF DumpOther, ReportsFiled
  <2>4. other' \in [Threads -> [pc : {"off", "dump", "die"}, kind : {"none", "rss", "crash", "malloc"}]]
    BY <1>24 DEF DumpOther, ReportsFiled
  <2> QED
    BY <1>24, <1>m, <2>1, <2>2, <2>3, <2>4, FiledStays DEF DumpOther, ReportsFiled
<1>25. ASSUME NEW t \in Threads, DieOther(t) PROVE ReportsFiled'
  <2>1. code' = CodeOf(other[t].kind) /\ Filed(other[t].kind) /\ other[t].kind \in {"rss", "crash", "malloc"}
    BY <1>25 DEF DieOther, ReportsFiled
  <2> QED
    BY <1>25, <1>c, <2>1 DEF DieOther, Kinds
<1>26. CASE Tick
  BY <1>26, <1>u DEF Tick, TypeOK, MainType, CurType, ClockType
<1>27. CASE LoopEnds
  BY <1>27 DEF LoopEnds, At, TypeOK, ReportsFiled, Filed, CodeHasArtifact, MainType, CurType,
     ClockType
<1>28. CASE Exited
  BY <1>28 DEF Exited, vars, TypeOK, ReportsFiled, Filed, CodeHasArtifact, MainType, CurType,
     ClockType
<1>29. CASE UNCHANGED vars
  BY <1>29 DEF vars, TypeOK, ReportsFiled, Filed, CodeHasArtifact, MainType, CurType, ClockType
<1> QED
  BY <1>1, <1>2, <1>3, <1>4, <1>5, <1>6, <1>7, <1>8, <1>9, <1>10, <1>11, <1>12, <1>13, <1>14,
     <1>15, <1>16, <1>17, <1>18, <1>19, <1>20, <1>21, <1>22, <1>23, <1>24, <1>25, <1>26, <1>27,
     <1>28, <1>29 DEF Next

LEMMA ClockStep == TypeOK /\ UnitInPlace /\ ClocksAgree /\ [Next]_vars => ClocksAgree'
<1> SUFFICES ASSUME TypeOK, UnitInPlace, ClocksAgree, [Next]_vars PROVE ClocksAgree'
  OBVIOUS
<1> USE DEF TypeOK, MainType, CurType, ClockType, UnitInPlace, Reporting, ClocksAgree
<1> USE Times
<1>a. acquired => sanitizer
  BY DEF ClocksAgree
<1>1. CASE MutateInPlace
  BY <1>1 DEF MutateInPlace, At
<1>2. ASSUME NEW u \in Units, Mutated(u) PROVE ClocksAgree'
  BY <1>2 DEF Mutated, At
<1>3. ASSUME NEW u \in Units, ReadUnit(u) PROVE ClocksAgree'
  BY <1>3 DEF ReadUnit, At
<1>4. CASE Copied
  BY <1>4 DEF Copied, At
<1>5. CASE SetSize
  BY <1>5 DEF SetSize, At, Following
<1>6. CASE StartClock
  BY <1>6 DEF StartClock, At, Following
<1>7. CASE Enter
  BY <1>7 DEF Enter, At, Following
<1>8. CASE UserReturns
  BY <1>8 DEF UserReturns, At, RunningAfter
<1>9. CASE ClearSize
  BY <1>9 DEF ClearSize, At
<1>10. CASE ExecuteAgain
  BY <1>10 DEF ExecuteAgain, At
<1>11. CASE NextUnit
  BY <1>11 DEF NextUnit, At
<1>12. CASE FindLeak
  BY <1>12 DEF FindLeak, At, SizeForLeak
<1>13. CASE CrashCallback
  BY <1>13, <1>a, Acquires DEF CrashCallback, At, Report
<1>14. CASE DeathCallback
  BY <1>14 DEF DeathCallback, At, Report
<1>15. CASE HandleMalloc
  BY <1>15 DEF HandleMalloc, At, Report
<1>16. CASE CrashOnOverwrittenData
  BY <1>16 DEF CrashOnOverwrittenData, At, Report
<1>17. CASE ExitCallback
  <2>1. CASE Acquire /\ Report("exit")
    BY <1>17, <2>1, <1>a, Acquires DEF ExitCallback, Report, ClocksAgree,
         MainType, CurType, ClockType
  <2>2. CASE UNCHANGED <<main, acquired>>
    BY <1>17, <2>2 DEF ExitCallback
  <2> QED
    BY <1>17, <2>1, <2>2 DEF ExitCallback
<1>18. CASE AlarmCallback
  <2>1. /\ clock.alarm /\ clock' = [clock EXCEPT !.alarm = FALSE] /\ UNCHANGED cur
        /\ clock'.timer = Period
    BY <1>18 DEF AlarmCallback
  <2>2. acquired' => sanitizer'
    BY <1>18, <1>a, AlarmAcquires DEF AlarmCallback
  <2>3. CASE TimedOut /\ MayReport
    <3>1. main' = [main EXCEPT !.pc = "dump", !.report = "timeout"]
      BY <1>18, <2>3 DEF AlarmCallback, Report
    <3>2. clock.busy = Timeout
      BY <2>3, ExecutionAssumption DEF TimedOut, Timeout
    <3> QED
      BY <2>1, <2>2, <3>1, <3>2
  <2>4. CASE ~TimedOut
    <3>1. UNCHANGED <<main, sanitizer>> /\ (acquired <=> acquired')
      BY <1>18, <1>a, <2>4, AlarmAcquires DEF AlarmCallback
    <3>2. main.pc = "user" => clock.elapsed + Period < Timeout + Period
      BY <2>4, ExecutionAssumption DEF TimedOut, Timeout
    <3> QED
      BY <2>1, <2>2, <3>1, <3>2
  <2>5. CASE TimedOut /\ ~MayReport
    <3>1. UNCHANGED main /\ acquired'
      BY <1>18, <1>a, <2>5, AlarmAcquires DEF AlarmCallback
    <3> QED
      BY <2>1, <2>2, <3>1
  <2> QED
    BY <2>3, <2>4, <2>5
<1>19. CASE Dump
  BY <1>19 DEF Dump, At, Written, CurrentUnit
<1>20. CASE Die
  BY <1>20 DEF Die, At, CodeOf
<1>21. CASE MemoryGrows
  BY <1>21 DEF MemoryGrows, At
<1>22. CASE RssLimitCallback
  BY <1>22, <1>a, Acquires DEF RssLimitCallback
<1>23. CASE ThreadFails
  BY <1>23, <1>a, Acquires DEF ThreadFails
<1>24. ASSUME NEW t \in Threads, DumpOther(t) PROVE ClocksAgree'
  BY <1>24 DEF DumpOther, Written
<1>25. ASSUME NEW t \in Threads, DieOther(t) PROVE ClocksAgree'
  BY <1>25 DEF DieOther, CodeOf
<1>26. CASE Tick
  BY <1>26 DEF Tick, Later
<1>27. CASE LoopEnds
  BY <1>27 DEF LoopEnds, At
<1>28. CASE Exited
  BY <1>28 DEF Exited, vars
<1>29. CASE UNCHANGED vars
  BY <1>29 DEF vars
<1> QED
  BY <1>1, <1>2, <1>3, <1>4, <1>5, <1>6, <1>7, <1>8, <1>9, <1>10, <1>11, <1>12, <1>13, <1>14,
     <1>15, <1>16, <1>17, <1>18, <1>19, <1>20, <1>21, <1>22, <1>23, <1>24, <1>25, <1>26, <1>27,
     <1>28, <1>29 DEF Next

(* The invariant is inductive.                                             *)
THEOREM ExecutionConsistent == Spec => []IInv
<1>1. Init => IInv
  <2> SUFFICES ASSUME Init PROVE IInv
    OBVIOUS
  <2>1. main \in MainType /\ cur \in CurType /\ clock \in ClockType
    BY Times DEF Init, MainType, CurType, ClockType
  <2>2. TypeOK
    BY <2>1 DEF Init, TypeOK, Quiet, Threads
  <2> QED
    BY <2>2, Times DEF Init, IInv, UnitInPlace, Reporting, ReportsFiled, CodeHasArtifact,
       ClocksAgree, Quiet, Threads
<1>2. IInv /\ [Next]_vars => IInv'
  BY TypeStep, UnitStep, FiledStep, ClockStep DEF IInv
<1> QED
  BY <1>1, <1>2, PTL DEF Spec

(* What the fuzzing thread dumps is the unit it executed, and the artifact *)
(* that belongs to the exit code is there, whoever ends the process.       *)
THEOREM ArtifactsHold == Spec => []ArtifactsRight
<1>1. IInv => ArtifactsRight
  BY DEF IInv, UnitInPlace, ReportsFiled, ArtifactsRight, Reproducer
<1> QED
  BY <1>1, ExecutionConsistent, PTL

(* A timeout is reported for a unit that ran so long, and in time.         *)
THEOREM TimeoutsHold == Spec => []TimeoutsRight
<1>1. IInv => TimeoutsRight
  BY Times DEF IInv, TypeOK, ClockType, ClocksAgree, TimeoutsRight
<1> QED
  BY <1>1, ExecutionConsistent, PTL
-----------------------------------------------------------------------------
(* The elements of a list that are in a set: lemmas about Lists.           *)

(* A set of numbers has a least one.                                       *)
LEMMA LeastNumber ==
  ASSUME NEW T, T \subseteq Nat, T # {}
  PROVE  \E m \in T : \A n \in T : m <= n
<1> DEFINE R == {r \in Nat \X Nat : r[1] < r[2]}
<1>1. IsWellFoundedOn(R, Nat)
  <2>1. R = OpToRel(<, Nat)
    BY DEF OpToRel
  <2> QED  BY <2>1, NatLessThanWellFounded
<1>2. PICK m \in T : \A n \in T : <<n, m>> \notin R
  <2> HIDE DEF R
  <2> QED  BY <1>1, WFMin
<1>3. ASSUME NEW n \in T PROVE m <= n
  <2>1. m \in Nat /\ n \in Nat /\ <<n, m>> \notin R
    BY <1>2, <1>3
  <2> QED  BY <2>1
<1> QED  BY <1>3

(* Nothing goes wrong first, so nothing goes wrong.                        *)
LEMMA NoneFirst ==
  ASSUME NEW n \in Nat, NEW Wrong \in SUBSET (0..n), 0 \notin Wrong,
         \A k \in Wrong : k - 1 \in Wrong
  PROVE  Wrong = {}
<1> SUFFICES ASSUME Wrong # {} PROVE FALSE
  OBVIOUS
<1>1. PICK m \in Wrong : \A k \in Wrong : m <= k
  <2>1. Wrong \subseteq Nat
    OBVIOUS
  <2> QED  BY <2>1, LeastNumber
<1>2. m - 1 \in Wrong /\ m \in Int
  BY <1>1
<1> QED  BY <1>1, <1>2

(* The partial results of Only, for the first n elements.                  *)
Step(s, S, k, r) == IF s[k] \in S THEN Append(r, s[k]) ELSE r
Partial(s, S, n, g) ==
  g = [k \in 0..n |-> IF k = 0 THEN <<>> ELSE Step(s, S, k, g[k - 1])]

(* There are partial results of any length.                                *)
LEMMA PartialExists ==
  ASSUME NEW s, NEW S, NEW n \in Nat
  PROVE  \E g : Partial(s, S, n, g)
<1> DEFINE Wrong == {k \in 0..n : ~ \E g : Partial(s, S, k, g)}
<1>1. 0 \notin Wrong
  <2>1. Partial(s, S, 0, [k \in 0..0 |-> <<>>])
    BY DEF Partial
  <2> QED  BY <2>1
<1>2. ASSUME NEW k \in Wrong PROVE k - 1 \in Wrong
  <2>1. k # 0 /\ k \in 0..n
    BY <1>1
  <2> SUFFICES ASSUME NEW g, Partial(s, S, k - 1, g) PROVE FALSE
    BY <2>1
  <2> DEFINE h == [j \in 0..k |-> IF j = k THEN Step(s, S, k, g[k - 1]) ELSE g[j]]
  <2>2. ASSUME NEW j \in 0..k PROVE h[j] = IF j = 0 THEN <<>> ELSE Step(s, S, j, h[j - 1])
    <3>1. CASE j = k
      BY <3>1, <2>1
    <3>2. CASE j # k
      <4>1. j \in 0..k - 1 /\ h[j] = g[j]
        BY <3>2, <2>1
      <4>2. g[j] = IF j = 0 THEN <<>> ELSE Step(s, S, j, g[j - 1])
        BY <4>1 DEF Partial
      <4>3. j # 0 => h[j - 1] = g[j - 1]
        BY <4>1, <2>1
      <4> QED  BY <4>1, <4>2, <4>3
    <3> QED  BY <3>1, <3>2
  <2>3. h = [j \in 0..k |-> IF j = 0 THEN <<>> ELSE Step(s, S, j, h[j - 1])]
    <3>1. h = [j \in 0..k |-> h[j]]
      OBVIOUS
    <3> HIDE DEF h
    <3> QED  BY <2>2, <3>1
  <2> HIDE DEF h
  <2>4. Partial(s, S, k, h)
    BY <2>3 DEF Partial
  <2> QED  BY <2>4
<1>3. Wrong = {}
  <2> HIDE DEF Wrong
  <2>1. Wrong \in SUBSET (0..n)
    BY DEF Wrong
  <2> QED  BY <1>1, <1>2, <2>1, NoneFirst
<1> QED  BY <1>3

(* Lists that start alike have the same partial results there.             *)
LEMMA PartialsAgree ==
  ASSUME NEW s, NEW t, NEW S, NEW n \in Nat, NEW m \in n..(n + 1),
         \A k \in 1..n : s[k] = t[k],
         NEW g, Partial(s, S, n, g), NEW h, Partial(t, S, m, h)
  PROVE  g[n] = h[n]
<1> DEFINE Wrong == {k \in 0..n : g[k] # h[k]}
<1>0. \A k \in 0..n : k \in 0..m
  OBVIOUS
<1>1. 0 \notin Wrong
  BY <1>0 DEF Partial
<1>2. ASSUME NEW k \in Wrong PROVE k - 1 \in Wrong
  <2>1. k # 0 /\ k \in 0..n /\ k - 1 \in 0..n /\ k \in 0..m
    BY <1>0, <1>1
  <2>2. g[k] = Step(s, S, k, g[k - 1]) /\ h[k] = Step(t, S, k, h[k - 1])
    BY <2>1 DEF Partial
  <2>3. s[k] = t[k]
    BY <2>1
  <2> QED  BY <2>1, <2>2, <2>3 DEF Step
<1>3. Wrong = {}
  <2> HIDE DEF Wrong
  <2>1. Wrong \in SUBSET (0..n)
    BY DEF Wrong
  <2> QED  BY <1>1, <1>2, <2>1, NoneFirst
<1> QED  BY <1>3

(* Only is the last partial result.                                        *)
LEMMA OnlyIs ==
  ASSUME NEW s, Len(s) \in Nat, NEW S
  PROVE  \E g : Partial(s, S, Len(s), g) /\ Only(s, S) = g[Len(s)]
<1> DEFINE kept == CHOOSE kept : kept = [k \in 0..Len(s) |->
        IF k = 0 THEN <<>>
        ELSE IF s[k] \in S THEN Append(kept[k - 1], s[k]) ELSE kept[k - 1]]
<1>1. Only(s, S) = kept[Len(s)]
  BY DEF Only
<1>2. PICK g : Partial(s, S, Len(s), g)
  BY PartialExists
<1>3. g = [k \in 0..Len(s) |-> IF k = 0 THEN <<>> ELSE IF s[k] \in S THEN Append(g[k - 1], s[k]) ELSE g[k - 1]]
  BY <1>2 DEF Partial, Step
<1>4. kept = [k \in 0..Len(s) |-> IF k = 0 THEN <<>> ELSE IF s[k] \in S THEN Append(kept[k - 1], s[k]) ELSE kept[k - 1]]
  BY <1>3
<1>5. Partial(s, S, Len(s), kept)
  <2> HIDE DEF kept
  <2> QED BY <1>4 DEF Partial, Step
<1> QED  BY <1>1, <1>5

(* Of nothing, nothing is left.                                            *)
LEMMA OnlyEmpty == ASSUME NEW S PROVE Only(<<>>, S) = <<>>
<1>1. PICK g : Partial(<<>>, S, 0, g) /\ Only(<<>>, S) = g[0]
  BY OnlyIs
<1> QED  BY <1>1 DEF Partial

(* Only treats the last element by itself.                                 *)
LEMMA OnlyAppend ==
  ASSUME NEW U, NEW s \in Seq(U), NEW x \in U, NEW S
  PROVE  Only(Append(s, x), S) = IF x \in S THEN Append(Only(s, S), x) ELSE Only(s, S)
<1> DEFINE t == Append(s, x)
           n == Len(s)
<1>1. Len(t) = n + 1 /\ t[n + 1] = x /\ n \in Nat /\ \A k \in 1..n : s[k] = t[k]
  OBVIOUS
<1> HIDE DEF t, n
<1>2. PICK g : Partial(s, S, n, g) /\ Only(s, S) = g[n]
  BY <1>1, OnlyIs DEF n
<1>3. PICK h : Partial(t, S, n + 1, h) /\ Only(t, S) = h[n + 1]
  BY <1>1, OnlyIs
<1>4. g[n] = h[n]
  BY <1>1, <1>2, <1>3, PartialsAgree
<1>5. h[n + 1] = Step(t, S, n + 1, h[n])
  BY <1>1, <1>3 DEF Partial
<1> QED  BY <1>1, <1>2, <1>3, <1>4, <1>5 DEF Step, t

(* A list is its prefixes, each with one more element.                     *)
Upto(s, k) == SubSeq(s, 1, k)

(* The prefixes of a list, each the one before and an element.             *)
LEMMA UptoIs ==
  ASSUME NEW U, NEW s \in Seq(U)
  PROVE  /\ Upto(s, 0) = <<>> /\ Upto(s, Len(s)) = s /\ Len(s) \in Nat
         /\ \A k \in 0..Len(s) : Upto(s, k) \in Seq(U) /\ Len(Upto(s, k)) = k
         /\ \A k \in 1..Len(s) : /\ k - 1 \in 0..Len(s) /\ s[k] \in U
                                 /\ Upto(s, k) = Append(Upto(s, k - 1), s[k])
<1>1. Upto(s, 0) = <<>> /\ Upto(s, Len(s)) = s
  BY DEF Upto
<1>2. ASSUME NEW k \in 0..Len(s) PROVE Upto(s, k) \in Seq(U) /\ Len(Upto(s, k)) = k
  BY DEF Upto
<1>3. ASSUME NEW k \in 1..Len(s)
      PROVE  /\ k - 1 \in 0..Len(s) /\ s[k] \in U
             /\ Upto(s, k) = Append(Upto(s, k - 1), s[k])
  BY DEF Upto
<1> QED  BY <1>1, <1>2, <1>3

(* The elements of a list and one more.                                    *)
LEMMA AppendElements ==
  ASSUME NEW U, NEW s \in Seq(U), NEW y \in U
  PROVE  \A x : (\E i \in DOMAIN Append(s, y) : Append(s, y)[i] = x)
                  <=> (x = y \/ \E i \in DOMAIN s : s[i] = x)
<1> DEFINE t == Append(s, y)
<1>1. /\ DOMAIN s = 1..Len(s) /\ Len(s) \in Nat /\ DOMAIN t = 1..Len(s) + 1 /\ t[Len(s) + 1] = y
      /\ \A i \in 1..Len(s) : t[i] = s[i]
  OBVIOUS
<1> HIDE DEF t
<1> SUFFICES ASSUME NEW x
             PROVE  (\E i \in DOMAIN t : t[i] = x) <=> (x = y \/ \E i \in DOMAIN s : s[i] = x)
  BY DEF t
<1>2. ASSUME NEW i \in DOMAIN t, t[i] = x PROVE x = y \/ \E j \in DOMAIN s : s[j] = x
  <2>1. i = Len(s) + 1 \/ i \in 1..Len(s)
    BY <1>1
  <2> QED  BY <1>1, <1>2, <2>1
<1>3. ASSUME x = y \/ \E i \in DOMAIN s : s[i] = x PROVE \E i \in DOMAIN t : t[i] = x
  <2>1. CASE x = y
    <3>1. Len(s) + 1 \in DOMAIN t
      BY <1>1
    <3> QED  BY <1>1, <2>1, <3>1
  <2>2. CASE \E i \in DOMAIN s : s[i] = x
    <3>1. \A i \in DOMAIN s : i \in DOMAIN t
      BY <1>1
    <3> QED  BY <1>1, <2>2, <3>1
  <2> QED  BY <1>3, <2>1, <2>2
<1> QED  BY <1>2, <1>3

(* What is left are the elements that are in the set.                      *)
LEMMA OnlyType ==
  ASSUME NEW U, NEW s \in Seq(U), NEW S
  PROVE  /\ Only(s, S) \in Seq(U)
         /\ \A x : (\E i \in DOMAIN Only(s, S) : Only(s, S)[i] = x)
                     <=> x \in S /\ \E i \in DOMAIN s : s[i] = x
<1> DEFINE Right(p) ==
             /\ Only(p, S) \in Seq(U)
             /\ \A x : (\E i \in DOMAIN Only(p, S) : Only(p, S)[i] = x)
                         <=> x \in S /\ \E i \in DOMAIN p : p[i] = x
           Wrong == {k \in 0..Len(s) : ~Right(Upto(s, k))}
<1>1. 0 \notin Wrong
  <2>1. Right(<<>>)
    <3>1. Only(<<>>, S) = <<>> /\ <<>> \in Seq(U) /\ DOMAIN <<>> = {}
      BY OnlyEmpty
    <3> QED  BY <3>1
  <2> HIDE DEF Right
  <2> QED  BY <2>1, UptoIs
<1>2. ASSUME NEW k \in Wrong PROVE k - 1 \in Wrong
  <2> DEFINE p == Upto(s, k - 1)
             y == s[k]
  <2>1. k \in 1..Len(s) /\ k - 1 \in 0..Len(s) /\ Upto(s, k) = Append(p, y) /\ p \in Seq(U) /\ y \in U
    <3>1. k \in 1..Len(s)
      BY <1>1
    <3> QED  BY <3>1, UptoIs
  <2> HIDE DEF p, y
  <2>2. ASSUME Right(p) PROVE Right(Append(p, y))
    <3>1. Only(Append(p, y), S) = IF y \in S THEN Append(Only(p, S), y) ELSE Only(p, S)
      BY <2>1, OnlyAppend
    <3> DEFINE o == Only(p, S)
               q == Append(p, y)
    <3>2. o \in Seq(U)
      BY <2>2
    <3>3. \A x : (\E i \in DOMAIN q : q[i] = x) <=> (x = y \/ \E i \in DOMAIN p : p[i] = x)
      BY <2>1, AppendElements
    <3>4. \A x : (\E i \in DOMAIN o : o[i] = x) <=> (x \in S /\ \E i \in DOMAIN p : p[i] = x)
      BY <2>2
    <3>5. CASE y \in S
      <4>1. Only(q, S) = Append(o, y)
        BY <3>1, <3>5
      <4> HIDE DEF o, q
      <4>2. \A x : (\E i \in DOMAIN Append(o, y) : Append(o, y)[i] = x) <=> (x = y \/ \E i \in DOMAIN o : o[i] = x)
        <5>1. o \in Seq(U) /\ y \in U
          BY <3>2, <2>1
        <5> QED  BY <5>1, AppendElements
      <4>3. Append(o, y) \in Seq(U)
        BY <3>2, <2>1
      <4> QED  BY <3>3, <3>4, <3>5, <4>1, <4>2, <4>3 DEF q
    <3>6. CASE y \notin S
      <4>1. Only(q, S) = o
        BY <3>1, <3>6
      <4> HIDE DEF o, q
      <4> QED  BY <3>2, <3>3, <3>4, <3>6, <4>1 DEF q
    <3> QED  BY <3>5, <3>6
  <2> HIDE DEF Right
  <2> QED  BY <2>1, <2>2 DEF p
<1>3. Wrong = {}
  <2> HIDE DEF Wrong
  <2>1. Wrong \in SUBSET (0..Len(s)) /\ Len(s) \in Nat
    BY DEF Wrong
  <2> QED  BY <1>1, <1>2, <2>1, NoneFirst
<1>4. Right(s)
  <2> HIDE DEF Right
  <2>1. Right(Upto(s, Len(s)))
    BY <1>3, UptoIs
  <2> QED  BY <2>1, UptoIs
<1> QED  BY <1>4

(* All that is left is in the set, and was in the list.                    *)
LEMMA OnlyFrom ==
  ASSUME NEW U, NEW s \in Seq(U), NEW S
  PROVE  /\ Only(s, S) \in Seq(U)
         /\ \A i \in DOMAIN Only(s, S) : Only(s, S)[i] \in S /\ \E j \in DOMAIN s : s[j] = Only(s, S)[i]
<1> DEFINE o == Only(s, S)
<1>1. \A x : (\E i \in DOMAIN o : o[i] = x) <=> x \in S /\ \E i \in DOMAIN s : s[i] = x
  BY OnlyType
<1>2. o \in Seq(U)
  BY OnlyType
<1> HIDE DEF o
<1>3. ASSUME NEW i \in DOMAIN o PROVE o[i] \in S /\ \E j \in DOMAIN s : s[j] = o[i]
  BY <1>1
<1> QED  BY <1>2, <1>3 DEF o

AppendsLast(U) == \A s, t \in Seq(U) : \A y \in U : Append(s \o t, y) = s \o Append(t, y)

(* An element behind two lists is one behind the second.                   *)
LEMMA AppendConcat == ASSUME NEW U PROVE AppendsLast(U)
<1> QED  BY DEF AppendsLast

(* Only treats the parts of a list by themselves.                          *)
LEMMA OnlyConcat ==
  ASSUME NEW U, NEW s \in Seq(U), NEW t \in Seq(U), NEW S
  PROVE  Only(s \o t, S) = Only(s, S) \o Only(t, S)
<1> DEFINE Right(p) == Only(s \o p, S) = Only(s, S) \o Only(p, S)
<1>0. Only(s, S) \in Seq(U)
  BY OnlyType
<1>1. Right(<<>>)
  <2> DEFINE o == Only(s, S)
  <2>1. o \in Seq(U) => o \o <<>> = o
    <3> HIDE DEF o
    <3> QED  OBVIOUS
  <2>2. s \o <<>> = s
    OBVIOUS
  <2> QED  BY <1>0, <2>1, <2>2, OnlyEmpty
<1>2. ASSUME NEW p \in Seq(U), NEW y \in U, Right(p) PROVE Right(Append(p, y))
  <2>1. s \o p \in Seq(U) /\ s \o Append(p, y) = Append(s \o p, y)
    OBVIOUS
  <2> DEFINE q == s \o p
             o == Only(s, S)
             r == Only(p, S)
  <2>2. Only(Append(q, y), S) = IF y \in S THEN Append(Only(q, S), y) ELSE Only(q, S)
    <3> HIDE DEF q
    <3> QED  BY <2>1, OnlyAppend DEF q
  <2>3. Only(Append(p, y), S) = IF y \in S THEN Append(r, y) ELSE r
    BY OnlyAppend
  <2>4. o \in Seq(U) /\ r \in Seq(U)
    BY OnlyType
  <2>5. Only(q, S) = o \o r
    BY <1>2
  <2>6. Append(o \o r, y) = o \o Append(r, y)
    <3>1. AppendsLast(U)
      BY AppendConcat
    <3>2. \A a, b \in Seq(U) : Append(a \o b, y) = a \o Append(b, y)
      BY <3>1 DEF AppendsLast
    <3> HIDE DEF o, r, q, Right
    <3> QED  BY <2>4, <3>2
  <2>7. s \o Append(p, y) = Append(q, y)
    BY <2>1
  <2> SUFFICES Only(Append(q, y), S) = o \o Only(Append(p, y), S)
    BY <2>7
  <2> HIDE DEF q, o, r
  <2> QED  BY <2>2, <2>3, <2>5, <2>6
<1>3. Right(t)
  <2> HIDE DEF Right
  <2> DEFINE Wrong == {k \in 0..Len(t) : ~Right(Upto(t, k))}
  <2>1. 0 \notin Wrong
    BY <1>1, UptoIs
  <2>2. ASSUME NEW k \in Wrong PROVE k - 1 \in Wrong
    <3>1. k \in 1..Len(t)
      BY <2>1
    <3>2. /\ k - 1 \in 0..Len(t) /\ t[k] \in U /\ Upto(t, k) = Append(Upto(t, k - 1), t[k])
          /\ Upto(t, k - 1) \in Seq(U)
      BY <3>1, UptoIs
    <3> QED  BY <1>2, <3>2
  <2>3. Wrong = {}
    <3> HIDE DEF Wrong
    <3>1. Wrong \in SUBSET (0..Len(t)) /\ Len(t) \in Nat
      BY DEF Wrong
    <3> QED  BY <2>1, <2>2, <3>1, NoneFirst
  <2>4. Len(t) \in 0..Len(t)
    OBVIOUS
  <2>5. Right(Upto(t, Len(t)))
    BY <2>3, <2>4
  <2> QED  BY <2>5, UptoIs
<1> QED  BY <1>3

(* To erase twice is to erase what either erases.                          *)
LEMMA OnlyTwice ==
  ASSUME NEW U, NEW s \in Seq(U), NEW S, NEW T
  PROVE  Only(Only(s, S), T) = Only(s, S \cap T)
<1> DEFINE Wrong == {k \in 0..Len(s) : Only(Only(Upto(s, k), S), T) # Only(Upto(s, k), S \cap T)}
<1>1. 0 \notin Wrong
  BY UptoIs, OnlyEmpty
<1>2. ASSUME NEW k \in Wrong PROVE k - 1 \in Wrong
  <2> DEFINE p == Upto(s, k - 1)
             y == s[k]
  <2>1. k \in 1..Len(s) /\ k - 1 \in 0..Len(s) /\ Upto(s, k) = Append(p, y) /\ p \in Seq(U) /\ y \in U
    <3>1. k \in 1..Len(s)
      BY <1>1
    <3> QED  BY <3>1, UptoIs
  <2> HIDE DEF p, y
  <2>2. Only(p, S) \in Seq(U)
    BY <2>1, OnlyType
  <2>3. Only(Append(p, y), S) = IF y \in S THEN Append(Only(p, S), y) ELSE Only(p, S)
    BY <2>1, OnlyAppend
  <2>4. Only(Append(p, y), S \cap T) = IF y \in S \cap T THEN Append(Only(p, S \cap T), y) ELSE Only(p, S \cap T)
    BY <2>1, OnlyAppend
  <2>5. Only(Append(Only(p, S), y), T) = IF y \in T THEN Append(Only(Only(p, S), T), y) ELSE Only(Only(p, S), T)
    BY <2>1, <2>2, OnlyAppend
  <2>6. Only(Only(p, S), T) = Only(p, S \cap T) => Only(Only(Append(p, y), S), T) = Only(Append(p, y), S \cap T)
    BY <2>3, <2>4, <2>5
  <2> QED  BY <2>1, <2>6 DEF p
<1>3. Wrong = {}
  <2> HIDE DEF Wrong
  <2>1. Wrong \in SUBSET (0..Len(s)) /\ Len(s) \in Nat
    BY DEF Wrong
  <2> QED  BY <1>1, <1>2, <2>1, NoneFirst
<1>4. Len(s) \in 0..Len(s) /\ Len(s) \notin Wrong
  <2> HIDE DEF Wrong
  <2> QED  BY <1>3
<1> QED  BY <1>4, UptoIs

(* Of S only matters which elements of the list are in it.                 *)
LEMMA OnlySame ==
  ASSUME NEW U, NEW s \in Seq(U), NEW S, NEW T, \A i \in DOMAIN s : s[i] \in S <=> s[i] \in T
  PROVE  Only(s, S) = Only(s, T)
<1> DEFINE Wrong == {k \in 0..Len(s) : Only(Upto(s, k), S) # Only(Upto(s, k), T)}
<1>1. 0 \notin Wrong
  BY UptoIs, OnlyEmpty
<1>2. ASSUME NEW k \in Wrong PROVE k - 1 \in Wrong
  <2>1. k \in 1..Len(s)
    BY <1>1
  <2> DEFINE p == Upto(s, k - 1)
             y == s[k]
  <2>2. Upto(s, k) = Append(p, y) /\ p \in Seq(U) /\ y \in U /\ k \in DOMAIN s /\ k - 1 \in 0..Len(s)
    <3>1. k - 1 \in 0..Len(s) /\ k \in DOMAIN s
      BY <2>1
    <3> QED  BY <2>1, <3>1, UptoIs
  <2> HIDE DEF p, y
  <2>3. Only(Append(p, y), S) = IF y \in S THEN Append(Only(p, S), y) ELSE Only(p, S)
    BY <2>2, OnlyAppend
  <2>4. Only(Append(p, y), T) = IF y \in T THEN Append(Only(p, T), y) ELSE Only(p, T)
    BY <2>2, OnlyAppend
  <2>5. y \in S <=> y \in T
    BY <2>2 DEF y
  <2> QED  BY <2>2, <2>3, <2>4, <2>5 DEF p
<1>3. Wrong = {}
  <2> HIDE DEF Wrong
  <2>1. Wrong \in SUBSET (0..Len(s)) /\ Len(s) \in Nat
    BY DEF Wrong
  <2> QED  BY <1>1, <1>2, <2>1, NoneFirst
<1>4. Len(s) \in 0..Len(s) /\ Len(s) \notin Wrong
  <2> HIDE DEF Wrong
  <2> QED  BY <1>3
<1> QED  BY <1>4, UptoIs

(* A list whose elements are all in the set is left as it is.              *)
LEMMA OnlyAll ==
  ASSUME NEW U, NEW s \in Seq(U), NEW S, \A i \in DOMAIN s : s[i] \in S
  PROVE  Only(s, S) = s
<1> DEFINE Wrong == {k \in 0..Len(s) : Only(Upto(s, k), S) # Upto(s, k)}
<1>1. 0 \notin Wrong
  BY UptoIs, OnlyEmpty
<1>2. ASSUME NEW k \in Wrong PROVE k - 1 \in Wrong
  <2>1. k \in 1..Len(s)
    BY <1>1
  <2>2. /\ k - 1 \in 0..Len(s) /\ Upto(s, k) = Append(Upto(s, k - 1), s[k])
        /\ Upto(s, k - 1) \in Seq(U) /\ s[k] \in U /\ k \in DOMAIN s
    BY <2>1, UptoIs
  <2>3. Only(Upto(s, k), S) = Append(Only(Upto(s, k - 1), S), s[k])
    BY <2>2, OnlyAppend
  <2> QED  BY <2>2, <2>3
<1>3. Wrong = {}
  <2> HIDE DEF Wrong
  <2>1. Wrong \in SUBSET (0..Len(s)) /\ Len(s) \in Nat
    BY DEF Wrong
  <2> QED  BY <1>1, <1>2, <2>1, NoneFirst
<1>4. Len(s) \in 0..Len(s) /\ Len(s) \notin Wrong
  <2> HIDE DEF Wrong
  <2> QED  BY <1>3
<1> QED  BY <1>4, UptoIs

(* Nothing is left of a list without an element in the set.                *)
LEMMA OnlyNone ==
  ASSUME NEW U, NEW s \in Seq(U), NEW S, \A i \in DOMAIN s : s[i] \notin S
  PROVE  Only(s, S) = <<>>
<1> DEFINE o == Only(s, S)
<1>1. o \in Seq(U)
  BY OnlyType
<1>2. ASSUME NEW i \in DOMAIN o PROVE FALSE
  <2>1. o[i] \in S /\ \E j \in DOMAIN s : s[j] = o[i]
    BY OnlyType
  <2> QED  BY <2>1
<1> HIDE DEF o
<1>3. Len(o) = 0
  BY <1>1, <1>2
<1>4. o = <<>>
  BY <1>1, <1>3
<1> QED  BY <1>4 DEF o
-----------------------------------------------------------------------------
(* FuzzerCommand.h: what the operations do to a command line.              *)

(* What is read of a command line, and what is behind the mark.            *)
Unmarked(r) == \A i \in DOMAIN r : r[i] # IgnoreRemainingArgs
Behind(q) == q = <<>> \/ q[1] = IgnoreRemainingArgs

EndsAt(a, n) ==
  /\ n \in 1..Len(a) + 1
  /\ \A i \in 1..n - 1 : a[i] # IgnoreRemainingArgs
  /\ n <= Len(a) => a[n] = IgnoreRemainingArgs

(* EndMutableArgs finds the first mark, or the end.                        *)
LEMMA EndIs ==
  ASSUME NEW U, NEW a \in Seq(U)
  PROVE  EndsAt(a, EndMutableArgs(a))
<1> DEFINE I == {i \in 1..Len(a) : a[i] = IgnoreRemainingArgs}
<1>1. EndMutableArgs(a) = IF (IF I # {} THEN Min(I) ELSE 0) = 0 THEN Len(a) + 1
                          ELSE (IF I # {} THEN Min(I) ELSE 0)
  BY DEF EndMutableArgs, SelectInSeq
<1>2. CASE I = {}
  <2>1. EndMutableArgs(a) = Len(a) + 1
    BY <1>1, <1>2
  <2> QED  BY <1>2, <2>1 DEF EndsAt
<1>3. CASE I # {}
  <2>1. PICK m \in I : \A n \in I : m <= n
    <3>1. I \subseteq Nat
      OBVIOUS
    <3> HIDE DEF I
    <3> QED  BY <1>3, <3>1, LeastNumber
  <2>2. Min(I) \in I /\ \A n \in I : Min(I) <= n
    <3> HIDE DEF I
    <3> QED  BY <2>1 DEF Min
  <2>3. EndMutableArgs(a) = Min(I)
    BY <1>1, <1>3, <2>2
  <2> DEFINE e == EndMutableArgs(a)
  <2>4. e \in I /\ \A n \in I : e <= n
    BY <2>2, <2>3
  <2> HIDE DEF e
  <2>5. e \in 1..Len(a) /\ a[e] = IgnoreRemainingArgs /\ \A n \in 1..e - 1 : n \notin I
    BY <2>4
  <2>6. \A n \in 1..e - 1 : n \in 1..Len(a)
    BY <2>5
  <2> QED  BY <2>5, <2>6 DEF EndsAt, e
<1> QED  BY <1>2, <1>3

(* There is only one such place.                                           *)
LEMMA EndUnique ==
  ASSUME NEW U, NEW a \in Seq(U), NEW m, NEW n, EndsAt(a, m), EndsAt(a, n)
  PROVE  m = n
<1>1. m \in Int /\ n \in Int /\ Len(a) \in Nat
  BY DEF EndsAt
<1>2. ~(m < n)
  <2> SUFFICES ASSUME m < n PROVE FALSE
    OBVIOUS
  <2>1. m \in 1..n - 1 /\ m <= Len(a)
    BY <1>1 DEF EndsAt
  <2> QED  BY <2>1 DEF EndsAt
<1>3. ~(n < m)
  <2> SUFFICES ASSUME n < m PROVE FALSE
    OBVIOUS
  <2>1. n \in 1..m - 1 /\ n <= Len(a)
    BY <1>1 DEF EndsAt
  <2> QED  BY <2>1 DEF EndsAt
<1> QED  BY <1>1, <1>2, <1>3

(* A command line is what is read of it and what is ignored.               *)
LEMMA ReadAndIgnored ==
  ASSUME NEW U, NEW a \in Seq(U)
  PROVE  /\ ReadArgs(a) \in Seq(U) /\ IgnoredArgs(a) \in Seq(U)
         /\ Unmarked(ReadArgs(a)) /\ Behind(IgnoredArgs(a))
         /\ \A i \in DOMAIN ReadArgs(a) : ReadArgs(a)[i] \in ToSet(a)
<1> DEFINE e == EndMutableArgs(a)
<1>1. EndsAt(a, e)
  BY EndIs
<1> HIDE DEF e
<1>2. e \in 1..Len(a) + 1 /\ Len(a) \in Nat /\ e \in Int
  BY <1>1 DEF EndsAt
<1>3. ReadArgs(a) = SubSeq(a, 1, e - 1) /\ IgnoredArgs(a) = SubSeq(a, e, Len(a))
  BY DEF ReadArgs, IgnoredArgs, e
<1>4. /\ ReadArgs(a) \in Seq(U) /\ IgnoredArgs(a) \in Seq(U)
      /\ DOMAIN ReadArgs(a) = 1..e - 1 /\ \A i \in 1..e - 1 : ReadArgs(a)[i] = a[i] /\ i \in DOMAIN a
  BY <1>2, <1>3
<1>5. Unmarked(ReadArgs(a))
  BY <1>1, <1>4 DEF Unmarked, EndsAt
<1>6. \A i \in DOMAIN ReadArgs(a) : ReadArgs(a)[i] \in ToSet(a)
  BY <1>4 DEF ToSet
<1>7. Behind(IgnoredArgs(a))
  <2>1. CASE e = Len(a) + 1
    <3>1. SubSeq(a, e, Len(a)) = <<>>
      BY <1>2, <2>1
    <3> QED  BY <1>3, <3>1 DEF Behind
  <2>2. CASE e <= Len(a)
    <3>1. SubSeq(a, e, Len(a))[1] = a[e]
      BY <1>2, <2>2
    <3> QED  BY <1>1, <1>3, <2>2, <3>1 DEF Behind, EndsAt
  <2> QED  BY <1>2, <2>1, <2>2
<1> QED  BY <1>4, <1>5, <1>6, <1>7

(* What is put before the ignored part is read.                            *)
LEMMA ReadOfBoth ==
  ASSUME NEW U, NEW r \in Seq(U), NEW q \in Seq(U), Unmarked(r), Behind(q)
  PROVE  ReadArgs(r \o q) = r /\ IgnoredArgs(r \o q) = q
<1> DEFINE a == r \o q
           n == Len(r) + 1
<1>1. /\ a \in Seq(U) /\ Len(a) = Len(r) + Len(q) /\ Len(r) \in Nat /\ Len(q) \in Nat
      /\ \A i \in 1..Len(r) : a[i] = r[i]
      /\ q # <<>> => Len(q) > 0 /\ a[n] = q[1]
  OBVIOUS
<1>2. SubSeq(a, 1, Len(r)) = r /\ SubSeq(a, n, Len(a)) = q
  OBVIOUS
<1> HIDE DEF a
<1>3. EndsAt(a, n)
  <2>1. q = <<>> => Len(q) = 0
    OBVIOUS
  <2> QED  BY <1>1, <2>1 DEF EndsAt, Unmarked, Behind
<1>4. EndMutableArgs(a) = n
  BY <1>1, <1>3, EndIs, EndUnique
<1> QED  BY <1>1, <1>2, <1>4 DEF ReadArgs, IgnoredArgs, a

(* Of the arguments U those with, and without, certain flags.              *)
WithFlag(U, f) == {x \in U : x.flag = f}

(* The elements of a list.                                                 *)
LEMMA ElementsIn ==
  ASSUME NEW U, NEW a \in Seq(U)
  PROVE  ToSet(a) \subseteq U /\ \A i \in DOMAIN a : a[i] \in ToSet(a) /\ a[i] \in U
BY DEF ToSet

(* Given is what is read of a flag.                                        *)
LEMMA GivenIs ==
  ASSUME NEW U, NEW a \in Seq(U), NEW f
  PROVE  /\ Given(a, f) = Only(ReadArgs(a), WithFlag(U, f))
         /\ Given(a, f) \in Seq(U)
         /\ \A i \in DOMAIN Given(a, f) :
              /\ Given(a, f)[i].flag = f /\ Given(a, f)[i] \in U
              /\ Given(a, f)[i] \in ToSet(a)
<1> DEFINE r == ReadArgs(a)
           S == {x \in ToSet(a) : x.flag = f}
           T == WithFlag(U, f)
<1>1. r \in Seq(U) /\ \A i \in DOMAIN r : r[i] \in ToSet(a) /\ r[i] \in U
  <2>1. r \in Seq(U) /\ \A i \in DOMAIN r : r[i] \in ToSet(a)
    BY ReadAndIgnored
  <2> HIDE DEF r
  <2> QED  BY <2>1, ElementsIn
<1>2. \A i \in DOMAIN r : r[i] \in S <=> r[i] \in T
  <2> HIDE DEF r
  <2> QED  BY <1>1 DEF WithFlag
<1> HIDE DEF r, T, S
<1>3. Only(r, S) = Only(r, T)
  BY <1>1, <1>2, OnlySame
<1>4. Given(a, f) = Only(r, S)
  BY DEF Given, r, S
<1>5. Only(r, S) \in Seq(U) /\ \A i \in DOMAIN Only(r, S) : Only(r, S)[i] \in S
  BY <1>1, OnlyType
<1>6. \A x \in S : x.flag = f /\ x \in U /\ x \in ToSet(a)
  BY ElementsIn DEF S
<1>7. Given(a, f) = Only(r, T)
  BY <1>3, <1>4
<1>8. \A i \in DOMAIN Given(a, f) : /\ Given(a, f)[i].flag = f /\ Given(a, f)[i] \in U
                                    /\ Given(a, f)[i] \in ToSet(a)
  BY <1>4, <1>5, <1>6
<1> QED  BY <1>4, <1>5, <1>7, <1>8 DEF r, T

(* What the operations that erase leave: the ignored part stays.           *)
LEMMA OnlyRead ==
  ASSUME NEW U, NEW a \in Seq(U), NEW S, NEW b, b = Only(ReadArgs(a), S) \o IgnoredArgs(a)
  PROVE  b \in Seq(U) /\ ReadArgs(b) = Only(ReadArgs(a), S) /\ IgnoredArgs(b) = IgnoredArgs(a)
<1> DEFINE r == ReadArgs(a)
           o == Only(r, S)
           q == IgnoredArgs(a)
<1>1. r \in Seq(U) /\ q \in Seq(U) /\ Unmarked(r) /\ Behind(q)
  BY ReadAndIgnored
<1> HIDE DEF r, q
<1>2. o \in Seq(U) /\ \A i \in DOMAIN o : \E j \in DOMAIN r : r[j] = o[i]
  BY <1>1, OnlyFrom
<1> HIDE DEF o
<1>3. Unmarked(o)
  BY <1>1, <1>2 DEF Unmarked
<1>4. b = o \o q
  BY DEF o, r, q
<1>5. o \o q \in Seq(U)
  BY <1>1, <1>2
<1>6. ReadArgs(o \o q) = o /\ IgnoredArgs(o \o q) = q
  BY <1>1, <1>2, <1>3, ReadOfBoth
<1> QED  BY <1>4, <1>5, <1>6 DEF o, r, q

(* AddArguments puts the arguments behind what is read.                    *)
LEMMA AddedIs ==
  ASSUME NEW U, NEW a \in Seq(U), NEW xs \in Seq(U), Unmarked(xs)
  PROVE  /\ AddArguments(a, xs) \in Seq(U)
         /\ ReadArgs(AddArguments(a, xs)) = ReadArgs(a) \o xs
         /\ \A f : Given(AddArguments(a, xs), f) = Given(a, f) \o Only(xs, WithFlag(U, f))
<1> DEFINE r == ReadArgs(a)
           q == IgnoredArgs(a)
           s == r \o xs
           b == AddArguments(a, xs)
<1>1. r \in Seq(U) /\ q \in Seq(U) /\ Unmarked(r) /\ Behind(q)
  BY ReadAndIgnored
<1>2. b = s \o q
  BY DEF AddArguments
<1> HIDE DEF r, q, b
<1>3. s \in Seq(U) /\ s \o q \in Seq(U)
  BY <1>1
<1>4. Unmarked(s)
  <2>1. /\ DOMAIN r = 1..Len(r) /\ DOMAIN xs = 1..Len(xs) /\ DOMAIN s = 1..Len(r) + Len(xs)
        /\ Len(r) \in Nat /\ Len(xs) \in Nat
        /\ \A i \in DOMAIN s : s[i] = IF i <= Len(r) THEN r[i] ELSE xs[i - Len(r)]
    BY <1>1
  <2> HIDE DEF s
  <2>2. ASSUME NEW i \in DOMAIN s PROVE s[i] # IgnoreRemainingArgs
    <3>1. CASE i <= Len(r)
      <4>1. i \in DOMAIN r /\ s[i] = r[i]
        BY <2>1, <3>1
      <4> QED  BY <1>1, <4>1 DEF Unmarked
    <3>2. CASE ~(i <= Len(r))
      <4>1. i - Len(r) \in DOMAIN xs /\ s[i] = xs[i - Len(r)]
        BY <2>1, <3>2
      <4> QED  BY <4>1 DEF Unmarked
    <3> QED  BY <3>1, <3>2
  <2> QED  BY <2>2 DEF Unmarked
<1>5. ReadArgs(b) = s /\ b \in Seq(U)
  <2> HIDE DEF s
  <2>1. ReadArgs(s \o q) = s
    BY <1>1, <1>3, <1>4, ReadOfBoth
  <2> QED  BY <1>2, <1>3, <2>1
<1>6. ASSUME NEW f PROVE Given(b, f) = Given(a, f) \o Only(xs, WithFlag(U, f))
  <2>1. Given(b, f) = Only(s, WithFlag(U, f))
    <3> HIDE DEF s
    <3> QED  BY <1>5, GivenIs
  <2>2. Given(a, f) = Only(r, WithFlag(U, f))
    BY GivenIs DEF r
  <2>3. Only(r \o xs, WithFlag(U, f)) = Only(r, WithFlag(U, f)) \o Only(xs, WithFlag(U, f))
    BY <1>1, OnlyConcat
  <2> QED  BY <2>1, <2>2, <2>3
<1>7. ReadArgs(b) = ReadArgs(a) \o xs
  BY <1>5 DEF r
<1> QED  BY <1>5, <1>6, <1>7 DEF b

(* RemoveFlags takes away all that is read of these flags, and no other.   *)
LEMMA RemovedIs ==
  ASSUME NEW U, NEW a \in Seq(U), NEW F
  PROVE  /\ RemoveFlags(a, F) \in Seq(U)
         /\ \A f : Given(RemoveFlags(a, F), f) = IF f \in F THEN <<>> ELSE Given(a, f)
<1> DEFINE r == ReadArgs(a)
           S == {x \in ToSet(a) : x.flag \notin F}
           b == RemoveFlags(a, F)
<1>1. r \in Seq(U) /\ \A i \in DOMAIN r : r[i] \in ToSet(a) /\ r[i] \in U
  <2>1. r \in Seq(U) /\ \A i \in DOMAIN r : r[i] \in ToSet(a)
    BY ReadAndIgnored
  <2> HIDE DEF r
  <2> QED  BY <2>1, ElementsIn
<1>2. b \in Seq(U) /\ ReadArgs(b) = Only(r, S)
  <2>1. b = Only(ReadArgs(a), S) \o IgnoredArgs(a)
    BY DEF RemoveFlags
  <2> HIDE DEF b, S
  <2> QED  BY <2>1, OnlyRead
<1> HIDE DEF r, b
<1>3. ASSUME NEW f PROVE Given(b, f) = IF f \in F THEN <<>> ELSE Given(a, f)
  <2> DEFINE T == WithFlag(U, f)
  <2>1. Given(b, f) = Only(Only(r, S), T)
    BY <1>2, GivenIs
  <2>2. Only(Only(r, S), T) = Only(r, S \cap T)
    <3> HIDE DEF S, T
    <3> QED  BY <1>1, OnlyTwice
  <2>3. Given(a, f) = Only(r, T)
    BY GivenIs DEF r
  <2>4. CASE f \in F
    <3>1. \A i \in DOMAIN r : r[i] \notin S \cap T
      BY <2>4 DEF WithFlag
    <3>2. Only(r, S \cap T) = <<>>
      <4> HIDE DEF S, T
      <4> QED  BY <1>1, <3>1, OnlyNone
    <3> QED  BY <2>1, <2>2, <2>4, <3>2
  <2>5. CASE f \notin F
    <3>1. \A i \in DOMAIN r : r[i] \in S \cap T <=> r[i] \in T
      BY <1>1, <2>5 DEF WithFlag
    <3>2. Only(r, S \cap T) = Only(r, T)
      <4> HIDE DEF S, T
      <4> QED  BY <1>1, <3>1, OnlySame
    <3> QED  BY <2>1, <2>2, <2>3, <2>5, <3>2
  <2> QED  BY <2>4, <2>5
<1> QED  BY <1>2, <1>3 DEF b

(* RemovePaths takes away the paths and leaves all flags.                  *)
LEMMA UnpathedIs ==
  ASSUME NEW U, NEW a \in Seq(U), NEW P
  PROVE  /\ RemovePaths(a, P) \in Seq(U)
         /\ \A f : f # "path" => Given(RemovePaths(a, P), f) = Given(a, f)
         /\ (\A i \in DOMAIN Given(a, "path") : Given(a, "path")[i].value \in P) => Given(RemovePaths(a, P), "path") = <<>>
<1> DEFINE r == ReadArgs(a)
           S == {x \in ToSet(a) : x.flag # "path" \/ x.value \notin P}
           b == RemovePaths(a, P)
<1>1. r \in Seq(U) /\ \A i \in DOMAIN r : r[i] \in ToSet(a) /\ r[i] \in U
  <2>1. r \in Seq(U) /\ \A i \in DOMAIN r : r[i] \in ToSet(a)
    BY ReadAndIgnored
  <2> HIDE DEF r
  <2> QED  BY <2>1, ElementsIn
<1>2. b \in Seq(U) /\ ReadArgs(b) = Only(r, S)
  <2>1. b = Only(ReadArgs(a), S) \o IgnoredArgs(a)
    BY DEF RemovePaths
  <2> HIDE DEF b, S
  <2> QED  BY <2>1, OnlyRead
<1> HIDE DEF r, b
<1>3. ASSUME NEW f
      PROVE  /\ Given(b, f) = Only(r, S \cap WithFlag(U, f))
             /\ Given(a, f) = Only(r, WithFlag(U, f))
  <2> DEFINE T == WithFlag(U, f)
  <2>1. Given(b, f) = Only(Only(r, S), T)
    <3> HIDE DEF S
    <3> QED  BY <1>2, GivenIs
  <2>2. Only(Only(r, S), T) = Only(r, S \cap T)
    <3> HIDE DEF S, T
    <3> QED  BY <1>1, OnlyTwice
  <2>3. Given(a, f) = Only(r, T)
    BY GivenIs DEF r
  <2> QED  BY <2>1, <2>2, <2>3
<1>4. ASSUME NEW f, f # "path" PROVE Given(b, f) = Given(a, f)
  <2> DEFINE T == WithFlag(U, f)
  <2>1. \A i \in DOMAIN r : r[i] \in S \cap T <=> r[i] \in T
    BY <1>1, <1>4 DEF WithFlag
  <2>2. Only(r, S \cap T) = Only(r, T)
    <3> HIDE DEF S, T
    <3> QED  BY <1>1, <2>1, OnlySame
  <2> QED  BY <1>3, <2>2
<1>5. ASSUME \A i \in DOMAIN Given(a, "path") : Given(a, "path")[i].value \in P PROVE Given(b, "path") = <<>>
  <2> DEFINE T == WithFlag(U, "path")
             o == Only(r, T)
  <2>1. \A i \in DOMAIN o : o[i].value \in P
    BY <1>3, <1>5
  <2>2. \A x : (\E i \in DOMAIN o : o[i] = x) <=> x \in T /\ \E i \in DOMAIN r : r[i] = x
    <3> HIDE DEF T
    <3> QED  BY <1>1, OnlyType
  <2> HIDE DEF o
  <2>3. \A i \in DOMAIN r : r[i] \in T => r[i].value \in P
    <3> SUFFICES ASSUME NEW i \in DOMAIN r, r[i] \in T PROVE r[i].value \in P
      OBVIOUS
    <3>1. PICK j \in DOMAIN o : o[j] = r[i]
      BY <2>2
    <3> QED  BY <2>1, <3>1
  <2>4. \A i \in DOMAIN r : r[i] \notin S \cap T
    BY <2>3 DEF WithFlag
  <2>5. Only(r, S \cap T) = <<>>
    <3> HIDE DEF S, T
    <3> QED  BY <1>1, <2>4, OnlyNone
  <2> QED  BY <1>3, <2>5
<1> QED  BY <1>2, <1>4, <1>5 DEF b

(* One element in the set: it is what is left.                             *)
LEMMA OnlyUnique ==
  ASSUME NEW U, NEW s \in Seq(U), NEW S, NEW i \in DOMAIN s, s[i] \in S,
         \A j \in DOMAIN s : s[j] \in S => j = i
  PROVE  Only(s, S) = Append(<<>>, s[i])
<1> DEFINE one == Append(<<>>, s[i])
<1> HIDE DEF one
<1> DEFINE Wrong == {k \in 0..Len(s) : Only(Upto(s, k), S) # IF k < i THEN <<>> ELSE one}
<1>0. i \in 1..Len(s) /\ Len(s) \in Nat
  OBVIOUS
<1>1. 0 \notin Wrong
  <2>1. 0 < i
    BY <1>0
  <2>2. Only(Upto(s, 0), S) = <<>>
    BY UptoIs, OnlyEmpty
  <2> QED  BY <2>1, <2>2
<1>2. ASSUME NEW k \in Wrong PROVE k - 1 \in Wrong
  <2> DEFINE p == Upto(s, k - 1)
             y == s[k]
  <2>1. k \in 1..Len(s)
    BY <1>1
  <2>2. Upto(s, k) = Append(p, y) /\ p \in Seq(U) /\ y \in U /\ k \in DOMAIN s /\ k - 1 \in 0..Len(s)
    <3>1. k - 1 \in 0..Len(s) /\ k \in DOMAIN s /\ s[k] \in U
      BY <2>1
    <3>2. Upto(s, k) = Append(Upto(s, k - 1), s[k])
      BY <2>1, UptoIs
    <3>3. Upto(s, k - 1) \in Seq(U)
      BY <3>1, UptoIs
    <3> QED  BY <3>1, <3>2, <3>3
  <2>3. y \in S <=> k = i
    BY <2>2
  <2> HIDE DEF p, y
  <2>4. Only(Append(p, y), S) = IF y \in S THEN Append(Only(p, S), y) ELSE Only(p, S)
    BY <2>2, OnlyAppend
  <2>5. k = i => one = Append(<<>>, y)
    BY DEF y, one
  <2>6. k \in Int /\ i \in Int /\ (k - 1 < i <=> k < i \/ k = i)
    BY <2>1, <1>0
  <2> SUFFICES ASSUME Only(p, S) = IF k - 1 < i THEN <<>> ELSE one
               PROVE  Only(Append(p, y), S) = IF k < i THEN <<>> ELSE one
    BY <2>2 DEF p
  <2>7. CASE k < i
    BY <2>3, <2>4, <2>6, <2>7
  <2>8. CASE k = i
    BY <2>3, <2>4, <2>5, <2>6, <2>8
  <2>9. CASE k > i
    BY <2>3, <2>4, <2>6, <2>9
  <2> QED  BY <2>6, <2>7, <2>8, <2>9
<1>3. Wrong = {}
  <2> HIDE DEF Wrong
  <2>1. Wrong \in SUBSET (0..Len(s)) /\ Len(s) \in Nat
    BY DEF Wrong
  <2> QED  BY <1>1, <1>2, <2>1, NoneFirst
<1>4. Len(s) \in 0..Len(s) /\ Len(s) \notin Wrong /\ ~(Len(s) < i)
  BY <1>0, <1>3
<1>5. Only(Upto(s, Len(s)), S) = one
  BY <1>4
<1>6. Upto(s, Len(s)) = s
  BY UptoIs
<1> QED  BY <1>5, <1>6 DEF one

(* Except for the flags F, b reads like a.                                 *)
Keeps(a, b, F) == \A f : f \notin F => Given(b, f) = Given(a, f)

(* AddArguments changes the flags that it adds only; of each it gives the  *)
(* last value.                                                             *)
LEMMA AddedFlags ==
  ASSUME NEW U, NEW a \in Seq(U), NEW xs \in Seq(U), Unmarked(xs)
  PROVE  /\ AddArguments(a, xs) \in Seq(U)
         /\ Keeps(a, AddArguments(a, xs), {xs[i].flag : i \in DOMAIN xs})
         /\ \A i \in DOMAIN xs :
              (\A j \in DOMAIN xs : xs[j].flag = xs[i].flag => j = i) =>
                Given(AddArguments(a, xs), xs[i].flag) = Append(Given(a, xs[i].flag), xs[i])
<1> DEFINE b == AddArguments(a, xs)
           F == {xs[i].flag : i \in DOMAIN xs}
<1>1. b \in Seq(U) /\ \A f : Given(b, f) = Given(a, f) \o Only(xs, WithFlag(U, f))
  BY AddedIs
<1> HIDE DEF b
<1>2. ASSUME NEW f, f \notin F PROVE Given(b, f) = Given(a, f)
  <2> DEFINE T == WithFlag(U, f)
             g == Given(a, f)
  <2>1. \A i \in DOMAIN xs : xs[i] \notin T
    BY <1>2 DEF WithFlag
  <2>2. Only(xs, T) = <<>>
    <3> HIDE DEF T
    <3> QED  BY <2>1, OnlyNone
  <2>3. g \in Seq(U)
    BY GivenIs
  <2>4. g \o <<>> = g
    <3> HIDE DEF g
    <3> QED  BY <2>3
  <2> QED  BY <1>1, <2>2, <2>4
<1>3. ASSUME NEW i \in DOMAIN xs, \A j \in DOMAIN xs : xs[j].flag = xs[i].flag => j = i
      PROVE  Given(b, xs[i].flag) = Append(Given(a, xs[i].flag), xs[i])
  <2> DEFINE T == WithFlag(U, xs[i].flag)
             g == Given(a, xs[i].flag)
             x == xs[i]
  <2>1. xs[i] \in T /\ \A j \in DOMAIN xs : xs[j] \in T => j = i
    BY <1>3 DEF WithFlag
  <2>2. Only(xs, T) = Append(<<>>, x)
    <3> HIDE DEF T
    <3> QED  BY <2>1, OnlyUnique
  <2>3. g \in Seq(U) /\ x \in U
    BY GivenIs
  <2>4. g \o Append(<<>>, x) = Append(g, x)
    <3> HIDE DEF g, x
    <3> QED  BY <2>3
  <2> QED  BY <1>1, <2>2, <2>4
<1>4. Keeps(a, b, F)
  <2> HIDE DEF F
  <2> QED  BY <1>2 DEF Keeps
<1> QED  BY <1>1, <1>3, <1>4 DEF b

(* What the last of the arguments with a flag makes of it.                 *)
LEMMA ValueIs ==
  ASSUME NEW U, NEW g \in Seq(U), NEW x \in U, NEW b, NEW f, NEW default
  PROVE  /\ Given(b, f) = Append(g, x) => ValueOf(b, f, default) = x.value
         /\ Given(b, f) = <<>> => ValueOf(b, f, default) = default
<1>1. Append(g, x) # <<>> /\ Last(Append(g, x)) = x
  BY DEF Last
<1> QED  BY <1>1 DEF ValueOf

(* What is given for a flag decides its value.                             *)
LEMMA ValueSame ==
  ASSUME NEW a, NEW b, NEW f, Given(b, f) = Given(a, f)
  PROVE  Num(b, f) = Num(a, f) /\ Str(b, f) = Str(a, f)
BY DEF Num, Str, ValueOf

(* The inputs are the values of the paths.                                 *)
LEMMA InputsAre ==
  ASSUME NEW U, NEW b, Given(b, "path") \in Seq(U)
  PROVE  /\ Inputs(b) \in Seq({x.value : x \in U}) /\ Len(Inputs(b)) = Len(Given(b, "path"))
         /\ DOMAIN Inputs(b) = DOMAIN Given(b, "path")
         /\ \A i \in DOMAIN Given(b, "path") : Inputs(b)[i] = Given(b, "path")[i].value
<1> DEFINE g == Given(b, "path")
           V == {x.value : x \in U}
           v == [k \in 1..Len(g) |-> g[k].value]
<1>1. g \in Seq(U) /\ DOMAIN g = 1..Len(g) /\ Len(g) \in Nat
  OBVIOUS
<1>2. Inputs(b) = v
  BY <1>1 DEF Inputs
<1> HIDE DEF g
<1>3. \A k \in 1..Len(g) : g[k].value \in V
  BY <1>1
<1>4. v \in Seq(V) /\ Len(v) = Len(g)
  <2> HIDE DEF V
  <2> QED  BY <1>1, <1>3
<1> QED  BY <1>1, <1>2, <1>4 DEF g

(* With one path there is one input.                                       *)
LEMMA OneInput ==
  ASSUME NEW b, NEW p, Given(b, "path") = Append(<<>>, Path(p))
  PROVE  /\ Len(Inputs(b)) = 1 /\ Inputs(b)[1] = p /\ ToSet(Inputs(b)) = {p} /\ Inputs(b) # <<>>
         /\ DOMAIN Inputs(b) = 1..1
<1> DEFINE x == Path(p)
           g == Append(<<>>, x)
<1>1. x.value = p
  BY DEF Path, Arg
<1> HIDE DEF x
<1>2. g \in Seq({x}) /\ Len(g) = 1 /\ g[1] = x /\ DOMAIN g = 1..1
  <2>1. <<>> \in Seq({x}) /\ Len(<<>>) = 0
    OBVIOUS
  <2> QED  BY <2>1
<1>3. Given(b, "path") = g
  BY DEF x
<1> HIDE DEF g
<1> DEFINE v == Inputs(b)
<1>4. Len(v) = 1 /\ DOMAIN v = 1..1 /\ v[1] = p
  <2>1. Given(b, "path") \in Seq({x})
    BY <1>2, <1>3
  <2>2. /\ Len(Inputs(b)) = Len(Given(b, "path")) /\ DOMAIN Inputs(b) = DOMAIN Given(b, "path")
        /\ \A i \in DOMAIN Given(b, "path") : Inputs(b)[i] = Given(b, "path")[i].value
    BY <2>1, InputsAre
  <2>3. 1 \in DOMAIN Given(b, "path")
    BY <1>2, <1>3
  <2>4. Inputs(b)[1] = x.value
    BY <1>2, <1>3, <2>2, <2>3
  <2> QED  BY <1>1, <1>2, <1>3, <2>2, <2>4
<1> HIDE DEF v
<1>5. v # <<>>
  BY <1>4
<1>6. ToSet(v) = {p}
  BY <1>4 DEF ToSet
<1> QED  BY <1>4, <1>5, <1>6 DEF v

(* The paths decide the inputs.                                            *)
LEMMA InputsSame ==
  ASSUME NEW a, NEW b, Given(b, "path") = Given(a, "path")
  PROVE  Inputs(b) = Inputs(a)
BY DEF Inputs

-----------------------------------------------------------------------------
(* The order of the dispatch has no mode twice.                            *)
LEMMA ModesAre ==
  /\ DOMAIN Modes = 1..13
  /\ \A i, j \in 1..13 : Modes[i] = Modes[j] => i = j
  /\ Modes[1] = "help" /\ Modes[2] = "jobs" /\ Modes[3] = "invalid"
  /\ Modes[4] = "collect_data_flow" /\ Modes[5] = "minimize_crash"
  /\ Modes[6] = "minimize_crash_internal_step" /\ Modes[7] = "cleanse_crash"
  /\ Modes[8] = "files" /\ Modes[9] = "fork" /\ Modes[10] = "merge" /\ Modes[13] = "loop"
BY DEF Modes

(* Rank is the place of a mode in that order.                              *)
LEMMA RankIs ==
  ASSUME NEW i \in 1..13
  PROVE  Rank(Modes[i]) = i
BY ModesAre DEF Rank

(* The condition of each mode.                                             *)
LEMMA SelectsIs ==
  ASSUME NEW a, NEW fs
  PROVE  /\ Selects("help", a, fs) <=> Num(a, "help") # 0
         /\ Selects("jobs", a, fs) <=> Workers(a) > 0 /\ Num(a, "jobs") > 0
         /\ Selects("invalid", a, fs) <=> NoOutputCorpus(a, fs)
         /\ Selects("collect_data_flow", a, fs) <=>
              /\ Str(a, "collect_data_flow") # None /\ Str(a, "data_flow_trace") # None
              /\ Num(a, "fork") = 0 /\ ~Merges(a)
         /\ Selects("minimize_crash", a, fs) <=> Num(a, "minimize_crash") # 0
         /\ Selects("minimize_crash_internal_step", a, fs) <=> Num(a, "minimize_crash_internal_step") # 0
         /\ Selects("cleanse_crash", a, fs) <=> Num(a, "cleanse_crash") # 0
         /\ Selects("files", a, fs) <=> AllInputsAreFiles(a, fs)
         /\ Selects("fork", a, fs) <=> Num(a, "fork") # 0
         /\ Selects("merge", a, fs) <=> Merges(a)
         /\ Selects("loop", a, fs)
BY DEF Selects

(* ModeOf is the first mode that is selected.                              *)
LEMMA ModeIs ==
  ASSUME NEW a, NEW fs
  PROVE  \E i \in 1..13 : /\ ModeOf(a, fs) = Modes[i] /\ Rank(ModeOf(a, fs)) = i
                          /\ Selects(Modes[i], a, fs)
                          /\ \A j \in 1..i - 1 : ~Selects(Modes[j], a, fs)
<1> DEFINE I == {i \in DOMAIN Modes : Selects(Modes[i], a, fs)}
<1>1. 13 \in I
  BY SelectsIs, ModesAre
<1>2. I \subseteq 1..13
  BY ModesAre
<1>3. PICK m \in I : \A n \in I : m <= n
  <2>1. I \subseteq Nat
    <3> HIDE DEF I
    <3> QED  BY <1>2
  <2> HIDE DEF I
  <2> QED  BY <1>1, <2>1, LeastNumber
<1>4. Min(I) \in I /\ \A n \in I : Min(I) <= n
  <2> HIDE DEF I
  <2> QED  BY <1>3 DEF Min
<1>5. ModeOf(a, fs) = Modes[Min(I)]
  BY DEF ModeOf
<1> DEFINE i == Min(I)
<1>6. i \in I /\ \A n \in I : i <= n
  BY <1>4
<1>7. ModeOf(a, fs) = Modes[i]
  BY <1>5
<1> HIDE DEF i
<1>8. i \in 1..13 /\ Selects(Modes[i], a, fs)
  BY <1>2, <1>6
<1>9. \A j \in 1..i - 1 : ~Selects(Modes[j], a, fs)
  <2>1. \A j \in 1..i - 1 : j \in DOMAIN Modes /\ j \in Nat /\ ~(i <= j)
    BY <1>8, ModesAre
  <2> QED  BY <1>6, <2>1
<1>10. Rank(ModeOf(a, fs)) = i
  BY <1>7, <1>8, RankIs
<1> QED  BY <1>7, <1>8, <1>9, <1>10

(* The mode comes after all that are not selected.                         *)
LEMMA RankAbove ==
  ASSUME NEW a, NEW fs, NEW n \in 1..12, \A j \in 1..n : ~Selects(Modes[j], a, fs)
  PROVE  Rank(ModeOf(a, fs)) > n
<1>1. PICK i \in 1..13 : Rank(ModeOf(a, fs)) = i /\ Selects(Modes[i], a, fs)
  BY ModeIs
<1> QED  BY <1>1

(* A mode that is selected, when those before it are not.                  *)
LEMMA ModeFirst ==
  ASSUME NEW a, NEW fs, NEW n \in 1..13, \A j \in 1..n - 1 : ~Selects(Modes[j], a, fs),
         Selects(Modes[n], a, fs)
  PROVE  ModeOf(a, fs) = Modes[n]
<1>1. PICK i \in 1..13 : /\ ModeOf(a, fs) = Modes[i] /\ Selects(Modes[i], a, fs)
                         /\ \A j \in 1..i - 1 : ~Selects(Modes[j], a, fs)
  BY ModeIs
<1>2. ~(i < n) /\ ~(n < i)
  BY <1>1
<1> QED  BY <1>1, <1>2
-----------------------------------------------------------------------------
(* The modes of the children that the driver starts.                        *)

(* The flags that decide whether a mode is selected.                       *)
FlagsOf(m) ==
  CASE m = "jobs" -> {"jobs", "workers"}
    [] m = "invalid" -> {"path", "minimize_crash_internal_step", "create_missing_dirs"}
    [] m = "collect_data_flow" ->
         {"collect_data_flow", "data_flow_trace", "fork", "merge", "set_cover_merge"}
    [] m = "files" -> {"path"}
    [] m = "merge" -> {"merge", "set_cover_merge"}
    [] OTHER -> {m}

NumModes == {"help", "minimize_crash", "minimize_crash_internal_step", "cleanse_crash", "fork"}

(* A mode whose flags a command line keeps is selected as before.          *)
LEMMA SelectsKept ==
  ASSUME NEW a, NEW b, NEW F, Keeps(a, b, F), NEW fs,
         NEW m \in NumModes \cup {"jobs", "invalid", "collect_data_flow", "files", "merge"},
         FlagsOf(m) \cap F = {}
  PROVE  Selects(m, b, fs) <=> Selects(m, a, fs)
<1>1. \A f \in FlagsOf(m) : Given(b, f) = Given(a, f)
  BY DEF Keeps
<1>2. \A f \in FlagsOf(m) : Num(b, f) = Num(a, f) /\ Str(b, f) = Str(a, f)
  BY <1>1, ValueSame
<1>3. CASE m \in NumModes
  <2>1. m \in FlagsOf(m)
    BY <1>3 DEF FlagsOf, NumModes
  <2> QED  BY <1>2, <1>3, <2>1 DEF Selects, NumModes
<1>4. CASE m = "jobs"
  <2>1. "jobs" \in FlagsOf(m) /\ "workers" \in FlagsOf(m)
    BY <1>4 DEF FlagsOf
  <2>2. Workers(b) = Workers(a) /\ Num(b, "jobs") = Num(a, "jobs")
    BY <1>2, <2>1 DEF Workers
  <2> QED  BY <1>4, <2>2, SelectsIs
<1>5. CASE m = "invalid"
  <2>1. /\ "path" \in FlagsOf(m) /\ "minimize_crash_internal_step" \in FlagsOf(m)
        /\ "create_missing_dirs" \in FlagsOf(m)
    BY <1>5 DEF FlagsOf
  <2>2. Inputs(b) = Inputs(a)
    BY <1>1, <2>1, InputsSame
  <2> QED  BY <1>2, <1>5, <2>1, <2>2, SelectsIs DEF NoOutputCorpus
<1>6. CASE m = "collect_data_flow"
  <2>1. {"collect_data_flow", "data_flow_trace", "fork", "merge", "set_cover_merge"} \subseteq FlagsOf(m)
    BY <1>6 DEF FlagsOf
  <2>2. Merges(b) = Merges(a)
    BY <1>2, <2>1 DEF Merges
  <2> QED  BY <1>2, <1>6, <2>1, <2>2, SelectsIs
<1>7. CASE m = "files"
  <2>1. "path" \in FlagsOf(m)
    BY <1>7 DEF FlagsOf
  <2>2. Inputs(b) = Inputs(a)
    BY <1>1, <2>1, InputsSame
  <2> QED  BY <1>7, <2>2, SelectsIs DEF AllInputsAreFiles
<1>8. CASE m = "merge"
  <2>1. "merge" \in FlagsOf(m) /\ "set_cover_merge" \in FlagsOf(m)
    BY <1>8 DEF FlagsOf
  <2> QED  BY <1>2, <1>8, <2>1, SelectsIs DEF Merges
<1> QED  BY <1>3, <1>4, <1>5, <1>6, <1>7, <1>8

(* Except for two modes the files do not matter.                           *)
LEMMA SelectsAnywhere ==
  ASSUME NEW a, NEW fs, NEW gs, NEW m \in NumModes \cup {"jobs", "collect_data_flow", "merge"}
  PROVE  Selects(m, a, fs) <=> Selects(m, a, gs)
BY DEF Selects, NumModes

(* Two operations change the flags of both.                                *)
LEMMA KeepsBoth ==
  ASSUME NEW a, NEW b, NEW c, NEW F, NEW G, NEW H, Keeps(a, b, F), Keeps(b, c, G), F \cup G \subseteq H
  PROVE  Keeps(a, c, H)
BY DEF Keeps

(* RemoveFlags keeps the other flags.                                      *)
LEMMA RemovedKeeps ==
  ASSUME NEW U, NEW a \in Seq(U), NEW F
  PROVE  /\ RemoveFlags(a, F) \in Seq(U) /\ Keeps(a, RemoveFlags(a, F), F)
         /\ \A f \in F : Given(RemoveFlags(a, F), f) = <<>>
BY RemovedIs DEF Keeps

(* RemovePaths keeps all flags.                                            *)
LEMMA UnpathedKeeps ==
  ASSUME NEW U, NEW a \in Seq(U), NEW P
  PROVE  RemovePaths(a, P) \in Seq(U) /\ Keeps(a, RemovePaths(a, P), {"path"})
BY UnpathedIs DEF Keeps

(* One argument more: the last of its flag.                                *)
Comes(a, b, x) == Given(b, x.flag) = Append(Given(a, x.flag), x)

(* The last value of a flag counts.                                        *)
LEMMA ComesLast ==
  ASSUME NEW U, NEW a \in Seq(U), NEW x \in U, NEW b, Comes(a, b, x)
  PROVE  Num(b, x.flag) = x.value /\ Str(b, x.flag) = x.value
<1>1. Given(a, x.flag) \in Seq(U) /\ Given(b, x.flag) = Append(Given(a, x.flag), x)
  BY GivenIs DEF Comes
<1> DEFINE g == Given(a, x.flag)
<1>2. g \in Seq(U) => Append(g, x) # <<>> /\ Last(Append(g, x)) = x
  <2> HIDE DEF g
  <2> QED  BY DEF Last
<1> QED  BY <1>1, <1>2 DEF Num, Str, ValueOf

(* One argument is added.                                                  *)
LEMMA AddedOne ==
  ASSUME NEW U, NEW a \in Seq(U), NEW x \in U, x # IgnoreRemainingArgs,
         NEW b, b = AddArgument(a, x)
  PROVE  b \in Seq(U) /\ Keeps(a, b, {x.flag}) /\ Comes(a, b, x)
<1> DEFINE xs == <<x>>
           f == x.flag
<1>1. x \in U /\ x.flag = f /\ x # IgnoreRemainingArgs
  OBVIOUS
<1> HIDE DEF f
<1>2. xs \in Seq(U) /\ DOMAIN xs = 1..1 /\ xs[1] = x
  <2>1. Append(<<>>, x) = <<x>> /\ <<>> \in Seq(U) /\ Len(<<>>) = 0
    OBVIOUS
  <2> QED  BY <1>1, <2>1
<1>3. b = AddArguments(a, xs)
  BY DEF AddArgument
<1> HIDE DEF xs
<1>4. Unmarked(xs)
  BY <1>1, <1>2 DEF Unmarked
<1>5. {xs[i].flag : i \in DOMAIN xs} = {f}
  BY <1>1, <1>2
<1>6. /\ AddArguments(a, xs) \in Seq(U)
      /\ Keeps(a, AddArguments(a, xs), {xs[i].flag : i \in DOMAIN xs})
      /\ \A i \in DOMAIN xs :
           (\A j \in DOMAIN xs : xs[j].flag = xs[i].flag => j = i) =>
             Given(AddArguments(a, xs), xs[i].flag) = Append(Given(a, xs[i].flag), xs[i])
  BY <1>2, <1>4, AddedFlags
<1>7. 1 \in DOMAIN xs /\ \A j \in DOMAIN xs : j = 1
  BY <1>2
<1>8. Given(AddArguments(a, xs), f) = Append(Given(a, f), x)
  BY <1>1, <1>2, <1>6, <1>7
<1> QED  BY <1>3, <1>5, <1>6, <1>8 DEF f, Comes

(* Two arguments of different flags are added.                             *)
LEMMA AddedTwo ==
  ASSUME NEW U, NEW a \in Seq(U), NEW x \in U, NEW y \in U, x.flag # y.flag,
         x # IgnoreRemainingArgs, y # IgnoreRemainingArgs, NEW b, b = AddArguments(a, <<x, y>>)
  PROVE  b \in Seq(U) /\ Keeps(a, b, {x.flag, y.flag}) /\ Comes(a, b, x) /\ Comes(a, b, y)
<1> DEFINE xs == <<x, y>>
           f == x.flag
           g == y.flag
<1>1. /\ x \in U /\ x.flag = f /\ x # IgnoreRemainingArgs
      /\ y \in U /\ y.flag = g /\ y # IgnoreRemainingArgs /\ f # g
  OBVIOUS
<1> HIDE DEF f, g
<1>2. xs \in Seq(U) /\ DOMAIN xs = 1..2 /\ xs[1] = x /\ xs[2] = y
  BY <1>1
<1>3. b = AddArguments(a, xs)
  OBVIOUS
<1> HIDE DEF xs
<1>4. \A i \in DOMAIN xs : i = 1 \/ i = 2
  BY <1>2
<1>5. Unmarked(xs)
  BY <1>1, <1>2, <1>4 DEF Unmarked
<1>6. {xs[i].flag : i \in DOMAIN xs} = {f, g}
  BY <1>1, <1>2, <1>4
<1>7. /\ AddArguments(a, xs) \in Seq(U)
      /\ Keeps(a, AddArguments(a, xs), {xs[i].flag : i \in DOMAIN xs})
      /\ \A i \in DOMAIN xs :
           (\A j \in DOMAIN xs : xs[j].flag = xs[i].flag => j = i) =>
             Given(AddArguments(a, xs), xs[i].flag) = Append(Given(a, xs[i].flag), xs[i])
  BY <1>2, <1>5, AddedFlags
<1>8. /\ 1 \in DOMAIN xs /\ 2 \in DOMAIN xs
      /\ \A j \in DOMAIN xs : (xs[j].flag = f => j = 1) /\ (xs[j].flag = g => j = 2)
  BY <1>1, <1>2, <1>4
<1>9. Given(AddArguments(a, xs), f) = Append(Given(a, f), x)
  BY <1>1, <1>2, <1>7, <1>8
<1>10. Given(AddArguments(a, xs), g) = Append(Given(a, g), y)
  BY <1>1, <1>2, <1>7, <1>8
<1> QED  BY <1>3, <1>6, <1>7, <1>9, <1>10 DEF f, g, Comes

(* Three arguments of different flags are added.                           *)
LEMMA AddedThree ==
  ASSUME NEW U, NEW a \in Seq(U), NEW x \in U, NEW y \in U, NEW z \in U,
         x.flag # y.flag, x.flag # z.flag, y.flag # z.flag,
         x # IgnoreRemainingArgs, y # IgnoreRemainingArgs, z # IgnoreRemainingArgs,
         NEW b, b = AddArguments(a, <<x, y, z>>)
  PROVE  b \in Seq(U) /\ Keeps(a, b, {x.flag, y.flag, z.flag}) /\ Comes(a, b, z)
<1> DEFINE xs == <<x, y, z>>
           f == x.flag
           g == y.flag
           h == z.flag
<1>1. /\ x \in U /\ x.flag = f /\ x # IgnoreRemainingArgs
      /\ y \in U /\ y.flag = g /\ y # IgnoreRemainingArgs
      /\ z \in U /\ z.flag = h /\ z # IgnoreRemainingArgs /\ f # g /\ f # h /\ g # h
  OBVIOUS
<1> HIDE DEF f, g, h
<1>2. xs \in Seq(U) /\ DOMAIN xs = 1..3 /\ xs[1] = x /\ xs[2] = y /\ xs[3] = z
  BY <1>1
<1>3. b = AddArguments(a, xs)
  OBVIOUS
<1> HIDE DEF xs
<1>4. \A i \in DOMAIN xs : i = 1 \/ i = 2 \/ i = 3
  BY <1>2
<1>5. Unmarked(xs)
  BY <1>1, <1>2, <1>4 DEF Unmarked
<1>6. {xs[i].flag : i \in DOMAIN xs} = {f, g, h}
  BY <1>1, <1>2, <1>4
<1>7. /\ AddArguments(a, xs) \in Seq(U)
      /\ Keeps(a, AddArguments(a, xs), {xs[i].flag : i \in DOMAIN xs})
      /\ \A i \in DOMAIN xs :
           (\A j \in DOMAIN xs : xs[j].flag = xs[i].flag => j = i) =>
             Given(AddArguments(a, xs), xs[i].flag) = Append(Given(a, xs[i].flag), xs[i])
  BY <1>2, <1>5, AddedFlags
<1>8. 3 \in DOMAIN xs /\ \A j \in DOMAIN xs : xs[j].flag = h => j = 3
  BY <1>1, <1>2, <1>4
<1>9. Given(AddArguments(a, xs), h) = Append(Given(a, h), z)
  BY <1>1, <1>2, <1>7, <1>8
<1> QED  BY <1>3, <1>6, <1>7, <1>9 DEF f, g, h, Comes

(* A child of -jobs mode has neither jobs nor workers: it does not start   *)
(* jobs.                                                                   *)
LEMMA JobChild ==
  ASSUME NEW U, args \in Seq(U), ~Selects("help", args, files)
  PROVE  Rank(ModeOf(JobArgs, files)) > 2
<1> DEFINE b == JobArgs
<1>1. Keeps(args, b, {"jobs", "workers"}) /\ Given(b, "jobs") = <<>>
  BY RemovedKeeps DEF JobArgs
<1> HIDE DEF b
<1>2. ~Selects("help", b, files)
  <2>1. "help" \in NumModes /\ FlagsOf("help") \cap {"jobs", "workers"} = {}
    BY DEF NumModes, FlagsOf
  <2> QED  BY <1>1, <2>1, SelectsKept
<1>3. ~Selects("jobs", b, files)
  <2>1. Num(b, "jobs") = 0
    BY <1>1 DEF Num, ValueOf
  <2> QED  BY <2>1, SelectsIs
<1>4. \A j \in 1..2 : ~Selects(Modes[j], b, files)
  <2>1. \A j \in 1..2 : j = 1 \/ j = 2
    OBVIOUS
  <2> QED  BY <1>2, <1>3, <2>1, ModesAre
<1> QED  BY <1>4, RankAbove DEF b

(* A path is added: the last input.                                        *)
LEMMA AddedPath ==
  ASSUME NEW U, NEW a \in Seq(U), NEW p, Path(p) \in U, NEW b, b = AddArgument(a, Path(p))
  PROVE  /\ b \in Seq(U) /\ Keeps(a, b, {"path"})
         /\ Given(b, "path") = Append(Given(a, "path"), Path(p))
<1> DEFINE x == Path(p)
<1>1. x \in U /\ x.flag = "path" /\ x # IgnoreRemainingArgs /\ b = AddArgument(a, x)
  BY DEF Path, Arg, IgnoreRemainingArgs
<1> HIDE DEF x
<1>2. b \in Seq(U) /\ Keeps(a, b, {x.flag})
  BY <1>1, AddedOne
<1>3. Comes(a, b, x)
  BY <1>1, AddedOne
<1> QED  BY <1>1, <1>2, <1>3 DEF x, Comes

(* The default of max_total_time touches no other flag.                    *)
LEMMA BudgetKeeps ==
  ASSUME NEW U, NEW a \in Seq(U), Arg("max_total_time", 600) \in U
  PROVE  DefaultBudget(a) \in Seq(U) /\ Keeps(a, DefaultBudget(a), {"max_total_time"})
<1> DEFINE x == Arg("max_total_time", 600)
           b == AddArgument(a, x)
<1>1. x \in U /\ x.flag = "max_total_time" /\ x # IgnoreRemainingArgs
  BY DEF Arg, IgnoreRemainingArgs
<1> HIDE DEF x
<1>2. b \in Seq(U) /\ Keeps(a, b, {x.flag})
  BY <1>1, AddedOne
<1>3. DefaultBudget(a) = a \/ DefaultBudget(a) = b
  BY DEF DefaultBudget, x
<1>4. Keeps(a, a, {x.flag})
  BY DEF Keeps
<1> HIDE DEF b
<1> QED  BY <1>1, <1>2, <1>3, <1>4

(* The arguments of a minimisation step.                                   *)
LEMMA AddedStep ==
  ASSUME NEW U, NEW a \in Seq(U), NEW p,
         NEW x, x = Arg("minimize_crash_internal_step", 1),
         NEW y, y = Arg("exact_artifact_path", p), x \in U, y \in U,
         NEW b, b = AddArguments(a, <<x, y>>)
  PROVE  /\ b \in Seq(U) /\ Keeps(a, b, {"minimize_crash_internal_step", "exact_artifact_path"})
         /\ Num(b, "minimize_crash_internal_step") = 1 /\ Str(b, "exact_artifact_path") = p
<1>1. /\ x.flag = "minimize_crash_internal_step" /\ y.flag = "exact_artifact_path"
      /\ x.value = 1 /\ y.value = p
      /\ x # IgnoreRemainingArgs /\ y # IgnoreRemainingArgs /\ x.flag # y.flag
  BY DEF Arg, IgnoreRemainingArgs
<1>2. b \in Seq(U) /\ Keeps(a, b, {x.flag, y.flag}) /\ Comes(a, b, x) /\ Comes(a, b, y)
  BY <1>1, AddedTwo
<1>3. Num(b, x.flag) = x.value
  BY <1>2, ComesLast
<1>4. Str(b, y.flag) = y.value
  BY <1>2, ComesLast
<1> QED  BY <1>1, <1>2, <1>3, <1>4

(* The child of a minimisation that executes the current file.             *)
LEMMA MinimizeChild ==
  ASSUME NEW U, args \in Seq(U), Len(Inputs(args)) = 1
  PROVE  /\ CurrentArgs \in Seq(U \cup {Arg("max_total_time", 600), Path(local.current)})
         /\ Keeps(args, CurrentArgs, {"minimize_crash", "exact_artifact_path", "path", "max_total_time"})
         /\ Given(CurrentArgs, "minimize_crash") = <<>> /\ Given(CurrentArgs, "exact_artifact_path") = <<>>
         /\ Given(CurrentArgs, "path") = Append(<<>>, Path(local.current))
<1> DEFINE V == U \cup {Arg("max_total_time", 600), Path(local.current)}
           F == {"minimize_crash", "exact_artifact_path"}
           b == RemoveFlags(args, F)
           c == RemovePaths(b, {InputFile})
           d == DefaultBudget(c)
<1>0. args \in Seq(V)
  OBVIOUS
<1> HIDE DEF V
<1>1. b \in Seq(V) /\ Keeps(args, b, F) /\ \A f \in F : Given(b, f) = <<>>
  BY <1>0, RemovedKeeps
<1> HIDE DEF b
<1>2. /\ c \in Seq(V) /\ Keeps(b, c, {"path"})
      /\ (\A i \in DOMAIN Given(b, "path") : Given(b, "path")[i].value \in {InputFile}) => Given(c, "path") = <<>>
  <2>1. c \in Seq(V) /\ Keeps(b, c, {"path"})
    BY <1>1, UnpathedKeeps
  <2>2. (\A i \in DOMAIN Given(b, "path") : Given(b, "path")[i].value \in {InputFile}) => Given(c, "path") = <<>>
    BY <1>1, UnpathedIs
  <2> QED  BY <2>1, <2>2
<1> HIDE DEF c
<1>3. Given(b, "path") = Given(args, "path")
  BY <1>1 DEF Keeps
<1>4. Given(c, "path") = <<>>
  <2> DEFINE g == Given(args, "path")
  <2>1. g \in Seq(V)
    BY <1>0, GivenIs
  <2>2. Len(Inputs(args)) = Len(g) /\ \A i \in DOMAIN g : Inputs(args)[i] = g[i].value
    BY <2>1, InputsAre
  <2> HIDE DEF g
  <2>3. \A i \in DOMAIN g : i = 1
    <3>1. Len(g) = 1
      BY <2>2
    <3>2. DOMAIN g = 1..Len(g)
      BY <2>1
    <3> QED  BY <3>1, <3>2
  <2>4. \A i \in DOMAIN g : g[i].value = InputFile
    BY <2>2, <2>3 DEF InputFile
  <2> QED  BY <1>2, <1>3, <2>4 DEF g
<1>5. d \in Seq(V) /\ Keeps(c, d, {"max_total_time"})
  <2>1. Arg("max_total_time", 600) \in V
    BY DEF V
  <2>2. c \in Seq(V)
    BY <1>2
  <2> QED  BY <2>1, <2>2, BudgetKeeps
<1>6. MinimizeArgs = d
  BY DEF MinimizeArgs, b, c
<1> HIDE DEF d
<1> DEFINE e == CurrentArgs
<1>7. /\ e \in Seq(V) /\ Keeps(d, e, {"path"})
      /\ Given(e, "path") = Append(Given(d, "path"), Path(local.current))
  <2>1. Path(local.current) \in V
    BY DEF V
  <2>2. e = AddArgument(d, Path(local.current))
    BY <1>6 DEF CurrentArgs
  <2> HIDE DEF e
  <2>3. d \in Seq(V)
    BY <1>5
  <2> QED  BY <2>1, <2>2, <2>3, AddedPath
<1> HIDE DEF e
<1>8. Given(d, "path") = <<>>
  BY <1>4, <1>5 DEF Keeps
<1>9. Given(e, "minimize_crash") = <<>> /\ Given(e, "exact_artifact_path") = <<>>
  BY <1>1, <1>2, <1>5, <1>7 DEF Keeps
<1>10. Keeps(args, e, {"minimize_crash", "exact_artifact_path", "path", "max_total_time"})
  BY <1>1, <1>2, <1>5, <1>7 DEF Keeps
<1> QED  BY <1>7, <1>8, <1>9, <1>10 DEF e, V

(* The child of a minimisation that shortens the current file.             *)
LEMMA StepChild ==
  ASSUME NEW U, args \in Seq(U), Len(Inputs(args)) = 1
  PROVE  /\ Keeps(args, StepArgs, {"minimize_crash", "exact_artifact_path", "path", "max_total_time",
                                   "minimize_crash_internal_step"})
         /\ Given(StepArgs, "minimize_crash") = <<>>
         /\ Num(StepArgs, "minimize_crash_internal_step") = 1
         /\ Str(StepArgs, "exact_artifact_path") = ArtifactPath
         /\ Given(StepArgs, "path") = Append(<<>>, Path(local.current))
<1> DEFINE x == Arg("minimize_crash_internal_step", 1)
           y == Arg("exact_artifact_path", ArtifactPath)
           V == U \cup {Arg("max_total_time", 600), Path(local.current)} \cup {x, y}
           b == CurrentArgs
           c == StepArgs
<1>1. /\ b \in Seq(U \cup {Arg("max_total_time", 600), Path(local.current)})
      /\ Keeps(args, b, {"minimize_crash", "exact_artifact_path", "path", "max_total_time"})
      /\ Given(b, "minimize_crash") = <<>> /\ Given(b, "exact_artifact_path") = <<>>
      /\ Given(b, "path") = Append(<<>>, Path(local.current))
  BY MinimizeChild
<1>2. b \in Seq(V) /\ x \in V /\ y \in V
  <2> HIDE DEF b
  <2> QED  BY <1>1
<1>3. /\ c \in Seq(V) /\ Keeps(b, c, {"minimize_crash_internal_step", "exact_artifact_path"})
      /\ Num(c, "minimize_crash_internal_step") = 1 /\ Str(c, "exact_artifact_path") = ArtifactPath
  <2>1. c = AddArguments(b, <<x, y>>)
    BY DEF StepArgs
  <2>2. x = Arg("minimize_crash_internal_step", 1) /\ y = Arg("exact_artifact_path", ArtifactPath)
    OBVIOUS
  <2> HIDE DEF b, c, V, x, y
  <2> QED  BY <1>2, <2>1, <2>2, AddedStep
<1> HIDE DEF b, c
<1>4. Given(c, "minimize_crash") = <<>> /\ Given(c, "path") = Append(<<>>, Path(local.current))
  BY <1>1, <1>3 DEF Keeps
<1>5. Keeps(args, c, {"minimize_crash", "exact_artifact_path", "path", "max_total_time",
                      "minimize_crash_internal_step"})
  BY <1>1, <1>3 DEF Keeps
<1> QED  BY <1>3, <1>4, <1>5 DEF c

(* The first n modes are not selected, except perhaps those that depend on *)
(* the files.                                                              *)
Passed(n, a, fs) == \A j \in 1..n : j \notin {3, 8} => ~Selects(Modes[j], a, fs)

(* A mode that was passed is not selected by a command line that keeps its *)
(* flags.                                                                  *)
LEMMA PassedKept ==
  ASSUME NEW a, NEW b, NEW F, Keeps(a, b, F), NEW fs, NEW gs, NEW n \in 1..10, Passed(n, a, fs),
         NEW m \in NumModes \cup {"jobs", "collect_data_flow", "merge"},
         FlagsOf(m) \cap F = {}, NEW j \in 1..n, m = Modes[j]
  PROVE  ~Selects(m, b, gs)
<1>1. j \notin {3, 8}
  <2>1. m # "invalid" /\ m # "files"
    BY DEF NumModes
  <2> QED  BY <2>1, ModesAre
<1>2. ~Selects(m, a, fs)
  BY <1>1 DEF Passed
<1>3. ~Selects(m, b, fs)
  BY <1>2, SelectsKept
<1> QED  BY <1>3, SelectsAnywhere

(* A child with one input that is a file executes files.                   *)
LEMMA Inside ==
  ASSUME NEW b, NEW p, Given(b, "path") = Append(<<>>, Path(p)), NEW fs, p \in DOMAIN fs
  PROVE  ~Selects("invalid", b, fs) /\ Selects("files", b, fs)
<1>1. Inputs(b)[1] = p /\ ToSet(Inputs(b)) = {p} /\ Inputs(b) # <<>>
  BY OneInput
<1> QED  BY <1>1, SelectsIs DEF NoOutputCorpus, AllInputsAreFiles

(* The first child of a minimisation step executes its file, unless the    *)
(* user asked for another mode behind -minimize_crash.                     *)
LEMMA CurrentMode ==
  ASSUME NEW U, args \in Seq(U), Len(Inputs(args)) = 1, NEW fs, Passed(4, args, fs),
         local.current \in DOMAIN files
  PROVE  /\ Rank(ModeOf(CurrentArgs, files)) > 5
         /\ Num(args, "minimize_crash_internal_step") = 0 /\ Num(args, "cleanse_crash") = 0
              => ModeOf(CurrentArgs, files) = "files"
<1> DEFINE b == CurrentArgs
           F == {"minimize_crash", "exact_artifact_path", "path", "max_total_time"}
<1>1. /\ Keeps(args, b, F) /\ Given(b, "minimize_crash") = <<>>
      /\ Given(b, "path") = Append(<<>>, Path(local.current))
  BY MinimizeChild
<1> HIDE DEF b
<1>2. ASSUME NEW j \in {1, 2, 4} PROVE ~Selects(Modes[j], b, files)
  <2> DEFINE m == Modes[j]
  <2>1. m \in {"help", "jobs", "collect_data_flow"}
    BY ModesAre
  <2>2. m = Modes[j] /\ j \in 1..4 /\ 4 \in 1..10
    OBVIOUS
  <2> HIDE DEF m
  <2>3. m \in NumModes \cup {"jobs", "collect_data_flow", "merge"}
    BY <2>1 DEF NumModes
  <2>4. FlagsOf(m) \cap F = {}
    BY <2>1 DEF FlagsOf
  <2>5. ~Selects(m, b, files)
    BY <1>1, <2>2, <2>3, <2>4, PassedKept
  <2> QED  BY <2>5 DEF m
<1>4. ~Selects("invalid", b, files) /\ Selects("files", b, files)
  BY <1>1, Inside
<1>6. ~Selects("minimize_crash", b, files)
  <2>1. Num(b, "minimize_crash") = 0
    BY <1>1 DEF Num, ValueOf
  <2> QED  BY <2>1, SelectsIs
<1>7. Rank(ModeOf(b, files)) > 5
  <2>1. \A j \in 1..5 : j = 1 \/ j = 2 \/ j = 3 \/ j = 4 \/ j = 5
    OBVIOUS
  <2>2. \A j \in 1..5 : ~Selects(Modes[j], b, files)
    BY <1>2, <1>4, <1>6, <2>1, ModesAre
  <2> QED  BY <2>2, RankAbove
<1>8. ASSUME Num(args, "minimize_crash_internal_step") = 0, Num(args, "cleanse_crash") = 0
      PROVE  ModeOf(b, files) = "files"
  <2>1. /\ Given(b, "minimize_crash_internal_step") = Given(args, "minimize_crash_internal_step")
        /\ Given(b, "cleanse_crash") = Given(args, "cleanse_crash")
    BY <1>1 DEF Keeps
  <2>2. Num(b, "minimize_crash_internal_step") = 0 /\ Num(b, "cleanse_crash") = 0
    BY <1>8, <2>1, ValueSame
  <2>3. ~Selects("minimize_crash_internal_step", b, files) /\ ~Selects("cleanse_crash", b, files)
    BY <2>2, SelectsIs
  <2>4. \A j \in 1..8 - 1 : j = 1 \/ j = 2 \/ j = 3 \/ j = 4 \/ j = 5 \/ j = 6 \/ j = 7
    OBVIOUS
  <2>5. \A j \in 1..8 - 1 : ~Selects(Modes[j], b, files)
    BY <1>2, <1>4, <1>6, <2>3, <2>4, ModesAre
  <2>6. Selects(Modes[8], b, files)
    BY <1>4, ModesAre
  <2>7. ModeOf(b, files) = Modes[8]
    BY <2>5, <2>6, ModeFirst
  <2> QED  BY <2>7, ModesAre
<1> QED  BY <1>7, <1>8 DEF b

(* The second child is the internal step.                                  *)
LEMMA StepMode ==
  ASSUME NEW U, args \in Seq(U), Len(Inputs(args)) = 1, NEW fs, Passed(4, args, fs)
  PROVE  ModeOf(StepArgs, files) = "minimize_crash_internal_step"
<1> DEFINE b == StepArgs
           F == {"minimize_crash", "exact_artifact_path", "path", "max_total_time",
                 "minimize_crash_internal_step"}
<1>1. /\ Keeps(args, b, F) /\ Given(b, "minimize_crash") = <<>>
      /\ Num(b, "minimize_crash_internal_step") = 1
  BY StepChild
<1> HIDE DEF b
<1>2. ASSUME NEW j \in {1, 2, 4} PROVE ~Selects(Modes[j], b, files)
  <2> DEFINE m == Modes[j]
  <2>1. m \in {"help", "jobs", "collect_data_flow"}
    BY ModesAre
  <2>2. m = Modes[j] /\ j \in 1..4 /\ 4 \in 1..10
    OBVIOUS
  <2> HIDE DEF m
  <2>3. m \in NumModes \cup {"jobs", "collect_data_flow", "merge"}
    BY <2>1 DEF NumModes
  <2>4. FlagsOf(m) \cap F = {}
    BY <2>1 DEF FlagsOf
  <2>5. ~Selects(m, b, files)
    BY <1>1, <2>2, <2>3, <2>4, PassedKept
  <2> QED  BY <2>5 DEF m
<1>4. ~Selects("invalid", b, files)
  BY <1>1, SelectsIs DEF NoOutputCorpus
<1>6. ~Selects("minimize_crash", b, files)
  <2>1. Num(b, "minimize_crash") = 0
    BY <1>1 DEF Num, ValueOf
  <2> QED  BY <2>1, SelectsIs
<1>7. \A j \in 1..6 - 1 : ~Selects(Modes[j], b, files)
  <2>1. \A j \in 1..6 - 1 : j = 1 \/ j = 2 \/ j = 3 \/ j = 4 \/ j = 5
    OBVIOUS
  <2> QED  BY <1>2, <1>4, <1>6, <2>1, ModesAre
<1>8. Selects(Modes[6], b, files)
  BY <1>1, ModesAre, SelectsIs
<1>9. ModeOf(b, files) = Modes[6]
  BY <1>7, <1>8, ModeFirst
<1> QED  BY <1>9, ModesAre DEF b

(* RemovePaths of the only input leaves none.                              *)
LEMMA OneUnpathed ==
  ASSUME NEW U, NEW b \in Seq(U), Given(b, "path") = Given(args, "path"), Len(Inputs(args)) = 1
  PROVE  Given(RemovePaths(b, {InputFile}), "path") = <<>>
<1> DEFINE g == Given(b, "path")
           c == RemovePaths(b, {InputFile})
<1>1. g \in Seq(U)
  BY GivenIs
<1>2. Inputs(b) = Inputs(args)
  BY InputsSame
<1>3. Len(Inputs(args)) = Len(g) /\ \A i \in DOMAIN g : Inputs(args)[i] = g[i].value
  BY <1>1, <1>2, InputsAre
<1>4. (\A i \in DOMAIN g : g[i].value \in {InputFile}) => Given(c, "path") = <<>>
  BY UnpathedIs
<1> HIDE DEF g, c
<1>5. \A i \in DOMAIN g : i = 1
  <2>1. Len(g) = 1
    BY <1>3
  <2>2. DOMAIN g = 1..Len(g)
    BY <1>1
  <2> QED  BY <2>1, <2>2
<1>6. \A i \in DOMAIN g : g[i].value = InputFile
  BY <1>3, <1>5 DEF InputFile
<1> QED  BY <1>4, <1>6 DEF c

(* The child of a cleansing: its input is the trial file.                  *)
LEMMA CleanseChild ==
  ASSUME NEW U, args \in Seq(U), Len(Inputs(args)) = 1
  PROVE  /\ Keeps(args, CleanseArgs, {"cleanse_crash", "path"})
         /\ Given(CleanseArgs, "cleanse_crash") = <<>>
         /\ Given(CleanseArgs, "path") = Append(<<>>, Path(<<"tmp">>))
<1> DEFINE V == U \cup {Path(<<"tmp">>)}
           F == {"cleanse_crash"}
           b == RemoveFlags(args, F)
           c == RemovePaths(b, {InputFile})
           d == CleanseArgs
<1>0. args \in Seq(V) /\ Path(<<"tmp">>) \in V
  OBVIOUS
<1> HIDE DEF V
<1>1. b \in Seq(V) /\ Keeps(args, b, F) /\ \A f \in F : Given(b, f) = <<>>
  BY <1>0, RemovedKeeps
<1> HIDE DEF b
<1>2. c \in Seq(V) /\ Keeps(b, c, {"path"})
  BY <1>1, UnpathedKeeps
<1>3. Given(c, "path") = <<>>
  <2>1. Given(b, "path") = Given(args, "path")
    BY <1>1 DEF Keeps
  <2> QED  BY <1>1, <2>1, OneUnpathed
<1>4. d = AddArgument(c, Path(<<"tmp">>))
  BY DEF CleanseArgs, b
<1> HIDE DEF c, d
<1>5. Keeps(c, d, {"path"}) /\ Given(d, "path") = Append(Given(c, "path"), Path(<<"tmp">>))
  BY <1>0, <1>2, <1>4, AddedPath
<1>6. Given(d, "cleanse_crash") = <<>>
  BY <1>1, <1>2, <1>5 DEF Keeps
<1>7. Keeps(args, d, {"cleanse_crash", "path"})
  BY <1>1, <1>2, <1>5 DEF Keeps
<1> QED  BY <1>3, <1>5, <1>6, <1>7 DEF d

(* The child of a cleansing executes its file.                             *)
LEMMA CleanseMode ==
  ASSUME NEW U, args \in Seq(U), Len(Inputs(args)) = 1, NEW gs, Passed(6, args, gs),
         NEW fs, <<"tmp">> \in DOMAIN fs
  PROVE  ModeOf(CleanseArgs, fs) = "files"
<1> DEFINE b == CleanseArgs
           F == {"cleanse_crash", "path"}
<1>1. /\ Keeps(args, b, F) /\ Given(b, "cleanse_crash") = <<>>
      /\ Given(b, "path") = Append(<<>>, Path(<<"tmp">>))
  BY CleanseChild
<1> HIDE DEF b
<1>2. ASSUME NEW j \in {1, 2, 4, 5, 6} PROVE ~Selects(Modes[j], b, fs)
  <2> DEFINE m == Modes[j]
  <2>1. m \in {"help", "jobs", "collect_data_flow", "minimize_crash", "minimize_crash_internal_step"}
    BY ModesAre
  <2>2. m = Modes[j] /\ j \in 1..6 /\ 6 \in 1..10
    OBVIOUS
  <2> HIDE DEF m
  <2>3. m \in NumModes \cup {"jobs", "collect_data_flow", "merge"}
    BY <2>1 DEF NumModes
  <2>4. FlagsOf(m) \cap F = {}
    BY <2>1 DEF FlagsOf
  <2>5. ~Selects(m, b, fs)
    BY <1>1, <2>2, <2>3, <2>4, PassedKept
  <2> QED  BY <2>5 DEF m
<1>4. ~Selects("invalid", b, fs) /\ Selects("files", b, fs)
  BY <1>1, Inside
<1>8. ~Selects("cleanse_crash", b, fs)
  <2>1. Num(b, "cleanse_crash") = 0
    BY <1>1 DEF Num, ValueOf
  <2> QED  BY <2>1, SelectsIs
<1>9. \A j \in 1..8 - 1 : ~Selects(Modes[j], b, fs)
  <2>1. \A j \in 1..8 - 1 : j = 1 \/ j = 2 \/ j = 3 \/ j = 4 \/ j = 5 \/ j = 6 \/ j = 7
    OBVIOUS
  <2> QED  BY <1>2, <1>4, <1>8, <2>1, ModesAre
<1>10. Selects(Modes[8], b, fs)
  BY <1>4, ModesAre
<1>11. ModeOf(b, fs) = Modes[8]
  BY <1>9, <1>10, ModeFirst
<1> QED  BY <1>11, ModesAre DEF b

(* The child of a merge: it has none of the flags of fork and merge mode.  *)
LEMMA MergeChild ==
  ASSUME NEW U, args \in Seq(U)
  PROVE  /\ Keeps(args, MergeArgs, {"merge", "set_cover_merge", "fork", "collect_data_flow",
                                    "merge_control_file", "merge_inner"})
         /\ Given(MergeArgs, "merge") = <<>> /\ Given(MergeArgs, "set_cover_merge") = <<>>
         /\ Given(MergeArgs, "fork") = <<>> /\ Given(MergeArgs, "collect_data_flow") = <<>>
<1> DEFINE x == Arg("merge_control_file", <<"control">>)
           y == Arg("merge_inner", IF Num(args, "set_cover_merge") # 0 THEN 2 ELSE 1)
           V == U \cup {x, y}
           F == {"merge", "set_cover_merge", "fork", "collect_data_flow"}
           b == RemoveFlags(args, F)
           c == MergeArgs
<1>0. args \in Seq(V) /\ x \in V /\ y \in V
  <2> HIDE DEF x, y
  <2> QED  OBVIOUS
<1>1. c = AddArguments(b, <<x, y>>)
  BY DEF MergeArgs
<1>2. /\ x.flag = "merge_control_file" /\ y.flag = "merge_inner"
      /\ x # IgnoreRemainingArgs /\ y # IgnoreRemainingArgs /\ x.flag # y.flag
  BY DEF Arg, IgnoreRemainingArgs
<1> HIDE DEF V, x, y, c
<1>3. b \in Seq(V) /\ Keeps(args, b, F) /\ \A f \in F : Given(b, f) = <<>>
  BY <1>0, RemovedKeeps
<1> HIDE DEF b
<1>4. Keeps(b, c, {x.flag, y.flag})
  BY <1>0, <1>1, <1>2, <1>3, AddedTwo
<1>5. Keeps(b, c, {"merge_control_file", "merge_inner"})
  BY <1>2, <1>4
<1>6. Keeps(args, c, {"merge", "set_cover_merge", "fork", "collect_data_flow",
                      "merge_control_file", "merge_inner"})
  BY <1>3, <1>5 DEF Keeps
<1>7. \A f \in F : Given(c, f) = <<>>
  BY <1>3, <1>5 DEF Keeps
<1> QED  BY <1>6, <1>7 DEF c

(* The child of a merge is the inner process or comes after it.            *)
LEMMA MergeMode ==
  ASSUME NEW U, args \in Seq(U), NEW n \in {8, 9}, \A j \in 1..n : ~Selects(Modes[j], args, files)
  PROVE  Rank(ModeOf(MergeArgs, files)) > 10
<1> DEFINE b == MergeArgs
           F == {"merge", "set_cover_merge", "fork", "collect_data_flow",
                 "merge_control_file", "merge_inner"}
<1>1. /\ Keeps(args, b, F) /\ Given(b, "merge") = <<>> /\ Given(b, "set_cover_merge") = <<>>
      /\ Given(b, "fork") = <<>> /\ Given(b, "collect_data_flow") = <<>>
  BY MergeChild
<1> HIDE DEF b
<1>2. /\ Num(b, "merge") = 0 /\ Num(b, "set_cover_merge") = 0 /\ Num(b, "fork") = 0
      /\ Str(b, "collect_data_flow") = None
  BY <1>1 DEF Num, Str, ValueOf
<1>3. /\ ~Selects("collect_data_flow", b, files) /\ ~Selects("fork", b, files)
      /\ ~Selects("merge", b, files)
  BY <1>2, SelectsIs DEF Merges
<1>4. ASSUME NEW j \in {1, 2, 3, 5, 6, 7, 8} PROVE ~Selects(Modes[j], b, files)
  <2> DEFINE m == Modes[j]
  <2>1. m \in {"help", "jobs", "invalid", "minimize_crash", "minimize_crash_internal_step",
               "cleanse_crash", "files"}
    BY ModesAre
  <2>2. ~Selects(m, args, files)
    OBVIOUS
  <2> HIDE DEF m
  <2>3. m \in NumModes \cup {"jobs", "invalid", "collect_data_flow", "files", "merge"}
    BY <2>1 DEF NumModes
  <2>4. FlagsOf(m) \cap F = {}
    BY <2>1 DEF FlagsOf
  <2>5. ~Selects(m, b, files)
    BY <1>1, <2>2, <2>3, <2>4, SelectsKept
  <2> QED  BY <2>5 DEF m
<1>5. \A j \in 1..10 : ~Selects(Modes[j], b, files)
  <2>1. \A j \in 1..10 : j \in {1, 2, 3, 5, 6, 7, 8} \/ j = 4 \/ j = 9 \/ j = 10
    OBVIOUS
  <2> QED  BY <1>3, <1>4, <2>1, ModesAre
<1> QED  BY <1>5, RankAbove DEF b

(* RemovePaths of all inputs leaves none.                                  *)
LEMMA AllUnpathed ==
  ASSUME NEW U, NEW b \in Seq(U), Given(b, "path") = Given(args, "path")
  PROVE  Given(RemovePaths(b, ToSet(Inputs(args))), "path") = <<>>
<1> DEFINE g == Given(b, "path")
           P == ToSet(Inputs(args))
           c == RemovePaths(b, P)
<1>1. g \in Seq(U)
  BY GivenIs
<1>2. Inputs(b) = Inputs(args)
  BY InputsSame
<1>3. DOMAIN Inputs(args) = DOMAIN g /\ \A i \in DOMAIN g : Inputs(args)[i] = g[i].value
  BY <1>1, <1>2, InputsAre
<1>4. (\A i \in DOMAIN g : g[i].value \in P) => Given(c, "path") = <<>>
  BY UnpathedIs
<1>5. \A i \in DOMAIN g : g[i].value \in P
  <2> HIDE DEF g
  <2> QED  BY <1>3 DEF ToSet
<1> QED  BY <1>4, <1>5

(* The child of fork mode: its only input is the corpus of the job.        *)
LEMMA EngineChild ==
  ASSUME NEW U, args \in Seq(U)
  PROVE  /\ Keeps(args, EngineArgs, {"fork", "runs", "path", "max_total_time", "seed_inputs"})
         /\ Given(EngineArgs, "fork") = <<>>
         /\ Given(EngineArgs, "path") = Append(<<>>, Path(<<"output">>))
<1> DEFINE x == Arg("max_total_time", 20)
           y == Arg("seed_inputs", local.seeds)
           z == Path(<<"output">>)
           V == U \cup {x, y, z}
           F == {"fork", "runs"}
           b == RemoveFlags(args, F)
           c == RemovePaths(b, ToSet(Inputs(args)))
           d == EngineArgs
<1>0. args \in Seq(V) /\ x \in V /\ y \in V /\ z \in V
  <2> HIDE DEF x, y, z
  <2> QED  OBVIOUS
<1>1. d = AddArguments(c, <<x, y, z>>)
  BY DEF EngineArgs
<1>2. /\ x.flag = "max_total_time" /\ y.flag = "seed_inputs" /\ z.flag = "path"
      /\ x # IgnoreRemainingArgs /\ y # IgnoreRemainingArgs /\ z # IgnoreRemainingArgs
      /\ x.flag # y.flag /\ x.flag # z.flag /\ y.flag # z.flag
  BY DEF Arg, Path, IgnoreRemainingArgs
<1>3. z = Path(<<"output">>)
  OBVIOUS
<1> HIDE DEF V, x, y, z, d
<1>4. b \in Seq(V) /\ Keeps(args, b, F) /\ \A f \in F : Given(b, f) = <<>>
  BY <1>0, RemovedKeeps
<1> HIDE DEF b
<1>5. c \in Seq(V) /\ Keeps(b, c, {"path"})
  BY <1>4, UnpathedKeeps
<1>6. Given(c, "path") = <<>>
  <2>1. Given(b, "path") = Given(args, "path")
    BY <1>4 DEF Keeps
  <2> QED  BY <1>4, <2>1, AllUnpathed
<1> HIDE DEF c
<1>7. Keeps(c, d, {x.flag, y.flag, z.flag}) /\ Comes(c, d, z)
  BY <1>0, <1>1, <1>2, <1>5, AddedThree
<1>8. Keeps(c, d, {"max_total_time", "seed_inputs", "path"})
  BY <1>2, <1>7
<1>9. Given(d, "path") = Append(<<>>, z)
  BY <1>2, <1>6, <1>7 DEF Comes
<1>10. Given(d, "fork") = <<>>
  BY <1>4, <1>5, <1>8 DEF Keeps
<1>11. Keeps(args, d, {"fork", "runs", "path", "max_total_time", "seed_inputs"})
  BY <1>4, <1>5, <1>8 DEF Keeps
<1> QED  BY <1>3, <1>9, <1>10, <1>11 DEF d

(* The child of fork mode does not fork; it may collect data flow traces.  *)
LEMMA EngineMode ==
  ASSUME NEW U, args \in Seq(U), NEW fs, Passed(8, args, fs),
         <<"output">> \in Dirs, <<"output">> \notin DOMAIN files
  PROVE  Rank(ModeOf(EngineArgs, files)) > 9 \/ ModeOf(EngineArgs, files) = "collect_data_flow"
<1> DEFINE b == EngineArgs
           F == {"fork", "runs", "path", "max_total_time", "seed_inputs"}
<1>1. /\ Keeps(args, b, F) /\ Given(b, "fork") = <<>>
      /\ Given(b, "path") = Append(<<>>, Path(<<"output">>))
  BY EngineChild
<1> HIDE DEF b
<1>2. ~Selects("invalid", b, files) /\ ~Selects("files", b, files)
  <2>1. Inputs(b)[1] = <<"output">> /\ ToSet(Inputs(b)) = {<<"output">>}
    BY <1>1, OneInput
  <2> QED  BY <2>1, SelectsIs DEF NoOutputCorpus, AllInputsAreFiles
<1>3. ~Selects("fork", b, files)
  <2>1. Num(b, "fork") = 0
    BY <1>1 DEF Num, ValueOf
  <2> QED  BY <2>1, SelectsIs
<1>4. ASSUME NEW j \in {1, 2, 5, 6, 7} PROVE ~Selects(Modes[j], b, files)
  <2> DEFINE m == Modes[j]
  <2>1. m \in {"help", "jobs", "minimize_crash", "minimize_crash_internal_step", "cleanse_crash"}
    BY ModesAre
  <2>2. m = Modes[j] /\ j \in 1..8 /\ 8 \in 1..10
    OBVIOUS
  <2> HIDE DEF m
  <2>3. m \in NumModes \cup {"jobs", "collect_data_flow", "merge"}
    BY <2>1 DEF NumModes
  <2>4. FlagsOf(m) \cap F = {}
    BY <2>1 DEF FlagsOf
  <2>5. ~Selects(m, b, files)
    BY <1>1, <2>2, <2>3, <2>4, PassedKept
  <2> QED  BY <2>5 DEF m
<1>5. \A j \in 1..9 : j # 4 => ~Selects(Modes[j], b, files)
  <2>1. \A j \in 1..9 : j # 4 => j \in {1, 2, 5, 6, 7} \/ j = 3 \/ j = 8 \/ j = 9
    OBVIOUS
  <2> QED  BY <1>2, <1>3, <1>4, <2>1, ModesAre
<1>6. CASE Selects("collect_data_flow", b, files)
  <2>1. Selects(Modes[4], b, files)
    BY <1>6, ModesAre
  <2>2. \A j \in 1..4 - 1 : ~Selects(Modes[j], b, files)
    BY <1>5
  <2>3. ModeOf(b, files) = Modes[4]
    BY <2>1, <2>2, ModeFirst
  <2> QED  BY <2>3, ModesAre DEF b
<1>7. CASE ~Selects("collect_data_flow", b, files)
  <2>1. ~Selects(Modes[4], b, files)
    BY <1>7, ModesAre
  <2>2. \A j \in 1..9 : ~Selects(Modes[j], b, files)
    BY <1>5, <2>1
  <2> QED  BY <2>2, RankAbove DEF b
<1> QED  BY <1>6, <1>7
-----------------------------------------------------------------------------
(* The inductive invariants of the driver.                                 *)

(* The modes that come before it in the dispatch were not selected.        *)
Dispatched ==
  /\ args \in CommandLines /\ kills \in Nat
  /\ mode = "start" => /\ child = None /\ local = None /\ exit = Running /\ kills = 0
                       /\ input = IF AllInputsAreFiles(args, files) THEN files[InputFile] ELSE None
  /\ mode # "start" => \E i \in 1..13 : mode = Modes[i] /\ Passed(i - 1, args, files)
  /\ mode \in {"start", "jobs", "fork", "merge"} => files \in Contents
  /\ mode \in {"fork", "merge"} => \A i \in 1..Rank(mode) - 1 : ~Selects(Modes[i], args, files)
  /\ mode \in {"minimize_crash", "cleanse_crash"} /\ exit = Running => Len(Inputs(args)) = 1

DispatchInv == Dispatched /\ ChildrenDescend

(* The jobs up to the counter c are taken or done, once each, of n jobs.   *)
JobNumbers(n) == 0..n - 1

JobsShape(c, job, done, n) ==
  /\ c \in Nat /\ done \in Seq(JobNumbers(n) \X {0, 1})
  /\ \A w \in DOMAIN job : job[w] \in {None, NoMoreJobs} \cup {<<k>> : k \in JobNumbers(n)}

JobsTaken(c, job, done, n) ==
  /\ \A w \in DOMAIN job : job[w] = NoMoreJobs => c >= n
  /\ \A k \in JobNumbers(n) : k < c <=> \/ \E w \in DOMAIN job : job[w] = <<k>>
                                       \/ \E i \in DOMAIN done : done[i][1] = k

JobsApart(job, done, n) ==
  /\ \A v, w \in DOMAIN job : \A k \in JobNumbers(n) : job[v] = <<k>> /\ job[w] = <<k>> => v = w
  /\ \A i, j \in DOMAIN done : done[i][1] = done[j][1] => i = j
  /\ \A w \in DOMAIN job : \A i \in DOMAIN done : job[w] # <<done[i][1]>>

JobsGood(c, job, done, n) ==
  JobsShape(c, job, done, n) /\ JobsTaken(c, job, done, n) /\ JobsApart(job, done, n)

Failed(done) == \E i \in DOMAIN done : done[i][2] # 0

JobsResult ==
  /\ local.hasErrors <=> Failed(local.done)
  /\ exit # Running => /\ \A w \in DOMAIN local.job : local.job[w] = NoMoreJobs
                       /\ exit = IF local.hasErrors THEN 1 ELSE 0

JobsInv ==
  mode = "jobs" =>
    /\ DOMAIN local = {"counter", "job", "done", "hasErrors"} /\ local.hasErrors \in BOOLEAN
    /\ Num(args, "jobs") \in Nat \ {0} /\ Workers(args) \in Nat \ {0}
    /\ DOMAIN local.job = 1..Workers(args)
    /\ JobsGood(local.counter, local.job, local.done, Num(args, "jobs"))
    /\ JobsResult

(* What a minimisation has to keep of its input.                           *)
Like(u) == Fails(u) /\ Outcome(u) = Outcome(input) /\ Len(u) <= Len(input)

(* The artifact of the next step will not replace the unit itself.         *)
Apart(p, u) == ExactPath # None \/ p # <<"minimized-from", u>>

Undisturbed ==
  kills = 0 /\ Num(args, "minimize_crash_internal_step") = 0 /\ Num(args, "cleanse_crash") = 0

MinimizeShape ==
  /\ DOMAIN local = {"current", "unit", "token", "checked"} /\ local.checked \in BOOLEAN
  /\ input \in FileUnits
  /\ local.checked => local.unit \in FileUnits
  /\ Undisturbed => local.current \in DOMAIN files

MinimizeGood ==
  LET u == files[local.current]
  IN /\ exit = Running => Apart(local.current, u)
     /\ ~local.checked => u = input \/ Like(u)
     /\ local.checked => Like(u)
     /\ local.checked /\ exit = Running => local.unit = u /\ local.token = Outcome(u)

MinimizeInv ==
  /\ mode \in {"start", "minimize_crash"} => \A p \in DOMAIN files : files[p] \in FileUnits
  /\ mode = "minimize_crash" /\ exit \in {Running, 0} =>
       MinimizeShape /\ (Undisturbed => MinimizeGood) /\ (exit = 0 => local.checked)

(* What has been tried on the unit u: all bytes before i, and k - 1        *)
(* replacements for i.                                                     *)
Resists(u, i, b) == u[i] \in ToSet(ReplacementBytes) \/ ~Fails([u EXCEPT ![i] = b])

Tried(u, i, k) ==
  /\ \A j \in 1..i - 1 : \A b \in ToSet(ReplacementBytes) : Resists(u, j, b)
  /\ i <= Len(input) => \A m \in 1..k - 1 : Resists(u, i, ReplacementBytes[m])

(* The unit u differs from the input in replaced bytes only.               *)
Replaced(u) ==
  /\ u \in Seq(ToSet(input) \cup ToSet(ReplacementBytes)) /\ Len(u) = Len(input)
  /\ \A i \in 1..Len(input) : u[i] \in {input[i]} \cup ToSet(ReplacementBytes)

CleanseShape ==
  /\ DOMAIN local = {"unit", "idx", "byte", "round", "changed"} /\ local.changed \in BOOLEAN
  /\ input \in Seq(ToSet(input)) /\ Replaced(local.unit)
  /\ local.idx \in 1..Len(input) + 1 /\ local.byte \in 1..Len(ReplacementBytes)
  /\ exit # Running => local.idx > Len(input)

CleanseTried ==
  /\ local.unit # input => Fails(local.unit) /\ files[ExactPath] = local.unit
  /\ ~local.changed => Tried(local.unit, local.idx, local.byte)

CleanseInv ==
  mode = "cleanse_crash" /\ (exit = Running \/ local # None) =>
    local # None /\ CleanseShape /\ (kills = 0 => CleanseTried)
-----------------------------------------------------------------------------
(* The dispatch and the children.                                          *)

(* The places of the modes that have children.                             *)
LEMMA RanksAre ==
  /\ Rank("jobs") = 2 /\ Rank("minimize_crash") = 5 /\ Rank("minimize_crash_internal_step") = 6
  /\ Rank("cleanse_crash") = 7 /\ Rank("files") = 8 /\ Rank("fork") = 9 /\ Rank("merge") = 10
<1>1. 2 \in 1..13 /\ 5 \in 1..13 /\ 6 \in 1..13 /\ 7 \in 1..13 /\ 8 \in 1..13 /\ 9 \in 1..13 /\ 10 \in 1..13
  OBVIOUS
<1>2. \A i \in 1..13 : Rank(Modes[i]) = i
  BY RankIs
<1>3. /\ Rank(Modes[2]) = 2 /\ Rank(Modes[5]) = 5 /\ Rank(Modes[6]) = 6 /\ Rank(Modes[7]) = 7
      /\ Rank(Modes[8]) = 8 /\ Rank(Modes[9]) = 9 /\ Rank(Modes[10]) = 10
  BY <1>1, <1>2
<1> QED  BY <1>3, ModesAre

(* The files do not matter for the modes that were passed.                 *)
LEMMA PassedAnywhere ==
  ASSUME NEW n \in 0..12, NEW a, NEW fs, NEW gs, Passed(n, a, fs)
  PROVE  Passed(n, a, gs)
<1> SUFFICES ASSUME NEW j \in 1..n, j \notin {3, 8} PROVE ~Selects(Modes[j], a, gs)
  BY DEF Passed
<1> DEFINE m == Modes[j]
<1>1. ~Selects(m, a, fs)
  BY DEF Passed
<1>2. m # "invalid" /\ m # "files"
  BY ModesAre
<1> HIDE DEF m
<1>3. Selects(m, a, gs) <=> Selects(m, a, fs)
  BY <1>2 DEF Selects
<1> QED  BY <1>1, <1>3 DEF m

(* A step in a mode keeps what the dispatch has found out.                 *)
LEMMA DispatchedFrame ==
  ASSUME Dispatched, mode # "start", mode' = mode, args' = args, kills' \in Nat,
         mode \in {"jobs", "fork", "merge"} => files' = files,
         exit' = Running => exit = Running
  PROVE  Dispatched'
<1>1. args' \in CommandLines /\ mode' # "start"
  BY DEF Dispatched
<1>2. \E i \in 1..13 : mode' = Modes[i] /\ Passed(i - 1, args', files')
  <2>1. PICK i \in 1..13 : mode = Modes[i] /\ Passed(i - 1, args, files)
    BY DEF Dispatched
  <2>2. i - 1 \in 0..12
    OBVIOUS
  <2>3. Passed(i - 1, args, files')
    BY <2>1, <2>2, PassedAnywhere
  <2> QED  BY <2>1, <2>3
<1>3. mode' \in {"start", "jobs", "fork", "merge"} => files' \in Contents
  BY DEF Dispatched
<1>4. mode' \in {"fork", "merge"} => \A i \in 1..Rank(mode') - 1 : ~Selects(Modes[i], args', files')
  <2>1. mode \in {"fork", "merge"} => \A i \in 1..Rank(mode) - 1 : ~Selects(Modes[i], args, files)
    BY DEF Dispatched
  <2> QED  BY <2>1
<1>5. mode' \in {"minimize_crash", "cleanse_crash"} /\ exit' = Running => Len(Inputs(args')) = 1
  BY DEF Dispatched
<1> QED  BY <1>1, <1>2, <1>3, <1>4, <1>5 DEF Dispatched

(* What the dispatch has found out for a mode.                             *)
LEMMA ModePassed ==
  ASSUME Dispatched, NEW i \in 1..13, mode = Modes[i]
  PROVE  /\ args \in Seq(ToSet(args)) /\ mode # "start" /\ Passed(i - 1, args, files)
<1>1. args \in Seq(ToSet(args))
  BY DriverAssumption DEF Dispatched, DriverAssumption
<1>2. mode # "start"
  <2>1. \A j \in 1..13 : Modes[j] # "start"
    BY DEF Modes
  <2> QED  BY <2>1
<1>3. PICK j \in 1..13 : mode = Modes[j] /\ Passed(j - 1, args, files)
  BY <1>2 DEF Dispatched
<1>4. j = i
  BY <1>3, ModesAre
<1> QED  BY <1>1, <1>2, <1>3, <1>4

(* A child has the mode of its command line; a kill is counted.            *)
LEMMA KillsStay ==
  ASSUME kills \in Nat, NEW a, NEW fs, NEW r, Execute(a, fs, r)
  PROVE  kills' \in Nat /\ child' # None /\ child'.mode = ModeOf(a, fs) /\ (r.killed => kills' # 0)
         /\ (kills' = 0 => kills = 0)
<1>1. child' = [args |-> a, mode |-> ModeOf(a, fs)] /\ kills' = IF r.killed THEN kills + 1 ELSE kills
  BY DEF Execute
<1>2. child'.mode = ModeOf(a, fs)
  BY <1>1
<1>3. child' # None
  <2>1. "mode" \in DOMAIN child'
    BY <1>1
  <2>2. DOMAIN None = {}
    BY DEF None
  <2> QED  BY <2>1, <2>2
<1> QED  BY <1>1, <1>2, <1>3

(* A child with a mode that comes later.                                   *)
LEMMA DescendsTo ==
  ASSUME mode' = mode, NEW n, child'.mode = n,
         Rank(n) > Rank(mode) \/ (mode = "fork" /\ n = "collect_data_flow")
  PROVE  ChildrenDescend'
BY DEF ChildrenDescend

(* A step without a child.                                                 *)
LEMMA DescendsOn ==
  ASSUME ChildrenDescend, mode' = mode, child' = child
  PROVE  ChildrenDescend'
BY DEF ChildrenDescend

(* The dispatch itself.                                                    *)
LEMMA StartDispatch ==
  ASSUME DispatchInv, Start
  PROVE  DispatchInv'
<1> DEFINE m == ModeOf(args, files)
<1>1. /\ mode = "start" /\ mode' = m /\ args' = args /\ files' = files /\ child' = child /\ kills' = kills
      /\ IF m = "invalid" \/ WrongInputs(m) THEN exit' = 1 /\ local' = None ELSE exit' = exit
  BY DEF Start
<1>2. PICK i \in 1..13 : /\ m = Modes[i] /\ Rank(m) = i
                         /\ \A j \in 1..i - 1 : ~Selects(Modes[j], args, files)
  BY ModeIs
<1> HIDE DEF m
<1>3. m # "start"
  <2>1. \A j \in 1..13 : Modes[j] # "start"
    BY DEF Modes
  <2> QED  BY <1>2, <2>1
<1>4. child = None /\ args \in CommandLines /\ kills \in Nat /\ files \in Contents
  BY <1>1 DEF DispatchInv, Dispatched
<1>5. ChildrenDescend'
  BY <1>1, <1>4 DEF ChildrenDescend
<1>6. Passed(i - 1, args', files')
  BY <1>1, <1>2 DEF Passed
<1>7. mode' \in {"minimize_crash", "cleanse_crash"} /\ exit' = Running => Len(Inputs(args')) = 1
  BY <1>1 DEF WrongInputs, Running
<1>8. mode' \in {"fork", "merge"} => \A j \in 1..Rank(mode') - 1 : ~Selects(Modes[j], args', files')
  BY <1>1, <1>2
<1>9. Dispatched'
  BY <1>1, <1>2, <1>3, <1>4, <1>6, <1>7, <1>8 DEF Dispatched
<1> QED  BY <1>5, <1>9 DEF DispatchInv

(* Write changes one file.                                                 *)
LEMMA WrittenIs ==
  ASSUME NEW fs, NEW p, NEW u
  PROVE  /\ DOMAIN Write(fs, p, u) = DOMAIN fs \cup {p} /\ Write(fs, p, u)[p] = u
         /\ \A q \in DOMAIN fs \ {p} : Write(fs, p, u)[q] = fs[q]
BY DEF Write

(* A child of -jobs mode.                                                  *)
LEMMA JobDispatch ==
  ASSUME DispatchInv, NEW w, RunJob(w)
  PROVE  DispatchInv'
<1>1. mode = "jobs" /\ mode' = mode /\ args' = args /\ files' = files /\ exit' = exit
  BY DEF RunJob, In
<1>2. PICK r : Execute(JobArgs, files, r)
  BY DEF RunJob
<1>3. Dispatched /\ kills \in Nat
  BY DEF DispatchInv, Dispatched
<1>4. kills' \in Nat /\ child'.mode = ModeOf(JobArgs, files)
  BY <1>2, <1>3, KillsStay
<1>5. mode = Modes[2] /\ 2 \in 1..13
  BY <1>1, ModesAre
<1>6. args \in Seq(ToSet(args)) /\ mode # "start" /\ Passed(2 - 1, args, files)
  BY <1>3, <1>5, ModePassed
<1>7. ~Selects("help", args, files)
  <2>1. 1 \in 1..2 - 1 /\ 1 \notin {3, 8}
    OBVIOUS
  <2> QED  BY <1>6, <2>1, ModesAre DEF Passed
<1>8. Rank(ModeOf(JobArgs, files)) > 2
  BY <1>6, <1>7, JobChild
<1>9. ChildrenDescend'
  BY <1>1, <1>4, <1>8, RanksAre, DescendsTo
<1>10. Dispatched'
  BY <1>1, <1>3, <1>4, <1>6, DispatchedFrame
<1> QED  BY <1>9, <1>10 DEF DispatchInv

(* The first child of a minimisation step.                                 *)
LEMMA CheckDispatch ==
  ASSUME DispatchInv, MinimizeCheck
  PROVE  DispatchInv'
<1>1. mode = "minimize_crash" /\ mode' = mode /\ args' = args /\ exit = Running
  BY DEF MinimizeCheck, In
<1>2. Dispatched /\ kills \in Nat /\ Len(Inputs(args)) = 1
  BY <1>1 DEF DispatchInv, Dispatched
<1>3. mode = Modes[5] /\ 5 \in 1..13
  BY <1>1, ModesAre
<1>4. args \in Seq(ToSet(args)) /\ mode # "start" /\ Passed(5 - 1, args, files)
  BY <1>2, <1>3, ModePassed
<1>5. CASE local.current \notin DOMAIN files
  <2>1. child' = child /\ kills' = kills
    BY <1>5 DEF MinimizeCheck
  <2>2. ChildrenDescend'
    BY <1>1, <2>1, DescendsOn DEF DispatchInv
  <2>3. Dispatched'
    BY <1>1, <1>2, <1>4, <2>1, DispatchedFrame
  <2> QED  BY <2>2, <2>3 DEF DispatchInv
<1>6. CASE local.current \in DOMAIN files
  <2>1. PICK r : Execute(CurrentArgs, files, r)
    BY <1>6 DEF MinimizeCheck
  <2>2. kills' \in Nat /\ child'.mode = ModeOf(CurrentArgs, files)
    BY <1>2, <2>1, KillsStay
  <2>3. 5 - 1 = 4
    OBVIOUS
  <2>4. Passed(4, args, files)
    BY <1>4, <2>3
  <2>5. Rank(ModeOf(CurrentArgs, files)) > 5
    BY <1>2, <1>4, <1>6, <2>4, CurrentMode
  <2>6. ChildrenDescend'
    BY <1>1, <2>2, <2>5, RanksAre, DescendsTo
  <2>7. Dispatched'
    BY <1>1, <1>2, <1>4, <2>2, DispatchedFrame
  <2> QED  BY <2>6, <2>7 DEF DispatchInv
<1> QED  BY <1>5, <1>6

(* The second child of a minimisation step.                                *)
LEMMA StepDispatch ==
  ASSUME DispatchInv, MinimizeStep
  PROVE  DispatchInv'
<1>1. mode = "minimize_crash" /\ mode' = mode /\ args' = args /\ exit = Running
  BY DEF MinimizeStep, In
<1>2. Dispatched /\ kills \in Nat /\ Len(Inputs(args)) = 1
  BY <1>1 DEF DispatchInv, Dispatched
<1>3. mode = Modes[5] /\ 5 \in 1..13
  BY <1>1, ModesAre
<1>4. args \in Seq(ToSet(args)) /\ mode # "start" /\ Passed(5 - 1, args, files)
  BY <1>2, <1>3, ModePassed
<1>5. PICK r : Execute(StepArgs, files, r)
  BY DEF MinimizeStep
<1>6. kills' \in Nat /\ child'.mode = ModeOf(StepArgs, files)
  BY <1>2, <1>5, KillsStay
<1>7. 5 - 1 = 4
  OBVIOUS
<1>8. ModeOf(StepArgs, files) = "minimize_crash_internal_step"
  BY <1>2, <1>4, <1>7, StepMode
<1>9. 6 > 5
  OBVIOUS
<1>10. ChildrenDescend'
  BY <1>1, <1>6, <1>8, <1>9, RanksAre, DescendsTo
<1>11. Dispatched'
  BY <1>1, <1>2, <1>4, <1>6, DispatchedFrame
<1> QED  BY <1>10, <1>11 DEF DispatchInv

(* A child of a cleansing.                                                 *)
LEMMA TryDispatch ==
  ASSUME DispatchInv, CleanseTry
  PROVE  DispatchInv'
<1> DEFINE fs == Write(files, <<"tmp">>, Trial)
<1>1. mode = "cleanse_crash" /\ mode' = mode /\ args' = args /\ exit = Running
  BY DEF CleanseTry, In
<1>2. Dispatched /\ kills \in Nat /\ Len(Inputs(args)) = 1
  BY <1>1 DEF DispatchInv, Dispatched
<1>3. mode = Modes[7] /\ 7 \in 1..13
  BY <1>1, ModesAre
<1>4. args \in Seq(ToSet(args)) /\ mode # "start" /\ Passed(7 - 1, args, files)
  BY <1>2, <1>3, ModePassed
<1>5. PICK r : Execute(CleanseArgs, fs, r)
  BY DEF CleanseTry
<1>6. <<"tmp">> \in DOMAIN fs
  BY DEF Write
<1> HIDE DEF fs
<1>7. kills' \in Nat /\ child'.mode = ModeOf(CleanseArgs, fs)
  BY <1>2, <1>5, KillsStay
<1>8. 7 - 1 = 6 /\ 8 > 7
  OBVIOUS
<1>9. ModeOf(CleanseArgs, fs) = "files"
  BY <1>2, <1>4, <1>6, <1>8, CleanseMode
<1>10. ChildrenDescend'
  BY <1>1, <1>7, <1>8, <1>9, RanksAre, DescendsTo
<1>11. Dispatched'
  BY <1>1, <1>2, <1>4, <1>7, DispatchedFrame
<1> QED  BY <1>10, <1>11 DEF DispatchInv

(* A step of fork or merge mode, with a merging child or without one.      *)
LEMMA MergeDispatch ==
  ASSUME DispatchInv, NEW n \in {8, 9}, mode = Modes[n + 1], Rank(mode) = n + 1,
         mode \in {"fork", "merge"},
         mode' = mode, args' = args, files' = files, exit = Running,
         \/ child' = child /\ kills' = kills
         \/ \E r : Execute(MergeArgs, files, r)
  PROVE  DispatchInv'
<1>1. Dispatched /\ kills \in Nat /\ \A i \in 1..n : ~Selects(Modes[i], args, files)
  <2>1. Rank(mode) - 1 = n
    OBVIOUS
  <2> QED  BY <2>1 DEF DispatchInv, Dispatched
<1>2. args \in Seq(ToSet(args)) /\ mode # "start"
  <2>1. n + 1 \in 1..13
    OBVIOUS
  <2> QED  BY <1>1, <2>1, ModePassed
<1>3. CASE child' = child /\ kills' = kills
  <2>1. ChildrenDescend'
    BY <1>3, DescendsOn DEF DispatchInv
  <2>2. Dispatched'
    BY <1>1, <1>2, <1>3, DispatchedFrame
  <2> QED  BY <2>1, <2>2 DEF DispatchInv
<1>4. CASE \E r : Execute(MergeArgs, files, r)
  <2>1. kills' \in Nat /\ child'.mode = ModeOf(MergeArgs, files)
    BY <1>1, <1>4, KillsStay
  <2>2. Rank(ModeOf(MergeArgs, files)) > 10
    BY <1>1, <1>2, MergeMode
  <2>3. Rank(ModeOf(MergeArgs, files)) > Rank(mode)
    <3> DEFINE k == Rank(ModeOf(MergeArgs, files))
    <3>1. k > 10 => k > n + 1
      <4>1. k \in Int
        BY ModeIs
      <4> HIDE DEF k
      <4> QED  BY <4>1
    <3> QED  BY <2>2, <3>1
  <2>4. ChildrenDescend'
    BY <2>1, <2>3, DescendsTo
  <2>5. Dispatched'
    BY <1>1, <1>2, <2>1, DispatchedFrame
  <2> QED  BY <2>4, <2>5 DEF DispatchInv
<1> QED  BY <1>3, <1>4

(* A fuzzing child of fork mode.                                           *)
LEMMA EngineDispatch ==
  ASSUME DispatchInv, RunEngine
  PROVE  DispatchInv'
<1>1. mode = "fork" /\ mode' = mode /\ args' = args /\ files' = files /\ exit = Running
  BY DEF RunEngine, In
<1>2. Dispatched /\ kills \in Nat /\ files \in Contents
  BY <1>1 DEF DispatchInv, Dispatched
<1>3. mode = Modes[9] /\ 9 \in 1..13 /\ 9 - 1 = 8
  BY <1>1, ModesAre
<1>4. args \in Seq(ToSet(args)) /\ mode # "start" /\ Passed(8, args, files)
  BY <1>2, <1>3, ModePassed
<1>5. PICK r : Execute(EngineArgs, files, r)
  BY DEF RunEngine
<1>6. kills' \in Nat /\ child'.mode = ModeOf(EngineArgs, files)
  BY <1>2, <1>5, KillsStay
<1>7. <<"output">> \in Dirs /\ <<"output">> \notin DOMAIN files
  BY <1>2, DriverAssumption DEF DriverAssumption
<1>8. Rank(ModeOf(EngineArgs, files)) > 9 \/ ModeOf(EngineArgs, files) = "collect_data_flow"
  BY <1>4, <1>7, EngineMode
<1>9. ChildrenDescend'
  BY <1>1, <1>6, <1>8, RanksAre, DescendsTo
<1>10. Dispatched'
  BY <1>1, <1>2, <1>4, <1>6, DispatchedFrame
<1> QED  BY <1>9, <1>10 DEF DispatchInv

(* The steps without a child.                                              *)
LEMMA QuietDispatch ==
  ASSUME DispatchInv, mode # "start", mode' = mode, args' = args, child' = child, kills' = kills,
         mode \in {"jobs", "fork", "merge"} => files' = files,
         exit' = Running => exit = Running
  PROVE  DispatchInv'
<1>1. Dispatched /\ ChildrenDescend
  BY DEF DispatchInv
<1>2. kills' \in Nat
  BY <1>1 DEF Dispatched
<1>3. ChildrenDescend'
  BY <1>1, DescendsOn
<1>4. Dispatched'
  BY <1>1, <1>2, DispatchedFrame
<1> QED  BY <1>3, <1>4 DEF DispatchInv

(* Initially nothing is dispatched.                                        *)
LEMMA DispatchInit ==
  ASSUME DriverInit
  PROVE  DispatchInv
<1>1. mode = "start" /\ local = None /\ child = None /\ exit = Running /\ kills = 0
  BY DEF DriverInit
<1>2. args \in CommandLines /\ files \in Contents
  BY DEF DriverInit
<1>3. input = IF AllInputsAreFiles(args, files) THEN files[InputFile] ELSE None
  BY DEF DriverInit
<1>4. ChildrenDescend
  BY <1>1 DEF ChildrenDescend
<1> QED  BY <1>1, <1>2, <1>3, <1>4 DEF DispatchInv, Dispatched

(* Every step keeps the dispatch invariant.                                *)
LEMMA DispatchStep ==
  ASSUME DispatchInv, [DriverNext]_driverVars
  PROVE  DispatchInv'
<1>1. CASE Start
  BY <1>1, StartDispatch
<1>2. CASE RunItself
  BY <1>2, QuietDispatch DEF RunItself
<1>3. ASSUME NEW w, TakeJob(w) PROVE DispatchInv'
  BY <1>3, QuietDispatch DEF TakeJob, In
<1>4. ASSUME NEW w, RunJob(w) PROVE DispatchInv'
  BY <1>4, JobDispatch
<1>5. CASE JoinWorkers
  BY <1>5, QuietDispatch DEF JoinWorkers, In
<1>6. CASE MinimizeCheck
  BY <1>6, CheckDispatch
<1>7. CASE MinimizeStep
  BY <1>7, StepDispatch
<1>8. CASE CleanseTry
  BY <1>8, TryDispatch
<1>9. CASE CleanseSkip
  BY <1>9, QuietDispatch DEF CleanseSkip, In
<1>10. CASE CleanseRound
  BY <1>10, QuietDispatch DEF CleanseRound, In
<1>11. CASE RunMerge
  <2>1. /\ mode = "merge" /\ mode' = mode /\ args' = args /\ files' = files /\ exit = Running
        /\ \/ child' = child /\ kills' = kills
           \/ \E r : Execute(MergeArgs, files, r)
    BY <1>11 DEF RunMerge, In
  <2>2. 9 \in {8, 9} /\ 9 + 1 = 10 /\ Rank(mode) = 10 /\ mode = Modes[10]
    BY <2>1, RanksAre, ModesAre
  <2>3. mode = Modes[9 + 1] /\ Rank(mode) = 9 + 1
    BY <2>2
  <2> QED  BY <2>1, <2>2, <2>3, MergeDispatch
<1>12. CASE RunForkMerge
  <2>1. /\ mode = "fork" /\ mode' = mode /\ args' = args /\ files' = files /\ exit = Running
        /\ \/ child' = child /\ kills' = kills
           \/ \E r : Execute(MergeArgs, files, r)
    BY <1>12 DEF RunForkMerge, In
  <2>2. 8 \in {8, 9} /\ 8 + 1 = 9 /\ Rank(mode) = 9 /\ mode = Modes[9]
    BY <2>1, RanksAre, ModesAre
  <2>3. mode = Modes[8 + 1] /\ Rank(mode) = 8 + 1
    BY <2>2
  <2> QED  BY <2>1, <2>2, <2>3, MergeDispatch
<1>13. CASE RunEngine
  BY <1>13, EngineDispatch
<1>14. CASE UNCHANGED driverVars
  <2>1. /\ args' = args /\ files' = files /\ mode' = mode /\ local' = local /\ child' = child
        /\ exit' = exit /\ kills' = kills /\ input' = input
    BY <1>14 DEF driverVars
  <2>2. InputFile' = InputFile
    BY <2>1 DEF InputFile
  <2>3. Dispatched'
    BY <2>1, <2>2 DEF DispatchInv, Dispatched
  <2>4. ChildrenDescend'
    BY <2>1, DescendsOn DEF DispatchInv
  <2> QED  BY <2>3, <2>4 DEF DispatchInv
<1> QED  BY <1>1, <1>2, <1>3, <1>4, <1>5, <1>6, <1>7, <1>8, <1>9, <1>10, <1>11, <1>12, <1>13, <1>14
            DEF DriverNext, DriverExited
-----------------------------------------------------------------------------
(* -jobs mode.                                                             *)

(* A job is neither None nor NoMoreJobs, and has one number.               *)
LEMMA JobIs ==
  /\ None # NoMoreJobs
  /\ \A k \in Nat : <<k>> # None /\ <<k>> # NoMoreJobs /\ <<k>>[1] = k
  /\ \A j, k \in Nat : <<j>> = <<k>> => j = k
BY DEF None, NoMoreJobs

(* A worker takes the number of the counter, or finds no more.             *)
LEMMA JobTaken ==
  ASSUME NEW n \in Nat, NEW c, NEW job, NEW done, JobsGood(c, job, done, n),
         NEW w \in DOMAIN job, job[w] = None, NEW x, x = IF c < n THEN <<c>> ELSE NoMoreJobs
  PROVE  JobsGood(c + 1, [job EXCEPT ![w] = x], done, n)
<1> DEFINE next == [job EXCEPT ![w] = x]
<1>1. DOMAIN next = DOMAIN job /\ next[w] = x /\ \A v \in DOMAIN job : v # w => next[v] = job[v]
  OBVIOUS
<1> HIDE DEF next
<1>2. JobsShape(c, job, done, n) /\ JobsTaken(c, job, done, n) /\ JobsApart(job, done, n)
  BY DEF JobsGood
<1>3. c \in Nat /\ JobNumbers(n) \subseteq Nat /\ (c < n => c \in JobNumbers(n))
  BY <1>2 DEF JobsShape, JobNumbers
<1>4. DOMAIN done = 1..Len(done) /\ \A i \in DOMAIN done : done[i][1] \in JobNumbers(n)
  <2>1. done \in Seq(JobNumbers(n) \X {0, 1})
    BY <1>2 DEF JobsShape
  <2> QED  BY <2>1
<1>5. JobsShape(c + 1, next, done, n)
  <2>1. x \in {None, NoMoreJobs} \cup {<<k>> : k \in JobNumbers(n)}
    BY <1>3
  <2>2. \A v \in DOMAIN next : next[v] \in {None, NoMoreJobs} \cup {<<k>> : k \in JobNumbers(n)}
    BY <1>1, <1>2, <2>1 DEF JobsShape
  <2>3. c + 1 \in Nat
    BY <1>3
  <2> QED  BY <1>2, <2>2, <2>3 DEF JobsShape
<1>6. \A k \in JobNumbers(n) : x = <<k>> <=> k = c
  <2>1. \A k \in JobNumbers(n) : k < n /\ k \in Nat
    BY DEF JobNumbers
  <2> QED  BY <1>3, <2>1, JobIs
<1>7. \A k \in JobNumbers(n) : job[w] # <<k>>
  BY <1>3, JobIs
<1>8. JobsTaken(c + 1, next, done, n)
  <2>1. \A v \in DOMAIN next : next[v] = NoMoreJobs => c + 1 >= n
    <3> SUFFICES ASSUME NEW v \in DOMAIN next, next[v] = NoMoreJobs PROVE c + 1 >= n
      OBVIOUS
    <3>1. CASE v = w
      BY <1>1, <1>3, <3>1, JobIs
    <3>2. CASE v # w
      <4>1. c >= n
        BY <1>1, <1>2, <3>2 DEF JobsTaken
      <4> QED  BY <1>3, <4>1
    <3> QED  BY <3>1, <3>2
  <2>2. ASSUME NEW k \in JobNumbers(n)
        PROVE  k < c + 1 <=> \/ \E v \in DOMAIN next : next[v] = <<k>>
                             \/ \E i \in DOMAIN done : done[i][1] = k
    <3>1. k < c <=> \/ \E v \in DOMAIN job : job[v] = <<k>>
                    \/ \E i \in DOMAIN done : done[i][1] = k
      BY <1>2 DEF JobsTaken
    <3>2. (\E v \in DOMAIN next : next[v] = <<k>>) <=> k = c \/ \E v \in DOMAIN job : job[v] = <<k>>
      BY <1>1, <1>6, <1>7
    <3>3. k < c + 1 <=> k < c \/ k = c
      BY <1>3
    <3> QED  BY <3>1, <3>2, <3>3
  <2> QED  BY <2>1, <2>2 DEF JobsTaken
<1>9. \A v \in DOMAIN job : job[v] # <<c>>
  <2>1. CASE c < n
    BY <1>2, <1>3, <2>1 DEF JobsTaken
  <2>2. CASE ~(c < n)
    <3>1. \A k \in JobNumbers(n) : <<k>> # <<c>>
      <4>1. \A k \in JobNumbers(n) : k # c
        BY <1>3, <2>2 DEF JobNumbers
      <4> QED  BY <1>3, <4>1, JobIs
    <3>2. None # <<c>> /\ NoMoreJobs # <<c>>
      BY <1>3, JobIs
    <3> QED  BY <1>2, <3>1, <3>2 DEF JobsShape
  <2> QED  BY <2>1, <2>2
<1>10. \A i \in DOMAIN done : done[i][1] # c
  <2>1. \A i \in DOMAIN done : done[i][1] < c
    BY <1>2, <1>4 DEF JobsTaken
  <2> QED  BY <1>3, <2>1
<1>11. JobsApart(next, done, n)
  <2>1. ASSUME NEW u \in DOMAIN next, NEW v \in DOMAIN next, NEW k \in JobNumbers(n),
               next[u] = <<k>>, next[v] = <<k>>
        PROVE  u = v
    BY <1>1, <1>2, <1>6, <1>9, <2>1 DEF JobsApart
  <2>2. \A v \in DOMAIN next : \A i \in DOMAIN done : next[v] # <<done[i][1]>>
    BY <1>1, <1>2, <1>4, <1>6, <1>10 DEF JobsApart
  <2> QED  BY <1>2, <2>1, <2>2 DEF JobsApart
<1> QED  BY <1>5, <1>8, <1>11 DEF JobsGood, next

(* A worker is done with a job.                                            *)
LEMMA JobDone ==
  ASSUME NEW n \in Nat, NEW c, NEW job, NEW done, JobsGood(c, job, done, n),
         NEW w \in DOMAIN job, job[w] \notin {None, NoMoreJobs}, NEW e \in {0, 1}
  PROVE  /\ JobsGood(c, [job EXCEPT ![w] = None], Append(done, <<job[w][1], e>>), n)
         /\ Failed(Append(done, <<job[w][1], e>>)) <=> (e # 0 \/ Failed(done))
<1> DEFINE next == [job EXCEPT ![w] = None]
           x == <<job[w][1], e>>
           more == Append(done, x)
<1>1. DOMAIN next = DOMAIN job /\ next[w] = None /\ \A v \in DOMAIN job : v # w => next[v] = job[v]
  OBVIOUS
<1>2. JobsShape(c, job, done, n) /\ JobsTaken(c, job, done, n) /\ JobsApart(job, done, n)
  BY DEF JobsGood
<1>3. PICK m \in JobNumbers(n) : job[w] = <<m>>
  BY <1>2 DEF JobsShape
<1>4. m \in Nat /\ JobNumbers(n) \subseteq Nat
  BY DEF JobNumbers
<1>5. x = <<m, e>>
  BY <1>3, <1>4, JobIs
<1>6. x \in JobNumbers(n) \X {0, 1} /\ x[1] = m /\ x[2] = e
  BY <1>5
<1>7. done \in Seq(JobNumbers(n) \X {0, 1})
  BY <1>2 DEF JobsShape
<1> HIDE DEF next, x
<1>8. /\ more \in Seq(JobNumbers(n) \X {0, 1}) /\ DOMAIN more = 1..Len(done) + 1
      /\ more[Len(done) + 1] = x /\ \A i \in 1..Len(done) : more[i] = done[i]
  BY <1>6, <1>7
<1>9. DOMAIN done = 1..Len(done) /\ Len(done) \in Nat /\ \A i \in DOMAIN done : done[i][1] \in JobNumbers(n)
  BY <1>7
<1> DEFINE z == Len(done) + 1
<1>10. DOMAIN more = DOMAIN done \cup {z} /\ z \notin DOMAIN done
  BY <1>8, <1>9
<1>11. more[z] = x /\ \A i \in DOMAIN done : more[i] = done[i]
  BY <1>8, <1>9
<1> HIDE DEF more, z
<1>12. JobsShape(c, next, more, n)
  BY <1>1, <1>2, <1>8 DEF JobsShape
<1>13. JobsTaken(c, next, more, n)
  <2>1. \A v \in DOMAIN next : next[v] = NoMoreJobs => c >= n
    BY <1>1, <1>2, JobIs DEF JobsTaken
  <2>2. ASSUME NEW k \in JobNumbers(n)
        PROVE  k < c <=> \/ \E v \in DOMAIN next : next[v] = <<k>>
                         \/ \E i \in DOMAIN more : more[i][1] = k
    <3>1. k < c <=> \/ \E v \in DOMAIN job : job[v] = <<k>>
                    \/ \E i \in DOMAIN done : done[i][1] = k
      BY <1>2 DEF JobsTaken
    <3>2. (\E i \in DOMAIN more : more[i][1] = k) <=> k = m \/ \E i \in DOMAIN done : done[i][1] = k
      BY <1>6, <1>10, <1>11
    <3>3. None # <<k>> /\ (<<m>> = <<k>> <=> m = k)
      BY <1>4, JobIs
    <3>4. (\E v \in DOMAIN job : job[v] = <<k>>) <=> k = m \/ \E v \in DOMAIN next : next[v] = <<k>>
      BY <1>1, <1>2, <1>3, <3>3 DEF JobsApart
    <3> QED  BY <3>1, <3>2, <3>4
  <2> QED  BY <2>1, <2>2 DEF JobsTaken
<1>14. JobsApart(next, more, n)
  <2>1. ASSUME NEW u \in DOMAIN next, NEW v \in DOMAIN next, NEW k \in JobNumbers(n),
               next[u] = <<k>>, next[v] = <<k>>
        PROVE  u = v
    <3>1. <<k>> # None
      BY <1>4, JobIs
    <3> QED  BY <1>1, <1>2, <2>1, <3>1 DEF JobsApart
  <2>2. \A i \in DOMAIN done : done[i][1] # m
    BY <1>2, <1>3 DEF JobsApart
  <2>3. \A i, j \in DOMAIN more : more[i][1] = more[j][1] => i = j
    BY <1>2, <1>6, <1>10, <1>11, <2>2 DEF JobsApart
  <2>4. ASSUME NEW v \in DOMAIN next, NEW i \in DOMAIN more PROVE next[v] # <<more[i][1]>>
    <3>1. CASE v = w
      <4>1. more[i][1] \in JobNumbers(n)
        BY <1>6, <1>9, <1>10, <1>11
      <4> QED  BY <1>1, <1>4, <3>1, <4>1, JobIs
    <3>2. CASE v # w /\ i = z
      BY <1>1, <1>2, <1>3, <1>6, <1>11, <3>2 DEF JobsApart
    <3>3. CASE v # w /\ i # z
      BY <1>1, <1>2, <1>10, <1>11, <3>3 DEF JobsApart
    <3> QED  BY <3>1, <3>2, <3>3
  <2> QED  BY <2>1, <2>3, <2>4 DEF JobsApart
<1>15. Failed(more) <=> (e # 0 \/ Failed(done))
  BY <1>6, <1>10, <1>11 DEF Failed
<1> QED  BY <1>12, <1>13, <1>14, <1>15 DEF JobsGood, next, more, x

(* When no worker finds more, all jobs are done, once each.                *)
LEMMA JobsAll ==
  ASSUME NEW n \in Nat, NEW c, NEW job, NEW done, JobsGood(c, job, done, n),
         DOMAIN job # {}, \A w \in DOMAIN job : job[w] = NoMoreJobs
  PROVE  Len(done) = n /\ {d[1] : d \in ToSet(done)} = 0..n - 1
<1> DEFINE I == 1..Len(done)
           N == JobNumbers(n)
           f == [i \in I |-> done[i][1]]
<1>1. JobsShape(c, job, done, n) /\ JobsTaken(c, job, done, n) /\ JobsApart(job, done, n)
  BY DEF JobsGood
<1>2. done \in Seq(N \X {0, 1})
  BY <1>1 DEF JobsShape
<1>3. Len(done) \in Nat /\ DOMAIN done = I /\ \A i \in I : done[i][1] \in N
  BY <1>2
<1>4. c \in Nat /\ c >= n
  BY <1>1 DEF JobsShape, JobsTaken
<1>5. \A k \in N : k \in Nat /\ k < c
  BY <1>4 DEF JobNumbers
<1>6. \A k \in N : \E i \in I : done[i][1] = k
  <2>1. \A k \in N : NoMoreJobs # <<k>>
    BY <1>5, JobIs
  <2> QED  BY <1>1, <1>3, <1>5, <2>1 DEF JobsTaken
<1>7. \A i, j \in I : done[i][1] = done[j][1] => i = j
  BY <1>1, <1>3 DEF JobsApart
<1>8. ExistsBijection(I, N)
  <2>1. f \in [I -> N]
    BY <1>3
  <2>2. \A i, j \in I : f[i] = f[j] => i = j
    BY <1>7
  <2>3. \A k \in N : \E i \in I : f[i] = k
    BY <1>6
  <2> HIDE DEF f, N, I
  <2>4. f \in Injection(I, N)
    BY <2>1, <2>2 DEF Injection, IsInjective
  <2>5. f \in Surjection(I, N)
    BY <2>1, <2>3 DEF Surjection
  <2> QED  BY <2>4, <2>5 DEF ExistsBijection, Bijection
<1>9. Cardinality(N) = Len(done)
  <2> HIDE DEF N
  <2> QED  BY <1>3, <1>8, FS_CountingElements
<1>10. Cardinality(N) = n
  <2>1. 0 \in Int /\ n - 1 \in Int
    OBVIOUS
  <2>2. Cardinality(0..n - 1) = IF 0 > n - 1 THEN 0 ELSE n - 1 - 0 + 1
    BY <2>1, FS_Interval
  <2> QED  BY <2>2 DEF JobNumbers
<1>11. {d[1] : d \in ToSet(done)} = N
  <2>1. ToSet(done) = {done[i] : i \in I}
    BY <1>3 DEF ToSet
  <2> HIDE DEF I, N
  <2> QED  BY <1>3, <1>6, <2>1
<1> QED  BY <1>9, <1>10, <1>11 DEF JobNumbers

(* An execution succeeds or fails, unless it is killed.                    *)
LEMMA ResultIs ==
  ASSUME NEW a, NEW fs, NEW r \in Executions(a, fs)
  PROVE  r.exit \in {0, 1} /\ (r.killed \/ r \in Results(a, fs))
<1>1. ASSUME r \in Results(a, fs) PROVE r.exit \in {0, 1}
  BY <1>1 DEF Results, RunFiles, InternalStep, Ends, Crashes
<1>2. ASSUME r \in Killed(a, fs) PROVE r.exit \in {0, 1} /\ r.killed
  <2>1. PICK s : r = [Ends(1, s) EXCEPT !.killed = TRUE]
    BY <1>2 DEF Killed
  <2>2. r.exit = 1 /\ r.killed = TRUE
    BY <2>1 DEF Ends
  <2> QED  BY <2>2
<1>3. r \in Results(a, fs) \/ r \in Killed(a, fs)
  BY DEF Executions
<1> QED  BY <1>1, <1>2, <1>3

(* Jobs and workers are numbers, and workers are missing only on one core. *)
LEMMA NumbersAre ==
  ASSUME args \in CommandLines
  PROVE  /\ Num(args, "jobs") \in Int /\ Workers(args) \in Int
         /\ Num(args, "jobs") > 0 /\ ~(Workers(args) > 0) => Cores = 1 /\ Num(args, "workers") = 0
<1>1. /\ args \in Seq(ToSet(args))
      /\ \A x \in ToSet(args) : x.flag \in {"jobs", "workers"} => x.value \in Nat
  BY DriverAssumption DEF DriverAssumption
<1>2. ASSUME NEW f \in {"jobs", "workers"} PROVE Num(args, f) \in Nat
  <2> DEFINE g == Given(args, f)
             U == ToSet(args)
  <2>1. g \in Seq(U) /\ \A i \in DOMAIN g : g[i].flag = f /\ g[i] \in U
    BY <1>1, GivenIs
  <2>2. \A i \in DOMAIN g : g[i].value \in Nat
    BY <1>1, <2>1
  <2>3. g = <<>> => Num(args, f) = 0
    BY DEF Num, ValueOf
  <2>4. g # <<>> => Num(args, f) = Last(g).value
    BY DEF Num, ValueOf
  <2> HIDE DEF g, U
  <2>5. g # <<>> => Last(g) = g[Len(g)] /\ Len(g) \in DOMAIN g
    <3>1. g # <<>> => Len(g) # 0
      BY <2>1
    <3>2. Len(g) \in Nat /\ DOMAIN g = 1..Len(g)
      BY <2>1
    <3> QED  BY <3>1, <3>2 DEF Last
  <2> QED  BY <2>2, <2>3, <2>4, <2>5
<1>3. Num(args, "jobs") \in Nat /\ Num(args, "workers") \in Nat
  BY <1>2
<1>4. ASSUME NEW x \in Int, NEW y \in Int PROVE Min({x, y}) \in {x, y} /\ Min({x, y}) \in Int
  <2>1. \E m \in {x, y} : \A n \in {x, y} : m <= n
    <3>1. CASE x <= y
      BY <3>1
    <3>2. CASE ~(x <= y)
      BY <3>2
    <3> QED  BY <3>1, <3>2
  <2>2. Min({x, y}) \in {x, y}
    BY <2>1 DEF Min
  <2> QED  BY <2>2
<1>5. Cores \div 2 \in Int /\ (Cores # 1 => Cores \div 2 > 0)
  BY DriverAssumption DEF DriverAssumption
<1>6. /\ Min({Cores \div 2, Num(args, "jobs")}) \in Int
      /\ Min({Cores \div 2, Num(args, "jobs")}) \in {Cores \div 2, Num(args, "jobs")}
  BY <1>3, <1>4, <1>5
<1>7. Workers(args) \in Int
  BY <1>3, <1>6 DEF Workers
<1>8. ASSUME Num(args, "jobs") > 0, ~(Workers(args) > 0)
      PROVE  Cores = 1 /\ Num(args, "workers") = 0
  <2>1. Num(args, "workers") = 0
    BY <1>3, <1>8 DEF Workers
  <2>2. ~(Min({Cores \div 2, Num(args, "jobs")}) > 0)
    BY <1>8, <2>1 DEF Workers
  <2>3. ~(Cores \div 2 > 0)
    BY <1>6, <1>8, <2>2
  <2> QED  BY <1>5, <2>1, <2>3
<1> QED  BY <1>3, <1>7, <1>8

(* -jobs mode starts.                                                      *)
LEMMA StartJobs ==
  ASSUME DispatchInv, Start, mode' = "jobs"
  PROVE  JobsInv'
<1>1. mode = "start" /\ args' = args /\ exit = Running /\ args \in CommandLines
  BY DEF Start, DispatchInv, Dispatched
<1>2. ModeOf(args, files) = "jobs" /\ local' = LocalOf("jobs") /\ exit' = exit
  BY DEF Start, WrongInputs
<1>3. Workers(args) > 0 /\ Num(args, "jobs") > 0
  <2>1. PICK i \in 1..13 : ModeOf(args, files) = Modes[i] /\ Selects(Modes[i], args, files)
    BY ModeIs
  <2>2. Selects("jobs", args, files)
    BY <1>2, <2>1
  <2> QED  BY <2>2, SelectsIs
<1>4. Num(args, "jobs") \in Nat \ {0} /\ Workers(args) \in Nat \ {0}
  BY <1>1, <1>3, NumbersAre
<1> DEFINE job == [w \in 1..Workers(args) |-> None]
           n == Num(args, "jobs")
<1>5. local' = [counter |-> 0, job |-> job, done |-> <<>>, hasErrors |-> FALSE]
  BY <1>2 DEF LocalOf
<1>6. DOMAIN job = 1..Workers(args) /\ \A w \in DOMAIN job : job[w] = None
  OBVIOUS
<1> HIDE DEF job, n
<1>7. JobsGood(0, job, <<>>, n)
  <2>1. DOMAIN <<>> = {} /\ <<>> \in Seq(JobNumbers(n) \X {0, 1})
    OBVIOUS
  <2>2. JobsShape(0, job, <<>>, n)
    BY <1>6, <2>1 DEF JobsShape
  <2>3. \A k \in JobNumbers(n) : k \in Nat /\ ~(k < 0)
    BY DEF JobNumbers
  <2>4. JobsTaken(0, job, <<>>, n)
    BY <1>6, <2>1, <2>3, JobIs DEF JobsTaken
  <2>5. JobsApart(job, <<>>, n)
    BY <1>6, <2>1, <2>3, JobIs DEF JobsApart
  <2> QED  BY <2>2, <2>4, <2>5 DEF JobsGood
<1>8. /\ DOMAIN local' = {"counter", "job", "done", "hasErrors"} /\ local'.hasErrors = FALSE
      /\ local'.job = job /\ local'.counter = 0 /\ local'.done = <<>>
  BY <1>5
<1>9. JobsResult'
  <2>1. DOMAIN <<>> = {}
    OBVIOUS
  <2> QED  BY <1>1, <1>2, <1>8, <2>1 DEF JobsResult, Failed
<1> QED  BY <1>1, <1>4, <1>6, <1>7, <1>8, <1>9 DEF JobsInv, n

(* A worker takes a job.                                                   *)
LEMMA TakeJobs ==
  ASSUME JobsInv, NEW w, w \in 1..Workers(args), TakeJob(w)
  PROVE  JobsInv'
<1> DEFINE n == Num(args, "jobs")
           x == IF local.counter < n THEN <<local.counter>> ELSE NoMoreJobs
           next == [local.job EXCEPT ![w] = x]
<1>1. /\ mode = "jobs" /\ exit = Running /\ mode' = mode /\ exit' = exit /\ args' = args
      /\ local.job[w] = None
  BY DEF TakeJob, In
<1>2. /\ DOMAIN local = {"counter", "job", "done", "hasErrors"} /\ local.hasErrors \in BOOLEAN
      /\ n \in Nat \ {0} /\ Workers(args) \in Nat \ {0}
      /\ DOMAIN local.job = 1..Workers(args)
      /\ JobsGood(local.counter, local.job, local.done, n)
      /\ JobsResult
  BY <1>1 DEF JobsInv
<1>3. local' = [local EXCEPT !.counter = NextCounter(@),
                             !.job[w] = IF JobLeft(local.counter) THEN <<local.counter>> ELSE NoMoreJobs]
  BY DEF TakeJob
<1>4. /\ DOMAIN local' = DOMAIN local /\ local'.counter = local.counter + 1
      /\ local'.job = next
      /\ local'.done = local.done /\ local'.hasErrors = local.hasErrors
  BY <1>2, <1>3 DEF NextCounter, JobLeft
<1>5. JobsGood(local.counter + 1, next, local.done, n)
  <2>1. w \in DOMAIN local.job /\ n \in Nat /\ x = IF local.counter < n THEN <<local.counter>> ELSE NoMoreJobs
    BY <1>2
  <2> HIDE DEF n, x
  <2> QED  BY <1>1, <1>2, <2>1, JobTaken
<1>6. JobsResult'
  BY <1>1, <1>2, <1>4 DEF JobsResult
<1>7. DOMAIN local'.job = 1..Workers(args) /\ JobsGood(local'.counter, local'.job, local'.done, n)
  BY <1>2, <1>4, <1>5
<1> HIDE DEF next, x
<1> QED  BY <1>1, <1>2, <1>4, <1>6, <1>7 DEF JobsInv

(* A worker runs its job.                                                  *)
LEMMA RunJobs ==
  ASSUME JobsInv, NEW w, w \in 1..Workers(args), RunJob(w)
  PROVE  JobsInv'
<1> DEFINE n == Num(args, "jobs")
           next == [local.job EXCEPT ![w] = None]
<1>1. /\ mode = "jobs" /\ exit = Running /\ mode' = mode /\ exit' = exit /\ args' = args
      /\ local.job[w] \notin {None, NoMoreJobs}
  BY DEF RunJob, In
<1>2. /\ DOMAIN local = {"counter", "job", "done", "hasErrors"} /\ local.hasErrors \in BOOLEAN
      /\ n \in Nat \ {0} /\ Workers(args) \in Nat \ {0}
      /\ DOMAIN local.job = 1..Workers(args)
      /\ JobsGood(local.counter, local.job, local.done, n)
      /\ JobsResult
  BY <1>1 DEF JobsInv
<1>3. PICK r \in Executions(JobArgs, files) :
        local' = [local EXCEPT !.job[w] = None, !.hasErrors = @ \/ r.exit # 0,
                               !.done = Append(@, <<local.job[w][1], r.exit>>)]
  BY DEF RunJob
<1> DEFINE e == r.exit
           more == Append(local.done, <<local.job[w][1], e>>)
<1>4. e \in {0, 1}
  BY ResultIs
<1>5. /\ DOMAIN local' = DOMAIN local /\ local'.counter = local.counter
      /\ local'.job = next
      /\ local'.done = more /\ local'.hasErrors = (local.hasErrors \/ e # 0)
  BY <1>2, <1>3
<1> HIDE DEF e
<1>6. JobsGood(local.counter, next, more, n)
  <2> DEFINE c == local.counter
             job == local.job
             done == local.done
  <2>1. /\ w \in DOMAIN job /\ n \in Nat /\ job[w] \notin {None, NoMoreJobs}
        /\ JobsGood(c, job, done, n)
    BY <1>1, <1>2
  <2> HIDE DEF n, c, job, done
  <2>2. JobsGood(c, [job EXCEPT ![w] = None], Append(done, <<job[w][1], e>>), n)
    BY <1>4, <2>1, JobDone
  <2> QED  BY <2>2 DEF c, job, done
<1>7. Failed(more) <=> (e # 0 \/ Failed(local.done))
  <2> DEFINE c == local.counter
             job == local.job
             done == local.done
  <2>1. /\ w \in DOMAIN job /\ n \in Nat /\ job[w] \notin {None, NoMoreJobs}
        /\ JobsGood(c, job, done, n)
    BY <1>1, <1>2
  <2> HIDE DEF n, c, job, done
  <2>2. Failed(Append(done, <<job[w][1], e>>)) <=> (e # 0 \/ Failed(done))
    BY <1>4, <2>1, JobDone
  <2> QED  BY <2>2 DEF c, job, done
<1>8. JobsResult'
  <2> HIDE DEF more, next
  <2> QED  BY <1>1, <1>2, <1>5, <1>7 DEF JobsResult
<1>9. DOMAIN local'.job = 1..Workers(args) /\ JobsGood(local'.counter, local'.job, local'.done, n)
  <2>1. DOMAIN next = DOMAIN local.job
    OBVIOUS
  <2> HIDE DEF more, next
  <2> QED  BY <1>2, <1>5, <1>6, <2>1
<1>10. local'.hasErrors \in BOOLEAN
  BY <1>5
<1> HIDE DEF next, more
<1> QED  BY <1>1, <1>2, <1>5, <1>8, <1>9, <1>10 DEF JobsInv

(* All workers have ended.                                                 *)
LEMMA JoinJobs ==
  ASSUME JobsInv, JoinWorkers
  PROVE  JobsInv'
<1>1. /\ mode = "jobs" /\ exit = Running /\ mode' = mode /\ args' = args /\ local' = local
      /\ \A w \in DOMAIN local.job : local.job[w] = NoMoreJobs
      /\ exit' = IF local.hasErrors THEN 1 ELSE 0
  BY DEF JoinWorkers, In
<1>2. JobsResult'
  BY <1>1 DEF JobsInv, JobsResult
<1> QED  BY <1>1, <1>2 DEF JobsInv

(* Every step keeps the jobs invariant.                                    *)
LEMMA JobsStep ==
  ASSUME DispatchInv, JobsInv, [DriverNext]_driverVars
  PROVE  JobsInv'
<1>1. CASE Start
  BY <1>1, StartJobs DEF JobsInv
<1>2. ASSUME NEW w \in 1..Workers(args), TakeJob(w) \/ RunJob(w) PROVE JobsInv'
  BY <1>2, TakeJobs, RunJobs
<1>3. CASE JoinWorkers
  BY <1>3, JoinJobs
<1>4. ASSUME mode # "jobs", mode' = mode PROVE JobsInv'
  BY <1>4 DEF JobsInv
<1>5. CASE RunItself
  BY <1>4, <1>5 DEF RunItself
<1>6. CASE MinimizeCheck \/ MinimizeStep \/ CleanseTry \/ CleanseSkip \/ CleanseRound
  BY <1>4, <1>6 DEF MinimizeCheck, MinimizeStep, CleanseTry, CleanseSkip, CleanseRound, In
<1>7. CASE RunMerge \/ RunForkMerge \/ RunEngine
  BY <1>4, <1>7 DEF RunMerge, RunForkMerge, RunEngine, In
<1>8. CASE UNCHANGED driverVars
  <2>1. mode' = mode /\ args' = args /\ local' = local /\ exit' = exit
    BY <1>8 DEF driverVars
  <2>2. JobsResult' <=> JobsResult
    BY <2>1 DEF JobsResult
  <2> QED  BY <2>1, <2>2 DEF JobsInv
<1> QED  BY <1>1, <1>2, <1>3, <1>5, <1>6, <1>7, <1>8 DEF DriverNext, DriverExited

(* The invariant says that every job ran once.                             *)
LEMMA JobsImplied ==
  ASSUME DispatchInv, JobsInv
  PROVE  JobsRunOnce
<1>5. ASSUME Num(args, "jobs") > 0, mode \notin {"start", "help", "jobs"}
      PROVE  Cores = 1 /\ Num(args, "workers") = 0
  <2>1. PICK i \in 1..13 : mode = Modes[i] /\ Passed(i - 1, args, files)
    BY <1>5 DEF DispatchInv, Dispatched
  <2>2. i # 1 /\ i # 2
    BY <1>5, <2>1, ModesAre
  <2>3. ~Selects("jobs", args, files)
    BY <2>1, <2>2, ModesAre DEF Passed
  <2> QED  BY <1>5, <2>3, NumbersAre, SelectsIs DEF DispatchInv, Dispatched
<1> SUFFICES ASSUME mode = "jobs"
             PROVE  /\ \A v, w \in DOMAIN local.job :
                         v # w /\ local.job[v] = local.job[w] => local.job[v] \in {None, NoMoreJobs}
                    /\ exit # Running =>
                         /\ Len(local.done) = Num(args, "jobs")
                         /\ {d[1] : d \in ToSet(local.done)} = 0..Num(args, "jobs") - 1
                         /\ exit = 1 <=> \E d \in ToSet(local.done) : d[2] # 0
  BY <1>5 DEF JobsRunOnce
<1> DEFINE n == Num(args, "jobs")
           job == local.job
           done == local.done
<1>1. /\ n \in Nat \ {0} /\ Workers(args) \in Nat \ {0} /\ DOMAIN job = 1..Workers(args)
      /\ JobsGood(local.counter, job, done, n) /\ JobsResult
  BY DEF JobsInv
<1>2. /\ (local.hasErrors <=> Failed(done))
      /\ (exit # Running => /\ \A w \in DOMAIN job : job[w] = NoMoreJobs
                            /\ exit = IF local.hasErrors THEN 1 ELSE 0)
  BY <1>1 DEF JobsResult
<1> HIDE DEF n, job, done
<1>3. ASSUME NEW v \in DOMAIN job, NEW w \in DOMAIN job, v # w, job[v] = job[w]
      PROVE  job[v] \in {None, NoMoreJobs}
  BY <1>1, <1>3 DEF JobsGood, JobsShape, JobsApart
<1>4. ASSUME exit # Running
      PROVE  /\ Len(done) = n /\ {d[1] : d \in ToSet(done)} = 0..n - 1
             /\ (exit = 1 <=> \E d \in ToSet(done) : d[2] # 0)
  <2>1. DOMAIN job # {}
    BY <1>1
  <2>2. Len(done) = n /\ {d[1] : d \in ToSet(done)} = 0..n - 1
    BY <1>1, <1>2, <1>4, <2>1, JobsAll
  <2>3. (\E d \in ToSet(done) : d[2] # 0) <=> \E i \in DOMAIN done : done[i][2] # 0
    BY DEF ToSet
  <2> QED  BY <1>2, <1>4, <2>2, <2>3 DEF Failed
<1> QED  BY <1>3, <1>4 DEF n, job, done
-----------------------------------------------------------------------------
(* -minimize_crash.                                                        *)

(* The execution of one file fails exactly if its unit does, with its      *)
(* token.                                                                  *)
LEMMA RunOne ==
  ASSUME NEW b, NEW p, Given(b, "path") = Append(<<>>, Path(p)), NEW fs, ModeOf(b, fs) = "files",
         NEW r \in Results(b, fs)
  PROVE  /\ r.exit = 0 => ~Fails(fs[p])
         /\ r.exit # 0 => Fails(fs[p]) /\ r.token = Outcome(fs[p])
<1> DEFINE bad == {k \in DOMAIN Inputs(b) : Fails(fs[Inputs(b)[k]])}
<1>1. DOMAIN Inputs(b) = {1} /\ Inputs(b)[1] = p
  <2>1. 1..1 = {1}
    OBVIOUS
  <2> QED  BY <2>1, OneInput
<1>2. r \in RunFiles(b, fs)
  BY DEF Results
<1>3. r \in IF bad = {} THEN {Ends(0, fs)} ELSE {Crashes(fs[Inputs(b)[Min(bad)]], fs)}
  BY <1>2 DEF RunFiles
<1>4. CASE Fails(fs[p])
  <2>1. bad = {1}
    BY <1>1, <1>4
  <2>2. Min({1}) = 1
    BY DEF Min
  <2>3. r = Crashes(fs[p], fs)
    <3> HIDE DEF bad
    <3>1. bad # {}
      BY <2>1
    <3> QED  BY <1>1, <1>3, <2>1, <2>2, <3>1
  <2>4. r.exit = 1 /\ r.token = Outcome(fs[p])
    BY <2>3 DEF Crashes
  <2> QED  BY <1>4, <2>4
<1>5. CASE ~Fails(fs[p])
  <2>1. bad = {}
    BY <1>1, <1>5
  <2>2. r = Ends(0, fs)
    BY <1>3, <2>1
  <2>3. r.exit = 0
    BY <2>2 DEF Ends
  <2> QED  BY <1>5, <2>3
<1> QED  BY <1>4, <1>5

(* What lies in files r after a step with the artifact q.                  *)
Left(r, fs, q) == r.files = fs \/ \E v \in FileUnits : r.files = Write(fs, q, v)

Shorter(r, fs, q, u) ==
  \E v \in FileUnits : /\ Len(v) <= Len(u) - 1 /\ Fails(v)
                       /\ r.exit = 1 /\ r.token = Outcome(v) /\ r.files = Write(fs, q, v)

(* A slow unit may replace one file.                                       *)
LEMMA SlowLeaves ==
  ASSUME NEW b, NEW p, Given(b, "path") = Append(<<>>, Path(p)), NEW q,
         Str(b, "exact_artifact_path") = q, NEW fs, NEW s \in SlowUnits(b, fs)
  PROVE  s = fs \/ \E v \in FileUnits : s = Write(fs, q, v)
BY DEF SlowUnits, MutationsOf

(* A minimisation step that fails leaves a shorter failing unit in its     *)
(* artifact, with its token.                                               *)
LEMMA StepLeaves ==
  ASSUME NEW b, NEW p, Given(b, "path") = Append(<<>>, Path(p)), NEW q,
         Str(b, "exact_artifact_path") = q, NEW fs,
         ModeOf(b, fs) = "minimize_crash_internal_step", NEW r \in Executions(b, fs)
  PROVE  /\ Left(r, fs, q)
         /\ r.killed \/ r.exit = 0 \/ Shorter(r, fs, q, fs[p])
<1>1. Inputs(b)[1] = p
  BY OneInput
<1>2. CASE r \in Killed(b, fs)
  <2>1. PICK s \in SlowUnits(b, fs) : r = [Ends(1, s) EXCEPT !.killed = TRUE]
    <3>1. fs \in SlowUnits(b, fs)
      BY DEF SlowUnits
    <3> QED  BY <1>2, <3>1 DEF Killed
  <2>2. r.files = s /\ r.killed = TRUE
    BY <2>1 DEF Ends
  <2>3. s = fs \/ \E v \in FileUnits : s = Write(fs, q, v)
    BY SlowLeaves
  <2> QED  BY <2>2, <2>3 DEF Left
<1>3. CASE r \in Results(b, fs)
  <2>1. r \in InternalStep(b, fs)
    BY <1>3 DEF Results
  <2>2. \/ r = Ends(0, fs)
        \/ \E s \in SlowUnits(b, fs) : r = Ends(0, s)
        \/ \E v \in {w \in MutationsOf(fs[p]) : Fails(w)} : r = Crashes(v, Write(fs, q, v))
    BY <1>1, <2>1 DEF InternalStep
  <2>3. CASE r = Ends(0, fs)
    <3>1. r.files = fs /\ r.exit = 0
      BY <2>3 DEF Ends
    <3> QED  BY <3>1 DEF Left
  <2>4. CASE \E s \in SlowUnits(b, fs) : r = Ends(0, s)
    <3>1. PICK s \in SlowUnits(b, fs) : r = Ends(0, s)
      BY <2>4
    <3>2. r.files = s /\ r.exit = 0
      BY <3>1 DEF Ends
    <3>3. s = fs \/ \E v \in FileUnits : s = Write(fs, q, v)
      BY SlowLeaves
    <3> QED  BY <3>2, <3>3 DEF Left
  <2>5. CASE \E v \in {w \in MutationsOf(fs[p]) : Fails(w)} : r = Crashes(v, Write(fs, q, v))
    <3>1. PICK v : v \in FileUnits /\ Len(v) <= Len(fs[p]) - 1 /\ Fails(v) /\ r = Crashes(v, Write(fs, q, v))
      BY <2>5 DEF MutationsOf
    <3>2. r.exit = 1 /\ r.token = Outcome(v) /\ r.files = Write(fs, q, v)
      BY <3>1 DEF Crashes
    <3> QED  BY <3>1, <3>2 DEF Left, Shorter
  <2> QED  BY <2>2, <2>3, <2>4, <2>5
<1> QED  BY <1>2, <1>3 DEF Executions

(* Units have lengths.                                                     *)
LEMMA LengthsAre == \A u \in FileUnits : Len(u) \in Nat
<1> SUFFICES ASSUME NEW u \in FileUnits PROVE Len(u) \in Nat
  OBVIOUS
<1>1. u \in Seq(ToSet(u))
  BY DriverAssumption DEF DriverAssumption
<1> DEFINE U == ToSet(u)
<1>2. u \in Seq(U)
  BY <1>1
<1> HIDE DEF U
<1> QED  BY <1>2

FilesHold(fs) == \A p \in DOMAIN fs : fs[p] \in FileUnits

(* Files hold units after a unit was written.                              *)
LEMMA WriteHolds ==
  ASSUME NEW fs, FilesHold(fs), NEW p, NEW u \in FileUnits
  PROVE  FilesHold(Write(fs, p, u))
BY DEF FilesHold, Write

(* The input file is there.                                                *)
LEMMA OneFile ==
  ASSUME args \in CommandLines, Len(Inputs(args)) = 1, InputFile \in DOMAIN files
  PROVE  AllInputsAreFiles(args, files)
<1> DEFINE U == ToSet(args)
           V == {x.value : x \in U}
           s == Inputs(args)
<1>1. args \in Seq(U)
  BY DriverAssumption DEF DriverAssumption
<1>2. Given(args, "path") \in Seq(U)
  BY <1>1, GivenIs
<1>3. s \in Seq(V)
  BY <1>2, InputsAre
<1>4. Len(s) = 1 /\ s[1] = InputFile
  BY DEF InputFile
<1> HIDE DEF U, V, s
<1>5. DOMAIN s = 1..1
  <2>1. DOMAIN s = 1..Len(s)
    BY <1>3
  <2> QED  BY <1>4, <2>1
<1>6. ToSet(s) \subseteq DOMAIN files
  BY <1>4, <1>5 DEF ToSet
<1>7. s # <<>>
  <2>1. Len(<<>>) = 0
    OBVIOUS
  <2> QED  BY <1>4, <2>1
<1> QED  BY <1>6, <1>7 DEF AllInputsAreFiles, s

(* A minimisation starts.                                                  *)
LEMMA StartMinimize ==
  ASSUME DispatchInv, MinimizeInv, Start
  PROVE  MinimizeInv'
<1>1. /\ mode = "start" /\ args' = args /\ files' = files /\ exit = Running /\ kills' = kills
      /\ input' = input /\ target' = target /\ args \in CommandLines /\ files \in Contents
  BY DEF Start, DispatchInv, Dispatched
<1>2. FilesHold(files')
  BY <1>1 DEF MinimizeInv, FilesHold
<1>3. ASSUME mode' = "minimize_crash", exit' \in {Running, 0}
      PROVE  (MinimizeShape /\ (Undisturbed => MinimizeGood) /\ (exit = 0 => local.checked))'
  <2>1. ModeOf(args, files) = "minimize_crash" /\ ~WrongInputs("minimize_crash")
    BY <1>3 DEF Start, Running
  <2>2. local' = LocalOf("minimize_crash") /\ exit' = exit
    BY <2>1 DEF Start
  <2>3. local' = [current |-> InputFile, unit |-> None, token |-> NoToken, checked |-> FALSE]
    BY <2>2 DEF LocalOf
  <2>4. /\ local'.current = InputFile /\ local'.checked = FALSE
        /\ DOMAIN local' = {"current", "unit", "token", "checked"}
    BY <2>3
  <2>5. Len(Inputs(args)) = 1 /\ InputFile \in DOMAIN files
    BY <2>1 DEF WrongInputs
  <2>6. input = files[InputFile]
    BY <1>1, <2>5, OneFile DEF DispatchInv, Dispatched
  <2>7. input' \in FileUnits /\ local'.current \in DOMAIN files' /\ files'[local'.current] = input'
    BY <1>1, <1>2, <2>4, <2>5, <2>6 DEF FilesHold
  <2>8. InputFile # <<"minimized-from", files[InputFile]>>
    BY <1>1, <2>5, DriverAssumption DEF DriverAssumption
  <2>9. MinimizeShape'
    BY <2>4, <2>7 DEF MinimizeShape
  <2>10. Apart(local.current, files[local.current])'
    BY <1>1, <2>4, <2>8 DEF Apart
  <2>11. MinimizeGood'
    BY <2>4, <2>7, <2>10 DEF MinimizeGood
  <2>12. exit' # 0
    BY <1>1, <2>2 DEF Running
  <2> QED  BY <2>9, <2>11, <2>12
<1> QED  BY <1>2, <1>3 DEF MinimizeInv, FilesHold

(* What is known in a minimisation.                                        *)
LEMMA MinimizeIn ==
  ASSUME DispatchInv, MinimizeInv, In("minimize_crash")
  PROVE  /\ exit = Running /\ args \in Seq(ToSet(args)) /\ Len(Inputs(args)) = 1 /\ Passed(4, args, files)
         /\ FilesHold(files) /\ MinimizeShape /\ (Undisturbed => MinimizeGood) /\ kills \in Nat
<1>1. mode = "minimize_crash" /\ exit = Running
  BY DEF In
<1>2. Dispatched /\ kills \in Nat /\ Len(Inputs(args)) = 1
  BY <1>1 DEF DispatchInv, Dispatched
<1>3. mode = Modes[5] /\ 5 \in 1..13 /\ 5 - 1 = 4
  BY <1>1, ModesAre
<1>4. args \in Seq(ToSet(args)) /\ Passed(4, args, files)
  BY <1>2, <1>3, ModePassed
<1> QED  BY <1>1, <1>2, <1>4 DEF MinimizeInv, FilesHold

(* Target and input decide what a minimisation has to keep.                *)
LEMMA SameJudgement ==
  ASSUME target' = target, input' = input, args' = args
  PROVE  /\ ExactPath' = ExactPath
         /\ \A u : (Like(u)' <=> Like(u)) /\ Outcome(u)' = Outcome(u)
         /\ \A p, u : Apart(p, u)' <=> Apart(p, u)
<1>1. ExactPath' = ExactPath
  BY DEF ExactPath
<1>2. \A u : Outcome(u)' = Outcome(u)
  BY DEF Outcome
<1>3. \A u : Fails(u)' <=> Fails(u)
  BY <1>2 DEF Fails
<1>4. \A u : Like(u)' <=> Like(u)
  BY <1>2, <1>3 DEF Like
<1>5. \A p, u : Apart(p, u)' <=> Apart(p, u)
  BY <1>1 DEF Apart
<1> QED  BY <1>1, <1>2, <1>4, <1>5

(* The first child of a step.                                              *)
LEMMA CheckMinimize ==
  ASSUME DispatchInv, MinimizeInv, MinimizeCheck
  PROVE  MinimizeInv'
<1> DEFINE u == files[local.current]
<1>1. /\ In("minimize_crash") /\ ~local.checked /\ mode' = mode /\ args' = args /\ files' = files
      /\ input' = input /\ target' = target
  BY DEF MinimizeCheck
<1>2. /\ exit = Running /\ args \in Seq(ToSet(args)) /\ Len(Inputs(args)) = 1 /\ Passed(4, args, files)
      /\ FilesHold(files) /\ MinimizeShape /\ (Undisturbed => MinimizeGood) /\ kills \in Nat
  BY <1>1, MinimizeIn
<1>3. FilesHold(files')
  BY <1>1, <1>2
<1>4. ASSUME exit' \in {Running, 0}
      PROVE  (MinimizeShape /\ (Undisturbed => MinimizeGood) /\ (exit = 0 => local.checked))'
  <2>1. local.current \in DOMAIN files
    <3> SUFFICES ASSUME local.current \notin DOMAIN files PROVE FALSE
      OBVIOUS
    <3>1. exit' = 1
      BY DEF MinimizeCheck
    <3> QED  BY <1>4, <3>1 DEF Running
  <2>2. PICK r \in Executions(CurrentArgs, files) :
          /\ Execute(CurrentArgs, files, r)
          /\ IF r.exit = 0 THEN exit' = 1 /\ UNCHANGED local
             ELSE /\ local' = [local EXCEPT !.unit = files[local.current], !.token = r.token, !.checked = TRUE]
                  /\ UNCHANGED exit
    BY <2>1 DEF MinimizeCheck
  <2>3. /\ r.exit # 0 /\ exit' = exit
        /\ local' = [local EXCEPT !.unit = files[local.current], !.token = r.token, !.checked = TRUE]
    BY <1>4, <2>2 DEF Running
  <2>4. /\ DOMAIN local' = DOMAIN local /\ local'.current = local.current /\ local'.unit = u
        /\ local'.token = r.token /\ local'.checked = TRUE
    BY <1>2, <2>3 DEF MinimizeShape
  <2>5. (r.killed => kills' # 0) /\ (kills' = 0 => kills = 0)
    BY <1>2, <2>2, KillsStay
  <2>6. u \in FileUnits
    BY <1>2, <2>1 DEF FilesHold
  <2>7. MinimizeShape'
    BY <1>1, <1>2, <2>1, <2>4, <2>6 DEF MinimizeShape
  <2>8. ASSUME Undisturbed' PROVE MinimizeGood'
    <3>1. Undisturbed /\ ~r.killed
      BY <1>1, <2>5, <2>8 DEF Undisturbed
    <3>2. Apart(local.current, u) /\ (u = input \/ Like(u))
      BY <1>1, <1>2, <3>1 DEF MinimizeGood
    <3>3. ModeOf(CurrentArgs, files) = "files"
      BY <1>2, <2>1, <3>1, CurrentMode DEF Undisturbed
    <3>4. Given(CurrentArgs, "path") = Append(<<>>, Path(local.current))
      BY <1>2, MinimizeChild
    <3>5. r \in Results(CurrentArgs, files)
      BY <3>1, ResultIs
    <3>6. Fails(u) /\ r.token = Outcome(u)
      BY <2>3, <3>3, <3>4, <3>5, RunOne
    <3>7. Len(u) <= Len(u)
      BY <2>6, LengthsAre
    <3>8. Like(u)
      BY <3>2, <3>6, <3>7 DEF Like
    <3> HIDE DEF u
    <3>9. files'[local'.current] = u
      BY <1>1, <2>4 DEF u
    <3>10. Like(u)' /\ Apart(local.current, u)' /\ Outcome(u)' = Outcome(u)
      <4>1. u' = u /\ local'.current = local.current
        BY <1>1, <2>4 DEF u
      <4> QED  BY <1>1, <2>4, <3>2, <3>8, <4>1, SameJudgement DEF Like, Apart, Fails, Outcome, ExactPath
    <3> QED  BY <2>4, <3>6, <3>9, <3>10 DEF MinimizeGood, u
  <2> QED  BY <1>2, <2>3, <2>4, <2>7, <2>8
<1> QED  BY <1>1, <1>3, <1>4 DEF MinimizeInv, FilesHold

(* A step in a state where nothing disturbs: what it makes of the unit.    *)
LEMMA Kept ==
  ASSUME NEW q, NEW c, Apart(c, local.unit), ExactPath = None,
         q = <<"minimized-from", local.unit>>, c \in DOMAIN files, files[c] = local.unit,
         NEW r, Left(r, files, q)
  PROVE  c \in DOMAIN r.files /\ r.files[c] = local.unit
<1>1. c # q
  BY DEF Apart
<1>2. CASE r.files = files
  BY <1>2
<1>3. ASSUME NEW v \in FileUnits, r.files = Write(files, q, v)
      PROVE  c \in DOMAIN r.files /\ r.files[c] = local.unit
  BY <1>1, <1>3 DEF Write
<1> QED  BY <1>2, <1>3 DEF Left

(* The second child of a step.                                             *)
LEMMA StepMinimize ==
  ASSUME DispatchInv, MinimizeInv, MinimizeStep
  PROVE  MinimizeInv'
<1> DEFINE u == local.unit
           c == local.current
           q == ArtifactPath
<1>1. /\ In("minimize_crash") /\ local.checked /\ mode' = mode /\ args' = args
      /\ input' = input /\ target' = target
  BY DEF MinimizeStep
<1>2. /\ exit = Running /\ args \in Seq(ToSet(args)) /\ Len(Inputs(args)) = 1 /\ Passed(4, args, files)
      /\ FilesHold(files) /\ MinimizeShape /\ (Undisturbed => MinimizeGood) /\ kills \in Nat
  BY <1>1, MinimizeIn
<1>3. PICK r \in Executions(StepArgs, files) :
        /\ Execute(StepArgs, files, r)
        /\ IF Shrunk(r)
             THEN /\ files' = r.files
                  /\ local' = [local EXCEPT !.current = ArtifactPath, !.checked = FALSE]
                  /\ UNCHANGED exit
             ELSE /\ WriteBack(r.files)
                  /\ local' = IF ExactPath # None THEN [local EXCEPT !.current = ExactPath] ELSE local
                  /\ exit' = 0
  BY DEF MinimizeStep
<1>4. /\ ModeOf(StepArgs, files) = "minimize_crash_internal_step"
      /\ Given(StepArgs, "path") = Append(<<>>, Path(c))
      /\ Str(StepArgs, "exact_artifact_path") = q
  BY <1>2, StepMode, StepChild
<1>5. Left(r, files, q)
  BY <1>4, StepLeaves
<1>6. r.killed \/ r.exit = 0 \/ Shorter(r, files, q, files[c])
  BY <1>4, StepLeaves
<1>7. (r.killed => kills' # 0) /\ (kills' = 0 => kills = 0)
  BY <1>2, <1>3, KillsStay
<1>8. u \in FileUnits /\ input \in FileUnits /\ DOMAIN local = {"current", "unit", "token", "checked"}
  BY <1>1, <1>2 DEF MinimizeShape
<1>9. q = IF ExactPath # None THEN ExactPath ELSE <<"minimized-from", u>>
  BY DEF ArtifactPath
<1>10. FilesHold(r.files)
  BY <1>2, <1>5, WriteHolds DEF Left
<1>11. Undisturbed' => /\ Undisturbed /\ c \in DOMAIN files /\ Apart(c, u) /\ files[c] = u /\ Like(u)
                       /\ local.token = Outcome(u)
                       /\ (r.exit = 0 \/ Shorter(r, files, q, u))
  <2> SUFFICES ASSUME Undisturbed'
               PROVE  /\ Undisturbed /\ c \in DOMAIN files /\ Apart(c, u) /\ files[c] = u /\ Like(u)
                      /\ local.token = Outcome(u)
                      /\ (r.exit = 0 \/ Shorter(r, files, q, u))
    OBVIOUS
  <2>1. Undisturbed /\ ~r.killed
    BY <1>1, <1>7 DEF Undisturbed
  <2>2. c \in DOMAIN files
    BY <1>2, <2>1 DEF MinimizeShape
  <2>3. files[c] = u /\ Like(u) /\ Apart(c, u) /\ local.token = Outcome(u)
    BY <1>1, <1>2, <2>1 DEF MinimizeGood
  <2> QED  BY <1>6, <2>1, <2>2, <2>3
<1>12. CASE Shrunk(r)
  <2>1. files' = r.files /\ exit' = exit /\ r.exit # 0 /\ r.token = local.token
    BY <1>3, <1>12 DEF Shrunk
  <2>2. local' = [local EXCEPT !.current = ArtifactPath, !.checked = FALSE]
    BY <1>3, <1>12
  <2>3. DOMAIN local' = DOMAIN local /\ local'.current = q /\ local'.checked = FALSE
    BY <1>8, <2>2
  <2> HIDE DEF u, c, q
  <2>4. ASSUME Undisturbed'
        PROVE  /\ q \in DOMAIN files' /\ files'[q] \in FileUnits
               /\ Like(files'[q]) /\ Apart(q, files'[q])
    <3>1. Shorter(r, files, q, u) /\ Like(u) /\ local.token = Outcome(u)
      BY <1>11, <2>1, <2>4
    <3>2. PICK v \in FileUnits : /\ Len(v) <= Len(u) - 1 /\ Fails(v)
                                 /\ r.token = Outcome(v) /\ r.files = Write(files, q, v)
      BY <3>1 DEF Shorter
    <3>3. q \in DOMAIN files' /\ files'[q] = v
      BY <2>1, <3>2 DEF Write
    <3>4. Len(u) \in Nat /\ Len(v) \in Nat /\ Len(input) \in Nat
      BY <1>8, LengthsAre DEF u
    <3>5. Len(v) <= Len(input) /\ v # u
      BY <3>1, <3>2, <3>4 DEF Like
    <3>6. Like(v)
      BY <2>1, <3>1, <3>2, <3>5 DEF Like
    <3>7. Apart(q, v)
      <4>1. <<"minimized-from", u>> # <<"minimized-from", v>>
        BY <3>5
      <4> QED  BY <1>9, <4>1 DEF Apart, u
    <3> QED  BY <3>3, <3>6, <3>7
  <2>5. MinimizeShape'
    BY <1>1, <1>8, <2>3, <2>4 DEF MinimizeShape
  <2>6. ASSUME Undisturbed' PROVE MinimizeGood'
    <3> DEFINE v == files'[q]
    <3>1. Like(v) /\ Apart(q, v)
      BY <2>4, <2>6
    <3> HIDE DEF v
    <3>2. files'[local'.current] = v
      BY <2>3 DEF v
    <3>3. Like(files[local.current])' /\ Apart(local.current, files[local.current])'
      BY <1>1, <2>3, <3>1, <3>2 DEF Like, Apart, Fails, Outcome, ExactPath
    <3> QED  BY <2>3, <3>3 DEF MinimizeGood
  <2>7. FilesHold(files') /\ exit' # 0
    BY <1>2, <1>10, <2>1 DEF Running
  <2> QED  BY <2>5, <2>6, <2>7 DEF MinimizeInv, FilesHold
<1>13. CASE ~Shrunk(r)
  <2>1. WriteBack(r.files) /\ exit' = 0
    BY <1>3, <1>13
  <2>2. local' = IF ExactPath # None THEN [local EXCEPT !.current = ExactPath] ELSE local
    BY <1>3, <1>13
  <2>3. DOMAIN local' = DOMAIN local /\ local'.unit = u /\ local'.checked = local.checked
    BY <1>8, <2>2
  <2>4. CASE ExactPath # None
    <3>1. local'.current = ExactPath /\ files' = Write(r.files, ExactPath, u)
      BY <1>8, <2>1, <2>2, <2>4 DEF WriteBack
    <3>2. FilesHold(files')
      BY <1>8, <1>10, <3>1, WriteHolds
    <3>3. local'.current \in DOMAIN files' /\ files'[local'.current] = u
      BY <3>1 DEF Write
    <3>4. MinimizeShape'
      BY <1>1, <1>8, <2>3, <3>3 DEF MinimizeShape
    <3>5. ASSUME Undisturbed' PROVE MinimizeGood'
      <4>1. Like(u)
        BY <1>11, <3>5
      <4> HIDE DEF u
      <4>2. Like(files[local.current])'
        BY <1>1, <3>3, <4>1 DEF Like, Fails, Outcome
      <4>3. exit' # Running
        BY <2>1 DEF Running
      <4> QED  BY <4>2, <4>3 DEF MinimizeGood
    <3> QED  BY <1>1, <2>3, <3>2, <3>4, <3>5 DEF MinimizeInv, FilesHold
  <2>5. CASE ExactPath = None
    <3>1. local' = local /\ files' = r.files
      BY <2>1, <2>2, <2>5 DEF WriteBack
    <3>2. ASSUME Undisturbed' PROVE c \in DOMAIN files' /\ files'[c] = u /\ Like(u)
      <4>1. c \in DOMAIN files /\ Apart(c, u) /\ files[c] = u /\ Like(u)
        BY <1>11, <3>2
      <4>2. q = <<"minimized-from", u>>
        BY <1>9, <2>5
      <4> HIDE DEF c, q
      <4> QED  BY <1>5, <2>5, <3>1, <4>1, <4>2, Kept
    <3>3. MinimizeShape'
      BY <1>1, <1>8, <3>1, <3>2 DEF MinimizeShape
    <3>4. ASSUME Undisturbed' PROVE MinimizeGood'
      <4>1. files'[local'.current] = u /\ Like(u)
        BY <3>1, <3>2, <3>4
      <4> HIDE DEF u
      <4>2. Like(files[local.current])'
        BY <1>1, <4>1 DEF Like, Fails, Outcome
      <4>3. exit' # Running
        BY <2>1 DEF Running
      <4> QED  BY <4>2, <4>3 DEF MinimizeGood
    <3> QED  BY <1>1, <1>10, <3>1, <3>3, <3>4 DEF MinimizeInv, FilesHold
  <2> QED  BY <2>4, <2>5
<1> QED  BY <1>12, <1>13

(* Initially the files hold units.                                         *)
LEMMA MinimizeInit ==
  ASSUME DriverInit
  PROVE  MinimizeInv
<1>1. mode = "start" /\ files \in Contents
  BY DEF DriverInit
<1>2. \A p \in DOMAIN files : files[p] \in FileUnits
  BY <1>1, DriverAssumption DEF DriverAssumption
<1> QED  BY <1>1, <1>2 DEF MinimizeInv

(* Every step keeps the minimisation invariant.                            *)
LEMMA MinimizeNext ==
  ASSUME DispatchInv, MinimizeInv, [DriverNext]_driverVars
  PROVE  MinimizeInv'
<1>1. CASE Start
  BY <1>1, StartMinimize
<1>2. CASE MinimizeCheck
  BY <1>2, CheckMinimize
<1>3. CASE MinimizeStep
  BY <1>3, StepMinimize
<1>4. ASSUME mode \notin {"start", "minimize_crash"}, mode' = mode PROVE MinimizeInv'
  BY <1>4 DEF MinimizeInv
<1>5. CASE RunItself
  BY <1>4, <1>5 DEF RunItself
<1>6. ASSUME NEW w, TakeJob(w) \/ RunJob(w) PROVE MinimizeInv'
  BY <1>4, <1>6 DEF TakeJob, RunJob, In
<1>7. CASE JoinWorkers \/ CleanseTry \/ CleanseSkip \/ CleanseRound
  BY <1>4, <1>7 DEF JoinWorkers, CleanseTry, CleanseSkip, CleanseRound, In
<1>8. CASE RunMerge \/ RunForkMerge \/ RunEngine
  BY <1>4, <1>8 DEF RunMerge, RunForkMerge, RunEngine, In
<1>9. CASE UNCHANGED driverVars
  <2>1. /\ mode' = mode /\ args' = args /\ local' = local /\ exit' = exit /\ files' = files
        /\ kills' = kills /\ input' = input /\ target' = target
    BY <1>9 DEF driverVars
  <2>2. Undisturbed' <=> Undisturbed
    BY <2>1 DEF Undisturbed
  <2>3. MinimizeShape' <=> MinimizeShape
    BY <2>1, <2>2 DEF MinimizeShape
  <2>4. MinimizeGood' <=> MinimizeGood
    BY <2>1 DEF MinimizeGood, Like, Apart, Fails, Outcome, ExactPath
  <2> QED  BY <2>1, <2>2, <2>3, <2>4 DEF MinimizeInv
<1> QED  BY <1>1, <1>2, <1>3, <1>5, <1>6, <1>7, <1>8, <1>9 DEF DriverNext, DriverExited

(* The invariant says that a minimised unit fails like the input.          *)
LEMMA MinimizeImplied ==
  ASSUME MinimizeInv
  PROVE  MinimizedFails
<1> SUFFICES ASSUME mode = "minimize_crash", exit = 0, Undisturbed PROVE MinimizedFails
  BY DEF MinimizedFails, Undisturbed
<1>1. MinimizeGood /\ local.checked
  BY DEF MinimizeInv
<1>2. Like(files[local.current])
  BY <1>1 DEF MinimizeGood
<1> QED  BY <1>2 DEF MinimizedFails, Like
-----------------------------------------------------------------------------
(* -cleanse_crash.                                                         *)

(* The replacement bytes and their places.                                 *)
LEMMA BytesAre ==
  /\ Len(ReplacementBytes) \in Nat \ {0}
  /\ \A k \in 1..Len(ReplacementBytes) : ReplacementBytes[k] \in ToSet(ReplacementBytes)
  /\ \A b \in ToSet(ReplacementBytes) : \E k \in 1..Len(ReplacementBytes) : ReplacementBytes[k] = b
<1> DEFINE R == ToSet(ReplacementBytes)
           s == ReplacementBytes
<1>1. s \in Seq(R) /\ s # <<>>
  BY DriverAssumption DEF DriverAssumption
<1>2. R = {s[k] : k \in DOMAIN s}
  BY DEF ToSet
<1> HIDE DEF R, s
<1>3. DOMAIN s = 1..Len(s) /\ Len(s) \in Nat /\ Len(s) # 0
  BY <1>1
<1>4. \A k \in 1..Len(s) : s[k] \in R
  BY <1>1, <1>3
<1>5. \A b \in R : \E k \in 1..Len(s) : s[k] = b
  BY <1>2, <1>3
<1> QED  BY <1>3, <1>4, <1>5 DEF R, s

(* One more replacement has been tried.                                    *)
LEMMA TriedMore ==
  ASSUME NEW u, NEW i \in Nat, NEW k \in 1..Len(ReplacementBytes), i <= Len(input), Len(input) \in Nat,
         Tried(u, i, k), Resists(u, i, ReplacementBytes[k])
  PROVE  /\ k # Len(ReplacementBytes) => Tried(u, i, k + 1)
         /\ k = Len(ReplacementBytes) => Tried(u, i + 1, 1)
<1> DEFINE n == Len(ReplacementBytes)
<1>0. n \in Nat \ {0} /\ \A b \in ToSet(ReplacementBytes) : \E m \in 1..n : ReplacementBytes[m] = b
  BY BytesAre
<1>1. /\ \A j \in 1..i - 1 : \A b \in ToSet(ReplacementBytes) : Resists(u, j, b)
      /\ \A m \in 1..k - 1 : Resists(u, i, ReplacementBytes[m])
  BY DEF Tried
<1> HIDE DEF n
<1>2. \A m \in 1..k : m = k \/ m \in 1..k - 1
  BY <1>0 DEF n
<1>3. \A m \in 1..k : Resists(u, i, ReplacementBytes[m])
  BY <1>1, <1>2
<1>4. k + 1 - 1 = k /\ i + 1 - 1 = i /\ 1 - 1 = 0
  BY <1>0 DEF n
<1>5. Tried(u, i, k + 1)
  BY <1>1, <1>3, <1>4 DEF Tried
<1>6. ASSUME k = n PROVE Tried(u, i + 1, 1)
  <2>1. \A b \in ToSet(ReplacementBytes) : Resists(u, i, b)
    BY <1>0, <1>3, <1>6
  <2>2. \A j \in 1..i : j = i \/ j \in 1..i - 1
    OBVIOUS
  <2>3. \A j \in 1..i : \A b \in ToSet(ReplacementBytes) : Resists(u, j, b)
    BY <1>1, <2>1, <2>2
  <2>4. \A m \in 1..1 - 1 : Resists(u, i + 1, ReplacementBytes[m])
    BY <1>4
  <2> QED  BY <1>4, <2>3, <2>4 DEF Tried
<1> QED  BY <1>5, <1>6 DEF n

(* A byte that is a replacement itself has nothing to be tried.            *)
LEMMA TriedSkip ==
  ASSUME NEW u, NEW i \in Nat, NEW k, Tried(u, i, k), u[i] \in ToSet(ReplacementBytes)
  PROVE  Tried(u, i + 1, 1)
<1>1. \A b : Resists(u, i, b)
  BY DEF Resists
<1>2. \A j \in 1..i : j = i \/ j \in 1..i - 1
  OBVIOUS
<1>3. i + 1 - 1 = i /\ \A m \in 1..1 - 1 : FALSE
  OBVIOUS
<1> QED  BY <1>1, <1>2, <1>3 DEF Tried

(* A trial differs from the input in replaced bytes only.                  *)
LEMMA TrialReplaced ==
  ASSUME NEW u, input \in Seq(ToSet(input)), Replaced(u), NEW i \in 1..Len(input), NEW b \in ToSet(ReplacementBytes)
  PROVE  Replaced([u EXCEPT ![i] = b])
<1> DEFINE V == ToSet(input) \cup ToSet(ReplacementBytes)
           v == [u EXCEPT ![i] = b]
<1>1. u \in Seq(V) /\ Len(u) = Len(input) /\ b \in V
  BY DEF Replaced
<1>2. \A j \in 1..Len(input) : u[j] \in {input[j]} \cup ToSet(ReplacementBytes)
  BY DEF Replaced
<1> HIDE DEF V
<1>3. v \in Seq(V) /\ Len(v) = Len(u) /\ DOMAIN v = 1..Len(u)
  BY <1>1
<1>4. \A j \in 1..Len(input) : v[j] = IF j = i THEN b ELSE u[j]
  BY <1>1
<1> QED  BY <1>1, <1>2, <1>3, <1>4 DEF Replaced, V

(* A cleansing starts.                                                     *)
LEMMA StartCleanse ==
  ASSUME DispatchInv, Start
  PROVE  CleanseInv'
<1>1. /\ mode = "start" /\ args' = args /\ files' = files /\ exit = Running /\ kills' = kills
      /\ input' = input /\ target' = target /\ args \in CommandLines /\ files \in Contents /\ mode' = ModeOf(args, files)
  BY DEF Start, DispatchInv, Dispatched
<1> SUFFICES ASSUME mode' = "cleanse_crash", exit' = Running \/ local' # None
             PROVE  (local # None /\ CleanseShape /\ (kills = 0 => CleanseTried))'
  BY DEF CleanseInv
<1>2. ~WrongInputs("cleanse_crash") /\ exit' = exit /\ local' = LocalOf("cleanse_crash")
  <2>1. ModeOf(args, files) = "cleanse_crash"
    BY <1>1
  <2>2. WrongInputs("cleanse_crash") => exit' = 1 /\ local' = None
    BY <2>1 DEF Start
  <2>3. ~WrongInputs("cleanse_crash")
    BY <2>2 DEF Running
  <2> QED  BY <2>1, <2>3 DEF Start
<1>3. Len(Inputs(args)) = 1 /\ InputFile \in DOMAIN files
  BY <1>2 DEF WrongInputs
<1>4. input = files[InputFile]
  BY <1>1, <1>3, OneFile DEF DispatchInv, Dispatched
<1>5. input \in FileUnits
  BY <1>1, <1>3, <1>4, DriverAssumption DEF DriverAssumption
<1>6. input \in Seq(ToSet(input))
  BY <1>5, DriverAssumption DEF DriverAssumption
<1>7. local' = [unit |-> input, idx |-> 1, byte |-> 1, round |-> 1, changed |-> FALSE]
  BY <1>2, <1>4 DEF LocalOf
<1>8. /\ DOMAIN local' = {"unit", "idx", "byte", "round", "changed"} /\ local'.changed = FALSE
      /\ local'.unit = input /\ local'.idx = 1 /\ local'.byte = 1
  BY <1>7
<1>9. local' # None
  <2>1. "unit" \in DOMAIN local' /\ DOMAIN None = {}
    BY <1>8 DEF None
  <2> QED  BY <2>1
<1>10. Replaced(input)
  <2> DEFINE U == ToSet(input)
             R == ToSet(ReplacementBytes)
  <2>1. input \in Seq(U)
    BY <1>6
  <2> HIDE DEF U, R
  <2>2. input \in Seq(U \cup R)
    BY <2>1
  <2> QED  BY <2>2 DEF Replaced, U, R
<1>11. Len(input) \in Nat
  BY <1>5, LengthsAre
<1>12. CleanseShape'
  <2>1. input' \in Seq(ToSet(input'))
    BY <1>1, <1>6
  <2>2. Replaced(local.unit)'
    BY <1>1, <1>8, <1>10 DEF Replaced
  <2>3. local'.idx \in 1..Len(input') + 1 /\ local'.byte \in 1..Len(ReplacementBytes)
    BY <1>1, <1>8, <1>11, BytesAre
  <2>4. exit' = Running
    BY <1>1, <1>2
  <2> QED  BY <1>8, <2>1, <2>2, <2>3, <2>4 DEF CleanseShape
<1>13. CleanseTried'
  <2>1. \A n \in 1..1 - 1 : FALSE
    OBVIOUS
  <2>2. Tried(local.unit, local.idx, local.byte)'
    BY <1>8, <2>1 DEF Tried
  <2>3. local'.unit = input'
    BY <1>1, <1>8
  <2> QED  BY <2>2, <2>3 DEF CleanseTried
<1> QED  BY <1>9, <1>12, <1>13

(* One step of a cleansing, by what it makes of the locals.                *)
LEMMA CleanseMoved ==
  ASSUME CleanseShape, exit = Running, exit' = exit, input' = input,
         DOMAIN local' = DOMAIN local, local'.changed \in BOOLEAN, Replaced(local'.unit),
         local'.idx \in 1..Len(input) + 1, local'.byte \in 1..Len(ReplacementBytes)
  PROVE  (local # None /\ CleanseShape)'
<1>1. local' # None
  <2>1. "unit" \in DOMAIN local' /\ DOMAIN None = {}
    BY DEF None, CleanseShape
  <2> QED  BY <2>1
<1>2. Replaced(local.unit)'
  BY DEF Replaced
<1> QED  BY <1>1, <1>2 DEF CleanseShape

(* What is known in a cleansing.                                           *)
LEMMA InCleanse ==
  ASSUME DispatchInv, CleanseInv, In("cleanse_crash")
  PROVE  /\ exit = Running /\ args \in Seq(ToSet(args)) /\ Len(Inputs(args)) = 1 /\ Passed(6, args, files)
         /\ kills \in Nat /\ CleanseShape /\ (kills = 0 => CleanseTried)
<1>1. mode = "cleanse_crash" /\ exit = Running
  BY DEF In
<1>2. Dispatched /\ kills \in Nat /\ Len(Inputs(args)) = 1
  BY <1>1 DEF DispatchInv, Dispatched
<1>3. mode = Modes[7] /\ 7 \in 1..13 /\ 7 - 1 = 6
  BY <1>1, ModesAre
<1>4. args \in Seq(ToSet(args)) /\ Passed(6, args, files)
  BY <1>2, <1>3, ModePassed
<1> QED  BY <1>1, <1>2, <1>4 DEF CleanseInv

(* The locals of a cleansing after a move.                                 *)
LEMMA MoveIs ==
  ASSUME CleanseShape, NEW i, NEW b
  PROVE  /\ DOMAIN Move(i, b) = DOMAIN local /\ Move(i, b).unit = local.unit /\ Move(i, b).idx = i
         /\ Move(i, b).byte = b /\ Move(i, b).changed = local.changed
         /\ DOMAIN [Move(i, b) EXCEPT !.unit = Trial, !.changed = TRUE] = DOMAIN local
         /\ [Move(i, b) EXCEPT !.unit = Trial, !.changed = TRUE].unit = Trial
         /\ [Move(i, b) EXCEPT !.unit = Trial, !.changed = TRUE].changed = TRUE
         /\ [Move(i, b) EXCEPT !.unit = Trial, !.changed = TRUE].idx = i
         /\ [Move(i, b) EXCEPT !.unit = Trial, !.changed = TRUE].byte = b
BY DEF Move, CleanseShape

(* Target and input decide what has been tried.                            *)
LEMMA TriedSame ==
  ASSUME target' = target, input' = input
  PROVE  \A u, i, k : Tried(u, i, k)' <=> Tried(u, i, k)
BY DEF Tried, Resists, Fails, Outcome

(* The child of a cleansing fails exactly if the unit in the trial file    *)
(* does.                                                                   *)
LEMMA ChildWritten ==
  ASSUME NEW U, args \in Seq(U), Len(Inputs(args)) = 1, Passed(6, args, files), NEW u,
         NEW r \in Executions(CleanseArgs, Write(files, <<"tmp">>, u))
  PROVE  r.killed \/ (r.exit # 0 <=> Fails(u))
<1> DEFINE fs == Write(files, <<"tmp">>, u)
<1>1. <<"tmp">> \in DOMAIN fs /\ fs[<<"tmp">>] = u
  BY DEF Write
<1> HIDE DEF fs
<1>2. ModeOf(CleanseArgs, fs) = "files"
  BY <1>1, CleanseMode
<1>3. Given(CleanseArgs, "path") = Append(<<>>, Path(<<"tmp">>))
  BY CleanseChild
<1>4. r.killed \/ r \in Results(CleanseArgs, fs)
  BY ResultIs DEF fs
<1>5. CASE r \in Results(CleanseArgs, fs)
  <2> DEFINE t == <<"tmp">>
  <2>1. t \in DOMAIN fs /\ fs[t] = u /\ Given(CleanseArgs, "path") = Append(<<>>, Path(t))
    BY <1>1, <1>3
  <2> HIDE DEF t
  <2>2. r.exit = 0 => ~Fails(fs[t])
    BY <1>2, <1>5, <2>1, RunOne
  <2>3. r.exit # 0 => Fails(fs[t])
    BY <1>2, <1>5, <2>1, RunOne
  <2> QED  BY <2>1, <2>2, <2>3
<1> QED  BY <1>4, <1>5

(* A replacement is tried.                                                 *)
LEMMA TryCleanse ==
  ASSUME DispatchInv, CleanseInv, CleanseTry
  PROVE  CleanseInv'
<1> DEFINE u == local.unit
           i == local.idx
           k == local.byte
           t == Trial
<1>1. /\ In("cleanse_crash") /\ i <= Len(u) /\ mode' = mode /\ args' = args /\ exit' = exit
      /\ input' = input /\ target' = target
  BY DEF CleanseTry
<1>2. /\ exit = Running /\ args \in Seq(ToSet(args)) /\ Len(Inputs(args)) = 1 /\ Passed(6, args, files)
      /\ kills \in Nat /\ CleanseShape /\ (kills = 0 => CleanseTried)
  BY <1>1, InCleanse
<1>3. PICK r \in Executions(CleanseArgs, Write(files, <<"tmp">>, t)) :
        /\ Execute(CleanseArgs, Write(files, <<"tmp">>, t), r)
        /\ IF r.exit # 0 THEN local' = AfterFailure(r) /\ files' = Write(files, ExactPath, t)
           ELSE /\ local' = IF local.byte = Len(ReplacementBytes) THEN Move(local.idx + 1, 1)
                            ELSE Move(local.idx, local.byte + 1)
                /\ UNCHANGED files
  BY DEF CleanseTry
<1>4. (r.killed => kills' # 0) /\ (kills' = 0 => kills = 0)
  BY <1>2, <1>3, KillsStay
<1>5. /\ input \in Seq(ToSet(input)) /\ Len(input) \in Nat /\ i \in 1..Len(input) /\ i \in Nat
      /\ k \in 1..Len(ReplacementBytes) /\ Len(ReplacementBytes) \in Nat \ {0} /\ Replaced(u)
      /\ local.changed \in BOOLEAN
  <2>1. input \in Seq(ToSet(input)) /\ Replaced(u) /\ Len(u) = Len(input) /\ local.changed \in BOOLEAN
        /\ i \in 1..Len(input) + 1 /\ k \in 1..Len(ReplacementBytes)
    BY <1>2 DEF CleanseShape, Replaced
  <2> DEFINE U == ToSet(input)
  <2>2. input \in Seq(U)
    BY <2>1
  <2> HIDE DEF U
  <2>3. Len(input) \in Nat
    BY <2>2
  <2> HIDE DEF u, i, k
  <2>4. i \in 1..Len(input)
    BY <1>1, <2>1, <2>3
  <2> QED  BY <2>1, <2>3, <2>4, BytesAre
<1>6. ReplacementBytes[k] \in ToSet(ReplacementBytes) /\ t = [u EXCEPT ![i] = ReplacementBytes[k]]
  BY <1>5, BytesAre DEF Trial
<1>7. Replaced(t)
  <2> HIDE DEF u, i, k, t
  <2> QED  BY <1>5, <1>6, TrialReplaced
<1>8. r.killed \/ (r.exit # 0 <=> Fails(t))
  <2> HIDE DEF t
  <2> QED  BY <1>2, <1>3, ChildWritten
<1>9. CASE r.exit # 0
  <2>1. local' = [Move(i + 1, 1) EXCEPT !.unit = t, !.changed = TRUE] /\ files' = Write(files, ExactPath, t)
    BY <1>3, <1>9 DEF AfterFailure
  <2>2. /\ DOMAIN local' = DOMAIN local /\ local'.unit = t /\ local'.changed = TRUE
        /\ local'.idx = i + 1 /\ local'.byte = 1
    BY <1>2, <2>1, MoveIs
  <2> HIDE DEF t, u, i, k
  <2>3. (local # None /\ CleanseShape)'
    <3>1. i + 1 \in 1..Len(input) + 1 /\ 1 \in 1..Len(ReplacementBytes)
      BY <1>5
    <3>2. /\ local'.idx \in 1..Len(input) + 1 /\ local'.byte \in 1..Len(ReplacementBytes)
          /\ local'.changed \in BOOLEAN /\ Replaced(local'.unit)
      BY <1>7, <2>2, <3>1
    <3> QED  BY <1>1, <1>2, <2>2, <3>2, CleanseMoved
  <2>4. ASSUME kills' = 0 PROVE CleanseTried'
    <3>1. Fails(t)
      BY <1>4, <1>8, <1>9, <2>4
    <3>2. Fails(local.unit)'
      BY <1>1, <2>2, <3>1 DEF Fails, Outcome
    <3>3. files'[ExactPath'] = t
      BY <1>1, <2>1 DEF ExactPath, Write
    <3> QED  BY <2>2, <3>2, <3>3 DEF CleanseTried
  <2> QED  BY <2>3, <2>4 DEF CleanseInv
<1>10. CASE r.exit = 0
  <2>1. files' = files /\ local' = IF k = Len(ReplacementBytes) THEN Move(i + 1, 1) ELSE Move(i, k + 1)
    BY <1>3, <1>10
  <2>2. /\ DOMAIN local' = DOMAIN local /\ local'.unit = u /\ local'.changed = local.changed
        /\ local'.idx = (IF k = Len(ReplacementBytes) THEN i + 1 ELSE i)
        /\ local'.byte = (IF k = Len(ReplacementBytes) THEN 1 ELSE k + 1)
    BY <1>2, <2>1, MoveIs
  <2>3. local'.idx \in 1..Len(input) + 1 /\ local'.byte \in 1..Len(ReplacementBytes)
    <3> HIDE DEF u, i, k, t
    <3> QED  BY <1>5, <2>2
  <2>4. (local # None /\ CleanseShape)'
    <3> HIDE DEF u, i, k, t
    <3> QED  BY <1>1, <1>2, <1>5, <2>2, <2>3, CleanseMoved
  <2>5. ASSUME kills' = 0 PROVE CleanseTried'
    <3>1. ~Fails(t) /\ CleanseTried
      BY <1>2, <1>4, <1>8, <1>10, <2>5
    <3>2. Resists(u, i, ReplacementBytes[k])
      BY <1>6, <3>1 DEF Resists
    <3>3. /\ u # input => Fails(u) /\ files[ExactPath] = u
          /\ ~local.changed => Tried(u, i, k)
      BY <3>1 DEF CleanseTried
    <3> HIDE DEF u, i, k, t
    <3>4. ~local.changed => Tried(u, local'.idx, local'.byte)
      <4> SUFFICES ASSUME ~local.changed PROVE Tried(u, local'.idx, local'.byte)
        OBVIOUS
      <4>1. Tried(u, i, k) /\ i <= Len(input)
        BY <1>5, <3>3
      <4>2. /\ k # Len(ReplacementBytes) => Tried(u, i, k + 1)
            /\ k = Len(ReplacementBytes) => Tried(u, i + 1, 1)
        BY <1>5, <3>2, <4>1, TriedMore
      <4> QED  BY <2>2, <4>2
    <3>5. ~local.changed => Tried(local.unit, local.idx, local.byte)'
      BY <1>1, <2>2, <3>4 DEF Tried, Resists, Fails, Outcome
    <3>6. u # input => Fails(local.unit)' /\ files'[ExactPath'] = u
      BY <1>1, <2>1, <2>2, <3>3 DEF Fails, Outcome, ExactPath
    <3> QED  BY <1>1, <2>2, <3>5, <3>6 DEF CleanseTried
  <2> QED  BY <2>4, <2>5 DEF CleanseInv
<1> QED  BY <1>9, <1>10

(* A byte is skipped.                                                      *)
LEMMA SkipCleanse ==
  ASSUME DispatchInv, CleanseInv, CleanseSkip
  PROVE  CleanseInv'
<1> DEFINE u == local.unit
           i == local.idx
<1>1. /\ In("cleanse_crash") /\ i <= Len(u) /\ u[i] \in ToSet(ReplacementBytes)
      /\ mode' = mode /\ args' = args /\ exit' = exit /\ files' = files /\ kills' = kills
      /\ input' = input /\ target' = target /\ local' = Move(local.idx + 1, 1)
  BY DEF CleanseSkip
<1>2. /\ exit = Running /\ CleanseShape /\ (kills = 0 => CleanseTried)
  BY <1>1, InCleanse
<1>3. /\ DOMAIN local' = DOMAIN local /\ local'.unit = u /\ local'.changed = local.changed
      /\ local'.idx = i + 1 /\ local'.byte = 1
  BY <1>1, <1>2, MoveIs
<1>4. /\ i \in Nat /\ i + 1 \in 1..Len(input) + 1 /\ 1 \in 1..Len(ReplacementBytes) /\ Replaced(u)
      /\ local.changed \in BOOLEAN
  <2>1. i \in 1..Len(input) + 1 /\ Len(u) = Len(input) /\ Replaced(u) /\ local.changed \in BOOLEAN
        /\ input \in Seq(ToSet(input))
    BY <1>2 DEF CleanseShape, Replaced
  <2> DEFINE U == ToSet(input)
  <2>2. input \in Seq(U)
    BY <2>1
  <2> HIDE DEF U
  <2>3. Len(input) \in Nat
    BY <2>2
  <2> HIDE DEF u, i
  <2> QED  BY <1>1, <2>1, <2>3, BytesAre
<1>5. (local # None /\ CleanseShape)'
  <2> HIDE DEF u, i
  <2>1. /\ local'.idx \in 1..Len(input) + 1 /\ local'.byte \in 1..Len(ReplacementBytes)
        /\ local'.changed \in BOOLEAN /\ Replaced(local'.unit)
    BY <1>3, <1>4
  <2> QED  BY <1>1, <1>2, <1>3, <2>1, CleanseMoved
<1>6. ASSUME kills' = 0 PROVE CleanseTried'
  <2>1. /\ u # input => Fails(u) /\ files[ExactPath] = u
        /\ ~local.changed => Tried(u, i, local.byte)
    BY <1>1, <1>2, <1>6 DEF CleanseTried
  <2> HIDE DEF u, i
  <2>2. ~local.changed => Tried(u, i + 1, 1)
    BY <1>1, <1>4, <2>1, TriedSkip
  <2>3. ~local.changed => Tried(local.unit, local.idx, local.byte)'
    BY <1>1, <1>3, <2>2 DEF Tried, Resists, Fails, Outcome
  <2>4. u # input => Fails(local.unit)' /\ files'[ExactPath'] = u
    BY <1>1, <1>3, <2>1 DEF Fails, Outcome, ExactPath
  <2> QED  BY <1>1, <1>3, <2>3, <2>4 DEF CleanseTried
<1> QED  BY <1>5, <1>6 DEF CleanseInv

(* A round over all bytes has ended.                                       *)
LEMMA RoundCleanse ==
  ASSUME DispatchInv, CleanseInv, CleanseRound
  PROVE  CleanseInv'
<1> DEFINE u == local.unit
           i == local.idx
<1>1. /\ In("cleanse_crash") /\ i > Len(u)
      /\ mode' = mode /\ args' = args /\ files' = files /\ kills' = kills
      /\ input' = input /\ target' = target
  BY DEF CleanseRound
<1>2. /\ exit = Running /\ CleanseShape /\ (kills = 0 => CleanseTried)
  BY <1>1, InCleanse
<1>3. /\ i > Len(input) /\ Len(input) \in Nat /\ Replaced(u) /\ local.changed \in BOOLEAN
      /\ DOMAIN local = {"unit", "idx", "byte", "round", "changed"}
  <2>1. Len(u) = Len(input) /\ Replaced(u) /\ local.changed \in BOOLEAN
        /\ input \in Seq(ToSet(input)) /\ DOMAIN local = {"unit", "idx", "byte", "round", "changed"}
    BY <1>2 DEF CleanseShape, Replaced
  <2> DEFINE U == ToSet(input)
  <2>2. input \in Seq(U)
    BY <2>1
  <2> HIDE DEF U
  <2>3. Len(input) \in Nat
    BY <2>2
  <2> QED  BY <1>1, <2>1, <2>3
<1>4. CASE local.changed /\ local.round < CleanseRounds
  <2>1. local' = [Move(1, 1) EXCEPT !.round = @ + 1, !.changed = FALSE] /\ exit' = exit
    BY <1>4 DEF CleanseRound
  <2>2. /\ DOMAIN local' = DOMAIN local /\ local'.unit = u /\ local'.changed = FALSE
        /\ local'.idx = 1 /\ local'.byte = 1
    BY <1>3, <2>1 DEF Move
  <2> HIDE DEF u, i
  <2>3. (local # None /\ CleanseShape)'
    <3>1. 1 \in 1..Len(input) + 1 /\ 1 \in 1..Len(ReplacementBytes)
      BY <1>3, BytesAre
    <3>2. /\ local'.idx \in 1..Len(input) + 1 /\ local'.byte \in 1..Len(ReplacementBytes)
          /\ local'.changed \in BOOLEAN /\ Replaced(local'.unit)
      BY <1>3, <2>2, <3>1
    <3> QED  BY <1>1, <1>2, <2>1, <2>2, <3>2, CleanseMoved
  <2>4. ASSUME kills' = 0 PROVE CleanseTried'
    <3>1. u # input => Fails(u) /\ files[ExactPath] = u
      BY <1>1, <1>2, <2>4 DEF CleanseTried, u
    <3>2. \A n \in 1..1 - 1 : FALSE
      OBVIOUS
    <3>3. Tried(local.unit, local.idx, local.byte)'
      BY <2>2, <3>2 DEF Tried
    <3>4. u # input => Fails(local.unit)' /\ files'[ExactPath'] = u
      BY <1>1, <2>2, <3>1 DEF Fails, Outcome, ExactPath
    <3> QED  BY <1>1, <2>2, <3>3, <3>4 DEF CleanseTried
  <2> QED  BY <2>3, <2>4 DEF CleanseInv
<1>5. CASE ~(local.changed /\ local.round < CleanseRounds)
  <2>1. local' = local /\ exit' = 0
    BY <1>5 DEF CleanseRound
  <2>2. local' # None
    <3>1. "unit" \in DOMAIN local /\ DOMAIN None = {}
      BY <1>3 DEF None
    <3> QED  BY <2>1, <3>1
  <2>3. CleanseShape'
    BY <1>1, <1>2, <1>3, <2>1 DEF CleanseShape, Replaced
  <2>4. ASSUME kills' = 0 PROVE CleanseTried'
    <3>1. CleanseTried
      BY <1>1, <1>2, <2>4
    <3>2. Tried(local.unit, local.idx, local.byte)' <=> Tried(local.unit, local.idx, local.byte)
      BY <1>1, <2>1 DEF Tried, Resists, Fails, Outcome
    <3>3. Fails(local.unit)' <=> Fails(local.unit)
      BY <1>1, <2>1 DEF Fails, Outcome
    <3>4. ExactPath' = ExactPath
      BY <1>1 DEF ExactPath
    <3> QED  BY <1>1, <2>1, <3>1, <3>2, <3>3, <3>4 DEF CleanseTried
  <2> QED  BY <2>2, <2>3, <2>4 DEF CleanseInv
<1> QED  BY <1>4, <1>5

(* Every step keeps the cleansing invariant.                               *)
LEMMA CleanseStep ==
  ASSUME DispatchInv, CleanseInv, [DriverNext]_driverVars
  PROVE  CleanseInv'
<1>1. CASE Start
  BY <1>1, StartCleanse
<1>2. CASE CleanseTry
  BY <1>2, TryCleanse
<1>3. CASE CleanseSkip
  BY <1>3, SkipCleanse
<1>4. CASE CleanseRound
  BY <1>4, RoundCleanse
<1>5. ASSUME mode # "cleanse_crash", mode' = mode PROVE CleanseInv'
  BY <1>5 DEF CleanseInv
<1>6. CASE RunItself
  BY <1>5, <1>6 DEF RunItself
<1>7. ASSUME NEW w, TakeJob(w) \/ RunJob(w) PROVE CleanseInv'
  BY <1>5, <1>7 DEF TakeJob, RunJob, In
<1>8. CASE JoinWorkers \/ MinimizeCheck \/ MinimizeStep
  BY <1>5, <1>8 DEF JoinWorkers, MinimizeCheck, MinimizeStep, In
<1>9. CASE RunMerge \/ RunForkMerge \/ RunEngine
  BY <1>5, <1>9 DEF RunMerge, RunForkMerge, RunEngine, In
<1>10. CASE UNCHANGED driverVars
  <2>1. /\ mode' = mode /\ args' = args /\ local' = local /\ exit' = exit /\ files' = files
        /\ kills' = kills /\ input' = input /\ target' = target
    BY <1>10 DEF driverVars
  <2>2. CleanseShape' <=> CleanseShape
    BY <2>1 DEF CleanseShape, Replaced
  <2>3. CleanseTried' <=> CleanseTried
    <3>1. Tried(local.unit, local.idx, local.byte)' <=> Tried(local.unit, local.idx, local.byte)
      BY <2>1 DEF Tried, Resists, Fails, Outcome
    <3>2. Fails(local.unit)' <=> Fails(local.unit)
      BY <2>1 DEF Fails, Outcome
    <3>3. ExactPath' = ExactPath
      BY <2>1 DEF ExactPath
    <3> QED  BY <2>1, <3>1, <3>2, <3>3 DEF CleanseTried
  <2> QED  BY <2>1, <2>2, <2>3 DEF CleanseInv
<1> QED  BY <1>1, <1>2, <1>3, <1>4, <1>6, <1>7, <1>8, <1>9, <1>10 DEF DriverNext, DriverExited

(* The invariant says that a cleansed unit fails and that no replacement   *)
(* is left that would.                                                     *)
LEMMA CleanseImplied ==
  ASSUME CleanseInv
  PROVE  CleansedFails
<1> SUFFICES ASSUME mode = "cleanse_crash", local # None, kills = 0
             PROVE  /\ \A i \in DOMAIN input : local.unit[i] \in {input[i]} \cup ToSet(ReplacementBytes)
                    /\ local.unit # input => Fails(local.unit) /\ files[ExactPath] = local.unit
                    /\ exit = 0 /\ ~local.changed =>
                         \A i \in DOMAIN input : \A b \in ToSet(ReplacementBytes) :
                           local.unit[i] \in ToSet(ReplacementBytes) \/ ~Fails([local.unit EXCEPT ![i] = b])
  BY DEF CleansedFails
<1>1. CleanseShape /\ CleanseTried
  BY DEF CleanseInv
<1>2. DOMAIN input = 1..Len(input) /\ Len(input) \in Nat
  <2> DEFINE U == ToSet(input)
  <2>1. input \in Seq(U)
    BY <1>1 DEF CleanseShape
  <2> HIDE DEF U
  <2> QED  BY <2>1
<1>3. \A i \in DOMAIN input : local.unit[i] \in {input[i]} \cup ToSet(ReplacementBytes)
  BY <1>1, <1>2 DEF CleanseShape, Replaced
<1>4. local.unit # input => Fails(local.unit) /\ files[ExactPath] = local.unit
  BY <1>1 DEF CleanseTried
<1>5. ASSUME exit = 0, ~local.changed, NEW i \in DOMAIN input, NEW b \in ToSet(ReplacementBytes)
      PROVE  Resists(local.unit, i, b)
  <2>1. local.idx > Len(input) /\ local.idx \in 1..Len(input) + 1
    BY <1>1, <1>5 DEF CleanseShape, Running
  <2>2. i \in 1..local.idx - 1
    BY <1>2, <2>1
  <2> QED  BY <1>1, <1>5, <2>2 DEF CleanseTried, Tried
<1> QED  BY <1>3, <1>4, <1>5 DEF Resists

-----------------------------------------------------------------------------
(* What the dispatch has found out holds as long as the process runs: in a *)
(* mode, no mode before it was selected; together with the next property.  *)
(* This is the inductive invariant for the children.                       *)
THEOREM DriverDispatch == DriverSpec => []DispatchInv
<1>1. DriverInit => DispatchInv
  BY DispatchInit
<1>2. DispatchInv /\ [DriverNext]_driverVars => DispatchInv'
  BY DispatchStep
<1> QED  BY <1>1, <1>2, PTL DEF DriverSpec

(* A child of the driver comes strictly later in the dispatch than its     *)
(* parent (but for the child of fork mode that collects data flow traces): *)
(* no command line that the driver makes starts the mode that made it      *)
(* again.                                                                  *)
THEOREM DriverChildren == DriverSpec => []ChildrenDescend
<1>1. DispatchInv => ChildrenDescend
  BY DEF DispatchInv
<1> QED  BY <1>1, DriverDispatch, PTL

(* -jobs with any numbers of jobs and workers: no job is given to two      *)
(* workers at a time, and when the process ends every job has run once, and*)
(* its exit code tells of any that failed.  A process that is asked for    *)
(* jobs does anything else only on one core and without -workers           *)
(* (FuzzerDriver.cpp, FuzzerDriver and RunInMultipleProcesses).            *)
THEOREM DriverJobs == DriverSpec => []JobsRunOnce
<1>1. DriverInit => JobsInv
  BY DEF DriverInit, JobsInv
<1>2. DispatchInv /\ JobsInv /\ [DriverNext]_driverVars => JobsInv'
  BY JobsStep
<1>3. DispatchInv /\ JobsInv => JobsRunOnce
  BY JobsImplied
<1> QED  BY <1>1, <1>2, <1>3, DriverDispatch, PTL DEF DriverSpec

(* FuzzerFlags.def: -minimize_crash that ends well, with no child killed   *)
(* and no internal step or cleansing asked for as well, has a unit that    *)
(* fails like the input (with its DEDUP_TOKEN) and is not longer.          *)
THEOREM DriverMinimizes == DriverSpec => []MinimizedFails
<1>1. DriverInit => MinimizeInv
  BY MinimizeInit
<1>2. DispatchInv /\ MinimizeInv /\ [DriverNext]_driverVars => MinimizeInv'
  BY MinimizeNext
<1>3. MinimizeInv => MinimizedFails
  BY MinimizeImplied
<1> QED  BY <1>1, <1>2, <1>3, DriverDispatch, PTL DEF DriverSpec

(* What -cleanse_crash writes, with no child killed, fails and differs     *)
(* from the input in replaced bytes only; if its last round changed        *)
(* nothing, no other byte can be replaced.                                 *)
THEOREM DriverCleanses == DriverSpec => []CleansedFails
<1>1. DriverInit => CleanseInv
  BY DEF DriverInit, CleanseInv
<1>2. DispatchInv /\ CleanseInv /\ [DriverNext]_driverVars => CleanseInv'
  BY CleanseStep
<1>3. CleanseInv => CleansedFails
  BY CleanseImplied
<1> QED  BY <1>1, <1>2, <1>3, DriverDispatch, PTL DEF DriverSpec
-----------------------------------------------------------------------------
(* Data flow traces: the inductive invariant.                              *)

(* What a file of traces has to say of the unit u.                         *)
Exec(u, f, b) == <<"block", f, b>> \in BlocksOf(u)
ExactBits(u, f) == [i \in 1..Lengths[u] |-> i - 1 \in Flow(u, f)]
Ascends(s) == \A i, j \in DOMAIN s : i < j => s[i] < s[j]

(* Lines that are right as far as they go.                                 *)
FRight(l, u) ==
  /\ l[1] = "F" /\ l[2] \in Functions /\ Flow(u, l[2]) # {}
  /\ \E n \in 0..Lengths[u] : l[3] = SubSeq(ExactBits(u, l[2]), 1, n)

Numbered(s, u, f) ==
  /\ s \in Seq(Nat) /\ Ascends(s)
  /\ \A i \in DOMAIN s : s[i] = Blocks[f] \/ (s[i] \in 1..Blocks[f] - 1 /\ Exec(u, f, s[i]))

CRight(l, u) == l[1] = "C" /\ l[2] \in Functions /\ Exec(u, l[2], 0) /\ Numbered(l[3], u, l[2])

(* Lines that are whole.                                                   *)
FWhole(l, u) == l[3] = ExactBits(u, l[2])
CWhole(l, u) ==
  /\ l[3] # <<>> /\ Last(l[3]) = Blocks[l[2]]
  /\ \A b \in 1..Blocks[l[2]] - 1 : Exec(u, l[2], b) => \E i \in DOMAIN l[3] : l[3][i] = b

Has(lines, kind, f) == \E i \in DOMAIN lines : lines[i][1] = kind /\ lines[i][2] = f

RightFile(lines, u) ==
  /\ lines \in Seq(ToSet(lines))
  /\ \A i \in DOMAIN lines : FRight(lines[i], u) \/ CRight(lines[i], u)
  /\ \A i, j \in DOMAIN lines : lines[i][1] = "C" /\ lines[j][1] = "C" /\ lines[i][2] = lines[j][2] => i = j

WholeFile(lines, u) ==
  /\ \A i \in DOMAIN lines : lines[i][1] = "F" => FWhole(lines[i], u)
  /\ \A i \in DOMAIN lines : lines[i][1] = "C" => CWhole(lines[i], u)
  /\ \A f \in Functions : Flow(u, f) # {} => Has(lines, "F", f)
  /\ \A f \in Functions : Exec(u, f, 0) => Has(lines, "C", f)

(* Counters of the files S[f], for each function f.                        *)
Executing(S, f, b) == {u \in S[f] : Exec(u, f, b)}
CountersOf(cov, S, f) ==
  /\ f \in Functions /\ \E m \in 1..Blocks[f] : DOMAIN cov[f] = 0..m - 1
  /\ Executing(S, f, 0) # {}
  /\ \A b \in DOMAIN cov[f] : cov[f][b] \in Nat /\ cov[f][b] <= Cardinality(Executing(S, f, b))
ExactOf(cov, S, f) ==
  /\ DOMAIN cov[f] = 0..Blocks[f] - 1
  /\ \A b \in DOMAIN cov[f] : cov[f][b] = Cardinality(Executing(S, f, b))

Counted(cov, S) == \A f \in DOMAIN cov : CountersOf(cov, S, f)
CountedAll(cov, S) ==
  /\ \A f \in DOMAIN cov : ExactOf(cov, S, f)
  /\ \A f \in Functions \ DOMAIN cov : Executing(S, f, 0) = {}

Everywhere(R) == [f \in Functions |-> R]
-----------------------------------------------------------------------------
FlowType ==
  /\ program \in DOMAIN Programs
  /\ pc \in {"collect", "run", "coverage", "traces", "done", "abort"}
  /\ todo \subseteq Files /\ corpus \subseteq Files /\ DOMAIN dir \subseteq Files
  /\ killed \in Nat /\ unread \subseteq DOMAIN dir \cap corpus
  /\ focus \in Functions \cup {AutoFocus, NumFuncs}
  /\ pc \in {"collect", "run"} => focus \in Functions \cup {AutoFocus}
  /\ pc \in {"traces", "done"} => focus \in Functions

(* The iterations of the instrumented process so far.                      *)
LabelsAt(u, f, k) ==
  LET base == (k - 1) * NumLabels
  IN {i - base : i \in Flow(u, f) \cap base..Min({base + NumLabels, Lengths[u]}) - 1}

RunInv ==
  pc = "run" =>
    /\ unit \in Files /\ labels \in Seq([Functions -> SUBSET Int])
    /\ Len(labels) <= NumIterations(unit)
    /\ \A k \in DOMAIN labels : \A f \in Functions : labels[k][f] = LabelsAt(unit, f, k)
    /\ executed = IF labels = <<>> THEN {} ELSE BlocksOf(unit)

DirInv == \A u \in DOMAIN dir : RightFile(dir[u], u) /\ (killed = 0 => WholeFile(dir[u], u))

Corpus == DOMAIN dir \cap corpus

CovInv ==
  /\ pc \in {"collect", "run"} => coverage = <<>>
  /\ coverage = <<>> \/ DOMAIN coverage # {}
  /\ LET S == Everywhere(IF pc = "coverage" THEN Corpus \ unread ELSE Corpus)
     IN /\ Counted(coverage, S)
        /\ killed = 0 => \A f \in DOMAIN coverage : ExactOf(coverage, S, f)
        /\ killed = 0 /\ pc = "coverage" => CountedAll(coverage, S)
  /\ pc = "traces" /\ coverage # <<>> => focus \in DOMAIN coverage

TraceInv ==
  /\ pc \in {"collect", "run", "coverage"} => traces = <<>>
  /\ pc = "done" => unread = {}
  /\ pc \in {"traces", "done"} =>
       /\ \A u \in DOMAIN traces : u \in Corpus /\ IsPrefix(traces[u], ExactBits(u, focus))
       /\ killed = 0 =>
            /\ DOMAIN traces = {u \in Corpus \ unread : Flow(u, focus) # {}}
            /\ \A u \in DOMAIN traces : traces[u] = ExactBits(u, focus)

FlowInv == FlowType /\ RunInv /\ DirInv /\ CovInv /\ TraceInv
-----------------------------------------------------------------------------
(* Data flow traces: what the instrumented process prints.                 *)

(* The smaller of two numbers.                                             *)
LEMMA MinTwo ==
  ASSUME NEW a \in Int, NEW b \in Int
  PROVE  Min({a, b}) = IF a <= b THEN a ELSE b
<1> DEFINE m == IF a <= b THEN a ELSE b
<1>1. m \in {a, b} /\ \A y \in {a, b} : m <= y
  OBVIOUS
<1>2. \A x \in {a, b} : (\A y \in {a, b} : x <= y) => x = m
  OBVIOUS
<1> QED  BY <1>1, <1>2 DEF Min

(* Division by n.                                                          *)
LEMMA Euclid ==
  ASSUME NEW n \in Nat \ {0}, NEW i \in Nat
  PROVE  /\ i \div n \in Nat /\ i % n \in 0..n - 1
         /\ (i \div n) * n + (i % n) = i
<1> DEFINE q == i \div n
           r == i % n
<1>1. q \in Nat /\ r \in 0..n - 1
  OBVIOUS
<1>2. r = i - q * n
  OBVIOUS
<1> HIDE DEF q, r
<1>3. q * n \in Int
  BY <1>1
<1>4. q * n + r = i
  BY <1>1, <1>2, <1>3
<1> QED  BY <1>1, <1>4 DEF q, r

(* Multiples of n are n apart.                                             *)
LEMMA Multiples ==
  ASSUME NEW n \in Nat \ {0}, NEW a \in Int, NEW b \in Int, a < b
  PROVE  a * n + n <= b * n
<1>1. (b - a) * n >= n
  OBVIOUS
<1> QED  BY <1>1

(* Quotient and remainder are unique.                                      *)
LEMMA DividesOnce ==
  ASSUME NEW n \in Nat \ {0}, NEW p \in Int, NEW q \in Int,
         NEW r \in 0..n - 1, NEW s \in 0..n - 1, p * n + r = q * n + s
  PROVE  p = q /\ r = s
<1>0. p * n \in Int /\ q * n \in Int
  OBVIOUS
<1>1. ~(p < q)
  <2> SUFFICES ASSUME p < q PROVE FALSE
    OBVIOUS
  <2>1. p * n + n <= q * n
    BY Multiples
  <2> QED  BY <1>0, <2>1
<1>2. ~(q < p)
  <2> SUFFICES ASSUME q < p PROVE FALSE
    OBVIOUS
  <2>1. q * n + n <= p * n
    BY Multiples
  <2> QED  BY <1>0, <2>1
<1> QED  BY <1>1, <1>2

(* The iterations of the instrumented process: as many as it takes, the    *)
(* last with the tail.                                                     *)
LEMMA Iterations ==
  ASSUME NEW n \in Nat \ {0}, NEW l \in Nat \ {0}, NEW k, k = (l + n - 1) \div n
  PROVE  /\ k \in Nat \ {0}
         /\ l % n = 0 => (k - 1) * n + n = l
         /\ l % n # 0 => (k - 1) * n + (l % n) = l
<1> DEFINE q == l \div n
           t == l % n
           m == l + n - 1
           s == m % n
<1>1. q \in Nat /\ t \in 0..n - 1 /\ q * n + t = l
  BY Euclid
<1>2. k \in Nat /\ s \in 0..n - 1 /\ k * n + s = m
  <2>1. m \in Nat
    OBVIOUS
  <2> HIDE DEF m
  <2> QED  BY <2>1, Euclid DEF m
<1>3. m = l + n - 1
  OBVIOUS
<1> HIDE DEF q, t, m, s
<1>4. q * n \in Int /\ k * n \in Int /\ (q + 1) * n = q * n + n /\ (k - 1) * n = k * n - n
  BY <1>1, <1>2
<1>5. CASE t = 0
  <2>1. k * n + s = q * n + (n - 1)
    BY <1>1, <1>2, <1>3, <1>4, <1>5
  <2>2. k = q
    BY <1>1, <1>2, <2>1, DividesOnce
  <2>3. k # 0
    <3> SUFFICES ASSUME k = 0 PROVE FALSE
      OBVIOUS
    <3>1. q * n = 0
      BY <2>2
    <3> QED  BY <1>1, <1>5, <3>1
  <2>4. (k - 1) * n + n = l
    BY <1>1, <1>4, <1>5, <2>2
  <2> QED  BY <1>2, <1>5, <2>3, <2>4 DEF t
<1>6. CASE t # 0
  <2>1. k * n + s = (q + 1) * n + (t - 1) /\ t - 1 \in 0..n - 1 /\ q + 1 \in Int
    BY <1>1, <1>2, <1>3, <1>4, <1>6
  <2> DEFINE p == q + 1
             r == t - 1
  <2>2. k = p
    <3>1. k * n + s = p * n + r /\ r \in 0..n - 1 /\ p \in Int
      BY <2>1
    <3> HIDE DEF p, r
    <3> QED  BY <1>2, <3>1, DividesOnce
  <2>3. (k - 1) * n = q * n
    BY <1>1, <2>2
  <2> QED  BY <1>1, <1>2, <1>6, <2>2, <2>3 DEF t
<1> QED  BY <1>5, <1>6

(* The bytes of an iteration.                                              *)
LEMMA LabelsAre ==
  ASSUME NEW u \in Files, NEW f \in Functions, NEW k \in Nat \ {0}, NEW r \in 0..NumLabels - 1,
         NEW x \in 0..Lengths[u] - 1, x = (k - 1) * NumLabels + r
  PROVE  r \in LabelsAt(u, f, k) <=> x \in Flow(u, f)
<1> DEFINE base == (k - 1) * NumLabels
           last == Min({base + NumLabels, Lengths[u]})
<1>1. NumLabels \in Nat \ {0} /\ Lengths[u] \in Nat \ {0}
  BY DataFlowAssumption DEF DataFlowAssumption
<1>2. base \in Int
  BY <1>1
<1>3. LabelsAt(u, f, k) = {i - base : i \in Flow(u, f) \cap base..last - 1}
  BY DEF LabelsAt
<1> HIDE DEF base
<1>4. last = IF base + NumLabels <= Lengths[u] THEN base + NumLabels ELSE Lengths[u]
  BY <1>1, <1>2, MinTwo
<1> HIDE DEF last
<1>5. x \in base..last - 1 /\ r = x - base
  BY <1>1, <1>2, <1>4 DEF base
<1>6. \A i \in base..last - 1 : i - base = r => i = x
  BY <1>2, <1>4, <1>5, <1>1
<1> QED  BY <1>3, <1>5, <1>6

(* All bytes that flow somewhere are bytes of the unit.                    *)
LEMMA FlowWithin ==
  ASSUME FlowType, NEW u \in Files, NEW f
  PROVE  Flow(u, f) \subseteq 0..Lengths[u] - 1
<1> SUFFICES ASSUME NEW x \in Flow(u, f) PROVE x \in 0..Lengths[u] - 1
  OBVIOUS
<1>1. PICK i \in DOMAIN Events(u) : Events(u)[i][1] = "cmp" /\ x \in Events(u)[i][2]
  BY DEF Flow
<1>2. Events(u)[i] \in ToSet(Programs[program][u])
  BY <1>1 DEF ToSet, Events
<1>3. Events(u)[i][2] \subseteq 0..Lengths[u] - 1
  BY <1>1, <1>2, DataFlowAssumption DEF DataFlowAssumption, FlowType
<1> QED  BY <1>1, <1>3

(* A byte has a place in one of the iterations.                            *)
LEMMA PlaceOf ==
  ASSUME NEW n \in Nat \ {0}, NEW l \in Nat \ {0}, NEW k, k = (l + n - 1) \div n, NEW x \in 0..l - 1
  PROVE  x \div n + 1 \in 1..k /\ x % n \in 0..n - 1 /\ (x \div n) * n + (x % n) = x
<1> DEFINE q == x \div n
           r == x % n
<1>0. x \in Nat
  OBVIOUS
<1>1. q \in Nat /\ r \in 0..n - 1 /\ q * n + r = x
  BY <1>0, Euclid
<1>2. k \in Nat \ {0} /\ (k - 1) * n + n >= l
  <2>1. /\ k \in Nat \ {0}
        /\ l % n = 0 => (k - 1) * n + n = l
        /\ l % n # 0 => (k - 1) * n + (l % n) = l
    BY Iterations, Zenon
  <2>2. l % n \in 0..n - 1
    BY Euclid
  <2> QED  BY <2>1, <2>2
<1> HIDE DEF q, r
<1>3. q < k
  <2> SUFFICES ASSUME k - 1 < q PROVE FALSE
    BY <1>1, <1>2
  <2>1. (k - 1) * n + n <= q * n
    BY <1>1, <1>2, Multiples
  <2>2. q * n \in Int /\ (k - 1) * n \in Int
    BY <1>1, <1>2
  <2> QED  BY <1>1, <1>2, <2>1, <2>2
<1>4. q + 1 \in 1..k
  BY <1>1, <1>2, <1>3
<1> QED  BY <1>1, <1>4 DEF q, r

(* The bits that the instrumented process prints, when it has run all      *)
(* iterations.                                                             *)
Complete == pc = "run" /\ Len(labels) = NumIterations(unit)

(* What is known of a process that has run all iterations.                 *)
LEMMA RunIs ==
  ASSUME RunInv, Complete
  PROVE  /\ unit \in Files /\ NumLabels \in Nat \ {0} /\ Lengths[unit] \in Nat \ {0}
         /\ Len(labels) \in Nat \ {0} /\ DOMAIN labels = 1..Len(labels) /\ executed = BlocksOf(unit)
         /\ Len(labels) = (Lengths[unit] + NumLabels - 1) \div NumLabels
         /\ \A k \in 1..Len(labels) : \A f \in Functions : labels[k][f] = LabelsAt(unit, f, k)
<1>1. unit \in Files /\ NumLabels \in Nat \ {0} /\ Lengths[unit] \in Nat \ {0}
  BY DataFlowAssumption DEF DataFlowAssumption, RunInv, Complete
<1>2. Len(labels) = (Lengths[unit] + NumLabels - 1) \div NumLabels
  BY DEF Complete, NumIterations
<1>3. Len(labels) \in Nat \ {0}
  BY <1>1, <1>2, Iterations, Zenon
<1>4. DOMAIN labels = 1..Len(labels) /\ labels # <<>>
  <2>1. labels \in Seq([Functions -> SUBSET Int])
    BY DEF RunInv, Complete
  <2>2. Len(<<>>) = 0
    OBVIOUS
  <2> QED  BY <1>3, <2>1, <2>2
<1> QED  BY <1>1, <1>2, <1>3, <1>4 DEF RunInv, Complete

(* It prints a bit for every byte of the unit.                             *)
LEMMA NumBitsIs ==
  ASSUME RunInv, Complete
  PROVE  NumBits = Lengths[unit]
<1> DEFINE n == NumLabels
           l == Lengths[unit]
           k == Len(labels)
           t == l % n
<1>1. n \in Nat \ {0} /\ l \in Nat \ {0} /\ k = (l + n - 1) \div n
  BY RunIs
<1>2. (l % n = 0 => (k - 1) * n + n = l) /\ (l % n # 0 => (k - 1) * n + (l % n) = l)
  <2> HIDE DEF n, l, k
  <2> QED  BY <1>1, Iterations, Zenon
<1>3. LenOfIteration(k) = IF t # 0 THEN t ELSE n
  BY DEF LenOfIteration
<1>4. NumBits = (k - 1) * n + LenOfIteration(k)
  BY DEF NumBits
<1>5. (t = 0 => (k - 1) * n + n = l) /\ (t # 0 => (k - 1) * n + t = l)
  BY <1>2
<1> HIDE DEF n, l, k, t
<1>6. NumBits = l
  BY <1>3, <1>4, <1>5
<1> QED  BY <1>6 DEF l

(* The bit of a byte is in the iteration that had a label for it.          *)
LEMMA BitIs ==
  ASSUME FlowType, RunInv, Complete, NEW f \in Functions, NEW x \in 0..Lengths[unit] - 1
  PROVE  /\ x \div NumLabels + 1 \in DOMAIN labels
         /\ x % NumLabels \in labels[x \div NumLabels + 1][f] <=> x \in Flow(unit, f)
<1> DEFINE q == x \div NumLabels
           r == x % NumLabels
           k == q + 1
<1>1. q + 1 \in 1..Len(labels) /\ r \in 0..NumLabels - 1 /\ q * NumLabels + r = x
  BY RunIs, PlaceOf, Zenon
<1>a. q \in Nat
  <2>1. x \in Nat
    OBVIOUS
  <2> QED  BY <2>1, RunIs, Euclid
<1> HIDE DEF q, r
<1>b. k - 1 = q
  BY <1>a
<1>2. k \in Nat \ {0} /\ x = (k - 1) * NumLabels + r /\ k \in 1..Len(labels)
  BY <1>1, <1>a, <1>b, RunIs
<1> HIDE DEF k
<1>3. r \in LabelsAt(unit, f, k) <=> x \in Flow(unit, f)
  BY <1>1, <1>2, RunIs, LabelsAre
<1>4. labels[k][f] = LabelsAt(unit, f, k) /\ k \in DOMAIN labels
  BY <1>2, RunIs
<1> QED  BY <1>3, <1>4 DEF k, q, r

(* The bits that are printed are the bytes that the function compares.     *)
LEMMA BitsExact ==
  ASSUME FlowType, RunInv, Complete, NEW f \in Functions
  PROVE  Bits(f) = ExactBits(unit, f)
<1>1. ASSUME NEW i \in 1..Lengths[unit]
      PROVE  ((i - 1) % NumLabels \in labels[(i - 1) \div NumLabels + 1][f]) = (i - 1 \in Flow(unit, f))
  <2> DEFINE x == i - 1
  <2>1. x \in 0..Lengths[unit] - 1
    BY RunIs
  <2> HIDE DEF x
  <2>2. x % NumLabels \in labels[x \div NumLabels + 1][f] <=> x \in Flow(unit, f)
    BY <2>1, BitIs
  <2>3. (x % NumLabels \in labels[x \div NumLabels + 1][f]) = (x \in Flow(unit, f))
    BY <2>2
  <2> QED  BY <2>3, Zenon DEF x
<1> QED  BY <1>1, NumBitsIs, Zenon DEF Bits, ExactBits

(* A function has a label exactly if a byte flows to it.                   *)
LEMMA HasAnyIs ==
  ASSUME FlowType, RunInv, Complete, NEW f \in Functions
  PROVE  HasAny(f) <=> Flow(unit, f) # {}
<1>1. ASSUME Flow(unit, f) # {} PROVE HasAny(f)
  <2>1. PICK x : x \in Flow(unit, f)
    BY <1>1
  <2>2. x \in 0..Lengths[unit] - 1
    BY <2>1, RunIs, FlowWithin
  <2> QED  BY <2>1, <2>2, BitIs DEF HasAny
<1>2. ASSUME HasAny(f) PROVE Flow(unit, f) # {}
  <2>1. PICK k \in DOMAIN labels : labels[k][f] # {}
    BY <1>2 DEF HasAny
  <2>2. LabelsAt(unit, f, k) # {}
    BY <2>1, RunIs
  <2> QED  BY <2>2 DEF LabelsAt
<1> QED  BY <1>1, <1>2

(* A list whose elements are related in their order.                       *)
Related(s, R) == \A i, j \in DOMAIN s : i < j => <<s[i], s[j]>> \in R

(* One more element.                                                       *)
LEMMA RelatedAppend ==
  ASSUME NEW U, NEW o \in Seq(U), NEW y \in U, NEW R, Related(o, R), \A i \in DOMAIN o : <<o[i], y>> \in R
  PROVE  Related(Append(o, y), R)
<1> DEFINE t == Append(o, y)
<1>1. /\ DOMAIN o = 1..Len(o) /\ Len(o) \in Nat /\ DOMAIN t = 1..Len(o) + 1 /\ t[Len(o) + 1] = y
      /\ \A i \in 1..Len(o) : t[i] = o[i]
  OBVIOUS
<1> HIDE DEF t
<1>2. ASSUME NEW i \in DOMAIN t, NEW j \in DOMAIN t, i < j PROVE <<t[i], t[j]>> \in R
  <2>1. i \in DOMAIN o /\ t[i] = o[i]
    BY <1>1, <1>2
  <2>2. CASE j = Len(o) + 1
    BY <1>1, <2>1, <2>2
  <2>3. CASE j # Len(o) + 1
    <3>1. j \in DOMAIN o /\ t[j] = o[j]
      BY <1>1, <2>3
    <3> QED  BY <1>2, <2>1, <3>1 DEF Related
  <2> QED  BY <2>2, <2>3
<1>3. Related(t, R)
  BY <1>2 DEF Related
<1> QED  BY <1>3 DEF t

(* Selecting keeps the order.                                              *)
LEMMA OnlyRelated ==
  ASSUME NEW U, NEW s \in Seq(U), NEW S, NEW R, Related(s, R)
  PROVE  Related(Only(s, S), R)
<1> DEFINE Wrong == {k \in 0..Len(s) : ~Related(Only(Upto(s, k), S), R)}
<1>1. 0 \notin Wrong
  <2>1. Only(Upto(s, 0), S) = <<>> /\ DOMAIN <<>> = {}
    BY UptoIs, OnlyEmpty
  <2> QED  BY <2>1 DEF Related
<1>2. ASSUME NEW k \in Wrong PROVE k - 1 \in Wrong
  <2> DEFINE p == Upto(s, k - 1)
             y == s[k]
             o == Only(p, S)
  <2>1. k \in 1..Len(s) /\ k - 1 \in 0..Len(s) /\ Upto(s, k) = Append(p, y) /\ p \in Seq(U) /\ y \in U
        /\ Len(p) = k - 1
    <3>1. k \in 1..Len(s)
      BY <1>1
    <3> QED  BY <3>1, UptoIs
  <2>2. \A i \in DOMAIN p : i \in DOMAIN s /\ i < k /\ p[i] = s[i]
    <3>1. DOMAIN p = 1..k - 1 /\ DOMAIN s = 1..Len(s)
      <4>1. DOMAIN p = 1..Len(p)
        BY <2>1
      <4> QED  BY <2>1, <4>1
    <3>2. \A i \in 1..k - 1 : p[i] = s[i]
      BY <2>1 DEF Upto
    <3> QED  BY <2>1, <3>1, <3>2
  <2> HIDE DEF p, y
  <2>3. ASSUME Related(o, R) PROVE Related(Only(Append(p, y), S), R)
    <3>1. Only(Append(p, y), S) = IF y \in S THEN Append(o, y) ELSE o
      BY <2>1, OnlyAppend
    <3>2. o \in Seq(U) /\ \A i \in DOMAIN o : \E j \in DOMAIN p : p[j] = o[i]
      BY <2>1, OnlyFrom
    <3> HIDE DEF o
    <3>3. \A i \in DOMAIN o : <<o[i], y>> \in R
      <4>1. \A j \in DOMAIN p : <<p[j], y>> \in R
        <5>1. k \in DOMAIN s
          BY <2>1
        <5> QED  BY <2>2, <5>1 DEF Related, y
      <4> QED  BY <3>2, <4>1
    <3>4. Related(Append(o, y), R)
      BY <2>1, <2>3, <3>2, <3>3, RelatedAppend
    <3> QED  BY <2>3, <3>1, <3>4
  <2> QED  BY <2>1, <2>3 DEF p
<1>3. Wrong = {}
  <2> HIDE DEF Wrong
  <2>1. Wrong \in SUBSET (0..Len(s)) /\ Len(s) \in Nat
    BY DEF Wrong
  <2> QED  BY <1>1, <1>2, <2>1, NoneFirst
<1>4. Related(Only(Upto(s, Len(s)), S), R)
  BY <1>3, UptoIs
<1> QED  BY <1>4, UptoIs

(* A list is one of its elements.                                          *)
LEMMA OwnElements ==
  ASSUME NEW U, NEW s \in Seq(U)
  PROVE  s \in Seq(ToSet(s))
<1>1. \A i \in 1..Len(s) : s[i] \in ToSet(s)
  BY DEF ToSet
<1> DEFINE T == ToSet(s)
<1> HIDE DEF T
<1>2. \A i \in 1..Len(s) : s[i] \in T
  BY <1>1 DEF T
<1>3. s \in Seq(T)
  BY <1>2
<1> QED  BY <1>3 DEF T

(* What is in a list of what was in another one.                           *)
Elements(o, s, S) == \A x : (\E i \in DOMAIN o : o[i] = x) <=> x \in S /\ \E i \in DOMAIN s : s[i] = x

(* Selecting keeps the elements that are in the set.                       *)
LEMMA OnlyElements ==
  ASSUME NEW U, NEW s \in Seq(U), NEW S
  PROVE  Only(s, S) \in Seq(U) /\ Elements(Only(s, S), s, S)
BY OnlyType DEF Elements

(* The blocks that a complete run has executed, but for the entry.         *)
LEMMA RanIs ==
  ASSUME RunInv, Complete, NEW f, NEW b
  PROVE  Ran(f, b) <=> Exec(unit, f, b)
BY RunIs DEF Ran, Exec

Numbers == {x \in Nat \X Nat : x[1] < x[2]}

(* The blocks that are printed, in ascending order.                        *)
LEMMA RanBlocksAre ==
  ASSUME RunInv, Complete, NEW f \in Functions, NEW s, s = RanBlocks(f)
  PROVE  /\ s \in Seq(Nat) /\ Related(s, Numbers)
         /\ \A i \in DOMAIN s : s[i] \in 1..Blocks[f] - 1 /\ Exec(unit, f, s[i])
         /\ \A b \in 1..Blocks[f] - 1 : Exec(unit, f, b) => \E i \in DOMAIN s : s[i] = b
<1> DEFINE n == Blocks[f] - 1
           x == [b \in 1..n |-> b]
           S == {b \in 1..n : Ran(f, b)}
<1>0. n \in Nat
  BY DataFlowAssumption DEF DataFlowAssumption
<1>1. x \in Seq(Nat) /\ DOMAIN x = 1..n
  BY <1>0
<1>2. Related(x, Numbers)
  BY <1>0 DEF Related, Numbers
<1>3. s = Only(x, S)
  BY DEF RanBlocks
<1>4. \A b : b \in S <=> b \in 1..n /\ Exec(unit, f, b)
  BY RanIs
<1>5. \A b \in 1..n : x[b] = b
  OBVIOUS
<1> HIDE DEF x, S
<1>6. s \in Seq(Nat) /\ Related(s, Numbers)
  BY <1>1, <1>2, <1>3, OnlyType, OnlyRelated
<1>7. \A b : (\E i \in DOMAIN s : s[i] = b) <=> b \in S /\ \E i \in DOMAIN x : x[i] = b
  <2>1. Elements(Only(x, S), x, S)
    BY <1>1, OnlyElements
  <2>2. Elements(s, x, S)
    BY <1>3, <2>1
  <2> QED  BY <2>2 DEF Elements
<1> HIDE DEF n
<1>8. \A b : (\E i \in DOMAIN s : s[i] = b) <=> b \in 1..n /\ Exec(unit, f, b)
  BY <1>1, <1>4, <1>5, <1>7
<1> QED  BY <1>6, <1>8 DEF n

(* The line of blocks of a function is right and whole.                    *)
LEMMA CLineIs ==
  ASSUME RunInv, Complete, NEW f \in Functions, Ran(f, 0)
  PROVE  CLine(f)[1] = "C" /\ CLine(f)[2] = f /\ CRight(CLine(f), unit) /\ CWhole(CLine(f), unit)
<1> DEFINE s == RanBlocks(f)
           m == Blocks[f]
           t == Append(s, m)
<1>0. m \in Nat \ {0}
  BY DataFlowAssumption DEF DataFlowAssumption
<1>1. /\ s \in Seq(Nat) /\ Related(s, Numbers)
      /\ \A i \in DOMAIN s : s[i] \in 1..m - 1 /\ Exec(unit, f, s[i])
      /\ \A b \in 1..m - 1 : Exec(unit, f, b) => \E i \in DOMAIN s : s[i] = b
  BY RanBlocksAre
<1>2. CLine(f)[1] = "C" /\ CLine(f)[2] = f /\ CLine(f)[3] = t
  BY DEF CLine
<1> HIDE DEF s, m
<1>3. /\ DOMAIN s = 1..Len(s) /\ Len(s) \in Nat /\ DOMAIN t = 1..Len(s) + 1 /\ t[Len(s) + 1] = m
      /\ t \in Seq(Nat) /\ Len(t) = Len(s) + 1
      /\ \A i \in 1..Len(s) : t[i] = s[i]
  BY <1>0, <1>1
<1>4. Related(t, Numbers)
  <2>1. \A i \in DOMAIN s : <<s[i], m>> \in Numbers
    BY <1>0, <1>1 DEF Numbers
  <2> QED  BY <1>0, <1>1, <2>1, RelatedAppend
<1> HIDE DEF t
<1>5. Ascends(t)
  BY <1>4 DEF Related, Numbers, Ascends
<1>6. \A i \in DOMAIN t : t[i] = m \/ (t[i] \in 1..m - 1 /\ Exec(unit, f, t[i]))
  <2> SUFFICES ASSUME NEW i \in DOMAIN t PROVE t[i] = m \/ (t[i] \in 1..m - 1 /\ Exec(unit, f, t[i]))
    OBVIOUS
  <2>1. i = Len(s) + 1 \/ i \in DOMAIN s
    BY <1>3
  <2> QED  BY <1>1, <1>3, <2>1
<1>7. Numbered(t, unit, f)
  BY <1>3, <1>5, <1>6 DEF Numbered, m
<1>8. CRight(CLine(f), unit)
  BY <1>2, <1>7, RanIs DEF CRight
<1>9. t # <<>> /\ Last(t) = m
  <2>1. Len(<<>>) = 0
    OBVIOUS
  <2> QED  BY <1>3, <2>1 DEF Last
<1>10. \A b \in 1..m - 1 : Exec(unit, f, b) => \E i \in DOMAIN t : t[i] = b
  <2>1. \A i \in DOMAIN s : i \in DOMAIN t /\ t[i] = s[i]
    BY <1>3
  <2> QED  BY <1>1, <2>1
<1>11. CWhole(CLine(f), unit)
  BY <1>2, <1>9, <1>10 DEF CWhole, m
<1> QED  BY <1>2, <1>8, <1>11

(* The functions are numbered from 0, and each has a block.                *)
LEMMA NumFuncsIs == NumFuncs \in Nat /\ Functions = 0..NumFuncs - 1 /\ \A f \in Functions : Blocks[f] \in Nat \ {0}
BY DataFlowAssumption, FS_CardinalityType DEF DataFlowAssumption, NumFuncs

(* The parts of a list of bits.                                            *)
LEMMA BitsAre ==
  ASSUME NEW n \in Nat, NEW s, s \in Seq(BOOLEAN), Len(s) = n
  PROVE  /\ SubSeq(s, 1, n) = s
         /\ \A m \in 0..n : SubSeq(s, 1, m) \in Seq(BOOLEAN) /\ Len(SubSeq(s, 1, m)) = m
         /\ \A m \in 0..n : \A k \in 0..m : SubSeq(SubSeq(s, 1, m), 1, k) = SubSeq(s, 1, k)
<1> DEFINE B == BOOLEAN
<1>1. s \in Seq(B)
  OBVIOUS
<1> HIDE DEF B
<1>2. SubSeq(s, 1, n) = s
  BY <1>1
<1>3. ASSUME NEW m \in 0..n PROVE SubSeq(s, 1, m) \in Seq(B) /\ Len(SubSeq(s, 1, m)) = m
  BY <1>1
<1>4. ASSUME NEW m \in 0..n, NEW k \in 0..m PROVE SubSeq(SubSeq(s, 1, m), 1, k) = SubSeq(s, 1, k)
  BY <1>1, <1>3
<1> QED  BY <1>2, <1>3, <1>4 DEF B

(* The bits of a function, one for every byte.                             *)
LEMMA ExactAre ==
  ASSUME NEW u \in Files, NEW f
  PROVE  ExactBits(u, f) \in Seq(BOOLEAN) /\ Len(ExactBits(u, f)) = Lengths[u] /\ Lengths[u] \in Nat \ {0}
<1>1. Lengths[u] \in Nat \ {0}
  BY DataFlowAssumption DEF DataFlowAssumption
<1>2. \A i \in 1..Lengths[u] : (i - 1 \in Flow(u, f)) \in BOOLEAN
  OBVIOUS
<1>3. ExactBits(u, f) \in [1..Lengths[u] -> BOOLEAN]
  BY <1>2, Zenon DEF ExactBits
<1> DEFINE s == ExactBits(u, f)
           B == BOOLEAN
           n == Lengths[u]
<1> HIDE DEF s, B, n
<1>4. s \in [1..n -> B] /\ n \in Nat
  BY <1>1, <1>3 DEF s, B, n
<1>5. s \in Seq(B) /\ Len(s) = n
  BY <1>4
<1> QED  BY <1>1, <1>5 DEF s, B, n

(* The line of bits of a function is right and whole.                      *)
LEMMA FLineIs ==
  ASSUME FlowType, RunInv, Complete, NEW f \in Functions, HasAny(f)
  PROVE  FLine(f)[1] = "F" /\ FLine(f)[2] = f /\ FRight(FLine(f), unit) /\ FWhole(FLine(f), unit)
<1> DEFINE s == ExactBits(unit, f)
<1>1. FLine(f)[1] = "F" /\ FLine(f)[2] = f /\ FLine(f)[3] = s
  BY BitsExact DEF FLine
<1>2. unit \in Files /\ Flow(unit, f) # {}
  BY RunIs, HasAnyIs
<1>3. s \in Seq(BOOLEAN) /\ Len(s) = Lengths[unit] /\ Lengths[unit] \in Nat
  BY <1>2, ExactAre
<1>4. s = SubSeq(s, 1, Lengths[unit])
  <2> HIDE DEF s
  <2> QED  BY <1>3, BitsAre
<1>5. FRight(FLine(f), unit)
  BY <1>1, <1>2, <1>3, <1>4 DEF FRight
<1> QED  BY <1>1, <1>5 DEF FWhole

(* The lines that are printed.                                             *)
LEMMA FLinesAre ==
  ASSUME NEW U, U = {FLine(f) : f \in Functions}
  PROVE  /\ FLines \in Seq(U)
         /\ \A l : (\E i \in DOMAIN FLines : FLines[i] = l) <=> \E f \in Functions : HasAny(f) /\ l = FLine(f)
<1> DEFINE x == [k \in 1..NumFuncs |-> FLine(k - 1)]
           S == {FLine(f) : f \in {g \in Functions : HasAny(g)}}
<1>1. \A k \in 1..NumFuncs : k - 1 \in Functions
  BY NumFuncsIs
<1>2. \A f \in Functions : f + 1 \in 1..NumFuncs /\ (f + 1) - 1 = f
  BY NumFuncsIs
<1>3. x \in [1..NumFuncs -> U]
  BY <1>1
<1>4. \A f \in Functions : \E i \in DOMAIN x : x[i] = FLine(f)
  <2> SUFFICES ASSUME NEW f \in Functions PROVE \E i \in DOMAIN x : x[i] = FLine(f)
    OBVIOUS
  <2>1. f + 1 \in DOMAIN x /\ x[f + 1] = FLine(f)
    BY <1>2
  <2> QED  BY <2>1
<1>5. FLines = Only(x, S)
  BY DEF FLines
<1>6. \A l : l \in S <=> \E f \in Functions : HasAny(f) /\ l = FLine(f)
  OBVIOUS
<1> HIDE DEF x, S
<1>7. x \in Seq(U)
  BY <1>3, NumFuncsIs
<1>8. FLines \in Seq(U) /\ Elements(FLines, x, S)
  <2>1. Only(x, S) \in Seq(U) /\ Elements(Only(x, S), x, S)
    BY <1>7, OnlyElements
  <2> QED  BY <1>5, <2>1
<1>9. \A l : (\E i \in DOMAIN FLines : FLines[i] = l) <=> \E f \in Functions : HasAny(f) /\ l = FLine(f)
  BY <1>4, <1>6, <1>8 DEF Elements
<1> QED  BY <1>8, <1>9

LineOrder(U) == {x \in U \X U : x[1][2] < x[2][2]}

(* The lines of blocks, one for every function that ran.                   *)
LEMMA CLinesAre ==
  ASSUME NEW U, U = {CLine(f) : f \in Functions}
  PROVE  /\ CLines \in Seq(U) /\ Related(CLines, LineOrder(U))
         /\ \A l : (\E i \in DOMAIN CLines : CLines[i] = l) <=> \E f \in Functions : Ran(f, 0) /\ l = CLine(f)
<1> DEFINE x == [k \in 1..NumFuncs |-> CLine(k - 1)]
           S == {CLine(f) : f \in {g \in Functions : Ran(g, 0)}}
<1>1. \A k \in 1..NumFuncs : k - 1 \in Functions
  BY NumFuncsIs
<1>2. \A f \in Functions : f + 1 \in 1..NumFuncs /\ (f + 1) - 1 = f
  BY NumFuncsIs
<1>3. x \in [1..NumFuncs -> U]
  BY <1>1
<1>4. \A f \in Functions : \E i \in DOMAIN x : x[i] = CLine(f)
  <2> SUFFICES ASSUME NEW f \in Functions PROVE \E i \in DOMAIN x : x[i] = CLine(f)
    OBVIOUS
  <2>1. f + 1 \in DOMAIN x /\ x[f + 1] = CLine(f)
    BY <1>2
  <2> QED  BY <2>1
<1>5. CLines = Only(x, S)
  BY DEF CLines
<1>6. \A l : l \in S <=> \E f \in Functions : Ran(f, 0) /\ l = CLine(f)
  OBVIOUS
<1>a. Related(x, LineOrder(U))
  <2> SUFFICES ASSUME NEW i \in DOMAIN x, NEW j \in DOMAIN x, i < j PROVE <<x[i], x[j]>> \in LineOrder(U)
    BY DEF Related
  <2>1. x[i] \in U /\ x[j] \in U /\ x[i] = CLine(i - 1) /\ x[j] = CLine(j - 1)
    BY <1>3
  <2>2. x[i][2] = i - 1 /\ x[j][2] = j - 1 /\ i - 1 < j - 1
    BY <2>1 DEF CLine
  <2> QED  BY <2>1, <2>2 DEF LineOrder
<1> HIDE DEF x, S
<1>7. x \in Seq(U)
  BY <1>3, NumFuncsIs
<1>8. CLines \in Seq(U) /\ Elements(CLines, x, S) /\ Related(CLines, LineOrder(U))
  <2>1. Only(x, S) \in Seq(U) /\ Elements(Only(x, S), x, S)
    BY <1>7, OnlyElements
  <2>2. Related(Only(x, S), LineOrder(U))
    BY <1>7, <1>a, OnlyRelated
  <2> QED  BY <1>5, <2>1, <2>2
<1>9. \A l : (\E i \in DOMAIN CLines : CLines[i] = l) <=> \E f \in Functions : Ran(f, 0) /\ l = CLine(f)
  BY <1>4, <1>6, <1>8 DEF Elements
<1> QED  BY <1>8, <1>9

(* What is written after all iterations is right and whole.                *)
LEMMA PrintedRight ==
  ASSUME FlowType, RunInv, Complete
  PROVE  RightFile(FLines \o CLines, unit) /\ WholeFile(FLines \o CLines, unit)
<1> DEFINE U == {FLine(f) : f \in Functions}
           V == {CLine(f) : f \in Functions}
           W == U \cup V
           p == FLines
           q == CLines
           s == p \o q
<1>1. p \in Seq(U) /\ \A l : (\E i \in DOMAIN p : p[i] = l) <=> \E f \in Functions : HasAny(f) /\ l = FLine(f)
  BY FLinesAre
<1>2. /\ q \in Seq(V) /\ Related(q, LineOrder(V))
      /\ \A l : (\E i \in DOMAIN q : q[i] = l) <=> \E f \in Functions : Ran(f, 0) /\ l = CLine(f)
  BY CLinesAre
<1>3. ASSUME NEW i \in DOMAIN p
      PROVE  p[i][1] = "F" /\ FRight(p[i], unit) /\ FWhole(p[i], unit)
  <2>1. PICK f \in Functions : HasAny(f) /\ p[i] = FLine(f)
    BY <1>1
  <2> QED  BY <2>1, FLineIs
<1>4. ASSUME NEW i \in DOMAIN q
      PROVE  q[i][1] = "C" /\ CRight(q[i], unit) /\ CWhole(q[i], unit)
  <2>1. PICK f \in Functions : Ran(f, 0) /\ q[i] = CLine(f)
    BY <1>2
  <2> QED  BY <2>1, CLineIs
<1> HIDE DEF U, V, W, p, q, s
<1>5. p \in Seq(W) /\ q \in Seq(W)
  BY <1>1, <1>2 DEF W
<1>6. /\ DOMAIN p = 1..Len(p) /\ Len(p) \in Nat /\ DOMAIN q = 1..Len(q) /\ Len(q) \in Nat
      /\ s \in Seq(W) /\ DOMAIN s = 1..Len(p) + Len(q)
      /\ \A i \in 1..Len(p) : s[i] = p[i]
      /\ \A i \in 1..Len(q) : s[Len(p) + i] = q[i]
  BY <1>5 DEF s
<1>7. ASSUME NEW i \in DOMAIN s
      PROVE  (i \in DOMAIN p /\ s[i] = p[i]) \/ (i - Len(p) \in DOMAIN q /\ s[i] = q[i - Len(p)])
  <2>1. CASE i <= Len(p)
    BY <1>6, <2>1
  <2>2. CASE ~(i <= Len(p))
    <3>1. i - Len(p) \in 1..Len(q) /\ Len(p) + (i - Len(p)) = i
      BY <1>6, <2>2
    <3> QED  BY <1>6, <3>1
  <2> QED  BY <2>1, <2>2
<1>8. ASSUME NEW i \in DOMAIN s
      PROVE  /\ s[i][1] = "F" => FRight(s[i], unit) /\ FWhole(s[i], unit)
             /\ s[i][1] = "C" => /\ CRight(s[i], unit) /\ CWhole(s[i], unit)
                                 /\ i - Len(p) \in DOMAIN q /\ s[i] = q[i - Len(p)]
             /\ s[i][1] \in {"F", "C"}
  <2>1. CASE i \in DOMAIN p /\ s[i] = p[i]
    <3>1. s[i][1] = "F" /\ FRight(s[i], unit) /\ FWhole(s[i], unit) /\ "F" # "C"
      BY <1>3, <2>1
    <3> QED  BY <3>1
  <2>2. CASE i - Len(p) \in DOMAIN q /\ s[i] = q[i - Len(p)]
    <3>1. s[i][1] = "C" /\ CRight(s[i], unit) /\ CWhole(s[i], unit) /\ "F" # "C"
      BY <1>4, <2>2
    <3> QED  BY <2>2, <3>1
  <2> QED  BY <1>7, <2>1, <2>2
<1>9. ASSUME NEW i \in DOMAIN s, NEW j \in DOMAIN s, s[i][1] = "C", s[j][1] = "C", s[i][2] = s[j][2]
      PROVE  i = j
  <2> DEFINE a == i - Len(p)
             b == j - Len(p)
  <2>1. a \in DOMAIN q /\ b \in DOMAIN q /\ s[i] = q[a] /\ s[j] = q[b]
    BY <1>8, <1>9
  <2>2. q[a][2] \in Int /\ q[a][2] = q[b][2]
    <3>1. q[a][2] \in Functions
      BY <1>4, <2>1 DEF CRight
    <3> QED  BY <1>9, <2>1, <3>1, NumFuncsIs
  <2>3. a \in Int /\ b \in Int /\ i \in Int /\ j \in Int
    BY <1>6, <2>1
  <2> HIDE DEF a, b
  <2>4. ~(a < b)
    <3> SUFFICES ASSUME a < b PROVE FALSE
      OBVIOUS
    <3>1. q[a][2] < q[b][2]
      BY <1>2, <2>1 DEF Related, LineOrder
    <3> QED  BY <2>2, <3>1
  <2>5. ~(b < a)
    <3> SUFFICES ASSUME b < a PROVE FALSE
      OBVIOUS
    <3>1. q[b][2] < q[a][2]
      BY <1>2, <2>1 DEF Related, LineOrder
    <3> QED  BY <2>2, <3>1
  <2>6. a = b
    BY <2>3, <2>4, <2>5
  <2> QED  BY <1>6, <2>3, <2>6 DEF a, b
<1>10. s \in Seq(ToSet(s))
  BY <1>6, OwnElements
<1>11. RightFile(s, unit)
  BY <1>8, <1>9, <1>10 DEF RightFile
<1>12. ASSUME NEW f \in Functions, Flow(unit, f) # {} PROVE Has(s, "F", f)
  <2>1. HasAny(f)
    BY <1>12, HasAnyIs
  <2>2. PICK i \in DOMAIN p : p[i] = FLine(f)
    BY <1>1, <2>1
  <2>3. s[i] = FLine(f) /\ i \in DOMAIN s
    BY <1>6, <2>2
  <2> QED  BY <2>1, <2>3, FLineIs DEF Has
<1>13. ASSUME NEW f \in Functions, Exec(unit, f, 0) PROVE Has(s, "C", f)
  <2>1. Ran(f, 0)
    BY <1>13, RanIs
  <2>2. PICK i \in DOMAIN q : q[i] = CLine(f)
    BY <1>2, <2>1
  <2>3. s[Len(p) + i] = CLine(f) /\ Len(p) + i \in DOMAIN s
    BY <1>6, <2>2
  <2> QED  BY <2>1, <2>3, CLineIs DEF Has
<1>14. WholeFile(s, unit)
  BY <1>8, <1>12, <1>13 DEF WholeFile
<1> QED  BY <1>11, <1>14 DEF s, p, q

(* A line that is cut is still right.                                      *)
LEMMA LineCut ==
  ASSUME NEW u \in Files, NEW l, NEW n \in 0..Len(l[3]) - 1, NEW c, c = <<l[1], l[2], SubSeq(l[3], 1, n)>>
  PROVE  (FRight(l, u) => FRight(c, u)) /\ (CRight(l, u) => CRight(c, u))
<1>0. c[1] = l[1] /\ c[2] = l[2] /\ c[3] = SubSeq(l[3], 1, n)
  OBVIOUS
<1>1. ASSUME FRight(l, u) PROVE FRight(c, u)
  <2> DEFINE s == ExactBits(u, l[2])
  <2>1. PICK m \in 0..Lengths[u] : l[3] = SubSeq(s, 1, m)
    BY <1>1 DEF FRight
  <2>2. s \in Seq(BOOLEAN) /\ Len(s) = Lengths[u] /\ Lengths[u] \in Nat
    BY ExactAre
  <2> HIDE DEF s
  <2>3. Len(l[3]) = m
    BY <2>1, <2>2, BitsAre
  <2>4. n \in 0..m /\ n \in 0..Lengths[u]
    BY <2>1, <2>2, <2>3
  <2>5. SubSeq(SubSeq(s, 1, m), 1, n) = SubSeq(s, 1, n)
    BY <2>1, <2>2, <2>4, BitsAre
  <2>6. c[3] = SubSeq(s, 1, n)
    BY <1>0, <2>1, <2>5
  <2> QED  BY <1>0, <1>1, <2>4, <2>6 DEF FRight, s
<1>2. ASSUME CRight(l, u) PROVE CRight(c, u)
  <2> DEFINE s == l[3]
             t == SubSeq(s, 1, n)
  <2>1. Numbered(s, u, l[2])
    BY <1>2 DEF CRight
  <2>2. s \in Seq(Nat) /\ n \in 0..Len(s)
    BY <2>1 DEF Numbered
  <2> HIDE DEF s
  <2>3. t \in Seq(Nat) /\ DOMAIN t = 1..n /\ DOMAIN s = 1..Len(s) /\ \A i \in 1..n : t[i] = s[i]
    BY <2>2
  <2> HIDE DEF t
  <2>4. \A i \in DOMAIN t : i \in DOMAIN s /\ t[i] = s[i]
    BY <2>2, <2>3
  <2>5. Numbered(t, u, l[2])
    BY <2>1, <2>3, <2>4 DEF Numbered, Ascends
  <2>6. c[3] = t
    BY <1>0 DEF t, s
  <2> QED  BY <1>0, <1>2, <2>5, <2>6 DEF CRight
<1> QED  BY <1>1, <1>2

(* A file that is cut is still right.                                      *)
LEMMA CutRight ==
  ASSUME NEW u \in Files, NEW lines, RightFile(lines, u), NEW c \in Cuts(lines)
  PROVE  RightFile(c, u)
<1> DEFINE U == ToSet(lines)
<1>0. lines \in Seq(U)
  BY DEF RightFile
<1>1. CASE \E k \in 0..Len(lines) - 1 : c = SubSeq(lines, 1, k)
  <2>1. PICK k \in 0..Len(lines) - 1 : c = SubSeq(lines, 1, k)
    BY <1>1
  <2> HIDE DEF U
  <2>2. DOMAIN lines = 1..Len(lines) /\ DOMAIN c = 1..k /\ c \in Seq(U) /\ \A i \in 1..k : c[i] = lines[i]
    BY <1>0, <2>1
  <2>3. \A i \in DOMAIN c : i \in DOMAIN lines /\ c[i] = lines[i]
    BY <2>2, <1>0
  <2>4. c \in Seq(ToSet(c))
    BY <2>2, OwnElements
  <2> QED  BY <2>3, <2>4 DEF RightFile
<1>2. CASE \E k \in DOMAIN lines : \E n \in 0..Len(lines[k][3]) - 1 :
             c = Append(SubSeq(lines, 1, k - 1), <<lines[k][1], lines[k][2], SubSeq(lines[k][3], 1, n)>>)
  <2>a. PICK k \in DOMAIN lines : \E n \in 0..Len(lines[k][3]) - 1 :
               c = Append(SubSeq(lines, 1, k - 1), <<lines[k][1], lines[k][2], SubSeq(lines[k][3], 1, n)>>)
    BY <1>2
  <2>1. PICK n \in 0..Len(lines[k][3]) - 1 :
               c = Append(SubSeq(lines, 1, k - 1), <<lines[k][1], lines[k][2], SubSeq(lines[k][3], 1, n)>>)
    BY <2>a
  <2> DEFINE l == lines[k]
             y == <<l[1], l[2], SubSeq(l[3], 1, n)>>
             p == SubSeq(lines, 1, k - 1)
             V == U \cup {y}
  <2>2. c = Append(p, y) /\ y[1] = l[1] /\ y[2] = l[2]
    BY <2>1
  <2>3. (FRight(l, u) => FRight(y, u)) /\ (CRight(l, u) => CRight(y, u))
    <3> HIDE DEF l
    <3> QED  BY <2>1, LineCut DEF l
  <2>4. (FRight(l, u) \/ CRight(l, u)) /\ k \in 1..Len(lines)
    BY <1>0 DEF RightFile
  <2> HIDE DEF l, y, U
  <2>5. /\ p \in Seq(U) /\ Len(p) = k - 1 /\ DOMAIN lines = 1..Len(lines)
        /\ \A i \in 1..k - 1 : p[i] = lines[i]
    BY <1>0, <2>4
  <2>6. p \in Seq(V) /\ y \in V
    BY <2>5
  <2> HIDE DEF p, V
  <2>7. DOMAIN c = 1..k /\ c[k] = y /\ (\A i \in 1..k - 1 : c[i] = lines[i]) /\ c \in Seq(V)
    <3>1. DOMAIN p = 1..k - 1
      BY <2>5, <2>6
    <3> QED  BY <2>2, <2>5, <2>6, <2>4, <3>1
  <2>8. ASSUME NEW i \in DOMAIN c
        PROVE  /\ i \in DOMAIN lines /\ c[i][1] = lines[i][1] /\ c[i][2] = lines[i][2]
               /\ FRight(c[i], u) \/ CRight(c[i], u)
    <3>1. i \in DOMAIN lines
      BY <2>4, <2>5, <2>7
    <3>2. CASE i = k
      BY <2>2, <2>3, <2>4, <2>7, <3>1, <3>2 DEF l
    <3>3. CASE i # k
      <4>1. c[i] = lines[i]
        BY <2>4, <2>7, <3>3
      <4> QED  BY <3>1, <4>1 DEF RightFile
    <3> QED  BY <3>2, <3>3
  <2>9. c \in Seq(ToSet(c))
    BY <2>7, OwnElements
  <2> QED  BY <2>8, <2>9 DEF RightFile
<1> QED
  BY <1>1, <1>2 DEF Cuts

(* The program decides what is right.                                      *)
LEMMA SameProgram ==
  ASSUME program' = program
  PROVE  /\ \A u, f, b : Exec(u, f, b)' <=> Exec(u, f, b)
         /\ \A u, f : Flow(u, f)' = Flow(u, f) /\ ExactBits(u, f)' = ExactBits(u, f)
         /\ \A u, lines : RightFile(lines, u)' <=> RightFile(lines, u)
         /\ \A u, lines : WholeFile(lines, u)' <=> WholeFile(lines, u)
<1>1. \A u : Events(u)' = Events(u)
  BY DEF Events
<1>2. \A u, i : CurrentFunc(u, i)' = CurrentFunc(u, i)
  BY <1>1 DEF CurrentFunc
<1>3. \A u, f : Flow(u, f)' = Flow(u, f)
  BY <1>1, <1>2 DEF Flow
<1>4. \A u, f : ExactBits(u, f)' = ExactBits(u, f)
  BY <1>3 DEF ExactBits
<1>5. \A u, f, b : Exec(u, f, b)' <=> Exec(u, f, b)
  BY <1>1 DEF Exec, BlocksOf
<1>6. \A l, u : FRight(l, u)' <=> FRight(l, u)
  BY <1>3, <1>4 DEF FRight
<1>7. \A l, u : CRight(l, u)' <=> CRight(l, u)
  BY <1>5 DEF CRight, Numbered
<1>8. \A u, lines : RightFile(lines, u)' <=> RightFile(lines, u)
  BY <1>6, <1>7 DEF RightFile
<1>9. \A l, u : (FWhole(l, u)' <=> FWhole(l, u)) /\ (CWhole(l, u)' <=> CWhole(l, u))
  BY <1>4, <1>5 DEF FWhole, CWhole
<1>10. \A u, lines : WholeFile(lines, u)' <=> WholeFile(lines, u)
  BY <1>3, <1>5, <1>9 DEF WholeFile
<1> QED  BY <1>3, <1>4, <1>5, <1>8, <1>10

(* Initially the variables have their types.                               *)
LEMMA TypeInit == FlowInit => FlowType
BY DEF FlowInit, FlowType

(* Every step keeps the types; the focus is a function when the traces are *)
(* read.                                                                   *)
LEMMA FlowTypeStep ==
  ASSUME FlowType, RunInv, CovInv, [FlowNext]_flowVars
  PROVE  FlowType'
<1> USE DEF FlowType, collectVars, fuzzVars
<1>1. CASE NextFile
  BY <1>1 DEF NextFile
<1>2. CASE Iterate
  BY <1>2 DEF Iterate
<1>3. CASE WriteTrace
  BY <1>3 DEF WriteTrace, RunInv, Put
<1>4. CASE KillInstrumented
  <2>1. killed' \in Nat /\ DOMAIN dir \subseteq DOMAIN dir' /\ DOMAIN dir' \subseteq DOMAIN dir \cup {unit}
    BY <1>4 DEF KillInstrumented, Put
  <2> QED  BY <1>4, <2>1 DEF KillInstrumented, RunInv
<1>5. CASE StartFuzzing
  BY <1>5 DEF StartFuzzing
<1>6. CASE ReadCoverage
  BY <1>6 DEF ReadCoverage
<1>7. CASE ChooseFocus
  <2>1. NumFuncs = 1 => 0 \in Functions
    BY NumFuncsIs
  <2> QED  BY <1>7, <2>1 DEF ChooseFocus
<1>8. CASE ReadTrace
  BY <1>8 DEF ReadTrace
<1>9. CASE ReadAll
  BY <1>9 DEF ReadAll
<1>10. CASE UNCHANGED flowVars
  BY <1>10 DEF flowVars
<1> QED
  BY <1>1, <1>2, <1>3, <1>4, <1>5, <1>6, <1>7, <1>8, <1>9, <1>10 DEF FlowNext, FlowEnded

(* Another iteration.                                                      *)
LEMMA IterateRun ==
  ASSUME FlowType, RunInv, Iterate
  PROVE  RunInv'
<1> DEFINE n == Len(labels)
           new == [f \in Functions |-> LabelsAt(unit, f, n + 1)]
           T == [Functions -> SUBSET Int]
<1>1. unit \in Files /\ labels \in Seq(T) /\ n < NumIterations(unit) /\ program' = program /\ unit' = unit
  BY DEF Iterate, RunInv
<1>2. labels' = Append(labels, new)
  <2>1. n \in Nat /\ (n + 1) - 1 = n
    BY <1>1
  <2>2. new = [f \in Functions |-> {i - n * NumLabels : i \in Flow(unit, f) \cap n * NumLabels..Min({n * NumLabels + NumLabels, Lengths[unit]}) - 1}]
    BY <2>1 DEF LabelsAt
  <2> HIDE DEF new
  <2> QED  BY <2>2 DEF Iterate
<1>3. new \in T
  <2>1. NumLabels \in Nat /\ n \in Nat /\ Lengths[unit] \in Nat
    BY <1>1, DataFlowAssumption DEF DataFlowAssumption
  <2>2. ASSUME NEW f \in Functions PROVE LabelsAt(unit, f, n + 1) \subseteq Int
    <3>1. Flow(unit, f) \subseteq Int
      <4>1. Flow(unit, f) \subseteq 0..Lengths[unit] - 1
        BY <1>1, FlowWithin
      <4> QED  BY <2>1, <4>1
    <3>2. (n + 1 - 1) * NumLabels \in Int
      BY <2>1
    <3> QED  BY <3>1, <3>2 DEF LabelsAt
  <2> QED  BY <2>2
<1>4. \A u, f, k : LabelsAt(u, f, k)' = LabelsAt(u, f, k)
  BY <1>1, SameProgram DEF LabelsAt
<1>5. NumIterations(unit)' = NumIterations(unit) /\ NumIterations(unit) \in Int
  <2>1. Lengths[unit] \in Nat \ {0} /\ NumLabels \in Nat \ {0}
    BY <1>1, DataFlowAssumption DEF DataFlowAssumption
  <2>2. NumIterations(unit) \in Nat \ {0}
    <3>1. NumIterations(unit) = (Lengths[unit] + NumLabels - 1) \div NumLabels
      BY DEF NumIterations
    <3> QED  BY <2>1, <3>1, Iterations, Zenon
  <2> QED  BY <1>1, <2>2 DEF NumIterations
<1> HIDE DEF new, T
<1>6. /\ labels' \in Seq(T) /\ Len(labels') = n + 1 /\ DOMAIN labels' = 1..n + 1 /\ DOMAIN labels = 1..n
      /\ n \in Nat /\ labels'[n + 1] = new /\ \A k \in 1..n : labels'[k] = labels[k]
  BY <1>1, <1>2, <1>3
<1>7. ASSUME NEW k \in DOMAIN labels', NEW f \in Functions
      PROVE  labels'[k][f] = LabelsAt(unit, f, k)
  <2>1. CASE k = n + 1
    BY <1>6, <2>1 DEF new
  <2>2. CASE k # n + 1
    <3>1. k \in DOMAIN labels /\ labels'[k] = labels[k]
      BY <1>6, <2>2
    <3> QED  BY <3>1 DEF RunInv, Iterate
  <2> QED  BY <2>1, <2>2
<1>8. executed' = BlocksOf(unit)
  <2>1. executed \in {{}, BlocksOf(unit)}
    BY DEF RunInv, Iterate
  <2> QED  BY <2>1 DEF Iterate
<1>9. labels' # <<>>
  <2>1. Len(<<>>) = 0
    OBVIOUS
  <2> QED  BY <1>6, <2>1
<1>10. BlocksOf(unit)' = BlocksOf(unit)
  BY <1>1 DEF BlocksOf, Events
<1>11. Len(labels') <= NumIterations(unit)
  BY <1>1, <1>5, <1>6
<1>12. \A k \in DOMAIN labels' : \A f \in Functions : labels'[k][f] = LabelsAt(unit, f, k)'
  <2>1. \A f, k : LabelsAt(unit, f, k)' = LabelsAt(unit, f, k)
    BY <1>1 DEF LabelsAt, Flow, CurrentFunc, Events
  <2> QED  BY <1>7, <2>1
<1> QED  BY <1>1, <1>5, <1>6, <1>8, <1>9, <1>10, <1>11, <1>12 DEF RunInv, T

(* Every step keeps what is known of the instrumented process.             *)
LEMMA RunStep ==
  ASSUME FlowType, RunInv, [FlowNext]_flowVars
  PROVE  RunInv'
<1>1. CASE pc' # "run"
  BY <1>1 DEF RunInv
<1>2. CASE NextFile
  <2>1. unit' \in Files /\ labels' = <<>> /\ executed' = {}
    BY <1>2 DEF NextFile, FlowType
  <2>2. labels' \in Seq([Functions -> SUBSET Int]) /\ Len(labels') = 0 /\ DOMAIN labels' = {}
    BY <2>1
  <2>3. 0 <= NumIterations(unit)'
    <3> DEFINE u == unit'
    <3>1. Lengths[u] \in Nat \ {0} /\ NumLabels \in Nat \ {0}
      BY <2>1, DataFlowAssumption DEF DataFlowAssumption
    <3>2. (Lengths[u] + NumLabels - 1) \div NumLabels \in Nat
      <4> HIDE DEF u
      <4>1. Lengths[u] + NumLabels - 1 \in Nat
        BY <3>1
      <4> QED  BY <3>1, <4>1, Euclid
    <3>3. NumIterations(unit)' = (Lengths[u] + NumLabels - 1) \div NumLabels
      BY DEF NumIterations
    <3> HIDE DEF u
    <3> QED  BY <3>2, <3>3
  <2> QED  BY <2>1, <2>2, <2>3 DEF RunInv
<1>3. CASE Iterate
  BY <1>3, IterateRun
<1>4. CASE UNCHANGED flowVars
  <2>1. /\ program' = program /\ pc' = pc /\ unit' = unit /\ labels' = labels /\ executed' = executed
    BY <1>4 DEF flowVars, collectVars
  <2>2. \A f, k : LabelsAt(unit, f, k)' = LabelsAt(unit, f, k)
    BY <2>1 DEF LabelsAt, Flow, CurrentFunc, Events
  <2>3. NumIterations(unit)' = NumIterations(unit) /\ BlocksOf(unit)' = BlocksOf(unit)
    BY <2>1 DEF NumIterations, BlocksOf, Events
  <2> QED  BY <2>1, <2>2, <2>3 DEF RunInv
<1> QED
  BY <1>1, <1>2, <1>3, <1>4 DEF FlowNext, WriteTrace, KillInstrumented, StartFuzzing, ReadCoverage,
     ChooseFocus, ReadTrace, ReadAll, FlowEnded, FlowType

(* Every file that is written or cut is right, and whole if no process was *)
(* killed.                                                                 *)
LEMMA DirStep ==
  ASSUME FlowType, RunInv, DirInv, [FlowNext]_flowVars
  PROVE  DirInv'
<1>1. program' = program
  BY DEF FlowNext, NextFile, Iterate, WriteTrace, KillInstrumented, StartFuzzing, ReadCoverage,
     ChooseFocus, ReadTrace, ReadAll, FlowEnded, flowVars
<1>2. \A u, lines : (RightFile(lines, u)' <=> RightFile(lines, u)) /\ (WholeFile(lines, u)' <=> WholeFile(lines, u))
  BY <1>1, SameProgram
<1>3. ASSUME \A u \in DOMAIN dir' : RightFile(dir'[u], u) /\ (killed' = 0 => WholeFile(dir'[u], u))
      PROVE  DirInv'
  BY <1>2, <1>3 DEF DirInv
<1>4. CASE WriteTrace
  <2>1. Complete /\ dir' = Put(dir, unit, FLines \o CLines) /\ killed' = killed
    BY <1>4 DEF WriteTrace, Complete
  <2>2. RightFile(FLines \o CLines, unit) /\ WholeFile(FLines \o CLines, unit)
    BY <2>1, PrintedRight
  <2>3. ASSUME NEW u \in DOMAIN dir' PROVE RightFile(dir'[u], u) /\ (killed' = 0 => WholeFile(dir'[u], u))
    <3>1. CASE u = unit
      BY <2>1, <2>2, <3>1 DEF Put
    <3>2. CASE u # unit
      <4>1. u \in DOMAIN dir /\ dir'[u] = dir[u]
        BY <2>1, <3>2 DEF Put
      <4> QED  BY <2>1, <4>1 DEF DirInv
    <3> QED  BY <3>1, <3>2
  <2> QED  BY <1>3, <2>3
<1>5. CASE KillInstrumented
  <2>1. killed' # 0 /\ unit \in Files
    BY <1>5 DEF KillInstrumented, FlowType, RunInv
  <2>2. CASE dir' = dir
    BY <1>3, <2>1, <2>2 DEF DirInv
  <2>3. CASE Len(labels) = NumIterations(unit) /\ \E c \in Cuts(FLines \o CLines) : dir' = Put(dir, unit, c)
    <3>1. PICK c \in Cuts(FLines \o CLines) : dir' = Put(dir, unit, c)
      BY <2>3
    <3>2. Complete
      BY <1>5, <2>3 DEF KillInstrumented, Complete
    <3>3. RightFile(c, unit)
      BY <2>1, <3>1, <3>2, PrintedRight, CutRight
    <3>4. ASSUME NEW u \in DOMAIN dir' PROVE RightFile(dir'[u], u)
      <4>1. CASE u = unit
        BY <3>1, <3>3, <4>1 DEF Put
      <4>2. CASE u # unit
        <5>1. u \in DOMAIN dir /\ dir'[u] = dir[u]
          BY <3>1, <4>2 DEF Put
        <5> QED  BY <5>1 DEF DirInv
      <4> QED  BY <4>1, <4>2
    <3> QED  BY <1>3, <2>1, <3>4
  <2> QED  BY <1>5, <2>2, <2>3 DEF KillInstrumented
<1>6. CASE dir' = dir /\ killed' = killed
  BY <1>3, <1>6 DEF DirInv
<1> QED
  BY <1>4, <1>5, <1>6 DEF FlowNext, NextFile, Iterate, StartFuzzing, ReadCoverage, ChooseFocus, ReadTrace,
     ReadAll, FlowEnded, flowVars, collectVars
-----------------------------------------------------------------------------
(* Data flow traces: what the fuzzing process counts.                      *)

(* A counter that an execution of u may, or does, increment.               *)
Marked(d, c, u, f) ==
  /\ DOMAIN d = DOMAIN c
  /\ \A b \in DOMAIN c : d[b] = c[b] \/ (d[b] = c[b] + 1 /\ Exec(u, f, b))
MarkedAll(d, c, u, f) == \A b \in DOMAIN c : Exec(u, f, b) => d[b] = c[b] + 1

(* Count increments the counters of blocks that were executed, and of all  *)
(* of them if the line is whole.                                           *)
LEMMA CountIs ==
  ASSUME NEW u, NEW f \in Functions, NEW s, Numbered(s, u, f), s # <<>>, Exec(u, f, 0),
         NEW m \in 1..Blocks[f], NEW c, DOMAIN c = 0..m - 1, \A b \in DOMAIN c : c[b] \in Nat
  PROVE  /\ Marked(Count(c, Front(s)), c, u, f)
         /\ Last(s) = Blocks[f] /\ (\A b \in 1..Blocks[f] - 1 : Exec(u, f, b) => \E i \in DOMAIN s : s[i] = b)
              => MarkedAll(Count(c, Front(s)), c, u, f)
<1> DEFINE p == Front(s)
           n == Len(s)
           d == Count(c, p)
           hits(b) == {k \in DOMAIN p : p[k] = b}
<1>0. Blocks[f] \in Nat \ {0}
  BY NumFuncsIs
<1>1. /\ s \in Seq(Nat) /\ DOMAIN s = 1..n /\ n \in Nat \ {0} /\ DOMAIN p = 1..n - 1
      /\ \A k \in 1..n - 1 : p[k] = s[k]
  <2>1. s \in Seq(Nat)
    BY DEF Numbered
  <2>2. n \in Nat \ {0}
    BY <2>1
  <2> QED  BY <2>1, <2>2 DEF Front
<1>2. DOMAIN d = DOMAIN c /\ \A b \in DOMAIN c : d[b] = c[b] + Cardinality(hits(b)) + IF b = 0 THEN 1 ELSE 0
  BY DEF Count
<1>3. ASSUME NEW k \in DOMAIN p PROVE p[k] \in 1..Blocks[f] - 1 /\ Exec(u, f, p[k])
  <2>1. k \in DOMAIN s /\ n \in DOMAIN s /\ k < n /\ p[k] = s[k]
    BY <1>1
  <2>2. s[k] < s[n] /\ s[k] \in Nat /\ s[n] \in Nat
    BY <1>1, <2>1 DEF Numbered, Ascends
  <2>3. s[n] <= Blocks[f]
    BY <1>0, <2>1 DEF Numbered
  <2>4. s[k] # Blocks[f]
    BY <1>0, <2>2, <2>3
  <2> QED  BY <2>1, <2>4 DEF Numbered
<1> HIDE DEF p
<1>4. ASSUME NEW b, NEW k \in DOMAIN p, p[k] = b PROVE Cardinality(hits(b)) = 1
  <2>1. hits(b) = {k}
    <3> SUFFICES ASSUME NEW j \in DOMAIN p, p[j] = b, j # k PROVE FALSE
      BY <1>4
    <3>1. s[j] = s[k] /\ j \in DOMAIN s /\ k \in DOMAIN s /\ s[j] \in Nat /\ j \in Nat /\ k \in Nat
      BY <1>1, <1>4
    <3>2. CASE j < k
      <4>1. s[j] < s[k]
        BY <3>1, <3>2 DEF Numbered, Ascends
      <4> QED  BY <3>1, <4>1
    <3>3. CASE k < j
      <4>1. s[k] < s[j]
        BY <3>1, <3>3 DEF Numbered, Ascends
      <4> QED  BY <3>1, <4>1
    <3> QED  BY <3>1, <3>2, <3>3
  <2> HIDE DEF hits
  <2> QED  BY <2>1, FS_Singleton
<1>5. ASSUME NEW b, \A k \in DOMAIN p : p[k] # b PROVE Cardinality(hits(b)) = 0
  <2>1. hits(b) = {}
    BY <1>5
  <2> HIDE DEF hits
  <2> QED  BY <2>1, FS_EmptySet
<1> HIDE DEF hits, d, n
<1>6. ASSUME NEW b \in DOMAIN c
      PROVE  /\ d[b] = c[b] \/ (d[b] = c[b] + 1 /\ Exec(u, f, b))
             /\ b = 0 \/ (\E k \in DOMAIN p : p[k] = b) => d[b] = c[b] + 1
  <2>0. c[b] \in Nat /\ b \in Nat
    OBVIOUS
  <2>1. CASE b = 0
    <3>1. \A k \in DOMAIN p : p[k] # b
      BY <1>0, <1>3, <2>1
    <3>2. Cardinality(hits(b)) = 0
      BY <1>5, <3>1
    <3>3. d[b] = c[b] + 1
      BY <1>2, <2>0, <2>1, <3>2
    <3> QED  BY <2>1, <3>3
  <2>2. CASE b # 0 /\ \E k \in DOMAIN p : p[k] = b
    <3>1. PICK k \in DOMAIN p : p[k] = b
      BY <2>2
    <3>2. Cardinality(hits(b)) = 1 /\ Exec(u, f, b)
      BY <1>3, <1>4, <3>1
    <3>3. d[b] = c[b] + 1
      BY <1>2, <2>0, <2>2, <3>2
    <3> QED  BY <3>2, <3>3
  <2>3. CASE b # 0 /\ \A k \in DOMAIN p : p[k] # b
    <3>2. Cardinality(hits(b)) = 0
      BY <1>5, <2>3
    <3>3. d[b] = c[b]
      BY <1>2, <2>0, <2>3, <3>2
    <3> QED  BY <2>3, <3>3
  <2> QED  BY <2>1, <2>2, <2>3
<1>7. Marked(d, c, u, f)
  BY <1>2, <1>6 DEF Marked
<1>8. ASSUME Last(s) = Blocks[f], \A b \in 1..Blocks[f] - 1 : Exec(u, f, b) => \E i \in DOMAIN s : s[i] = b
      PROVE  MarkedAll(d, c, u, f)
  <2> SUFFICES ASSUME NEW b \in DOMAIN c, Exec(u, f, b) PROVE d[b] = c[b] + 1
    BY DEF MarkedAll
  <2>1. CASE b = 0
    BY <1>6, <2>1
  <2>2. CASE b # 0
    <3>1. b \in 1..Blocks[f] - 1
      BY <1>0, <2>2
    <3>2. PICK i \in DOMAIN s : s[i] = b
      BY <1>8, <3>1
    <3>3. i # n
      <4>1. s[n] = Blocks[f]
        BY <1>8 DEF Last, n
      <4> QED  BY <1>0, <3>1, <3>2, <4>1
    <3>4. i \in DOMAIN p /\ p[i] = b
      BY <1>1, <3>2, <3>3
    <3> QED  BY <1>6, <3>4
  <2> QED  BY <2>1, <2>2
<1> QED  BY <1>7, <1>8 DEF d, p

Tables == [Functions -> SUBSET Files]

(* The files that execute a block can be counted.                          *)
LEMMA ExecutingFinite ==
  ASSUME NEW S \in Tables, NEW f \in Functions, NEW b
  PROVE  IsFiniteSet(Executing(S, f, b)) /\ Cardinality(Executing(S, f, b)) \in Nat /\ S[f] \subseteq Files
<1>1. IsFiniteSet(Files) /\ Executing(S, f, b) \in SUBSET Files /\ S[f] \subseteq Files
  BY DataFlowAssumption DEF DataFlowAssumption, Executing, Tables
<1>2. IsFiniteSet(Executing(S, f, b))
  BY <1>1, FS_Subset
<1> QED  BY <1>1, <1>2, FS_CardinalityType

(* One file more for one function.                                         *)
CountsIn(u, f, S, T) ==
  /\ \A g \in Functions : \A b : g # f => Executing(T, g, b) = Executing(S, g, b)
  /\ \A b : /\ Exec(u, f, b) => /\ Executing(T, f, b) # {}
                                /\ Cardinality(Executing(T, f, b)) = Cardinality(Executing(S, f, b)) + 1
            /\ ~Exec(u, f, b) => Executing(T, f, b) = Executing(S, f, b)

(* A file that counts for one function more.                               *)
LEMMA ExecutingMore ==
  ASSUME NEW S \in Tables, NEW u \in Files, NEW f \in Functions, u \notin S[f],
         NEW T, T = [S EXCEPT ![f] = @ \cup {u}]
  PROVE  T \in Tables /\ CountsIn(u, f, S, T)
<1>1. T \in Tables /\ T[f] = S[f] \cup {u} /\ \A g \in Functions : g # f => T[g] = S[g]
  BY DEF Tables
<1>2. ASSUME NEW b, Exec(u, f, b)
      PROVE  /\ Executing(T, f, b) # {}
             /\ Cardinality(Executing(T, f, b)) = Cardinality(Executing(S, f, b)) + 1
  <2>1. Executing(T, f, b) = Executing(S, f, b) \cup {u} /\ u \notin Executing(S, f, b)
    BY <1>1, <1>2 DEF Executing
  <2>2. IsFiniteSet(Executing(S, f, b))
    BY ExecutingFinite
  <2> DEFINE A == Executing(S, f, b)
  <2> HIDE DEF A
  <2>3. Cardinality(A \cup {u}) = Cardinality(A) + 1
    BY <2>1, <2>2, FS_AddElement DEF A
  <2> QED  BY <2>1, <2>3 DEF A
<1>3. ASSUME NEW b, ~Exec(u, f, b) PROVE Executing(T, f, b) = Executing(S, f, b)
  BY <1>1, <1>3 DEF Executing
<1>4. \A g \in Functions : \A b : g # f => Executing(T, g, b) = Executing(S, g, b)
  BY <1>1 DEF Executing
<1> QED  BY <1>1, <1>2, <1>3, <1>4 DEF CountsIn

(* What counts for some files counts for more.                             *)
LEMMA CountedMore ==
  ASSUME NEW S \in Tables, NEW T \in Tables, \A f \in Functions : S[f] \subseteq T[f], NEW cov, Counted(cov, S)
  PROVE  Counted(cov, T)
<1> SUFFICES ASSUME NEW f \in DOMAIN cov PROVE CountersOf(cov, T, f)
  BY DEF Counted
<1>1. CountersOf(cov, S, f) /\ f \in Functions
  BY DEF Counted, CountersOf
<1>2. \A b : Executing(S, f, b) \in SUBSET Executing(T, f, b)
  BY <1>1 DEF Executing
<1>3. ASSUME NEW b \in DOMAIN cov[f] PROVE cov[f][b] \in Nat /\ cov[f][b] <= Cardinality(Executing(T, f, b))
  <2>1. cov[f][b] \in Nat /\ cov[f][b] <= Cardinality(Executing(S, f, b))
    BY <1>1 DEF CountersOf
  <2>2. IsFiniteSet(Executing(T, f, b)) /\ Cardinality(Executing(T, f, b)) \in Nat
    BY <1>1, ExecutingFinite
  <2>3. Cardinality(Executing(S, f, b)) \in Nat
    BY <1>1, ExecutingFinite
  <2>4. Cardinality(Executing(S, f, b)) <= Cardinality(Executing(T, f, b))
    BY <1>2, <2>2, FS_Subset
  <2> QED  BY <2>1, <2>2, <2>3, <2>4
<1> QED  BY <1>1, <1>2, <1>3 DEF CountersOf

(* A block is executed after the entry of its function.                    *)
LEMMA EntryFirst ==
  ASSUME FlowType, NEW u \in Files, NEW f, NEW b, Exec(u, f, b)
  PROVE  Exec(u, f, 0)
<1> DEFINE e == <<"block", f, b>>
<1>1. e \in ToSet(Programs[program][u]) /\ e[1] = "block" /\ e[2] = f
  BY DEF Exec, BlocksOf, Events
<1> HIDE DEF e
<1>2. <<"block", e[2], 0>> \in ToSet(Programs[program][u])
  BY <1>1, DataFlowAssumption DEF DataFlowAssumption, FlowType
<1>3. <<"block", f, 0>>[1] = "block"
  OBVIOUS
<1> QED  BY <1>1, <1>2, <1>3 DEF Exec, BlocksOf, Events

(* Where no entry is executed no block is.                                 *)
LEMMA NoneExecutes ==
  ASSUME FlowType, NEW S \in Tables, NEW f \in Functions, Executing(S, f, 0) = {}, NEW b
  PROVE  Executing(S, f, b) = {}
<1>1. S[f] \subseteq Files
  BY DEF Tables
<1> QED  BY <1>1, EntryFirst DEF Executing

(* A line of blocks is counted.                                            *)
LEMMA CountedLine ==
  ASSUME FlowType, NEW S \in Tables, NEW u \in Files, NEW l, CRight(l, u), u \notin S[l[2]],
         NEW cov, Counted(cov, S), Readable(cov, l),
         NEW T, T = [S EXCEPT ![l[2]] = @ \cup {u}]
  PROVE  /\ Counted(Appended(cov, l), T) /\ DOMAIN Appended(cov, l) # {}
         /\ CountedAll(cov, S) /\ CWhole(l, u) => CountedAll(Appended(cov, l), T)
<1> DEFINE f == l[2]
           s == l[3]
           c == IF f \in DOMAIN cov THEN cov[f] ELSE [b \in 0..Last(s) - 1 |-> 0]
           d == Count(c, Front(s))
           new == Appended(cov, l)
           whole == Last(s) = Blocks[f] /\ \A b \in 1..Blocks[f] - 1 : Exec(u, f, b) => \E i \in DOMAIN s : s[i] = b
<1>1. f \in Functions /\ Exec(u, f, 0) /\ Numbered(s, u, f) /\ l[1] # "F"
  <2>1. l[1] = "C" /\ "C" # "F"
    BY DEF CRight
  <2> QED  BY <2>1 DEF CRight
<1>2. s # <<>> /\ (f \in DOMAIN cov => Cardinality(DOMAIN cov[f]) = Last(s))
  BY <1>1 DEF Readable
<1>3. T = [S EXCEPT ![f] = @ \cup {u}] /\ u \notin S[f] /\ (CWhole(l, u) => whole)
  BY DEF CWhole
<1>4. DOMAIN new = DOMAIN cov \cup {f} /\ new[f] = d /\ \A g \in DOMAIN cov \ {f} : new[g] = cov[g]
  <2>1. new = Put(cov, f, d)
    BY <1>1 DEF Appended
  <2> HIDE DEF new, d, f
  <2> QED  BY <2>1 DEF Put
<1> HIDE DEF f, s, new, whole
<1>5. Last(s) \in 1..Blocks[f]
  <2>1. s \in Seq(Nat) /\ Blocks[f] \in Nat \ {0}
    BY <1>1, NumFuncsIs DEF Numbered
  <2>2. Len(s) \in DOMAIN s
    BY <1>2, <2>1
  <2> QED  BY <1>1, <2>1, <2>2 DEF Numbered, Last
<1>6. PICK m \in 1..Blocks[f] : DOMAIN c = 0..m - 1 /\ (f \notin DOMAIN cov => m = Last(s))
  <2>1. CASE f \in DOMAIN cov
    BY <2>1 DEF Counted, CountersOf
  <2>2. CASE f \notin DOMAIN cov
    BY <1>5, <2>2
  <2> QED  BY <2>1, <2>2
<1>7. \A b : Cardinality(Executing(S, f, b)) \in Nat
  BY <1>1, ExecutingFinite
<1>8. ASSUME NEW b \in DOMAIN c PROVE c[b] \in Nat /\ c[b] <= Cardinality(Executing(S, f, b))
  <2>1. CASE f \in DOMAIN cov
    BY <2>1 DEF Counted, CountersOf
  <2>2. CASE f \notin DOMAIN cov
    <3>1. c[b] = 0
      BY <2>2
    <3> HIDE DEF c
    <3> QED  BY <1>7, <3>1
  <2> QED  BY <2>1, <2>2
<1>9. ASSUME NEW b \in DOMAIN c, CountedAll(cov, S), whole PROVE c[b] = Cardinality(Executing(S, f, b))
  <2>1. CASE f \in DOMAIN cov
    BY <1>9, <2>1 DEF CountedAll, ExactOf
  <2>2. CASE f \notin DOMAIN cov
    <3>1. c[b] = 0
      BY <2>2
    <3>2. Executing(S, f, b) = {}
      BY <1>1, <1>9, <2>2, NoneExecutes DEF CountedAll
    <3> HIDE DEF c
    <3>3. Cardinality({}) = 0
      BY FS_EmptySet
    <3> QED  BY <3>1, <3>2, <3>3
  <2> QED  BY <2>1, <2>2
<1>10. ASSUME CountedAll(cov, S), whole PROVE DOMAIN c = 0..Blocks[f] - 1
  <2>1. CASE f \in DOMAIN cov
    BY <1>10, <2>1 DEF CountedAll, ExactOf
  <2>2. CASE f \notin DOMAIN cov
    BY <1>10, <1>6, <2>2 DEF whole
  <2> QED  BY <2>1, <2>2
<1> HIDE DEF c
<1>11. Marked(d, c, u, f) /\ (whole => MarkedAll(d, c, u, f))
  <2>1. \A b \in DOMAIN c : c[b] \in Nat
    BY <1>8
  <2>2. /\ Marked(Count(c, Front(s)), c, u, f)
        /\ Last(s) = Blocks[f] /\ (\A b \in 1..Blocks[f] - 1 : Exec(u, f, b) => \E i \in DOMAIN s : s[i] = b)
              => MarkedAll(Count(c, Front(s)), c, u, f)
    BY <1>1, <1>2, <1>6, <2>1, CountIs
  <2> QED  BY <2>2 DEF whole
<1> HIDE DEF d
<1>a. T \in Tables /\ CountsIn(u, f, S, T)
  BY <1>1, <1>3, ExecutingMore
<1>12. /\ T \in Tables
       /\ \A g \in Functions : \A b : g # f => Executing(T, g, b) = Executing(S, g, b)
       /\ \A b : /\ Exec(u, f, b) => /\ Executing(T, f, b) # {}
                                     /\ Cardinality(Executing(T, f, b)) = Cardinality(Executing(S, f, b)) + 1
                 /\ ~Exec(u, f, b) => Executing(T, f, b) = Executing(S, f, b)
  BY <1>a DEF CountsIn
<1>13. DOMAIN d = DOMAIN c /\ \A b \in DOMAIN c : d[b] = c[b] \/ (d[b] = c[b] + 1 /\ Exec(u, f, b))
  BY <1>11 DEF Marked
<1>14. ASSUME NEW b \in DOMAIN c PROVE d[b] \in Nat /\ d[b] <= Cardinality(Executing(T, f, b))
  <2>1. c[b] \in Nat /\ c[b] <= Cardinality(Executing(S, f, b)) /\ Cardinality(Executing(S, f, b)) \in Nat
    BY <1>7, <1>8
  <2>2. CASE d[b] = c[b] + 1 /\ Exec(u, f, b)
    <3>1. Cardinality(Executing(T, f, b)) = Cardinality(Executing(S, f, b)) + 1
      BY <1>12, <2>2
    <3> QED  BY <2>1, <2>2, <3>1
  <2>3. CASE d[b] = c[b]
    <3>1. Cardinality(Executing(T, f, b)) \in {Cardinality(Executing(S, f, b)), Cardinality(Executing(S, f, b)) + 1}
      BY <1>12
    <3> QED  BY <2>1, <2>3, <3>1
  <2> QED  BY <1>13, <2>2, <2>3
<1>15. CountersOf(new, T, f)
  BY <1>1, <1>4, <1>6, <1>12, <1>13, <1>14 DEF CountersOf
<1>16. ASSUME NEW g \in DOMAIN cov, g # f PROVE CountersOf(new, T, g)
  <2>1. CountersOf(cov, S, g) /\ g \in Functions /\ new[g] = cov[g]
    BY <1>4, <1>16 DEF Counted, CountersOf
  <2>2. \A b : Executing(T, g, b) = Executing(S, g, b)
    BY <1>12, <1>16, <2>1
  <2> QED  BY <2>1, <2>2 DEF CountersOf
<1>17. Counted(new, T)
  BY <1>4, <1>15, <1>16 DEF Counted
<1>18. ASSUME CountedAll(cov, S), whole PROVE CountedAll(new, T)
  <2>1. ExactOf(new, T, f)
    <3>1. ASSUME NEW b \in DOMAIN c PROVE d[b] = Cardinality(Executing(T, f, b))
      <4>1. c[b] = Cardinality(Executing(S, f, b)) /\ Cardinality(Executing(S, f, b)) \in Nat
        BY <1>7, <1>9, <1>18
      <4>2. CASE Exec(u, f, b)
        <5>1. d[b] = c[b] + 1
          BY <1>11, <1>18, <4>2 DEF MarkedAll
        <5> QED  BY <1>12, <4>1, <4>2, <5>1
      <4>3. CASE ~Exec(u, f, b)
        BY <1>12, <1>13, <4>1, <4>3
      <4> QED  BY <4>2, <4>3
    <3> QED  BY <1>4, <1>10, <1>13, <1>18, <3>1 DEF ExactOf
  <2>2. ASSUME NEW g \in DOMAIN cov, g # f PROVE ExactOf(new, T, g)
    <3>1. ExactOf(cov, S, g) /\ g \in Functions /\ new[g] = cov[g]
      BY <1>4, <1>18, <2>2 DEF Counted, CountersOf, CountedAll
    <3>2. \A b : Executing(T, g, b) = Executing(S, g, b)
      BY <1>12, <2>2, <3>1
    <3> QED  BY <3>1, <3>2 DEF ExactOf
  <2>3. ASSUME NEW g \in Functions \ DOMAIN new PROVE Executing(T, g, 0) = {}
    <3>1. g \in Functions \ DOMAIN cov /\ g # f
      BY <1>4, <2>3
    <3> QED  BY <1>12, <1>18, <3>1 DEF CountedAll
  <2> QED  BY <1>4, <2>1, <2>2, <2>3 DEF CountedAll
<1> QED  BY <1>3, <1>4, <1>17, <1>18 DEF new

(* What AppendCoverage has made of the first n lines.                      *)
First(cov) == [cov |-> cov, ok |-> TRUE]
LinesRead(cov, lines, n, g) ==
  g = [k \in 0..n |-> IF k = 0 THEN First(cov) ELSE ReadLine(g[k - 1], lines[k])]

(* The lines of a file can be read one after the other.                    *)
LEMMA LinesReadExists ==
  ASSUME NEW cov, NEW lines, NEW n \in Nat
  PROVE  \E g : LinesRead(cov, lines, n, g)
<1> DEFINE Wrong == {k \in 0..n : ~ \E g : LinesRead(cov, lines, k, g)}
<1>1. 0 \notin Wrong
  <2>1. LinesRead(cov, lines, 0, [k \in 0..0 |-> First(cov)])
    BY DEF LinesRead
  <2> QED  BY <2>1
<1>2. ASSUME NEW k \in Wrong PROVE k - 1 \in Wrong
  <2>1. k # 0 /\ k \in 0..n
    BY <1>1
  <2> SUFFICES ASSUME NEW g, LinesRead(cov, lines, k - 1, g) PROVE FALSE
    BY <2>1
  <2> DEFINE h == [j \in 0..k |-> IF j = k THEN ReadLine(g[k - 1], lines[k]) ELSE g[j]]
  <2>2. ASSUME NEW j \in 0..k PROVE h[j] = IF j = 0 THEN First(cov) ELSE ReadLine(h[j - 1], lines[j])
    <3>1. CASE j = k
      BY <3>1, <2>1
    <3>2. CASE j # k
      <4>1. j \in 0..k - 1 /\ h[j] = g[j]
        BY <3>2, <2>1
      <4>2. g[j] = IF j = 0 THEN First(cov) ELSE ReadLine(g[j - 1], lines[j])
        BY <4>1 DEF LinesRead
      <4>3. j # 0 => h[j - 1] = g[j - 1]
        BY <4>1, <2>1
      <4> QED  BY <4>1, <4>2, <4>3
    <3> QED  BY <3>1, <3>2
  <2>3. h = [j \in 0..k |-> IF j = 0 THEN First(cov) ELSE ReadLine(h[j - 1], lines[j])]
    <3>1. h = [j \in 0..k |-> h[j]]
      OBVIOUS
    <3> HIDE DEF h
    <3> QED  BY <2>2, <3>1
  <2> HIDE DEF h
  <2>4. LinesRead(cov, lines, k, h)
    BY <2>3 DEF LinesRead
  <2> QED  BY <2>4
<1>3. Wrong = {}
  <2> HIDE DEF Wrong
  <2>1. Wrong \in SUBSET (0..n)
    BY DEF Wrong
  <2> QED  BY <1>1, <1>2, <2>1, NoneFirst
<1> QED  BY <1>3

(* AppendCoverage reads them so.                                           *)
LEMMA AppendCoverageIs ==
  ASSUME NEW cov, NEW lines, Len(lines) \in Nat
  PROVE  \E g : LinesRead(cov, lines, Len(lines), g) /\ AppendCoverage(cov, lines) = g[Len(lines)].cov
<1> DEFINE after == CHOOSE after : after = [k \in 0..Len(lines) |->
        IF k = 0 THEN [cov |-> cov, ok |-> TRUE] ELSE ReadLine(after[k - 1], lines[k])]
<1>1. AppendCoverage(cov, lines) = after[Len(lines)].cov
  BY DEF AppendCoverage
<1>2. PICK g : LinesRead(cov, lines, Len(lines), g)
  BY LinesReadExists
<1>3. g = [k \in 0..Len(lines) |-> IF k = 0 THEN [cov |-> cov, ok |-> TRUE] ELSE ReadLine(g[k - 1], lines[k])]
  BY <1>2 DEF LinesRead, First
<1>4. after = [k \in 0..Len(lines) |-> IF k = 0 THEN [cov |-> cov, ok |-> TRUE] ELSE ReadLine(after[k - 1], lines[k])]
  BY <1>3
<1>5. LinesRead(cov, lines, Len(lines), after)
  <2> HIDE DEF after
  <2> QED BY <1>4 DEF LinesRead, First
<1> QED  BY <1>1, <1>5

(* A whole line is read.                                                   *)
LEMMA WholeReadable ==
  ASSUME NEW S, NEW u, NEW l, CRight(l, u), CWhole(l, u), NEW cov, CountedAll(cov, S)
  PROVE  Readable(cov, l)
<1> DEFINE f == l[2]
           s == l[3]
           p == Front(s)
           n == Len(s)
<1>1. f \in Functions /\ Numbered(s, u, f) /\ l[1] = "C" /\ s # <<>> /\ Last(s) = Blocks[f]
  BY DEF CRight, CWhole
<1>2. /\ s \in Seq(Nat) /\ DOMAIN s = 1..n /\ n \in Nat \ {0} /\ DOMAIN p = 1..n - 1
      /\ \A k \in 1..n - 1 : p[k] = s[k]
  <2> HIDE DEF s
  <2>1. s \in Seq(Nat)
    BY <1>1 DEF Numbered
  <2>2. n \in Nat \ {0}
    BY <1>1, <2>1
  <2> QED  BY <2>1, <2>2 DEF Front
<1> HIDE DEF s, p, f, n
<1>3. ASSUME NEW x \in ToSet(p) PROVE x < Last(s)
  <2>1. PICK k \in DOMAIN p : x = p[k]
    BY DEF ToSet
  <2>2. k \in DOMAIN s /\ n \in DOMAIN s /\ k < n /\ x = s[k]
    BY <1>2, <2>1
  <2> QED  BY <1>1, <2>2 DEF Numbered, Ascends, Last, n
<1>4. f \in DOMAIN cov => Cardinality(DOMAIN cov[f]) = Last(s)
  <2> SUFFICES ASSUME f \in DOMAIN cov PROVE Cardinality(DOMAIN cov[f]) = Last(s)
    OBVIOUS
  <2>1. DOMAIN cov[f] = 0..Blocks[f] - 1
    BY DEF CountedAll, ExactOf
  <2>2. Blocks[f] \in Nat \ {0}
    BY <1>1, NumFuncsIs
  <2>3. Cardinality(0..Blocks[f] - 1) = Blocks[f]
    BY <2>2, FS_Interval
  <2> QED  BY <1>1, <2>1, <2>3
<1> QED  BY <1>1, <1>3, <1>4 DEF Readable, f, s, p

(* The files that count for a function when the first k lines of the file  *)
(* of u have been read, behind the files R.                                *)
Done(lines, k, f) == \E i \in 1..k : i \in DOMAIN lines /\ lines[i][1] = "C" /\ lines[i][2] = f
Reading(R, u, lines, k) == [f \in Functions |-> IF Done(lines, k, f) THEN R \cup {u} ELSE R]

LineState(st, cov, T, whole) ==
  /\ DOMAIN st = {"cov", "ok"} /\ Counted(st.cov, T)
  /\ st.cov = cov \/ DOMAIN st.cov # {}
  /\ whole => st.ok /\ CountedAll(st.cov, T)

(* The files that count before and behind one line of the file of u.       *)
TakesLine(u, l, S, T) ==
  /\ S \in Tables /\ T \in Tables /\ \A f \in Functions : S[f] \subseteq T[f]
  /\ l[1] = "F" => T = S
  /\ CRight(l, u) => u \notin S[l[2]] /\ T = [S EXCEPT ![l[2]] = @ \cup {u}]

(* A line has its file counted for its function only, and for the first    *)
(* time.                                                                   *)
LEMMA ReadingIs ==
  ASSUME NEW R \in SUBSET Files, NEW u \in Files, u \notin R, NEW lines, RightFile(lines, u),
         NEW k \in DOMAIN lines
  PROVE  TakesLine(u, lines[k], Reading(R, u, lines, k - 1), Reading(R, u, lines, k))
<1> DEFINE l == lines[k]
           S == Reading(R, u, lines, k - 1)
           T == Reading(R, u, lines, k)
<1>1. k \in 1..Len(lines) /\ DOMAIN lines = 1..Len(lines) /\ Len(lines) \in Nat
  <2>1. lines \in Seq(ToSet(lines))
    BY DEF RightFile
  <2> QED  BY <2>1
<1>2. S \in Tables /\ T \in Tables
  BY DEF Reading, Tables
<1>3. \A f : Done(lines, k, f) <=> Done(lines, k - 1, f) \/ (l[1] = "C" /\ l[2] = f)
  <2> SUFFICES ASSUME NEW f PROVE Done(lines, k, f) <=> Done(lines, k - 1, f) \/ (l[1] = "C" /\ l[2] = f)
    OBVIOUS
  <2>1. \A i : i \in 1..k <=> i \in 1..k - 1 \/ i = k
    BY <1>1
  <2> QED  BY <2>1 DEF Done
<1>4. \A f \in Functions : S[f] \subseteq T[f]
  BY <1>3 DEF Reading
<1>5. ASSUME l[1] = "F" PROVE T = S
  <2>1. l[1] # "C"
    BY <1>5
  <2> QED  BY <1>3, <2>1 DEF Reading
<1>6. ASSUME CRight(l, u) PROVE u \notin S[l[2]] /\ T = [S EXCEPT ![l[2]] = @ \cup {u}]
  <2> DEFINE f == l[2]
  <2>1. l[1] = "C" /\ f \in Functions
    BY <1>6 DEF CRight
  <2>2. ~Done(lines, k - 1, f)
    <3> SUFFICES ASSUME NEW i \in 1..k - 1, i \in DOMAIN lines, lines[i][1] = "C", lines[i][2] = f PROVE FALSE
      BY DEF Done
    <3>1. i = k
      BY <2>1 DEF RightFile
    <3> QED  BY <1>1, <3>1
  <2> HIDE DEF f
  <2>3. S[f] = R /\ T[f] = R \cup {u}
    BY <1>3, <2>1, <2>2 DEF Reading, f
  <2>4. \A g \in Functions : g # f => T[g] = S[g]
    BY <1>3 DEF Reading, f
  <2> HIDE DEF S, T
  <2>5. T = [S EXCEPT ![f] = @ \cup {u}]
    BY <1>2, <2>1, <2>3, <2>4 DEF Tables
  <2> QED  BY <2>3, <2>5 DEF f
<1> QED  BY <1>2, <1>4, <1>5, <1>6 DEF TakesLine

(* A line keeps the counters right.                                        *)
LEMMA LineStep ==
  ASSUME FlowType, NEW u \in Files, NEW l, FRight(l, u) \/ CRight(l, u), NEW S, NEW T, TakesLine(u, l, S, T),
         NEW whole \in BOOLEAN, whole /\ l[1] = "C" => CWhole(l, u),
         NEW st, NEW cov, LineState(st, cov, S, whole)
  PROVE  LineState(ReadLine(st, l), cov, T, whole)
<1> DEFINE next == ReadLine(st, l)
<1>0. DOMAIN st = {"cov", "ok"} /\ Counted(st.cov, S)
  BY DEF LineState
<1>a. /\ S \in Tables /\ T \in Tables /\ \A f \in Functions : S[f] \subseteq T[f]
      /\ l[1] = "F" => T = S
      /\ CRight(l, u) => u \notin S[l[2]] /\ T = [S EXCEPT ![l[2]] = @ \cup {u}]
  BY DEF TakesLine
<1>1. CASE st.ok /\ Readable(st.cov, l)
  <2>1. next = [st EXCEPT !.cov = Appended(st.cov, l)]
    BY <1>1 DEF ReadLine
  <2>2. DOMAIN next = {"cov", "ok"} /\ next.cov = Appended(st.cov, l) /\ next.ok
    BY <1>0, <1>1, <2>1
  <2> HIDE DEF next
  <2>3. CASE FRight(l, u)
    <3>1. l[1] = "F" /\ next.cov = st.cov /\ T = S
      BY <1>a, <2>2, <2>3 DEF Appended, FRight
    <3> QED  BY <2>2, <3>1 DEF LineState, next
  <2>4. CASE CRight(l, u)
    <3>1. Counted(next.cov, T) /\ DOMAIN next.cov # {} /\ (CountedAll(st.cov, S) /\ CWhole(l, u) => CountedAll(next.cov, T))
      BY <1>0, <1>a, <1>1, <2>2, <2>4, CountedLine
    <3>2. l[1] = "C"
      BY <2>4 DEF CRight
    <3> QED  BY <2>2, <3>1, <3>2 DEF LineState, next
  <2> QED  BY <2>3, <2>4
<1>2. CASE ~(st.ok /\ Readable(st.cov, l))
  <2>1. next = [st EXCEPT !.ok = FALSE]
    BY <1>2 DEF ReadLine
  <2>2. DOMAIN next = {"cov", "ok"} /\ next.cov = st.cov
    BY <1>0, <2>1
  <2> HIDE DEF next
  <2>3. Counted(next.cov, T)
    BY <1>0, <1>a, <2>2, CountedMore
  <2>4. ~whole
    <3> SUFFICES ASSUME whole PROVE FALSE
      OBVIOUS
    <3>1. st.ok /\ CountedAll(st.cov, S)
      BY DEF LineState
    <3>2. CASE FRight(l, u)
      BY <1>2, <3>1, <3>2 DEF Readable, FRight
    <3>3. CASE CRight(l, u)
      <4>1. CWhole(l, u)
        BY <3>3 DEF CRight
      <4> QED  BY <1>2, <3>1, <3>3, <4>1, WholeReadable
    <3> QED  BY <3>2, <3>3
  <2> QED  BY <2>2, <2>3, <2>4 DEF LineState, next
<1> QED  BY <1>1, <1>2

(* The tables of what counts before, in and behind a file.                 *)
LEMMA EverywhereIs ==
  ASSUME NEW R \in SUBSET Files
  PROVE  /\ Everywhere(R) \in Tables /\ \A f \in Functions : Everywhere(R)[f] = R
         /\ \A f \in Functions : \A b : Executing(Everywhere(R), f, b) = {u \in R : Exec(u, f, b)}
<1>1. Everywhere(R) \in Tables /\ \A f \in Functions : Everywhere(R)[f] = R
  BY DEF Everywhere, Tables
<1>2. \A f \in Functions : \A b : Executing(Everywhere(R), f, b) = {u \in R : Exec(u, f, b)}
  BY <1>1 DEF Executing
<1> QED  BY <1>1, <1>2

(* Behind a whole file every function counts it that it executes.          *)
LEMMA ReadingAll ==
  ASSUME FlowType, NEW R \in SUBSET Files, NEW u \in Files, NEW lines, RightFile(lines, u), WholeFile(lines, u),
         NEW f \in Functions, NEW b
  PROVE  Executing(Reading(R, u, lines, Len(lines)), f, b) = Executing(Everywhere(R \cup {u}), f, b)
<1> DEFINE T == Reading(R, u, lines, Len(lines))
           S == Everywhere(R \cup {u})
<1>1. S[f] = R \cup {u} /\ T[f] = IF Done(lines, Len(lines), f) THEN R \cup {u} ELSE R
  BY DEF Everywhere, Reading
<1>2. CASE Done(lines, Len(lines), f)
  BY <1>1, <1>2 DEF Executing
<1>3. CASE ~Done(lines, Len(lines), f)
  <2>1. DOMAIN lines = 1..Len(lines)
    <3>1. lines \in Seq(ToSet(lines))
      BY DEF RightFile
    <3> QED  BY <3>1
  <2>2. ~Has(lines, "C", f)
    BY <1>3, <2>1 DEF Has, Done
  <2>3. ~Exec(u, f, 0)
    BY <2>2 DEF WholeFile
  <2>4. ~Exec(u, f, b)
    BY <2>3, EntryFirst
  <2> QED  BY <1>1, <1>3, <2>4 DEF Executing
<1> QED  BY <1>2, <1>3

(* A file is counted: at most once, and for every function if it is whole. *)
LEMMA FileCounted ==
  ASSUME FlowType, NEW R \in SUBSET Files, NEW u \in Files, u \notin R, NEW lines, RightFile(lines, u),
         NEW cov, Counted(cov, Everywhere(R)),
         NEW whole \in BOOLEAN, whole => WholeFile(lines, u) /\ CountedAll(cov, Everywhere(R)),
         NEW new, new = AppendCoverage(cov, lines)
  PROVE  /\ Counted(new, Everywhere(R \cup {u}))
         /\ new = cov \/ DOMAIN new # {}
         /\ whole => CountedAll(new, Everywhere(R \cup {u}))
<1> DEFINE n == Len(lines)
           S == Everywhere(R \cup {u})
           T(k) == Reading(R, u, lines, k)
<1>1. n \in Nat /\ DOMAIN lines = 1..n
  <2>1. lines \in Seq(ToSet(lines))
    BY DEF RightFile
  <2> QED  BY <2>1
<1>2. PICK g : LinesRead(cov, lines, n, g) /\ new = g[n].cov
  BY <1>1, AppendCoverageIs
<1>3. g[0] = First(cov) /\ \A k \in 1..n : g[k] = ReadLine(g[k - 1], lines[k])
  BY <1>1, <1>2 DEF LinesRead
<1> DEFINE Wrong == {k \in 0..n : ~LineState(g[k], cov, T(k), whole)}
<1>4. 0 \notin Wrong
  <2>1. T(0) = Everywhere(R)
    BY DEF Reading, Done, Everywhere
  <2>2. DOMAIN g[0] = {"cov", "ok"} /\ g[0].cov = cov /\ g[0].ok
    BY <1>3 DEF First
  <2> HIDE DEF T
  <2>3. LineState(g[0], cov, T(0), whole)
    BY <2>1, <2>2 DEF LineState
  <2> QED  BY <2>3
<1>5. ASSUME NEW k \in Wrong PROVE k - 1 \in Wrong
  <2>1. k # 0 /\ k \in 0..n
    BY <1>4
  <2>2. k \in DOMAIN lines /\ k - 1 \in 0..n /\ g[k] = ReadLine(g[k - 1], lines[k])
    BY <1>1, <1>3, <2>1
  <2> SUFFICES ASSUME LineState(g[k - 1], cov, T(k - 1), whole) PROVE LineState(g[k], cov, T(k), whole)
    BY <2>2
  <2> DEFINE l == lines[k]
             A == T(k - 1)
             B == T(k)
  <2>3. TakesLine(u, l, A, B)
    BY <2>2, ReadingIs
  <2>4. FRight(l, u) \/ CRight(l, u)
    BY <2>2 DEF RightFile
  <2>5. whole /\ l[1] = "C" => CWhole(l, u)
    BY <2>2 DEF WholeFile
  <2> HIDE DEF A, B, l
  <2>6. LineState(ReadLine(g[k - 1], l), cov, B, whole)
    <3>1. LineState(g[k - 1], cov, A, whole)
      BY DEF A
    <3> QED  BY <2>3, <2>4, <2>5, <3>1, LineStep
  <2> QED  BY <2>2, <2>6 DEF B, l
<1>6. LineState(g[n], cov, T(n), whole)
  <2>1. Wrong = {}
    <3> HIDE DEF Wrong
    <3>1. Wrong \in SUBSET (0..n)
      BY DEF Wrong
    <3> QED  BY <1>1, <1>4, <1>5, <3>1, NoneFirst
  <2> QED  BY <1>1, <2>1
<1>7. Counted(new, T(n)) /\ (new = cov \/ DOMAIN new # {}) /\ (whole => CountedAll(new, T(n)))
  BY <1>2, <1>6 DEF LineState
<1>8. T(n) \in Tables /\ S \in Tables /\ \A f \in Functions : T(n)[f] \subseteq S[f]
  <2>1. T(n) \in Tables /\ \A f \in Functions : T(n)[f] \subseteq R \cup {u}
    BY DEF Reading, Tables
  <2> QED  BY <2>1, EverywhereIs
<1>9. Counted(new, S)
  BY <1>7, <1>8, CountedMore
<1>10. ASSUME whole PROVE CountedAll(new, S)
  <2>1. CountedAll(new, T(n))
    BY <1>7, <1>10
  <2>2. \A f \in Functions : \A b : Executing(T(n), f, b) = Executing(S, f, b)
    BY <1>10, ReadingAll
  <2>3. DOMAIN new \subseteq Functions
    BY <1>9 DEF Counted, CountersOf
  <2> HIDE DEF S, T
  <2>4. ASSUME NEW f \in DOMAIN new PROVE ExactOf(new, S, f)
    BY <2>1, <2>2, <2>3, <2>4 DEF CountedAll, ExactOf
  <2>5. ASSUME NEW f \in Functions \ DOMAIN new PROVE Executing(S, f, 0) = {}
    BY <2>1, <2>2, <2>5 DEF CountedAll
  <2> QED  BY <2>4, <2>5 DEF CountedAll
<1> QED  BY <1>7, <1>9, <1>10

(* What the invariant of the counters says of the step's second state.     *)
CovThen(cov, R, p, k, f) ==
  /\ p \in {"collect", "run"} => cov = <<>>
  /\ cov = <<>> \/ DOMAIN cov # {}
  /\ Counted(cov, Everywhere(R))
  /\ k = 0 => \A g \in DOMAIN cov : ExactOf(cov, Everywhere(R), g)
  /\ k = 0 /\ p = "coverage" => CountedAll(cov, Everywhere(R))
  /\ p = "traces" /\ cov # <<>> => f \in DOMAIN cov

(* The invariant of the counters in its variables.                         *)
LEMMA CovIs ==
  CovInv <=> CovThen(coverage, IF pc = "coverage" THEN Corpus \ unread ELSE Corpus, pc, killed, focus)
BY DEF CovInv, CovThen

(* The program decides which counters are right, and it does not change.   *)
LEMMA CovNext ==
  ASSUME program' = program, NEW R, R = (IF pc = "coverage" THEN Corpus \ unread ELSE Corpus)',
         CovThen(coverage', R, pc', killed', focus')
  PROVE  CovInv'
<1> DEFINE cov == coverage'
           T == Everywhere(R)
<1>1. T = Everywhere(IF pc = "coverage" THEN Corpus \ unread ELSE Corpus)'
  BY DEF Everywhere
<1>2. Counted(cov, T) = Counted(coverage, Everywhere(IF pc = "coverage" THEN Corpus \ unread ELSE Corpus))'
  <2> HIDE DEF T
  <2> QED  BY <1>1 DEF Counted, CountersOf, Executing, Exec, BlocksOf, Events
<1>3. CountedAll(cov, T) = CountedAll(coverage, Everywhere(IF pc = "coverage" THEN Corpus \ unread ELSE Corpus))'
  <2> HIDE DEF T
  <2> QED  BY <1>1 DEF CountedAll, ExactOf, Executing, Exec, BlocksOf, Events
<1>4. (\A f \in DOMAIN cov : ExactOf(cov, T, f)) = (\A f \in DOMAIN coverage : ExactOf(coverage, Everywhere(IF pc = "coverage" THEN Corpus \ unread ELSE Corpus), f))'
  <2> HIDE DEF T
  <2> QED  BY <1>1 DEF ExactOf, Executing, Exec, BlocksOf, Events
<1> QED  BY <1>2, <1>3, <1>4 DEF CovThen, CovInv

(* No counters are right for no files.                                     *)
LEMMA NothingCounted ==
  CovThen(<<>>, {}, "coverage", 0, 0)
<1>1. DOMAIN <<>> = {}
  OBVIOUS
<1>2. \A f \in Functions : Executing(Everywhere({}), f, 0) = {}
  BY DEF Executing, Everywhere
<1> QED  BY <1>1, <1>2 DEF CovThen, Counted, CountedAll

(* Exactly the functions that are counted have a weight.                   *)
LEMMA WeightIs ==
  ASSUME FlowType, NEW S, Counted(coverage, S), NEW f
  PROVE  Weight(f)[1] > 0 <=> f \in DOMAIN coverage
<1>1. CASE f \notin DOMAIN coverage
  BY <1>1 DEF Weight
<1>2. CASE f \in DOMAIN coverage
  <2> DEFINE c == coverage[f]
             n == NumberOfUncoveredBlocks(c)
             w == IF f \in withDFT THEN 1000 ELSE 1
  <2>1. n \in Nat
    <3>1. f \in Functions /\ Blocks[f] \in Nat
      BY <1>2, NumFuncsIs DEF Counted, CountersOf
    <3>2. PICK m \in 1..Blocks[f] : DOMAIN c = 0..m - 1
      BY <1>2 DEF Counted, CountersOf
    <3>3. IsFiniteSet(0..m - 1)
      BY <3>1, FS_Interval
    <3> DEFINE A == {b \in DOMAIN c : c[b] = 0}
    <3>4. IsFiniteSet(A)
      <4>1. A \in SUBSET (0..m - 1)
        BY <3>2
      <4> HIDE DEF A
      <4> QED  BY <3>3, <4>1, FS_Subset
    <3> HIDE DEF A
    <3>5. Cardinality(A) \in Nat
      BY <3>4, FS_CardinalityType
    <3> QED  BY <3>5 DEF A, NumberOfUncoveredBlocks
  <2>2. Weight(f)[1] = w * (n + 1)
    BY <1>2 DEF Weight
  <2>3. w \in {1, 1000}
    OBVIOUS
  <2> HIDE DEF n, w
  <2>4. w * (n + 1) > 0
    BY <2>1, <2>3
  <2> QED  BY <1>2, <2>2, <2>4
<1> QED  BY <1>1, <1>2

(* Before fuzzing nothing is counted.                                      *)
LEMMA NoCoverage ==
  ASSUME NEW R, NEW p, p # "coverage", NEW k, NEW f
  PROVE  CovThen(<<>>, R, p, k, f)
<1>1. DOMAIN <<>> = {}
  OBVIOUS
<1> QED  BY <1>1 DEF CovThen, Counted

(* A file more is read.                                                    *)
LEMMA CoverageRead ==
  ASSUME FlowType, DirInv, CovInv, ReadCoverage
  PROVE  CovInv'
<1> DEFINE R == Corpus \ unread
           whole == killed = 0
           new == coverage'
<1>1. /\ pc = "coverage" /\ pc' = pc /\ program' = program /\ killed' = killed /\ dir' = dir /\ corpus' = corpus
      /\ focus' = focus
  BY DEF ReadCoverage, collectVars
<1>2. PICK u \in unread : unread' = unread \ {u} /\ new = AppendCoverage(coverage, dir[u])
  BY DEF ReadCoverage
<1>3. R \in SUBSET Files /\ u \in Files /\ u \notin R /\ u \in DOMAIN dir /\ (Corpus \ unread)' = R \cup {u}
  BY <1>1, <1>2 DEF FlowType, Corpus
<1>4. /\ Counted(coverage, Everywhere(R)) /\ (coverage = <<>> \/ DOMAIN coverage # {})
      /\ whole => CountedAll(coverage, Everywhere(R))
  BY <1>1 DEF CovInv
<1>5. RightFile(dir[u], u) /\ (whole => WholeFile(dir[u], u))
  BY <1>3 DEF DirInv
<1> DEFINE lines == dir[u]
<1> HIDE DEF R, whole, new, lines
<1>6. /\ Counted(new, Everywhere(R \cup {u}))
      /\ new = coverage \/ DOMAIN new # {}
      /\ whole => CountedAll(new, Everywhere(R \cup {u}))
  <2>1. whole \in BOOLEAN
    BY DEF whole
  <2>2. new = AppendCoverage(coverage, lines) /\ RightFile(lines, u) /\ (whole => WholeFile(lines, u))
    BY <1>2, <1>5 DEF lines
  <2> QED  BY <1>3, <1>4, <2>1, <2>2, FileCounted
<1>7. CovThen(new, R \cup {u}, pc', killed', focus')
  <2>1. whole => \A g \in DOMAIN new : ExactOf(new, Everywhere(R \cup {u}), g)
    BY <1>6 DEF CountedAll
  <2> QED  BY <1>1, <1>4, <1>6, <2>1 DEF CovThen, whole
<1> QED  BY <1>1, <1>3, <1>7, CovNext DEF R, new

(* The focus is one of the functions that are counted.                     *)
LEMMA FocusChosen ==
  ASSUME FlowType, CovInv, ChooseFocus
  PROVE  CovInv'
<1> DEFINE S == Everywhere(Corpus)
<1>1. /\ pc = "coverage" /\ unread = {} /\ program' = program /\ killed' = killed /\ Corpus' = Corpus
      /\ coverage' = coverage /\ pc' \in {"traces", "abort"}
  BY DEF ChooseFocus, collectVars, Corpus
<1>2. /\ Counted(coverage, S) /\ (coverage = <<>> \/ DOMAIN coverage # {})
      /\ killed = 0 => \A g \in DOMAIN coverage : ExactOf(coverage, S, g)
  <2>1. Corpus \ unread = Corpus
    BY <1>1
  <2> QED  BY <1>1, <2>1 DEF CovInv
<1> DEFINE weighted == {f \in Functions : Weight(f)[1] > 0}
<1>3. weighted = DOMAIN coverage
  <2>1. \A f \in Functions : Weight(f)[1] > 0 <=> f \in DOMAIN coverage
    BY <1>2, WeightIs
  <2>2. DOMAIN coverage \subseteq Functions
    BY <1>2 DEF Counted, CountersOf
  <2> QED  BY <2>1, <2>2
<1>4. pc' = "traces" /\ coverage # <<>> => focus' \in DOMAIN coverage
  <2>1. weighted # {} => focus' \in weighted
    BY DEF ChooseFocus
  <2> QED  BY <1>2, <1>3, <2>1
<1>5. CovThen(coverage', Corpus, pc', killed', focus')
  <2> HIDE DEF S
  <2>1. CovThen(coverage, Corpus, pc', killed', focus')
    BY <1>1, <1>2, <1>4 DEF CovThen, S
  <2> QED  BY <1>1, <2>1
<1>6. Corpus = (IF pc = "coverage" THEN Corpus \ unread ELSE Corpus)'
  BY <1>1
<1> QED  BY <1>1, <1>5, <1>6, CovNext

(* Every step keeps the invariant of the counters.                         *)
LEMMA CovStep ==
  ASSUME FlowType, DirInv, CovInv, [FlowNext]_flowVars
  PROVE  CovInv'
<1> DEFINE R == IF pc = "coverage" THEN Corpus \ unread ELSE Corpus
<1>0. program' = program
  BY DEF FlowNext, NextFile, Iterate, WriteTrace, KillInstrumented, StartFuzzing, ReadCoverage,
     ChooseFocus, ReadTrace, ReadAll, FlowEnded, flowVars
<1>1. CASE coverage' = <<>> /\ pc' # "coverage"
  <2>1. CovThen(coverage', R', pc', killed', focus')
    BY <1>1, NoCoverage
  <2> QED  BY <1>0, <2>1, CovNext
<1>2. CASE NextFile \/ Iterate \/ WriteTrace \/ KillInstrumented
  <2>1. coverage' = coverage /\ pc \in {"collect", "run"} /\ pc' # "coverage"
    BY <1>2 DEF NextFile, Iterate, WriteTrace, KillInstrumented, fuzzVars
  <2>2. coverage = <<>>
    BY <2>1 DEF CovInv
  <2> QED  BY <1>1, <2>1, <2>2
<1>3. CASE StartFuzzing
  <2>1. coverage' = coverage /\ coverage = <<>> /\ unread' = Corpus' /\ pc' \in {"coverage", "traces"}
    BY <1>3 DEF StartFuzzing, CovInv, Corpus, collectVars
  <2>2. CASE pc' = "coverage"
    <3>1. R' = {}
      BY <2>1, <2>2
    <3>2. CovThen(coverage', {}, pc', killed', focus')
      BY <2>1, <2>2, NothingCounted DEF CovThen
    <3> QED  BY <1>0, <3>1, <3>2, CovNext
  <2>3. CASE pc' # "coverage"
    BY <1>1, <2>1, <2>3
  <2> QED  BY <2>2, <2>3
<1>4. CASE ReadCoverage
  BY <1>4, CoverageRead
<1>5. CASE ChooseFocus
  BY <1>5, FocusChosen
<1>6. CASE ReadTrace \/ ReadAll \/ UNCHANGED flowVars
  <2>1. /\ coverage' = coverage /\ killed' = killed /\ focus' = focus /\ R' = R
        /\ pc' = pc \/ (pc = "traces" /\ pc' \in {"done", "abort"})
    BY <1>6 DEF ReadTrace, ReadAll, flowVars, collectVars, fuzzVars, Corpus
  <2> HIDE DEF R
  <2>2. CovThen(coverage, R, pc, killed, focus)
    BY CovIs DEF R
  <2>3. CovThen(coverage', R', pc', killed', focus')
    BY <2>1, <2>2 DEF CovThen
  <2> QED  BY <1>0, <2>3, CovNext DEF R
<1> QED  BY <1>2, <1>3, <1>4, <1>5, <1>6 DEF FlowNext, FlowEnded
-----------------------------------------------------------------------------
(* Data flow traces: the traces that it reads.                             *)

(* What the invariant of the traces says, file by file.                    *)
TraceOf(tr, u, f) == IsPrefix(tr[u], ExactBits(u, f))
TracesThen(tr, C, R, p, k, f) ==
  /\ p \in {"collect", "run", "coverage"} => tr = <<>>
  /\ p = "done" => R = {}
  /\ p \in {"traces", "done"} =>
       /\ \A u \in DOMAIN tr : u \in C /\ TraceOf(tr, u, f)
       /\ k = 0 =>
            /\ DOMAIN tr = {u \in C \ R : Flow(u, f) # {}}
            /\ \A u \in DOMAIN tr : tr[u] = ExactBits(u, f)

(* The invariant of the traces in its variables.                           *)
LEMMA TracesAre ==
  TraceInv <=> TracesThen(traces, Corpus, unread, pc, killed, focus)
BY DEF TraceInv, TracesThen, TraceOf

(* The program decides which traces are right, and it does not change.     *)
LEMMA TracesNext ==
  ASSUME program' = program, NEW f, f = focus',
         TracesThen(traces', Corpus', unread', pc', killed', f)
  PROVE  TraceInv'
<1>1. \A u : Flow(u, f) = Flow(u, focus)'
  BY DEF Flow, CurrentFunc, Events
<1>2. \A u : ExactBits(u, f) = ExactBits(u, focus)'
  BY <1>1 DEF ExactBits
<1> QED  BY <1>1, <1>2 DEF TracesThen, TraceInv, TraceOf

(* What a file has for the focus function.                                 *)
OfFocus(x) == {l \in ToSet(x) : l[1] = "F" /\ l[2] = focus /\ l[3] # <<>>}

(* The first line of the focus function is right; a whole file has one     *)
(* exactly if bytes flow to it.                                            *)
LEMMA FirstOfFocus ==
  ASSUME NEW u \in Files, NEW x, RightFile(x, u), NEW o, o = Only(x, OfFocus(x))
  PROVE  /\ o # <<>> => IsPrefix(o[1][3], ExactBits(u, focus)) /\ Flow(u, focus) # {}
         /\ o # <<>> /\ WholeFile(x, u) => o[1][3] = ExactBits(u, focus)
         /\ o = <<>> /\ WholeFile(x, u) /\ focus \in Functions => Flow(u, focus) = {}
<1> DEFINE U == ToSet(x)
           e == ExactBits(u, focus)
<1>1. x \in Seq(U)
  BY DEF RightFile
<1>2. o \in Seq(U) /\ Elements(o, x, OfFocus(x))
  <2> HIDE DEF U
  <2> QED  BY <1>1, OnlyElements
<1>3. e \in Seq(BOOLEAN) /\ Len(e) = Lengths[u] /\ Lengths[u] \in Nat \ {0}
  BY ExactAre
<1>4. ASSUME o # <<>>
      PROVE  IsPrefix(o[1][3], e) /\ Flow(u, focus) # {} /\ (WholeFile(x, u) => o[1][3] = e)
  <2> DEFINE l == o[1]
  <2>1. 1 \in DOMAIN o
    <3> HIDE DEF U
    <3> QED  BY <1>2, <1>4
  <2>2. l \in OfFocus(x) /\ \E i \in DOMAIN x : x[i] = l
    BY <1>2, <2>1 DEF Elements
  <2>3. PICK i \in DOMAIN x : x[i] = l
    BY <2>2
  <2>4. l[1] = "F" /\ l[2] = focus
    BY <2>2 DEF OfFocus
  <2>5. FRight(l, u)
    <3>1. FRight(l, u) \/ CRight(l, u)
      BY <2>3 DEF RightFile
    <3>2. l[1] # "C"
      BY <2>4
    <3> QED  BY <3>1, <3>2 DEF CRight
  <2> HIDE DEF e, l
  <2>6. PICK n \in 0..Lengths[u] : l[3] = SubSeq(e, 1, n)
    BY <2>4, <2>5 DEF FRight, e
  <2>7. IsPrefix(l[3], e)
    <3> DEFINE t == SubSeq(e, 1, n)
    <3>1. t \in Seq(BOOLEAN) /\ Len(t) = n /\ SubSeq(t, 1, n) = t
      <4>1. t \in Seq(BOOLEAN) /\ Len(t) = n
        BY <1>3, BitsAre
      <4> HIDE DEF t
      <4> QED  BY <4>1, BitsAre
    <3> HIDE DEF t
    <3>2. IsPrefix(t, e)
      <4>1. n <= Len(e)
        BY <1>3
      <4> QED  BY <3>1, <4>1 DEF IsPrefix, t
    <3> QED  BY <2>6, <3>2 DEF t
  <2>8. WholeFile(x, u) => l[3] = e
    BY <2>3, <2>4 DEF WholeFile, FWhole, e
  <2> QED  BY <2>4, <2>5, <2>7, <2>8 DEF FRight, l
<1>5. ASSUME o = <<>>, WholeFile(x, u), focus \in Functions, Flow(u, focus) # {} PROVE FALSE
  <2>1. Has(x, "F", focus)
    BY <1>5 DEF WholeFile
  <2>2. PICK i \in DOMAIN x : x[i][1] = "F" /\ x[i][2] = focus
    BY <2>1 DEF Has
  <2>3. x[i][3] = e
    BY <1>5, <2>2 DEF WholeFile, FWhole
  <2>4. e # <<>>
    <3>1. Len(<<>>) = 0
      OBVIOUS
    <3> HIDE DEF e
    <3> QED  BY <1>3, <3>1
  <2>5. x[i] \in U
    <3>1. DOMAIN x = 1..Len(x)
      <4> HIDE DEF U
      <4> QED  BY <1>1
    <3> QED  BY <3>1 DEF ToSet
  <2>6. x[i] \in OfFocus(x)
    BY <2>2, <2>3, <2>4, <2>5 DEF OfFocus
  <2>7. \E j \in DOMAIN o : o[j] = x[i]
    BY <1>2, <2>6 DEF Elements
  <2>8. DOMAIN <<>> = {}
    OBVIOUS
  <2> QED  BY <1>5, <2>7, <2>8
<1> QED  BY <1>4, <1>5

(* The trace of a file more is read.                                       *)
LEMMA TraceRead ==
  ASSUME FlowType, DirInv, TraceInv, ReadTrace
  PROVE  TraceInv'
<1>1. /\ pc = "traces" /\ program' = program /\ killed' = killed /\ Corpus' = Corpus /\ focus' = focus
      /\ focus \in Functions
  BY DEF ReadTrace, collectVars, FlowType, Corpus
<1>2. CASE pc' = "abort"
  BY <1>2 DEF TraceInv
<1>3. CASE pc' # "abort"
  <2>1. PICK u \in unread :
          /\ unread' = unread \ {u} /\ pc' = pc
          /\ \/ Only(dir[u], OfFocus(dir[u])) # <<>> /\ traces' = Put(traces, u, Only(dir[u], OfFocus(dir[u]))[1][3])
             \/ Only(dir[u], OfFocus(dir[u])) = <<>> /\ traces' = traces
    BY <1>3 DEF ReadTrace, OfFocus
  <2> DEFINE x == dir[u]
             o == Only(x, OfFocus(x))
             s == o[1][3]
  <2>2. u \in Files /\ u \in Corpus /\ RightFile(x, u) /\ (killed = 0 => WholeFile(x, u))
    BY DEF FlowType, Corpus, DirInv
  <2>3. /\ o # <<>> => IsPrefix(s, ExactBits(u, focus)) /\ Flow(u, focus) # {}
        /\ o # <<>> /\ killed = 0 => s = ExactBits(u, focus)
        /\ o = <<>> /\ killed = 0 => Flow(u, focus) = {}
    <3> HIDE DEF x
    <3> QED  BY <1>1, <2>2, FirstOfFocus
  <2>4. (o # <<>> /\ traces' = Put(traces, u, s)) \/ (o = <<>> /\ traces' = traces)
    BY <2>1
  <2>5. TracesThen(traces, Corpus, unread, pc, killed, focus)
    BY TracesAre
  <2> HIDE DEF x, o, s
  <2>6. TracesThen(traces', Corpus, unread \ {u}, pc, killed, focus)
    <3>1. CASE o = <<>> /\ traces' = traces
      BY <1>1, <2>2, <2>3, <2>5, <3>1 DEF TracesThen, TraceOf
    <3>2. CASE o # <<>> /\ traces' = Put(traces, u, s)
      <4>1. /\ DOMAIN traces' = DOMAIN traces \cup {u} /\ traces'[u] = s
            /\ \A v \in DOMAIN traces : v # u => traces'[v] = traces[v]
        BY <3>2 DEF Put
      <4>2. \A v \in DOMAIN traces' : v \in Corpus /\ TraceOf(traces', v, focus)
        BY <1>1, <2>2, <2>3, <2>5, <3>2, <4>1 DEF TracesThen, TraceOf
      <4>3. killed = 0 => \A v \in DOMAIN traces' : traces'[v] = ExactBits(v, focus)
        BY <1>1, <2>3, <2>5, <3>2, <4>1 DEF TracesThen
      <4>4. killed = 0 => DOMAIN traces' = {v \in Corpus \ (unread \ {u}) : Flow(v, focus) # {}}
        BY <1>1, <2>2, <2>3, <2>5, <3>2, <4>1 DEF TracesThen
      <4> QED  BY <1>1, <4>2, <4>3, <4>4 DEF TracesThen
    <3> QED  BY <2>4, <3>1, <3>2
  <2> QED  BY <1>1, <2>1, <2>6, TracesNext
<1> QED  BY <1>2, <1>3

(* Every step keeps the invariant of the traces.                           *)
LEMMA TraceStep ==
  ASSUME FlowType, DirInv, TraceInv, [FlowNext]_flowVars
  PROVE  TraceInv'
<1>0. program' = program
  BY DEF FlowNext, NextFile, Iterate, WriteTrace, KillInstrumented, StartFuzzing, ReadCoverage,
     ChooseFocus, ReadTrace, ReadAll, FlowEnded, flowVars
<1>1. DOMAIN <<>> = {}
  OBVIOUS
<1>2. CASE NextFile \/ Iterate \/ WriteTrace \/ KillInstrumented \/ ReadCoverage
  <2>1. traces' = traces /\ pc \in {"collect", "run", "coverage"} /\ pc' \in {"collect", "run", "coverage"}
    BY <1>2 DEF NextFile, Iterate, WriteTrace, KillInstrumented, ReadCoverage, fuzzVars
  <2> QED  BY <2>1 DEF TraceInv
<1>3. CASE StartFuzzing \/ ChooseFocus
  <2>1. traces' = traces /\ traces = <<>> /\ unread' = Corpus' /\ pc' \in {"coverage", "traces", "abort"}
    BY <1>3 DEF StartFuzzing, ChooseFocus, TraceInv, Corpus, collectVars
  <2>2. TracesThen(traces', Corpus', unread', pc', killed', focus')
    BY <1>1, <2>1 DEF TracesThen
  <2> QED  BY <1>0, <2>2, TracesNext
<1>4. CASE ReadTrace
  BY <1>4, TraceRead
<1>5. CASE ReadAll \/ UNCHANGED flowVars
  <2>1. /\ traces' = traces /\ killed' = killed /\ focus' = focus /\ Corpus' = Corpus /\ unread' = unread
        /\ pc' = pc \/ (pc = "traces" /\ pc' = "done" /\ unread = {})
    BY <1>5 DEF ReadAll, flowVars, collectVars, fuzzVars, Corpus
  <2>2. TracesThen(traces, Corpus, unread, pc, killed, focus)
    BY TracesAre
  <2>3. TracesThen(traces', Corpus', unread', pc', killed', focus')
    BY <2>1, <2>2 DEF TracesThen
  <2> QED  BY <1>0, <2>3, TracesNext
<1> QED  BY <1>2, <1>3, <1>4, <1>5 DEF FlowNext, FlowEnded

(* Initially nothing is written, counted or traced.                        *)
LEMMA FlowInvInit == FlowInit => FlowInv
<1> SUFFICES ASSUME FlowInit PROVE FlowInv
  OBVIOUS
<1>1. DOMAIN <<>> = {}
  OBVIOUS
<1>2. FlowType
  BY TypeInit
<1>3. RunInv
  BY DEF RunInv, FlowInit
<1>4. DirInv
  BY <1>1 DEF DirInv, FlowInit
<1>5. CovInv
  BY <1>1 DEF CovInv, FlowInit, Counted
<1>6. TraceInv
  BY DEF TraceInv, FlowInit
<1> QED  BY <1>2, <1>3, <1>4, <1>5, <1>6 DEF FlowInv

(* Every step keeps the invariant.                                         *)
LEMMA FlowInvStep == FlowInv /\ [FlowNext]_flowVars => FlowInv'
BY FlowTypeStep, RunStep, DirStep, CovStep, TraceStep DEF FlowInv

(* The instrumented process labels the bytes of its unit, the files say    *)
(* what their units do, the counters what the files that were read say,    *)
(* and the traces what the files say of the focus: the inductive invariant *)
(* of the data flow traces.                                                *)
THEOREM FlowConsistent == FlowSpec => []FlowInv
<1>1. FlowInit => FlowInv
  BY FlowInvInit
<1>2. FlowInv /\ [FlowNext]_flowVars => FlowInv'
  BY FlowInvStep
<1> QED  BY <1>1, <1>2, PTL DEF FlowSpec

(* However long the units, whatever the number of labels and whichever     *)
(* processes were killed: the traces that a process fuzzes by are the      *)
(* bytes that the focus function compares, or a part of them; if none was  *)
(* killed they are exactly these, for exactly the units that have any.     *)
THEOREM FlowTraces == FlowSpec => []TracesExact
<1>1. ASSUME FlowInv PROVE TracesExact
  <2> SUFFICES ASSUME pc = "done" PROVE TracesExact
    BY DEF TracesExact
  <2>1. \A u : Exact(u) = ExactBits(u, focus)
    BY DEF Exact, ExactBits
  <2>2. Corpus \ unread = DOMAIN dir \cap corpus
    BY <1>1 DEF FlowInv, TraceInv, Corpus
  <2> QED  BY <1>1, <2>1, <2>2 DEF FlowInv, TraceInv, TracesExact
<1> QED  BY <1>1, FlowConsistent, PTL

(* A counter of a basic block is the number of files that execute it, and  *)
(* never more than that if processes were killed.                          *)
THEOREM FlowCounters == FlowSpec => []CountersRight
<1>1. ASSUME FlowInv PROVE CountersRight
  <2> SUFFICES ASSUME pc = "traces", NEW f \in DOMAIN coverage, NEW b \in DOMAIN coverage[f]
               PROVE  LET n == Cardinality({u \in DOMAIN dir \cap corpus : <<"block", f, b>> \in BlocksOf(u)})
                      IN IF killed = 0 THEN coverage[f][b] = n ELSE coverage[f][b] <= n
    BY DEF CountersRight
  <2> DEFINE S == Everywhere(Corpus)
             A == {u \in DOMAIN dir \cap corpus : <<"block", f, b>> \in BlocksOf(u)}
  <2>1. CountersOf(coverage, S, f) /\ (killed = 0 => ExactOf(coverage, S, f))
    BY <1>1 DEF FlowInv, CovInv, Counted
  <2>2. Executing(S, f, b) = A
    <3>1. f \in Functions
      BY <2>1 DEF CountersOf
    <3> QED  BY <3>1 DEF Executing, Everywhere, Exec, Corpus
  <2> HIDE DEF A, S
  <2>3. IF killed = 0 THEN coverage[f][b] = Cardinality(A) ELSE coverage[f][b] <= Cardinality(A)
    BY <2>1, <2>2 DEF CountersOf, ExactOf
  <2> QED  BY <2>3 DEF A
<1> QED  BY <1>1, FlowConsistent, PTL

(* The focus function that was chosen by the counters is executed by a     *)
(* unit of the corpus.                                                     *)
THEOREM FlowFocus == FlowSpec => []FocusExecuted
<1>1. ASSUME FlowInv PROVE FocusExecuted
  <2> SUFFICES ASSUME pc = "traces", coverage # <<>>
               PROVE  \E u \in corpus : <<"block", focus, 0>> \in BlocksOf(u)
    BY DEF FocusExecuted
  <2> DEFINE S == Everywhere(Corpus)
  <2>1. focus \in DOMAIN coverage /\ Counted(coverage, S)
    BY <1>1 DEF FlowInv, CovInv
  <2>2. focus \in Functions /\ Executing(S, focus, 0) # {}
    BY <2>1 DEF Counted, CountersOf
  <2> QED  BY <2>2 DEF Executing, Everywhere, Exec, Corpus
<1> QED  BY <1>1, FlowConsistent, PTL
=============================================================================
