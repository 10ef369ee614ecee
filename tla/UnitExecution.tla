---------------------------- MODULE UnitExecution ----------------------------
(***************************************************************************)
(* How a process runs one unit after the other and reports what goes wrong *)
(* (FuzzerLoop.cpp).  The fuzzing thread copies a unit to CurrentUnitData, *)
(* or mutates it there, and calls the target.  Meanwhile                   *)
(*   - the target may crash, exit, hang, allocate too much, overwrite its  *)
(*     input or leak, in the fuzzing thread or in a thread of its own;     *)
(*   - SIGALRM interrupts the fuzzing thread every UnitTimeoutSec / 2 + 1  *)
(*     seconds;                                                            *)
(*   - RssThread looks at the peak of memory every second.                 *)
(* Each of these dumps the current unit to a file and ends the process;    *)
(* none of them takes a lock.  Time passes in half seconds, as the code    *)
(* compares whole ones.                                                    *)
(***************************************************************************)
EXTENDS Integers

CONSTANTS
  Units,          \* units that are executed
  NoUnit,         \* a unit of size 0
  Mixed,          \* bytes of different units
  UnitTimeoutSec  \* -timeout

ASSUME ExecutionAssumption ==
  /\ NoUnit \notin Units /\ Mixed \notin Units /\ NoUnit # Mixed
  /\ UnitTimeoutSec \in Nat \ {0}

VARIABLES
  sanitizer,  \* __sanitizer_acquire_crash_state is linked in
  acquired,   \* the crash state of the sanitizer has been acquired
  main,       \* the fuzzing thread: [pc, data, inPlace, again, report]
  cur,        \* CurrentUnitData, CurrentUnitSize, RunningUserCallback
  clock,      \* [elapsed, busy, timer, alarm], in half seconds
  leaky,      \* HasMoreMallocsThanFrees
  detect,     \* DetectLeaks
  peak,       \* the peak of memory is over the limit
  other,      \* the reports of RssThread and of a thread of the target
  artifacts,  \* files written by reports
  code        \* the exit code of the process

vars == <<sanitizer, acquired, main, cur, clock, leaky, detect, peak, other, artifacts, code>>

Timeout == 2 * UnitTimeoutSec
Period == 2 * ((UnitTimeoutSec \div 2) + 1)

Threads == {"rss", "target"}
Quiet == [pc |-> "off", kind |-> "none"]
Alive == code = "none"

Prefix(kind) ==
  CASE kind \in {"crash", "death", "exit", "overwrite"} -> "crash"
    [] kind \in {"malloc", "rss"} -> "oom"
    [] OTHER -> kind
CodeOf(kind) ==
  CASE kind = "timeout" -> "timeout"
    [] kind \in {"malloc", "rss"} -> "oom"
    [] OTHER -> "error"
-----------------------------------------------------------------------------
Init ==
  /\ sanitizer \in BOOLEAN /\ acquired = FALSE
  /\ main = [pc |-> "next", data |-> NoUnit, inPlace |-> FALSE, again |-> FALSE, report |-> "none"]
  /\ cur = [buffer |-> Mixed, size |-> NoUnit, running |-> FALSE]
  /\ clock = [elapsed |-> 0, busy |-> 0, timer |-> Period, alarm |-> FALSE]
  /\ leaky = FALSE /\ detect \in BOOLEAN /\ peak = FALSE
  /\ other = [t \in Threads |-> Quiet] /\ artifacts = {} /\ code = "none"

At(label) == Alive /\ main.pc = label

(* The base is copied to CurrentUnitData and mutated there.                *)
MutateInPlace ==
  /\ At("next")
  /\ main' = [main EXCEPT !.pc = "mutate"]
  /\ cur' = [cur EXCEPT !.buffer = Mixed]
  /\ UNCHANGED <<sanitizer, acquired, clock, leaky, detect, peak, other, artifacts, code>>

Mutated(u) ==
  /\ At("mutate")
  /\ main' = [main EXCEPT !.pc = "size", !.data = u, !.inPlace = TRUE]
  /\ cur' = [cur EXCEPT !.buffer = u]
  /\ clock' = [clock EXCEPT !.busy = 0]
  /\ UNCHANGED <<sanitizer, acquired, leaky, detect, peak, other, artifacts, code>>

(* ExecuteCallback for a unit that has a vector of its own: a seed, or a   *)
(* file of the output corpus.                                              *)
ReadUnit(u) ==
  /\ At("next")
  /\ main' = [main EXCEPT !.pc = "copy", !.data = u, !.inPlace = FALSE]
  /\ cur' = [cur EXCEPT !.buffer = Mixed]
  /\ clock' = [clock EXCEPT !.busy = 0]
  /\ UNCHANGED <<sanitizer, acquired, leaky, detect, peak, other, artifacts, code>>

Copied ==
  /\ At("copy")
  /\ main' = [main EXCEPT !.pc = "size"]
  /\ cur' = [cur EXCEPT !.buffer = main.data]
  /\ UNCHANGED <<sanitizer, acquired, clock, leaky, detect, peak, other, artifacts, code>>

(* The steps before the call; the time is taken before the target counts   *)
(* as running.                                                             *)
FollowingEarly(step) ==  \* mutant: RunningUserCallback is set before UnitStartTime
  CASE step = "size" -> "enter" [] step = "enter" -> "clock" [] step = "clock" -> "user"
Following(step) ==
  CASE step = "size" -> "clock" [] step = "clock" -> "enter" [] step = "enter" -> "user"

SetSize ==
  /\ At("size")
  /\ main' = [main EXCEPT !.pc = Following("size")]
  /\ cur' = [cur EXCEPT !.size = main.data]
  /\ UNCHANGED <<sanitizer, acquired, clock, leaky, detect, peak, other, artifacts, code>>

StartClock ==
  /\ At("clock")
  /\ main' = [main EXCEPT !.pc = Following("clock")]
  /\ clock' = [clock EXCEPT !.elapsed = 0]
  /\ UNCHANGED <<sanitizer, acquired, cur, leaky, detect, peak, other, artifacts, code>>

Enter ==
  /\ At("enter")
  /\ main' = [main EXCEPT !.pc = Following("enter")]
  /\ cur' = [cur EXCEPT !.running = TRUE]
  /\ UNCHANGED <<sanitizer, acquired, clock, leaky, detect, peak, other, artifacts, code>>

RunningAfter == FALSE

UserReturns ==
  /\ At("user")
  /\ main' = [main EXCEPT !.pc = "compare"]
  /\ cur' = [cur EXCEPT !.running = RunningAfter]
  /\ leaky' \in BOOLEAN
  /\ UNCHANGED <<sanitizer, acquired, clock, detect, peak, other, artifacts, code>>

(* The input was left alone.                                               *)
ClearSize ==
  /\ At("compare")
  /\ main' = [main EXCEPT !.pc = "after"]
  /\ cur' = [cur EXCEPT !.size = NoUnit]
  /\ UNCHANGED <<sanitizer, acquired, clock, leaky, detect, peak, other, artifacts, code>>
-----------------------------------------------------------------------------
(* TryDetectingAMemoryLeak: the unit is executed again ...                 *)
ExecuteAgain ==
  /\ At("after") /\ leaky /\ ~main.again /\ detect
  /\ main' = [main EXCEPT !.pc = IF main.inPlace THEN "size" ELSE "copy", !.again = TRUE]
  /\ cur' = [cur EXCEPT !.buffer = IF main.inPlace THEN @ ELSE Mixed]
  /\ clock' = [clock EXCEPT !.busy = 0]
  /\ UNCHANGED <<sanitizer, acquired, leaky, detect, peak, other, artifacts, code>>

(* ... and when it has more mallocs than frees again, a leak is looked for.*)
(* When that was in vain more than 1000 times (here: at any time) it is    *)
(* not done any more.  Otherwise the next unit follows; leaks may also be  *)
(* looked for never, or not in the last run.                               *)
NextUnit ==
  /\ At("after")
  /\ main' = [main EXCEPT !.pc = "next", !.data = NoUnit, !.inPlace = FALSE, !.again = FALSE]
  /\ \/ UNCHANGED detect
     \/ leaky /\ main.again /\ detect' = FALSE
  /\ leaky' = FALSE
  /\ UNCHANGED <<sanitizer, acquired, cur, clock, peak, other, artifacts, code>>

SizeForLeakKept == cur.size  \* mutant: CurrentUnitSize is not set again
SizeForLeak == main.data

FindLeak ==
  /\ At("after") /\ leaky /\ main.again
  /\ main' = [main EXCEPT !.pc = "dump", !.report = "leak"]
  /\ cur' = [cur EXCEPT !.size = SizeForLeak]
  /\ UNCHANGED <<sanitizer, acquired, clock, leaky, detect, peak, other, artifacts, code>>
-----------------------------------------------------------------------------
(* A callback that asks for the crash state is refused when another one    *)
(* has it; without a sanitizer all go on.                                  *)
MayReport == ~sanitizer \/ ~acquired
Acquire == MayReport /\ acquired' = sanitizer

Report(kind) == main' = [main EXCEPT !.pc = "dump", !.report = kind]

(* A deadly signal while the target runs, or because it returned neither 0 *)
(* nor -1.  (Refused, the handler returns and the signal is raised again.) *)
CrashCallback ==
  /\ At("user") \/ At("compare")
  /\ Acquire /\ Report("crash")
  /\ UNCHANGED <<sanitizer, cur, clock, leaky, detect, peak, other, artifacts, code>>

(* The sanitizer found an error, and exits with a code of its own that     *)
(* counts as "error"; or malloc is called with a size over the limit.      *)
(* These do not ask.                                                       *)
DeathCallback ==
  /\ At("user") /\ Report("death")
  /\ UNCHANGED <<sanitizer, acquired, cur, clock, leaky, detect, peak, other, artifacts, code>>

HandleMalloc ==
  /\ At("user") /\ Report("malloc")
  /\ UNCHANGED <<sanitizer, acquired, cur, clock, leaky, detect, peak, other, artifacts, code>>

CrashOnOverwrittenData ==
  /\ At("compare") /\ Report("overwrite")
  /\ UNCHANGED <<sanitizer, acquired, cur, clock, leaky, detect, peak, other, artifacts, code>>

(* The target calls exit(): a report, or, refused, its own exit code.      *)
ExitCallback ==
  /\ At("user") /\ cur.running
  /\ \/ Acquire /\ Report("exit") /\ UNCHANGED code
     \/ ~MayReport /\ code' = "target" /\ UNCHANGED <<main, acquired>>
  /\ UNCHANGED <<sanitizer, cur, clock, leaky, detect, peak, other, artifacts>>

(* SIGALRM is handled in the fuzzing thread (the main thread, to which the *)
(* kernel gives a signal of the process if it can), between any two of its *)
(* steps and also in another handler; the crash state is acquired only     *)
(* when the unit has timed out.                                            *)
TimedOut == cur.running /\ (clock.elapsed \div 2) >= UnitTimeoutSec
AcquireInAlarmFirst ==  \* mutant: it is acquired before the time is looked at
  IF cur.running /\ MayReport THEN acquired' = sanitizer ELSE UNCHANGED acquired
AcquireInAlarm ==
  IF TimedOut /\ MayReport THEN acquired' = sanitizer ELSE UNCHANGED acquired

AlarmCallback ==
  /\ Alive /\ clock.alarm
  /\ clock' = [clock EXCEPT !.alarm = FALSE]
  /\ AcquireInAlarm
  /\ IF TimedOut /\ MayReport THEN Report("timeout") ELSE UNCHANGED main
  /\ UNCHANGED <<sanitizer, cur, leaky, detect, peak, other, artifacts, code>>

(* DumpCurrentUnit, then _Exit.  Another thread reads size and data while  *)
(* they change: nothing is known of what it writes.                        *)
Written(kind, content, by) == {[prefix |-> Prefix(kind), content |-> content, by |-> by]}

CurrentUnit ==
  IF cur.size = NoUnit THEN NoUnit ELSE IF cur.buffer = cur.size THEN cur.size ELSE Mixed

Dump ==
  /\ At("dump")
  /\ main' = [main EXCEPT !.pc = "die"]
  /\ artifacts' = artifacts \cup Written(main.report, CurrentUnit, "main")
  /\ UNCHANGED <<sanitizer, acquired, cur, clock, leaky, detect, peak, other, code>>

Die ==
  /\ At("die")
  /\ code' = CodeOf(main.report)
  /\ UNCHANGED <<sanitizer, acquired, main, cur, clock, leaky, detect, peak, other, artifacts>>
-----------------------------------------------------------------------------
MemoryGrows ==
  /\ At("user") /\ ~peak
  /\ peak' = TRUE
  /\ UNCHANGED <<sanitizer, acquired, main, cur, clock, leaky, detect, other, artifacts, code>>

(* RssThread, once a second; refused, it tries again.                      *)
RssLimitCallback ==
  /\ Alive /\ peak /\ other["rss"].pc = "off"
  /\ Acquire
  /\ other' = [other EXCEPT !["rss"] = [pc |-> "dump", kind |-> "rss"]]
  /\ UNCHANGED <<sanitizer, main, cur, clock, leaky, detect, peak, artifacts, code>>

(* A thread of the target crashes, or calls malloc with a size over the    *)
(* limit, whether a unit is executed or not.                               *)
ThreadFails ==
  /\ Alive /\ other["target"].pc = "off"
  /\ \E kind \in {"crash", "malloc"} :
       /\ IF kind = "crash" THEN Acquire ELSE UNCHANGED acquired
       /\ other' = [other EXCEPT !["target"] = [pc |-> "dump", kind |-> kind]]
  /\ UNCHANGED <<sanitizer, main, cur, clock, leaky, detect, peak, artifacts, code>>

(* They dump and exit while the fuzzing thread goes on.                    *)
DumpOther(t) ==
  /\ Alive /\ other[t].pc = "dump"
  /\ other' = [other EXCEPT ![t].pc = "die"]
  /\ artifacts' = artifacts \cup Written(other[t].kind, Mixed, t)
  /\ UNCHANGED <<sanitizer, acquired, main, cur, clock, leaky, detect, peak, code>>

DieOther(t) ==
  /\ Alive /\ other[t].pc = "die"
  /\ code' = CodeOf(other[t].kind)
  /\ UNCHANGED <<sanitizer, acquired, main, cur, clock, leaky, detect, peak, other, artifacts>>
-----------------------------------------------------------------------------
(* Bounds: time that no property tells apart is not counted.               *)
Later(t, bound) == IF t < bound THEN t + 1 ELSE t

(* A signal is handled within half a second, and RunningUserCallback is    *)
(* set within half a second after the time was taken.                      *)
Tick ==
  /\ Alive /\ ~clock.alarm /\ main.pc # "enter"
  /\ clock' = [elapsed |-> Later(clock.elapsed, Timeout + Period), busy |-> Later(clock.busy, Timeout),
               timer |-> IF clock.timer = 1 THEN Period ELSE clock.timer - 1,
               alarm |-> clock.timer = 1]
  /\ UNCHANGED <<sanitizer, acquired, main, cur, leaky, detect, peak, other, artifacts, code>>

(* The loop ends between two units.                                        *)
LoopEnds ==
  /\ At("next") /\ code' = "ok"
  /\ UNCHANGED <<sanitizer, acquired, main, cur, clock, leaky, detect, peak, other, artifacts>>

Exited == ~Alive /\ UNCHANGED vars

Next ==
  \/ MutateInPlace \/ (\E u \in Units : Mutated(u) \/ ReadUnit(u)) \/ Copied
  \/ SetSize \/ StartClock \/ Enter \/ UserReturns \/ ClearSize
  \/ ExecuteAgain \/ NextUnit \/ FindLeak
  \/ CrashCallback \/ DeathCallback \/ HandleMalloc \/ CrashOnOverwrittenData
  \/ ExitCallback \/ AlarmCallback \/ Dump \/ Die
  \/ MemoryGrows \/ RssLimitCallback \/ ThreadFails
  \/ \E t \in Threads : DumpOther(t) \/ DieOther(t)
  \/ Tick \/ LoopEnds \/ Exited

Spec == Init /\ [][Next]_vars

(* Time passes, signals are delivered, and threads run; nothing is assumed *)
(* of the target.                                                          *)
Fairness ==
  /\ WF_vars(Tick) /\ WF_vars(AlarmCallback) /\ WF_vars(RssLimitCallback)
  /\ WF_vars(Dump) /\ WF_vars(Die)
  /\ \A t \in Threads : WF_vars(DumpOther(t) \/ DieOther(t))

FairSpec == Spec /\ Fairness
-----------------------------------------------------------------------------
Kinds == {"crash", "death", "exit", "overwrite", "malloc", "leak", "timeout"}

MainType ==
  [pc : {"next", "mutate", "copy", "size", "clock", "enter", "user", "compare", "after", "dump", "die"},
   data : Units \cup {NoUnit}, inPlace : BOOLEAN, again : BOOLEAN, report : Kinds \cup {"none"}]
CurType == [buffer : Units \cup {Mixed}, size : Units \cup {NoUnit}, running : BOOLEAN]
ClockType == [elapsed : 0..Timeout + Period, busy : 0..Timeout, timer : 1..Period, alarm : BOOLEAN]

(* Types; and RunningUserCallback tells whether the fuzzing thread is in   *)
(* the target, or in a handler that interrupted it.                        *)
TypeOK ==
  /\ sanitizer \in BOOLEAN /\ acquired \in BOOLEAN /\ leaky \in BOOLEAN /\ peak \in BOOLEAN
  /\ main \in MainType /\ cur \in CurType /\ clock \in ClockType
  /\ detect \in BOOLEAN
  /\ \A t \in Threads : other[t].pc \in {"off", "dump", "die"}
  /\ main.pc = "user" => cur.running
  /\ main.pc \notin {"user", "dump", "die"} => ~cur.running

(* What the fuzzing thread dumps reproduces what it reports: it is the     *)
(* unit given to the target, whole, whether it was mutated in place or     *)
(* copied, although the size is reset right after the call, the target may *)
(* be called a second time, and SIGALRM may interrupt another report.      *)
Reproducer == \A a \in artifacts : a.by = "main" => a.content = main.data

(* A timeout is reported for a unit that has been executed for so long (a  *)
(* unit before it, or a long mutation, does not count), and it is reported *)
(* within the time to the next SIGALRM, unless another thread reports.     *)
TimeoutsRight ==
  /\ main.report = "timeout" => clock.busy >= Timeout
  /\ main.pc = "user" /\ ~acquired => clock.elapsed < Timeout + Period

(* Fork mode and its user tell failures apart by the exit code: whichever  *)
(* of the racing reports ends the process, the file that belongs to its    *)
(* code has been written.                                                  *)
CodeHasArtifact ==
  /\ code = "timeout" => \E a \in artifacts : a.prefix = "timeout"
  /\ code = "oom" => \E a \in artifacts : a.prefix = "oom"
  /\ code = "error" => \E a \in artifacts : a.prefix \in {"crash", "leak"}

(* Whoever reports first, the file and the exit code tell of the unit that *)
(* was executed and of the failure it had.                                 *)
ArtifactsRight == TypeOK /\ Reproducer /\ CodeHasArtifact

(* A unit that hangs, or memory over the limit, ends the process, although *)
(* a report may be refused because another one is going on.                *)
ProblemsEnd ==
  /\ main.pc = "user" ~> main.pc # "user" \/ ~Alive
  /\ peak ~> ~Alive
-----------------------------------------------------------------------------
(* The invariant behind ArtifactsRight and TimeoutsRight.  A report begins *)
(* while buffer and size are those of the unit, and nothing touches them   *)
(* once it has begun.                                                      *)
Reporting == main.pc \in {"dump", "die"}

UnitInPlace ==
  /\ main.pc \notin {"next", "mutate"} => main.data \in Units
  /\ main.pc \notin {"next", "mutate", "copy"} => cur.buffer = main.data
  /\ main.pc \in {"clock", "enter", "user", "compare", "dump", "die"} => cur.size = main.data
  /\ main.report # "none" <=> Reporting
  /\ \A a \in artifacts : a.by = "main" => Reporting /\ a.content = main.data

(* Whoever is about to exit has written the file that its code stands for. *)
Filed(kind) == \E a \in artifacts : a.prefix = Prefix(kind)

ReportsFiled ==
  /\ main.pc = "die" => Filed(main.report)
  /\ other \in [Threads -> [pc : {"off", "dump", "die"}, kind : {"none", "rss", "crash", "malloc"}]]
  /\ \A t \in Threads : /\ other[t].pc # "off" => other[t].kind # "none"
                        /\ other[t].pc = "die" => Filed(other[t].kind)
  /\ code \in {"none", "ok", "target", "timeout", "oom", "error"}
  /\ CodeHasArtifact

(* The unit has been busy since its time was taken; and as long as nobody  *)
(* reports, the next SIGALRM comes less than a period after the timeout.   *)
ClocksAgree ==
  /\ main.pc \in {"enter", "user", "compare", "after", "dump", "die"} =>
       clock.busy >= clock.elapsed \/ clock.busy = Timeout
  /\ main.report = "timeout" => clock.busy = Timeout
  /\ main.pc = "enter" => clock.elapsed = 0
  /\ clock.alarm => clock.timer = Period
  /\ acquired => sanitizer
  /\ main.pc = "user" /\ ~acquired =>
       IF clock.alarm THEN clock.elapsed < Timeout + Period
                      ELSE clock.elapsed + clock.timer < Timeout + Period

IInv == TypeOK /\ UnitInPlace /\ ReportsFiled /\ ClocksAgree
=============================================================================
