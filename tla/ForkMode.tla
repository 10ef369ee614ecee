------------------------------ MODULE ForkMode ------------------------------
(***************************************************************************)
(* The life of the jobs of fork mode (FuzzWithFork, FuzzerFork.cpp) and    *)
(* the way it stops.  Four kinds of threads pass FuzzJob pointers around:  *)
(*   - main launches NumJobs workers with a job each, then takes finished  *)
(*     jobs from MergeQ and decides whether to go on;                      *)
(*   - a worker takes a job from FuzzQ, runs its command as a child        *)
(*     process and puts the job into MergeQ;                               *)
(*   - for every job main goes on with, one detached thread merges it and  *)
(*     deletes it, and another creates a new job and puts it into FuzzQ.   *)
(* A FuzzJob pointer is a number, nullptr is 0; stage says, for every      *)
(* pointer, where the job is and how far the thread creating it has got.   *)
(* What a merge and a draw of seeds do to the corpus is in GlobalCorpus.   *)
(***************************************************************************)
EXTENDS Integers, Sequences, FiniteSets

CONSTANTS
  NumJobs,   \* -fork=N
  MaxJobs,   \* bound: the number of jobs created before main decides to stop
  Engines,   \* the fuzzers jobs are given to
  Endless,   \* engines started with neither a time budget nor a stop file
  OwnDir,    \* engines whose local corpus is a directory they make themselves,
             \* or that GetLocalCorpusDir does not know
  Codes      \* the kinds of exit codes of a child

ASSUME ForkAssumption ==
  /\ NumJobs \in Nat \ {0}
  /\ MaxJobs \in Nat /\ NumJobs <= MaxJobs
  /\ Endless \subseteq Engines /\ OwnDir \subseteq Engines
  /\ Codes \subseteq {"ok", "ignored", "fatal", "interrupt"}

Ptr == 1..MaxJobs
nullptr == 0
Workers == 1..NumJobs
Ids == 1..MaxJobs + 1  \* no creator makes JobId larger

VARIABLES
  pc,        \* where main is
  n,         \* main's loop counter: workers launched, then nullptrs pushed
  hand,      \* the job main popped last and still uses
  jobId,     \* JobId
  created,   \* the number of jobs allocated
  stage,     \* per pointer, see Stages
  job,       \* the heap: per pointer [id, engine, code]
  fuzzQ, mergeQ,
  worker,    \* per worker [pc, job]
  dirs,      \* per id, the job that made C<id>, F<id>, I<id> last (0: none)
  exitCode,  \* main's ExitCode
  late       \* the jobs put into FuzzQ after main had decided to stop

vars == <<pc, n, hand, jobId, created, stage, job, fuzzQ, mergeQ, worker,
          dirs, exitCode, late>>

Creating == {"new", "incremented", "numbered", "made"}
Stages ==
  Creating \cup {"none", "queued", "running", "finished", "hand",
                 "merging", "deleted", "leaked"}

NoJob == [id |-> 0, engine |-> "none", code |-> "none"]
Alive == pc # "exit"
Stopping == pc \in {"stop", "lastmerge", "join", "freed", "removed", "exit"}

(* JobQueue is a FIFO queue behind a mutex; Pop blocks while it is empty.   *)
PushFront(q, j) == <<j>> \o q  \* mutant: a stack
Push(q, j) == Append(q, j)
RestUnpopped(q) == q  \* mutant: Qu.pop() is missing
Rest(q) == Tail(q)

Move(j, s) == stage' = [stage EXCEPT ![j] = s]
-----------------------------------------------------------------------------
Init ==
  /\ pc = "start" /\ n = 0 /\ hand = nullptr
  /\ jobId = 1 /\ created = 0
  /\ stage = [j \in Ptr |-> "none"]
  /\ job = [j \in Ptr |-> NoJob]
  /\ fuzzQ = <<>> /\ mergeQ = <<>>
  /\ worker = [w \in Workers |-> [pc |-> "unborn", job |-> nullptr]]
  /\ dirs = [i \in Ids |-> 0]
  /\ exitCode = "ok"
  /\ late = {}

(* The start-up loop: a worker is launched, and main itself creates its    *)
(* first job while the workers launched before may be running.             *)
StartWorker ==
  /\ pc = "start"
  /\ LET j == created + 1 IN
     /\ worker' = [worker EXCEPT ![n + 1].pc = "idle"]
     /\ \E e \in Engines : job' = [job EXCEPT ![j] = [@ EXCEPT !.id = jobId, !.engine = e]]
     /\ dirs' = [dirs EXCEPT ![jobId] = j]
     /\ fuzzQ' = Push(fuzzQ, j)
     /\ Move(j, "queued")
  /\ created' = created + 1 /\ jobId' = jobId + 1 /\ n' = n + 1
  /\ pc' = IF n + 1 = NumJobs THEN "loop" ELSE "start"
  /\ UNCHANGED <<hand, mergeQ, exitCode, late>>

PopFinished ==
  /\ pc = "loop" /\ mergeQ # <<>>
  /\ mergeQ' = Rest(mergeQ)
  /\ hand' = Head(mergeQ)
  /\ Move(hand', "hand")
  /\ exitCode' = job[hand'].code
  /\ pc' = "check"
  /\ UNCHANGED <<n, jobId, created, job, fuzzQ, worker, dirs, late>>

(* SIGUSR1 or SIGUSR2 asked for a graceful exit: MaybeExitGracefully       *)
(* removes the directory and ends the process with exit code 0.            *)
MaybeExitGracefully ==
  /\ pc = "check" /\ exitCode # "interrupt"
  /\ pc' = "exit" /\ exitCode' = "ok"
  /\ dirs' = [i \in Ids |-> 0]
  /\ UNCHANGED <<n, hand, jobId, created, stage, job, fuzzQ, mergeQ, worker, late>>

(* A child was interrupted, or crashed and crashes are not ignored, or     *)
(* NumRuns reached MaxNumberOfRuns: main stops and forgets the job.        *)
StopAndLeak ==
  /\ pc = "check"
  /\ pc' = "stop" /\ n' = 0
  /\ Move(hand, "leaked") /\ hand' = nullptr
  /\ UNCHANGED <<jobId, created, job, fuzzQ, mergeQ, worker, dirs, exitCode, late>>

(* The time budget is used up: main stops and merges this job itself.      *)
StopAndMerge ==
  /\ pc = "check" /\ exitCode \in {"ok", "ignored"}
  /\ pc' = "stop" /\ n' = 0
  /\ UNCHANGED <<hand, jobId, created, stage, job, fuzzQ, mergeQ, worker,
                 dirs, exitCode, late>>

ContinueWithoutCreator ==  \* mutant
  /\ pc = "check" /\ exitCode \in {"ok", "ignored"}
  /\ Move(hand, "merging")
  /\ hand' = nullptr /\ pc' = "loop"
  /\ UNCHANGED <<n, jobId, created, job, fuzzQ, mergeQ, worker, dirs, exitCode, late>>

(* Otherwise two detached threads are launched.                            *)
Continue ==
  /\ pc = "check" /\ exitCode \in {"ok", "ignored"}
  /\ created < MaxJobs
  /\ stage' = [stage EXCEPT ![hand] = "merging", ![created + 1] = "new"]
  /\ created' = created + 1
  /\ hand' = nullptr /\ pc' = "loop"
  /\ UNCHANGED <<n, jobId, job, fuzzQ, mergeQ, worker, dirs, exitCode, late>>

(* StopJobs: one nullptr for every worker, one for MergeQ (which main will *)
(* not read again), and the STOP file.                                     *)
NullsNeededLess == NumJobs - 1  \* mutant: bound of the loop in StopJobs
NullsNeeded == NumJobs

PushNull ==
  /\ pc = "stop" /\ n < NullsNeeded
  /\ fuzzQ' = Push(fuzzQ, nullptr)
  /\ n' = n + 1
  /\ UNCHANGED <<pc, hand, jobId, created, stage, job, mergeQ, worker, dirs,
                 exitCode, late>>

PushLastNull ==
  /\ pc = "stop" /\ n = NullsNeeded
  /\ mergeQ' = Push(mergeQ, nullptr)
  /\ pc' = IF hand = nullptr THEN "join" ELSE "lastmerge"
  /\ UNCHANGED <<n, hand, jobId, created, stage, job, fuzzQ, worker, dirs,
                 exitCode, late>>

(* delete Job: the record is gone.                                         *)
Delete(j) == Move(j, "deleted") /\ job' = [job EXCEPT ![j] = NoJob]

LastMerge ==
  /\ pc = "lastmerge"
  /\ Delete(hand) /\ hand' = nullptr
  /\ pc' = "join"
  /\ UNCHANGED <<n, jobId, created, fuzzQ, mergeQ, worker, dirs, exitCode, late>>

(* All worker threads are joined, then the corpus is deleted, then the     *)
(* directory; nobody waits for the detached threads.                       *)
JoinWorkers ==
  /\ pc = "join" /\ \A w \in Workers : worker[w].pc = "done"
  /\ pc' = "freed"
  /\ UNCHANGED <<n, hand, jobId, created, stage, job, fuzzQ, mergeQ, worker,
                 dirs, exitCode, late>>

RemoveTempDir ==
  /\ pc = "freed"
  /\ pc' = "removed"
  /\ dirs' = [i \in Ids |-> 0]
  /\ UNCHANGED <<n, hand, jobId, created, stage, job, fuzzQ, mergeQ, worker,
                 exitCode, late>>

Exit ==
  /\ pc = "removed"
  /\ pc' = "exit"
  /\ UNCHANGED <<n, hand, jobId, created, stage, job, fuzzQ, mergeQ, worker,
                 dirs, exitCode, late>>
-----------------------------------------------------------------------------
AfterNull == "done"

WorkerPop(w) ==
  /\ Alive /\ worker[w].pc = "idle" /\ fuzzQ # <<>>
  /\ fuzzQ' = Rest(fuzzQ)
  /\ LET j == Head(fuzzQ) IN
     IF j = nullptr
       THEN worker' = [worker EXCEPT ![w].pc = AfterNull] /\ UNCHANGED stage
       ELSE /\ worker' = [worker EXCEPT ![w] = [pc |-> "run", job |-> j]]
            /\ Move(j, "running")
  /\ UNCHANGED <<pc, n, hand, jobId, created, job, mergeQ, dirs, exitCode, late>>

(* The child terminates and its job goes to MergeQ.                        *)
WorkerFinish(w) ==
  /\ Alive /\ worker[w].pc = "run"
  /\ LET j == worker[w].job IN
     /\ \E c \in Codes : job' = [job EXCEPT ![j].code = c]
     /\ mergeQ' = Push(mergeQ, j)
     /\ Move(j, "finished")
  /\ worker' = [worker EXCEPT ![w] = [pc |-> "idle", job |-> nullptr]]
  /\ UNCHANGED <<pc, n, hand, jobId, created, fuzzQ, dirs, exitCode, late>>
-----------------------------------------------------------------------------
NextId == jobId + 1

(* The detached creator: JobId is incremented under Env.Mtx ...            *)
IncrementJobId(j) ==
  /\ Alive /\ stage[j] = "new"
  /\ jobId' = NextId
  /\ Move(j, "incremented")
  /\ UNCHANGED <<pc, n, hand, created, job, fuzzQ, mergeQ, worker, dirs, exitCode, late>>

(* ... and read again, by reference and after the lock was released.       *)
ReadJobId(j) ==
  /\ Alive /\ stage[j] = "incremented"
  /\ \E e \in Engines : job' = [job EXCEPT ![j] = [@ EXCEPT !.id = jobId, !.engine = e]]
  /\ Move(j, "numbered")
  /\ UNCHANGED <<pc, n, hand, jobId, created, fuzzQ, mergeQ, worker, dirs, exitCode, late>>

(* CreateNewJob empties the directories of its id, which fails once the    *)
(* parent directory is gone.                                               *)
MakeDirs(j) ==
  /\ Alive /\ stage[j] = "numbered"
  /\ dirs' = IF pc = "removed" THEN dirs ELSE [dirs EXCEPT ![job[j].id] = j]
  /\ Move(j, "made")
  /\ UNCHANGED <<pc, n, hand, jobId, created, job, fuzzQ, mergeQ, worker, exitCode, late>>

PushJob(j) ==
  /\ Alive /\ stage[j] = "made"
  /\ fuzzQ' = Push(fuzzQ, j)
  /\ Move(j, "queued")
  /\ late' = IF Stopping THEN late \cup {j} ELSE late
  /\ UNCHANGED <<pc, n, hand, jobId, created, job, mergeQ, worker, dirs, exitCode>>

(* The detached merge: RunOneMergeJob, then delete Job.                    *)
Merge(j) ==
  /\ Alive /\ stage[j] = "merging"
  /\ Delete(j)
  /\ UNCHANGED <<pc, n, hand, jobId, created, fuzzQ, mergeQ, worker, dirs,
                 exitCode, late>>

(* A merge that cannot list the local corpus calls exit(1), in whatever    *)
(* thread it is.                                                           *)
MergeExits(j) ==
  /\ Alive /\ \/ stage[j] = "merging"
              \/ pc = "lastmerge" /\ j = hand
  /\ job[j].engine \in OwnDir \/ dirs[job[j].id] = 0
  /\ pc' = "exit" /\ exitCode' = "one"
  /\ UNCHANGED <<n, hand, jobId, created, stage, job, fuzzQ, mergeQ, worker, dirs,
                 late>>

(* A detached thread uses the corpus after main has deleted it: undefined, *)
(* among others the process may crash.                                     *)
UseAfterFree ==
  /\ pc \in {"freed", "removed"}
  /\ \E j \in Ptr : stage[j] \in Creating \cup {"merging"}
  /\ pc' = "exit" /\ exitCode' = "crashed"
  /\ UNCHANGED <<n, hand, jobId, created, stage, job, fuzzQ, mergeQ, worker, dirs,
                 late>>

Terminated == pc = "exit" /\ UNCHANGED vars
-----------------------------------------------------------------------------
MainStep ==
  \/ StartWorker \/ PopFinished \/ MaybeExitGracefully
  \/ StopAndLeak \/ StopAndMerge \/ Continue
  \/ PushNull \/ PushLastNull \/ LastMerge
  \/ JoinWorkers \/ RemoveTempDir \/ Exit

Next ==
  \/ MainStep
  \/ \E w \in Workers : WorkerPop(w) \/ WorkerFinish(w)
  \/ \E j \in Ptr : \/ IncrementJobId(j) \/ ReadJobId(j) \/ MakeDirs(j) \/ PushJob(j)
                    \/ Merge(j) \/ MergeExits(j)
  \/ UseAfterFree \/ Terminated

Spec == Init /\ [][Next]_vars

(* Threads run: main and the workers are scheduled, and a child ends when  *)
(* its engine has a time budget (or polls the STOP file).  Nothing is      *)
(* assumed of the detached threads.                                        *)
Fairness ==
  /\ WF_vars(MainStep)
  /\ \A w \in Workers :
       /\ WF_vars(WorkerPop(w))
       /\ WF_vars(WorkerFinish(w) /\ job[worker[w].job].engine \notin Endless)

FairSpec == Spec /\ Fairness
-----------------------------------------------------------------------------
TypeOK ==
  /\ pc \in {"start", "loop", "check", "stop", "lastmerge", "join", "freed", "removed", "exit"}
  /\ n \in 0..NumJobs
  /\ hand \in Ptr \cup {nullptr}
  /\ jobId \in Nat \ {0}
  /\ created \in 0..MaxJobs
  /\ stage \in [Ptr -> Stages]
  /\ job \in [Ptr -> [id : Ids \cup {0}, engine : Engines \cup {"none"}, code : Codes \cup {"none"}]]
  /\ fuzzQ \in Seq(Ptr \cup {nullptr})
  /\ mergeQ \in Seq(Ptr \cup {nullptr})
  /\ worker \in [Workers -> [pc : {"unborn", "idle", "run", "done"}, job : Ptr \cup {nullptr}]]
  /\ dirs \in [Ids -> Ptr \cup {0}]
  /\ exitCode \in Codes \cup {"ok", "none", "one", "crashed"}
  /\ late \subseteq Ptr

(* Every job is in one place: a pointer in a queue, in a worker or in      *)
(* main's hand is there once and nowhere else, so that no job runs twice   *)
(* and none is used after the merge deleted it.                            *)
QueueHolds(q, st, s) ==
  \A i \in DOMAIN q : q[i] # nullptr =>
    st[q[i]] = s /\ \A k \in DOMAIN q : q[k] = q[i] => k = i

WorkersHold(wk, st) ==
  \A w \in Workers : wk[w].pc = "run" =>
    /\ wk[w].job \in Ptr /\ st[wk[w].job] = "running"
    /\ \A v \in Workers : wk[v].pc = "run" /\ wk[v].job = wk[w].job => v = w

JobInOnePlace ==
  /\ QueueHolds(fuzzQ, stage, "queued")
  /\ QueueHolds(mergeQ, stage, "finished")
  /\ WorkersHold(worker, stage)
  /\ hand # nullptr => stage[hand] = "hand"

(* While main waits in MergeQ.Pop, NumJobs jobs are on their way to it:    *)
(* one per worker, so main never waits for nothing and no worker is left   *)
(* without work for good.                                                  *)
InFlight ==
  {j \in Ptr : stage[j] \in Creating \cup {"queued", "running", "finished", "hand"}}

InCirculation == pc \in {"loop", "check"} => Cardinality(InFlight) = NumJobs

(* Every job whose creation was over when main decided to stop has been    *)
(* run when the workers are joined: "other jobs need to finish" (:555).    *)
(* Only jobs pushed later can be left behind the nullptrs.                 *)
QueuedBeforeStopRuns ==
  pc \in {"freed", "removed"} =>
    \A i \in DOMAIN fuzzQ : fuzzQ[i] # nullptr => fuzzQ[i] \in late

(* The nullptrs pushed and still to be pushed are as many as the workers   *)
(* that have not ended: each worker takes one and no worker waits for ever.*)
Nulls == {i \in DOMAIN fuzzQ : fuzzQ[i] = nullptr}
Ended == {w \in Workers : worker[w].pc = "done"}

NullsSuffice ==
  IF Stopping
    THEN pc # "exit" => Cardinality(Nulls) + (NumJobs - n) = NumJobs - Cardinality(Ended)
    ELSE Nulls = {} /\ Ended = {}

(* What makes these inductive.                                             *)
At(s) == {j \in Ptr : stage[j] = s}

(* Main's counters agree with the jobs: the number of jobs alive during    *)
(* start-up, the job in hand, and the ids handed out.                      *)
MainOK ==
  /\ pc = "start" => n < NumJobs /\ created = n /\ Cardinality(InFlight) = n
  /\ pc = "check" => hand # nullptr
  /\ pc \in {"start", "loop"} => hand = nullptr
  /\ pc \in {"start", "loop", "check", "stop"} =>
       \A i \in DOMAIN mergeQ : mergeQ[i] # nullptr
  /\ \A j \in Ptr : stage[j] = "none" <=> j > created
  /\ jobId + Cardinality(At("new")) = created + 1

(* The queue is FIFO: whatever is behind a nullptr was pushed late, and so *)
(* is all that is left once a worker has ended.                            *)
StopOK ==
  /\ ~Stopping => Nulls = {} /\ Ended = {}
  /\ \A k \in Nulls : \A i \in DOMAIN fuzzQ :
       k < i /\ fuzzQ[i] # nullptr => fuzzQ[i] \in late
  /\ Ended # {} => \A i \in DOMAIN fuzzQ : fuzzQ[i] # nullptr => fuzzQ[i] \in late
  /\ pc \in {"freed", "removed"} => Ended = Workers

(* The inductive invariant behind the theorems about this module.          *)
IInv == TypeOK /\ JobInOnePlace /\ MainOK /\ InCirculation /\ StopOK

(* When main has decided to stop, the process ends.                        *)
StopEnds == pc = "stop" ~> pc = "exit"

(* The comment at FuzzerFork.cpp:600: the directory is removed when nobody *)
(* uses it any more, "to avoid a race condition preventing cleanup".       *)
CleanupUnraced ==
  pc = "removed" =>
    \A j \in Ptr : stage[j] \notin Creating \cup {"merging"}
=============================================================================
