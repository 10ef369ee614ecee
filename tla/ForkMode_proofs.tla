-------------------------- MODULE ForkMode_proofs --------------------------
(***************************************************************************)
(* Proofs about ForkMode: jobs are never lost, doubled or used after they  *)
(* are deleted, NumJobs of them are on their way while main waits, and the *)
(* jobs queued before main decides to stop are all run.                    *)
(* The invariant has three independent parts, one section each: where the  *)
(* pointers are, how many there are, and the order of FuzzQ.               *)
(***************************************************************************)
EXTENDS ForkMode, FiniteSetTheorems, SequenceTheorems, TLAPS

Slots == Ptr \cup {nullptr}
Jobs == [id : Ids \cup {0}, engine : Engines \cup {"none"}, code : Codes \cup {"none"}]
-----------------------------------------------------------------------------
(* Queues.                                                                 *)

LEMMA PushFacts ==
  ASSUME NEW S, NEW q \in Seq(S), NEW x \in S
  PROVE  /\ Push(q, x) \in Seq(S)
         /\ Len(Push(q, x)) = Len(q) + 1 /\ Len(q) \in Nat
         /\ DOMAIN Push(q, x) = 1..Len(q) + 1 /\ DOMAIN q = 1..Len(q)
         /\ \A i \in 1..Len(q) : Push(q, x)[i] = q[i]
         /\ Push(q, x)[Len(q) + 1] = x
BY DEF Push

LEMMA RestFacts ==
  ASSUME NEW S, NEW q \in Seq(S), q # <<>>
  PROVE  /\ Rest(q) \in Seq(S) /\ Head(q) \in S /\ Head(q) = q[1]
         /\ Len(q) \in Nat \ {0} /\ DOMAIN q = 1..Len(q)
         /\ DOMAIN Rest(q) = 1..Len(q) - 1
         /\ \A i \in 1..Len(q) - 1 : Rest(q)[i] = q[i + 1]
BY DEF Rest

(* The stage of a job outside the queue changes.                           *)
LEMMA HoldsOther ==
  ASSUME NEW q \in Seq(Slots), NEW st \in [Ptr -> Stages], NEW s, NEW j, NEW t,
         QueueHolds(q, st, s), j \in Ptr => st[j] # s
  PROVE  QueueHolds(q, [st EXCEPT ![j] = t], s)
<1>1. \A i \in DOMAIN q : q[i] \in Slots
  OBVIOUS
<1> QED  BY <1>1 DEF QueueHolds, Slots

LEMMA HoldsPush ==
  ASSUME NEW q \in Seq(Slots), NEW st \in [Ptr -> Stages], NEW s, NEW j \in Ptr,
         QueueHolds(q, st, s), st[j] # s
  PROVE  QueueHolds(Push(q, j), [st EXCEPT ![j] = s], s)
<1>1. \A i \in DOMAIN q : q[i] \in Slots
  OBVIOUS
<1>2. /\ DOMAIN Push(q, j) = 1..Len(q) + 1 /\ DOMAIN q = 1..Len(q) /\ Len(q) \in Nat
      /\ \A i \in 1..Len(q) : Push(q, j)[i] = q[i]
      /\ Push(q, j)[Len(q) + 1] = j
  BY PushFacts DEF Slots
<1>3. \A i \in DOMAIN q : q[i] # j
  BY <1>1 DEF QueueHolds, Ptr, nullptr
<1> QED  BY <1>1, <1>2, <1>3 DEF QueueHolds, Slots

LEMMA HoldsPushNull ==
  ASSUME NEW q \in Seq(Slots), NEW st \in [Ptr -> Stages], NEW s, QueueHolds(q, st, s)
  PROVE  QueueHolds(Push(q, nullptr), st, s)
<1>1. /\ DOMAIN Push(q, nullptr) = 1..Len(q) + 1 /\ DOMAIN q = 1..Len(q) /\ Len(q) \in Nat
      /\ \A i \in 1..Len(q) : Push(q, nullptr)[i] = q[i]
      /\ Push(q, nullptr)[Len(q) + 1] = nullptr
  BY PushFacts DEF Slots
<1> QED  BY <1>1 DEF QueueHolds

LEMMA HoldsRest ==
  ASSUME NEW q \in Seq(Slots), NEW st \in [Ptr -> Stages], NEW s,
         QueueHolds(q, st, s), q # <<>>
  PROVE  /\ QueueHolds(Rest(q), st, s)
         /\ Head(q) # nullptr => /\ Head(q) \in Ptr /\ st[Head(q)] = s
                                 /\ \A i \in DOMAIN Rest(q) : Rest(q)[i] # Head(q)
<1>1. /\ Head(q) \in Slots /\ Head(q) = q[1]
      /\ Len(q) \in Nat \ {0} /\ DOMAIN q = 1..Len(q)
      /\ DOMAIN Rest(q) = 1..Len(q) - 1
      /\ \A i \in 1..Len(q) - 1 : Rest(q)[i] = q[i + 1]
  BY RestFacts
<1>2. QueueHolds(Rest(q), st, s)
  <2> SUFFICES ASSUME NEW i \in DOMAIN Rest(q), Rest(q)[i] # nullptr
               PROVE  /\ st[Rest(q)[i]] = s
                      /\ \A k \in DOMAIN Rest(q) : Rest(q)[k] = Rest(q)[i] => k = i
    BY DEF QueueHolds
  <2>1. Rest(q)[i] = q[i + 1] /\ i + 1 \in DOMAIN q
    BY <1>1
  <2>2. st[q[i + 1]] = s /\ \A k \in DOMAIN q : q[k] = q[i + 1] => k = i + 1
    BY <2>1 DEF QueueHolds
  <2>3. ASSUME NEW k \in DOMAIN Rest(q), Rest(q)[k] = Rest(q)[i] PROVE k = i
    <3>1. q[k + 1] = q[i + 1] /\ k + 1 \in DOMAIN q
      BY <1>1, <2>1, <2>3
    <3>2. k + 1 = i + 1 /\ k \in Int /\ i \in Int
      BY <1>1, <2>2, <3>1
    <3> QED  BY <3>2
  <2> QED  BY <2>1, <2>2, <2>3
<1>3. ASSUME Head(q) # nullptr
      PROVE  /\ Head(q) \in Ptr /\ st[Head(q)] = s
             /\ \A i \in DOMAIN Rest(q) : Rest(q)[i] # Head(q)
  <2>1. 1 \in DOMAIN q /\ Head(q) \in Ptr
    BY <1>1, <1>3 DEF Slots
  <2>2. st[q[1]] = s /\ \A k \in DOMAIN q : q[k] = q[1] => k = 1
    BY <1>1, <1>3, <2>1 DEF QueueHolds
  <2>3. ASSUME NEW i \in DOMAIN Rest(q) PROVE Rest(q)[i] # Head(q)
    <3>1. Rest(q)[i] = q[i + 1] /\ i + 1 \in DOMAIN q /\ i + 1 # 1
      BY <1>1
    <3> QED  BY <1>1, <2>2, <3>1
  <2> QED  BY <1>1, <2>1, <2>2, <2>3
<1> QED  BY <1>2, <1>3

(* The head of a queue changes its stage as it is taken out.               *)
LEMMA HoldsTake ==
  ASSUME NEW q \in Seq(Slots), NEW st \in [Ptr -> Stages], NEW s, NEW t,
         QueueHolds(q, st, s), q # <<>>, Head(q) # nullptr
  PROVE  QueueHolds(Rest(q), [st EXCEPT ![Head(q)] = t], s)
<1>1. /\ QueueHolds(Rest(q), st, s) /\ Head(q) \in Ptr
      /\ \A i \in DOMAIN Rest(q) : Rest(q)[i] # Head(q)
  BY HoldsRest
<1>2. Rest(q) \in Seq(Slots)
  BY RestFacts
<1>3. \A i \in DOMAIN Rest(q) : Rest(q)[i] \in Slots
  BY <1>2
<1> QED  BY <1>1, <1>3 DEF QueueHolds, Slots

(* The stage of a job no worker runs changes.                              *)
LEMMA WorkersOther ==
  ASSUME NEW st \in [Ptr -> Stages], NEW j, NEW t,
         WorkersHold(worker, st), j \in Ptr => st[j] # "running"
  PROVE  WorkersHold(worker, [st EXCEPT ![j] = t])
BY DEF WorkersHold
-----------------------------------------------------------------------------
LEMMA TypeParts ==
  ASSUME TypeOK
  PROVE  /\ stage \in [Ptr -> Stages] /\ fuzzQ \in Seq(Slots) /\ mergeQ \in Seq(Slots)
         /\ job \in [Ptr -> Jobs] /\ created \in 0..MaxJobs /\ jobId \in Nat \ {0}
         /\ hand \in Slots /\ n \in 0..NumJobs /\ late \subseteq Ptr
         /\ dirs \in [Ids -> Ptr \cup {0}]
         /\ worker \in [Workers -> [pc : {"unborn", "idle", "run", "done"}, job : Slots]]
BY DEF TypeOK, Slots, Jobs

(* The ids handed out are within bounds: the increments still to come are  *)
(* those of the creators that have just been launched.                     *)
LEMMA PtrFinite == IsFiniteSet(Ptr) /\ \A S \in SUBSET Ptr : IsFiniteSet(S)
<1>1. IsFiniteSet(1..MaxJobs)
  BY FS_Interval, ForkAssumption
<1> QED  BY <1>1, FS_Subset DEF Ptr

LEMMA IdBound ==
  ASSUME TypeOK, MainOK
  PROVE  jobId \in Ids
<1>1. IsFiniteSet(At("new"))
  BY PtrFinite DEF At
<1>2. Cardinality(At("new")) \in Nat
  BY <1>1, FS_CardinalityType
<1>3. jobId + Cardinality(At("new")) = created + 1
  BY DEF MainOK
<1>4. created \in 0..MaxJobs /\ jobId \in Nat \ {0} /\ MaxJobs \in Nat
  BY TypeParts, ForkAssumption
<1> QED  BY <1>2, <1>3, <1>4 DEF Ids
-----------------------------------------------------------------------------
(* Types.                                                                  *)

LEMMA InitType == Init => TypeOK
BY ForkAssumption DEF Init, TypeOK, Ptr, Ids, Workers, nullptr, NoJob, Stages

LEMMA HeapType ==
  ASSUME TypeOK, NEW j
  PROVE  /\ \A c \in Codes : [job EXCEPT ![j].code = c] \in [Ptr -> Jobs]
         /\ \A i \in Ids, e \in Engines :
              [job EXCEPT ![j] = [@ EXCEPT !.id = i, !.engine = e]] \in [Ptr -> Jobs]
         /\ [job EXCEPT ![j] = NoJob] \in [Ptr -> Jobs]
BY TypeParts, ZenonT(40) DEF Jobs, NoJob

LEMMA QueueType ==
  ASSUME TypeOK
  PROVE  /\ \A x \in Slots : Push(fuzzQ, x) \in Seq(Slots) /\ Push(mergeQ, x) \in Seq(Slots)
         /\ fuzzQ # <<>> => Rest(fuzzQ) \in Seq(Slots) /\ Head(fuzzQ) \in Slots
         /\ mergeQ # <<>> => Rest(mergeQ) \in Seq(Slots) /\ Head(mergeQ) \in Slots
BY TypeParts, PushFacts, RestFacts

LEMMA StepType == TypeOK /\ MainOK /\ JobInOnePlace /\ [Next]_vars => TypeOK'
<1> SUFFICES ASSUME TypeOK, MainOK, JobInOnePlace, [Next]_vars PROVE TypeOK'
  OBVIOUS
<1>1. CASE StartWorker
  <2>1. created + 1 \in Ptr /\ jobId \in Ids /\ n + 1 \in 0..NumJobs /\ jobId + 1 \in Nat \ {0}
        /\ created + 1 \in 0..MaxJobs
    BY <1>1, IdBound, ForkAssumption DEF StartWorker, MainOK, TypeOK, Ptr
  <2>2. job' \in [Ptr -> Jobs]
    <3>1. PICK e \in Engines :
            job' = [job EXCEPT ![created + 1] = [@ EXCEPT !.id = jobId, !.engine = e]]
      BY <1>1 DEF StartWorker
    <3> QED  BY <2>1, <3>1, HeapType
  <2>3. fuzzQ' \in Seq(Slots)
    BY <1>1, <2>1, QueueType DEF StartWorker, Slots
  <2>4. stage' \in [Ptr -> Stages] /\ dirs' \in [Ids -> Ptr \cup {0}]
    BY <1>1, <2>1 DEF StartWorker, TypeOK, Move, Stages
  <2>5. worker' \in [Workers -> [pc : {"unborn", "idle", "run", "done"}, job : Slots]]
    BY <1>1, TypeParts DEF StartWorker
  <2> QED  BY <1>1, <2>1, <2>2, <2>3, <2>4, <2>5 DEF StartWorker, TypeOK, Slots, Jobs
<1>2. CASE PopFinished
  <2>1. mergeQ' \in Seq(Slots) /\ hand' \in Slots
    BY <1>2, QueueType DEF PopFinished
  <2>2. hand' \in Ptr
    <3>1. 1 \in DOMAIN mergeQ /\ hand' = mergeQ[1]
      BY <1>2, RestFacts, TypeParts DEF PopFinished
    <3> QED  BY <1>2, <2>1, <3>1 DEF PopFinished, MainOK, Slots
  <2>3. exitCode' \in Codes \cup {"none"} /\ stage' \in [Ptr -> Stages]
    BY <1>2, <2>2, TypeParts DEF PopFinished, Move, Jobs, Stages
  <2> QED  BY <1>2, <2>1, <2>3 DEF PopFinished, TypeOK, Slots
<1>3. CASE MaybeExitGracefully \/ StopAndMerge \/ JoinWorkers \/ RemoveTempDir \/ Exit \/ Terminated
  BY <1>3, ForkAssumption DEF MaybeExitGracefully, StopAndMerge, JoinWorkers, RemoveTempDir, Exit,
     Terminated, vars, TypeOK
<1>4. CASE StopAndLeak
  <2>1. stage' \in [Ptr -> Stages]
    BY <1>4, TypeParts DEF StopAndLeak, Move, Stages
  <2> QED  BY <1>4, <2>1, ForkAssumption DEF StopAndLeak, TypeOK
<1>5. CASE Continue
  <2>1. created + 1 \in 0..MaxJobs
    BY <1>5, ForkAssumption DEF Continue, TypeOK
  <2>2. stage' \in [Ptr -> Stages]
    BY <1>5, TypeParts DEF Continue, Stages, Creating
  <2> QED  BY <1>5, <2>1, <2>2 DEF Continue, TypeOK
<1>6. CASE PushNull
  <2>1. fuzzQ' \in Seq(Slots)
    BY <1>6, QueueType DEF PushNull, Slots
  <2>2. n' \in 0..NumJobs
    BY <1>6, ForkAssumption DEF PushNull, NullsNeeded, TypeOK
  <2> QED  BY <1>6, <2>1, <2>2 DEF PushNull, TypeOK, Slots
<1>7. CASE PushLastNull
  <2>1. mergeQ' \in Seq(Slots)
    BY <1>7, QueueType DEF PushLastNull, Slots
  <2> QED  BY <1>7, <2>1 DEF PushLastNull, TypeOK, Slots
<1>8. ASSUME NEW j, Delete(j) PROVE stage' \in [Ptr -> Stages] /\ job' \in [Ptr -> Jobs]
  <2>1. stage' \in [Ptr -> Stages]
    BY <1>8, TypeParts DEF Delete, Move, Stages
  <2> QED  BY <1>8, <2>1, HeapType DEF Delete
<1>17. CASE LastMerge
  BY <1>8, <1>17 DEF LastMerge, TypeOK, Jobs, nullptr
<1>18. ASSUME NEW j \in Ptr, Merge(j) PROVE TypeOK'
  BY <1>8, <1>18 DEF Merge, TypeOK, Jobs
<1>9. ASSUME NEW w \in Workers, WorkerPop(w) PROVE TypeOK'
  <2>1. fuzzQ' \in Seq(Slots) /\ Head(fuzzQ) \in Slots
    BY <1>9, QueueType DEF WorkerPop
  <2>2. stage' \in [Ptr -> Stages]
    BY <1>9, TypeParts DEF WorkerPop, Move, Stages
  <2>3. worker' \in [Workers -> [pc : {"unborn", "idle", "run", "done"}, job : Slots]]
    <3>1. \/ worker' = [worker EXCEPT ![w].pc = "done"]
          \/ worker' = [worker EXCEPT ![w] = [pc |-> "run", job |-> Head(fuzzQ)]]
      BY <1>9 DEF WorkerPop, AfterNull
    <3>2. CASE worker' = [worker EXCEPT ![w].pc = "done"]
      BY <3>2, TypeParts
    <3>3. CASE worker' = [worker EXCEPT ![w] = [pc |-> "run", job |-> Head(fuzzQ)]]
      BY <2>1, <3>3, TypeParts
    <3> QED  BY <3>1, <3>2, <3>3
  <2> QED  BY <1>9, <2>1, <2>2, <2>3 DEF WorkerPop, TypeOK, Slots
<1>10. ASSUME NEW w \in Workers, WorkerFinish(w) PROVE TypeOK'
  <2>1. worker[w].job \in Slots
    BY TypeParts
  <2>2. mergeQ' \in Seq(Slots)
    BY <1>10, <2>1, QueueType DEF WorkerFinish
  <2>3. stage' \in [Ptr -> Stages]
    BY <1>10, TypeParts DEF WorkerFinish, Move, Stages
  <2>4. job' \in [Ptr -> Jobs]
    <3>1. PICK c \in Codes : job' = [job EXCEPT ![worker[w].job].code = c]
      BY <1>10 DEF WorkerFinish
    <3> QED  BY <3>1, HeapType
  <2>5. worker' \in [Workers -> [pc : {"unborn", "idle", "run", "done"}, job : Slots]]
    BY <1>10, TypeParts DEF WorkerFinish, Slots
  <2> QED  BY <1>10, <2>2, <2>3, <2>4, <2>5 DEF WorkerFinish, TypeOK, Slots, Jobs
<1>11. ASSUME NEW j \in Ptr, IncrementJobId(j) PROVE TypeOK'
  <2>1. stage' \in [Ptr -> Stages] /\ jobId' \in Nat \ {0}
    BY <1>11, TypeParts DEF IncrementJobId, NextId, Move, Stages, Creating
  <2> QED  BY <1>11, <2>1 DEF IncrementJobId, TypeOK
<1>12. ASSUME NEW j \in Ptr, ReadJobId(j) PROVE TypeOK'
  <2>1. stage' \in [Ptr -> Stages]
    BY <1>12, TypeParts DEF ReadJobId, Move, Stages, Creating
  <2>2. job' \in [Ptr -> Jobs]
    <3>1. PICK e \in Engines : job' = [job EXCEPT ![j] = [@ EXCEPT !.id = jobId, !.engine = e]]
      BY <1>12 DEF ReadJobId
    <3> QED  BY <3>1, HeapType, IdBound
  <2> QED  BY <1>12, <2>1, <2>2 DEF ReadJobId, TypeOK, Jobs
<1>13. ASSUME NEW j \in Ptr, MakeDirs(j) PROVE TypeOK'
  <2>1. stage' \in [Ptr -> Stages] /\ dirs' \in [Ids -> Ptr \cup {0}]
    BY <1>13, TypeParts DEF MakeDirs, Move, Stages, Creating
  <2> QED  BY <1>13, <2>1 DEF MakeDirs, TypeOK
<1>14. ASSUME NEW j \in Ptr, PushJob(j) PROVE TypeOK'
  <2>1. stage' \in [Ptr -> Stages] /\ late' \subseteq Ptr
    BY <1>14, TypeParts DEF PushJob, Move, Stages
  <2>2. fuzzQ' \in Seq(Slots)
    BY <1>14, QueueType DEF PushJob, Slots
  <2> QED  BY <1>14, <2>1, <2>2 DEF PushJob, TypeOK, Slots
<1>15. CASE UseAfterFree \/ \E j \in Ptr : MergeExits(j)
  BY <1>15 DEF UseAfterFree, MergeExits, TypeOK
<1>16. CASE UNCHANGED vars
  BY <1>16 DEF vars, TypeOK
<1> QED
  BY <1>1, <1>2, <1>3, <1>4, <1>5, <1>6, <1>7, <1>8, <1>9, <1>10, <1>11, <1>12, <1>13,
     <1>14, <1>15, <1>16, <1>17, <1>18 DEF Next, MainStep
-----------------------------------------------------------------------------
(* Where the pointers are.                                                 *)

(* No worker takes a job.                                                  *)
LEMMA WorkersFewer ==
  ASSUME NEW st, NEW wk, WorkersHold(worker, st),
         \A w \in Workers : wk[w].pc = "run" => worker[w].pc = "run" /\ wk[w].job = worker[w].job
  PROVE  WorkersHold(wk, st)
BY DEF WorkersHold

(* A job that is in none of the containers changes its stage.              *)
LEMMA MoveOther ==
  ASSUME TypeOK, JobInOnePlace, NEW j, NEW t, Move(j, t),
         j \in Ptr => stage[j] \notin {"queued", "finished", "running"},
         UNCHANGED <<fuzzQ, mergeQ, worker>>,
         hand' = nullptr \/ (hand' = hand /\ hand # j)
  PROVE  JobInOnePlace'
<1>1. /\ stage' = [stage EXCEPT ![j] = t] /\ stage \in [Ptr -> Stages]
      /\ fuzzQ \in Seq(Slots) /\ mergeQ \in Seq(Slots) /\ hand \in Slots
  BY TypeParts DEF Move
<1>2. QueueHolds(fuzzQ', stage', "queued")
  BY <1>1, HoldsOther DEF JobInOnePlace
<1>3. QueueHolds(mergeQ', stage', "finished")
  BY <1>1, HoldsOther DEF JobInOnePlace
<1>4. WorkersHold(worker', stage')
  BY <1>1, WorkersOther DEF JobInOnePlace
<1>5. hand' # nullptr => stage'[hand'] = "hand"
  BY <1>1 DEF JobInOnePlace, Slots
<1> QED  BY <1>2, <1>3, <1>4, <1>5 DEF JobInOnePlace

LEMMA InitPlace == Init => JobInOnePlace
BY DEF Init, JobInOnePlace, QueueHolds, WorkersHold, nullptr

LEMMA StartWorkerPlace ==
  ASSUME TypeOK, JobInOnePlace, MainOK, StartWorker
  PROVE  JobInOnePlace'
<1> DEFINE j == created + 1
<1>1. j \in Ptr /\ stage[j] = "none"
  BY ForkAssumption DEF StartWorker, MainOK, TypeOK, Ptr
<1>2. /\ stage' = [stage EXCEPT ![j] = "queued"] /\ stage \in [Ptr -> Stages]
      /\ fuzzQ \in Seq(Slots) /\ mergeQ \in Seq(Slots)
      /\ fuzzQ' = Push(fuzzQ, j) /\ mergeQ' = mergeQ /\ hand' = hand
      /\ worker' = [worker EXCEPT ![n + 1].pc = "idle"]
  BY TypeParts DEF StartWorker, Move
<1> HIDE DEF j
<1>3. QueueHolds(fuzzQ', stage', "queued")
  BY <1>1, <1>2, HoldsPush DEF JobInOnePlace
<1>4. QueueHolds(mergeQ', stage', "finished")
  BY <1>1, <1>2, HoldsOther DEF JobInOnePlace
<1>5. WorkersHold(worker, stage')
  BY <1>1, <1>2, WorkersOther DEF JobInOnePlace
<1>6. \A w \in Workers :
        worker'[w].pc = "run" => worker[w].pc = "run" /\ worker'[w].job = worker[w].job
  BY <1>2, TypeParts
<1>7. WorkersHold(worker', stage')
  BY <1>5, <1>6, WorkersFewer
<1>8. hand' # nullptr => stage'[hand'] = "hand"
  BY <1>1, <1>2, TypeParts DEF JobInOnePlace, Slots
<1> QED  BY <1>3, <1>4, <1>7, <1>8 DEF JobInOnePlace

LEMMA PopFinishedPlace ==
  ASSUME TypeOK, JobInOnePlace, MainOK, PopFinished
  PROVE  JobInOnePlace' /\ hand' \in Ptr /\ stage[hand'] = "finished"
<1> DEFINE j == Head(mergeQ)
<1>1. /\ stage \in [Ptr -> Stages] /\ fuzzQ \in Seq(Slots) /\ mergeQ \in Seq(Slots)
      /\ mergeQ # <<>> /\ pc = "loop"
  BY TypeParts DEF PopFinished
<1>2. j # nullptr
  <2>1. 1 \in DOMAIN mergeQ /\ j = mergeQ[1]
    BY <1>1, RestFacts
  <2> QED  BY <1>1, <2>1 DEF MainOK
<1>3. /\ stage' = [stage EXCEPT ![j] = "hand"] /\ hand' = j
      /\ mergeQ' = Rest(mergeQ) /\ fuzzQ' = fuzzQ /\ worker' = worker
  BY DEF PopFinished, Move
<1>4. j \in Ptr /\ stage[j] = "finished"
  BY <1>1, <1>2, HoldsRest DEF JobInOnePlace
<1>5. QueueHolds(mergeQ', stage', "finished")
  BY <1>1, <1>2, <1>3, HoldsTake DEF JobInOnePlace
<1> HIDE DEF j
<1>6. QueueHolds(fuzzQ', stage', "queued")
  BY <1>1, <1>3, <1>4, HoldsOther DEF JobInOnePlace
<1>7. WorkersHold(worker', stage')
  BY <1>1, <1>3, <1>4, WorkersOther DEF JobInOnePlace
<1> QED  BY <1>1, <1>3, <1>4, <1>5, <1>6, <1>7 DEF JobInOnePlace

LEMMA ContinuePlace ==
  ASSUME TypeOK, JobInOnePlace, MainOK, Continue
  PROVE  /\ JobInOnePlace'
         /\ hand \in Ptr /\ stage[hand] = "hand"
         /\ created + 1 \in Ptr /\ stage[created + 1] = "none"
<1> DEFINE st == [stage EXCEPT ![hand] = "merging"]
<1>1. hand \in Ptr /\ stage[hand] = "hand"
  BY TypeParts DEF Continue, MainOK, JobInOnePlace, Slots
<1>2. created + 1 \in Ptr /\ stage[created + 1] = "none"
  BY ForkAssumption DEF Continue, MainOK, TypeOK, Ptr
<1>3. /\ stage \in [Ptr -> Stages] /\ st \in [Ptr -> Stages] /\ st[created + 1] = "none"
      /\ fuzzQ \in Seq(Slots) /\ mergeQ \in Seq(Slots)
  BY <1>1, <1>2, TypeParts DEF Stages
<1>4. /\ stage' = [st EXCEPT ![created + 1] = "new"]
      /\ UNCHANGED <<fuzzQ, mergeQ, worker>> /\ hand' = nullptr
  BY <1>1, <1>3 DEF Continue
<1>5. QueueHolds(fuzzQ, st, "queued") /\ QueueHolds(mergeQ, st, "finished") /\ WorkersHold(worker, st)
  BY <1>1, <1>3, HoldsOther, WorkersOther DEF JobInOnePlace
<1> HIDE DEF st
<1>6. QueueHolds(fuzzQ', stage', "queued")
  BY <1>3, <1>4, <1>5, HoldsOther
<1>7. QueueHolds(mergeQ', stage', "finished")
  BY <1>3, <1>4, <1>5, HoldsOther
<1>8. WorkersHold(worker', stage')
  BY <1>3, <1>4, <1>5, WorkersOther
<1> QED  BY <1>1, <1>2, <1>4, <1>6, <1>7, <1>8 DEF JobInOnePlace

LEMMA WorkerPopPlace ==
  ASSUME TypeOK, JobInOnePlace, NEW w \in Workers, WorkerPop(w)
  PROVE  /\ JobInOnePlace'
         /\ Head(fuzzQ) # nullptr => Head(fuzzQ) \in Ptr /\ stage[Head(fuzzQ)] = "queued"
<1> DEFINE j == Head(fuzzQ)
<1>1. /\ stage \in [Ptr -> Stages] /\ fuzzQ \in Seq(Slots) /\ mergeQ \in Seq(Slots)
      /\ fuzzQ # <<>> /\ fuzzQ' = Rest(fuzzQ) /\ mergeQ' = mergeQ /\ hand' = hand
      /\ hand \in Slots
  BY TypeParts DEF WorkerPop
<1>2. CASE j = nullptr
  <2>1. stage' = stage /\ worker' = [worker EXCEPT ![w].pc = "done"]
    BY <1>2 DEF WorkerPop, AfterNull
  <2>2. QueueHolds(fuzzQ', stage', "queued")
    BY <1>1, <2>1, HoldsRest DEF JobInOnePlace
  <2>3. \A v \in Workers :
          worker'[v].pc = "run" => worker[v].pc = "run" /\ worker'[v].job = worker[v].job
    BY <2>1, TypeParts
  <2>4. WorkersHold(worker', stage')
    BY <2>1, <2>3, WorkersFewer DEF JobInOnePlace
  <2> QED  BY <1>1, <1>2, <2>1, <2>2, <2>4 DEF JobInOnePlace
<1>3. CASE j # nullptr
  <2>1. /\ stage' = [stage EXCEPT ![j] = "running"]
        /\ worker' = [worker EXCEPT ![w] = [pc |-> "run", job |-> j]]
    BY <1>3 DEF WorkerPop, Move
  <2>2. j \in Ptr /\ stage[j] = "queued"
    BY <1>1, <1>3, HoldsRest DEF JobInOnePlace
  <2>3. QueueHolds(fuzzQ', stage', "queued")
    BY <1>1, <1>3, <2>1, HoldsTake DEF JobInOnePlace
  <2> HIDE DEF j
  <2>4. QueueHolds(mergeQ', stage', "finished")
    BY <1>1, <2>1, <2>2, HoldsOther DEF JobInOnePlace
  <2>5. WorkersHold(worker', stage')
    <3>1. \A v \in Workers : v # w /\ worker'[v].pc = "run" =>
             /\ worker'[v] = worker[v] /\ worker[v].job \in Ptr
             /\ worker[v].job # j /\ stage'[worker[v].job] = "running"
      BY <1>1, <2>1, <2>2, TypeParts DEF JobInOnePlace, WorkersHold
    <3>2. worker'[w].job = j /\ stage'[j] = "running"
      BY <1>1, <2>1, <2>2, TypeParts
    <3>3. \A u, v \in Workers :
            u # w /\ v # w /\ worker'[u].pc = "run" /\ worker'[v].pc = "run"
              /\ worker'[u].job = worker'[v].job => u = v
      BY <3>1 DEF JobInOnePlace, WorkersHold
    <3> QED  BY <2>2, <3>1, <3>2, <3>3 DEF WorkersHold
  <2>6. hand' # nullptr => stage'[hand'] = "hand"
    BY <1>1, <2>1, <2>2 DEF JobInOnePlace, Slots
  <2> QED  BY <2>2, <2>3, <2>4, <2>5, <2>6 DEF JobInOnePlace, j
<1> QED  BY <1>2, <1>3

LEMMA WorkerFinishPlace ==
  ASSUME TypeOK, JobInOnePlace, NEW w \in Workers, WorkerFinish(w)
  PROVE  JobInOnePlace' /\ worker[w].job \in Ptr /\ stage[worker[w].job] = "running"
<1>1. PICK j : j = worker[w].job
  OBVIOUS
<1>2. /\ stage \in [Ptr -> Stages] /\ fuzzQ \in Seq(Slots) /\ mergeQ \in Seq(Slots)
      /\ fuzzQ' = fuzzQ /\ mergeQ' = Push(mergeQ, j) /\ hand' = hand /\ hand \in Slots
      /\ stage' = [stage EXCEPT ![j] = "finished"]
      /\ worker[w].pc = "run" /\ worker' = [worker EXCEPT ![w] = [pc |-> "idle", job |-> nullptr]]
  BY <1>1, TypeParts DEF WorkerFinish, Move
<1>3. j \in Ptr /\ stage[j] = "running"
  BY <1>1, <1>2 DEF JobInOnePlace, WorkersHold
<1>4. QueueHolds(fuzzQ', stage', "queued")
  BY <1>2, <1>3, HoldsOther DEF JobInOnePlace
<1>5. QueueHolds(mergeQ', stage', "finished")
  BY <1>2, <1>3, HoldsPush DEF JobInOnePlace
<1>6. WorkersHold(worker', stage')
  <2>1. \A v \in Workers : worker'[v].pc = "run" =>
           v # w /\ worker'[v] = worker[v] /\ worker[v].job \in Ptr /\ worker[v].job # j
    BY <1>1, <1>2, TypeParts DEF JobInOnePlace, WorkersHold
  <2>2. \A v \in Workers : worker'[v].pc = "run" => stage'[worker[v].job] = "running"
    BY <1>2, <2>1 DEF JobInOnePlace, WorkersHold
  <2> QED  BY <2>1, <2>2 DEF JobInOnePlace, WorkersHold
<1>7. hand' # nullptr => stage'[hand'] = "hand"
  BY <1>2, <1>3 DEF JobInOnePlace, Slots
<1> QED  BY <1>1, <1>3, <1>4, <1>5, <1>6, <1>7 DEF JobInOnePlace

LEMMA PushJobPlace ==
  ASSUME TypeOK, JobInOnePlace, NEW j \in Ptr, PushJob(j)
  PROVE  JobInOnePlace'
<1>1. /\ stage \in [Ptr -> Stages] /\ fuzzQ \in Seq(Slots) /\ mergeQ \in Seq(Slots)
      /\ fuzzQ' = Push(fuzzQ, j) /\ mergeQ' = mergeQ /\ hand' = hand /\ hand \in Slots
      /\ stage' = [stage EXCEPT ![j] = "queued"] /\ stage[j] = "made" /\ worker' = worker
  BY TypeParts DEF PushJob, Move
<1>2. QueueHolds(fuzzQ', stage', "queued")
  BY <1>1, HoldsPush DEF JobInOnePlace
<1>3. QueueHolds(mergeQ', stage', "finished")
  BY <1>1, HoldsOther DEF JobInOnePlace
<1>4. WorkersHold(worker', stage')
  BY <1>1, WorkersOther DEF JobInOnePlace
<1>5. hand' # nullptr => stage'[hand'] = "hand"
  BY <1>1 DEF JobInOnePlace, Slots
<1> QED  BY <1>2, <1>3, <1>4, <1>5 DEF JobInOnePlace

LEMMA NullsPlace ==
  ASSUME TypeOK, JobInOnePlace, PushNull \/ PushLastNull
  PROVE  JobInOnePlace'
<1>1. CASE PushNull
  BY <1>1, HoldsPushNull, TypeParts DEF PushNull, JobInOnePlace
<1>2. CASE PushLastNull
  BY <1>2, HoldsPushNull, TypeParts DEF PushLastNull, JobInOnePlace
<1> QED  BY <1>1, <1>2

LEMMA StepPlace == TypeOK /\ JobInOnePlace /\ MainOK /\ [Next]_vars => JobInOnePlace'
<1> SUFFICES ASSUME TypeOK, JobInOnePlace, MainOK, [Next]_vars PROVE JobInOnePlace'
  OBVIOUS
<1>1. hand \in Slots /\ hand # nullptr => hand \in Ptr /\ stage[hand] = "hand"
  BY TypeParts DEF JobInOnePlace, Slots
<1>2. CASE StopAndLeak
  BY <1>1, <1>2, MoveOther, TypeParts DEF StopAndLeak, MainOK
<1>3. CASE LastMerge
  <2>1. hand \in Ptr => hand # nullptr
    BY DEF Ptr, nullptr
  <2> QED  BY <1>1, <1>3, <2>1, MoveOther, TypeParts DEF LastMerge, Delete
<1>4. ASSUME NEW j \in Ptr, Merge(j) \/ IncrementJobId(j) \/ ReadJobId(j) \/ MakeDirs(j)
      PROVE  JobInOnePlace'
  <2>1. /\ stage[j] \in {"merging", "new", "incremented", "numbered"}
        /\ \E t : Move(j, t)
        /\ UNCHANGED <<fuzzQ, mergeQ, worker, hand>>
    BY <1>4 DEF Merge, Delete, IncrementJobId, ReadJobId, MakeDirs
  <2>2. hand = nullptr \/ hand # j
    BY <2>1 DEF JobInOnePlace
  <2> QED  BY <2>1, <2>2, MoveOther
<1>5. ASSUME UNCHANGED <<fuzzQ, mergeQ, worker, hand, stage>> PROVE JobInOnePlace'
  BY <1>5 DEF JobInOnePlace
<1>6. CASE MaybeExitGracefully \/ StopAndMerge \/ JoinWorkers \/ RemoveTempDir \/ Exit
  BY <1>5, <1>6 DEF MaybeExitGracefully, StopAndMerge, JoinWorkers, RemoveTempDir, Exit
<1>7. CASE UseAfterFree \/ Terminated \/ UNCHANGED vars \/ \E j \in Ptr : MergeExits(j)
  BY <1>5, <1>7 DEF UseAfterFree, Terminated, MergeExits, vars
<1> QED
  BY <1>2, <1>3, <1>4, <1>6, <1>7, StartWorkerPlace, PopFinishedPlace, ContinuePlace,
     NullsPlace, WorkerPopPlace, WorkerFinishPlace, PushJobPlace DEF Next, MainStep
-----------------------------------------------------------------------------
(* How many jobs there are.                                                *)

Flying == Creating \cup {"queued", "running", "finished", "hand"}

(* What most steps do to the counts: nothing.                              *)
CountsKept ==
  /\ InFlight' = InFlight
  /\ \A j \in Ptr : stage'[j] = "none" <=> j > created'
  /\ jobId' + Cardinality(At("new")') = created' + 1

LEMMA CountsStay ==
  ASSUME MainOK, UNCHANGED <<stage, created, jobId>>
  PROVE  CountsKept
<1>1. InFlight' = InFlight /\ At("new")' = At("new")
  BY DEF InFlight, At
<1> QED  BY <1>1 DEF CountsKept, MainOK

LEMMA CountsMove ==
  ASSUME TypeOK, MainOK, NEW j \in Ptr, NEW t, Move(j, t),
         stage[j] \notin {"none", "new"}, t \notin {"none", "new"},
         stage[j] \in Flying <=> t \in Flying,
         UNCHANGED <<created, jobId>>
  PROVE  CountsKept
<1>1. stage' = [stage EXCEPT ![j] = t] /\ stage \in [Ptr -> Stages]
  BY TypeParts DEF Move
<1>2. InFlight' = InFlight
  BY <1>1 DEF InFlight, Flying
<1>3. At("new")' = At("new")
  BY <1>1 DEF At
<1>4. \A i \in Ptr : stage'[i] = "none" <=> i > created'
  BY <1>1 DEF MainOK
<1> QED  BY <1>2, <1>3, <1>4 DEF CountsKept, MainOK

LEMMA InFlightFinite == IsFiniteSet(InFlight) /\ IsFiniteSet(At("new"))
BY PtrFinite DEF InFlight, At

LEMMA InitCount == Init => MainOK /\ InCirculation
<1> SUFFICES ASSUME Init PROVE MainOK /\ InCirculation
  OBVIOUS
<1>1. InFlight = {} /\ At("new") = {}
  BY DEF Init, InFlight, At, Creating
<1>2. Cardinality({}) = 0
  BY FS_EmptySet
<1>3. /\ pc = "start" /\ n = 0 /\ created = 0 /\ jobId = 1 /\ hand = nullptr
      /\ \A i \in DOMAIN mergeQ : mergeQ[i] # nullptr
      /\ \A j \in Ptr : stage[j] = "none" /\ j > created
  BY ForkAssumption DEF Init, Ptr
<1>4. 0 < NumJobs
  BY ForkAssumption
<1> QED  BY <1>1, <1>2, <1>3, <1>4 DEF MainOK, InCirculation

LEMMA StartWorkerCount ==
  ASSUME TypeOK, MainOK, StartWorker
  PROVE  MainOK' /\ InCirculation'
<1>1. PICK j : j = created + 1
  OBVIOUS
<1>2. /\ j \in Ptr /\ stage[j] = "none" /\ created = n /\ n \in Nat /\ n < NumJobs
      /\ Cardinality(InFlight) = n
  BY <1>1, ForkAssumption DEF StartWorker, MainOK, TypeOK, Ptr
<1>3. /\ stage' = [stage EXCEPT ![j] = "queued"] /\ stage \in [Ptr -> Stages]
      /\ created' = j /\ jobId' = jobId + 1 /\ n' = n + 1
      /\ hand' = hand /\ hand = nullptr /\ mergeQ' = mergeQ
      /\ pc = "start" /\ pc' = IF n' = NumJobs THEN "loop" ELSE "start"
  BY <1>1, TypeParts DEF StartWorker, Move, MainOK
<1>4. InFlight' = InFlight \cup {j} /\ j \notin InFlight
  BY <1>2, <1>3 DEF InFlight, Creating
<1>5. Cardinality(InFlight') = n'
  BY <1>2, <1>3, <1>4, InFlightFinite, FS_AddElement
<1>6. At("new")' = At("new")
  BY <1>2, <1>3 DEF At
<1>7. jobId' + Cardinality(At("new")') = created' + 1
  BY <1>1, <1>3, <1>6, InFlightFinite, FS_CardinalityType, TypeParts DEF MainOK
<1>8. \A i \in Ptr : stage'[i] = "none" <=> i > created'
  BY <1>1, <1>2, <1>3, ForkAssumption DEF MainOK, Ptr
<1>9. pc' = "start" => n' < NumJobs /\ created' = n' /\ Cardinality(InFlight') = n'
  BY <1>1, <1>2, <1>3, <1>5, ForkAssumption
<1>10. \A i \in DOMAIN mergeQ' : mergeQ'[i] # nullptr
  BY <1>3 DEF MainOK
<1>11. InCirculation'
  BY <1>3, <1>5 DEF InCirculation
<1>12. MainOK'
  BY <1>3, <1>7, <1>8, <1>9, <1>10 DEF MainOK
<1> QED  BY <1>11, <1>12

LEMMA ContinueCount ==
  ASSUME TypeOK, MainOK, JobInOnePlace, InCirculation, Continue
  PROVE  MainOK' /\ InCirculation'
<1>1. PICK j : j = created + 1
  OBVIOUS
<1>2. hand \in Ptr /\ stage[hand] = "hand" /\ j \in Ptr /\ stage[j] = "none"
  BY <1>1, ContinuePlace
<1>3. /\ stage' = [stage EXCEPT ![hand] = "merging", ![j] = "new"] /\ stage \in [Ptr -> Stages]
      /\ created' = j /\ jobId' = jobId /\ hand' = nullptr /\ mergeQ' = mergeQ
      /\ pc = "check" /\ pc' = "loop"
  BY <1>1, TypeParts DEF Continue
<1>4. InFlight' = (InFlight \ {hand}) \cup {j} /\ hand \in InFlight /\ j \notin InFlight
  BY <1>2, <1>3 DEF InFlight, Creating
<1>5. Cardinality(InFlight') = NumJobs
  <2>1. Cardinality(InFlight) = NumJobs /\ IsFiniteSet(InFlight)
    BY <1>3, InFlightFinite DEF InCirculation
  <2>2. Cardinality(InFlight \ {hand}) = NumJobs - 1 /\ IsFiniteSet(InFlight \ {hand})
    BY <1>4, <2>1, FS_RemoveElement
  <2>3. Cardinality((InFlight \ {hand}) \cup {j}) = NumJobs - 1 + 1
    BY <1>4, <2>2, FS_AddElement
  <2> QED  BY <1>4, <2>3, ForkAssumption
<1>6. At("new")' = At("new") \cup {j} /\ j \notin At("new")
  BY <1>2, <1>3 DEF At
<1>7. Cardinality(At("new")') = Cardinality(At("new")) + 1
  BY <1>6, InFlightFinite, FS_AddElement
<1>8. jobId' + Cardinality(At("new")') = created' + 1
  BY <1>1, <1>3, <1>7, InFlightFinite, FS_CardinalityType, TypeParts DEF MainOK
<1>9. \A i \in Ptr : stage'[i] = "none" <=> i > created'
  <2>1. created \in Nat /\ Ptr \subseteq Nat
    BY ForkAssumption DEF TypeOK, Ptr
  <2>2. \A i \in Ptr : stage[i] = "none" <=> i > created
    BY DEF MainOK
  <2>3. \A i \in Ptr : i # j /\ i # hand => stage'[i] = stage[i]
    BY <1>3
  <2>4. hand # j /\ stage'[j] = "new" /\ stage'[hand] = "merging" /\ ~(hand > created)
    BY <1>2, <1>3, <2>2
  <2>5. ~(hand > j)
    BY <1>1, <1>2, <2>1, <2>4
  <2>6. \A i \in Ptr : i # j /\ i # hand => (i > created <=> i > j)
    BY <1>1, <2>1
  <2> QED  BY <1>2, <1>3, <2>1, <2>2, <2>3, <2>4, <2>5, <2>6
<1>10. \A i \in DOMAIN mergeQ' : mergeQ'[i] # nullptr
  BY <1>3 DEF MainOK
<1>11. InCirculation'
  BY <1>3, <1>5 DEF InCirculation
<1>12. MainOK'
  BY <1>3, <1>8, <1>9, <1>10 DEF MainOK
<1> QED  BY <1>11, <1>12

LEMMA IncrementCount ==
  ASSUME TypeOK, MainOK, InCirculation, NEW j \in Ptr, IncrementJobId(j)
  PROVE  MainOK' /\ InCirculation'
<1>1. /\ stage' = [stage EXCEPT ![j] = "incremented"] /\ stage \in [Ptr -> Stages]
      /\ stage[j] = "new" /\ jobId' = jobId + 1
      /\ UNCHANGED <<pc, n, hand, created, mergeQ>>
  BY TypeParts DEF IncrementJobId, NextId, Move
<1>2. InFlight' = InFlight
  BY <1>1 DEF InFlight, Creating
<1>3. At("new")' = At("new") \ {j} /\ j \in At("new")
  BY <1>1 DEF At
<1>4. Cardinality(At("new")') = Cardinality(At("new")) - 1
  BY <1>3, InFlightFinite, FS_RemoveElement
<1>5. jobId' + Cardinality(At("new")') = created' + 1
  BY <1>1, <1>4, InFlightFinite, FS_CardinalityType, TypeParts DEF MainOK
<1>6. \A i \in Ptr : stage'[i] = "none" <=> i > created'
  BY <1>1 DEF MainOK
<1>7. MainOK'
  BY <1>1, <1>2, <1>5, <1>6 DEF MainOK
<1> QED  BY <1>1, <1>2, <1>7 DEF InCirculation

LEMMA StepCount ==
  TypeOK /\ JobInOnePlace /\ MainOK /\ InCirculation /\ [Next]_vars => MainOK' /\ InCirculation'
<1> SUFFICES ASSUME TypeOK, JobInOnePlace, MainOK, InCirculation, [Next]_vars
             PROVE  MainOK' /\ InCirculation'
  OBVIOUS
<1>1. /\ hand # nullptr => hand \in Ptr /\ stage[hand] = "hand"
      /\ \A i \in DOMAIN mergeQ : mergeQ[i] \in Slots
  BY TypeParts DEF JobInOnePlace, Slots
<1>2. ASSUME CountsKept, UNCHANGED <<pc, n, hand, created, mergeQ>> PROVE MainOK' /\ InCirculation'
  BY <1>2 DEF CountsKept, MainOK, InCirculation
<1>3. CASE PopFinished
  <2>1. hand' \in Ptr /\ stage[hand'] = "finished" /\ Move(hand', "hand")
    BY <1>3, PopFinishedPlace DEF PopFinished
  <2>2. CountsKept
    BY <1>3, <2>1, CountsMove DEF PopFinished, Flying
  <2>3. pc = "loop" /\ pc' = "check" /\ hand' # nullptr
    BY <1>3, <2>1 DEF PopFinished, Ptr, nullptr
  <2>4. \A i \in DOMAIN mergeQ' : mergeQ'[i] # nullptr
    <3>1. \A i \in DOMAIN mergeQ : mergeQ[i] # nullptr
      BY <2>3 DEF MainOK
    <3>2. mergeQ' = Rest(mergeQ) /\ mergeQ # <<>> /\ mergeQ \in Seq(Slots)
      BY <1>3, TypeParts DEF PopFinished
    <3>3. /\ DOMAIN mergeQ' = 1..Len(mergeQ) - 1 /\ DOMAIN mergeQ = 1..Len(mergeQ)
          /\ \A i \in 1..Len(mergeQ) - 1 : mergeQ'[i] = mergeQ[i + 1]
          /\ Len(mergeQ) \in Nat
      BY <3>2, RestFacts
    <3> QED  BY <3>1, <3>3
  <2> QED  BY <2>2, <2>3, <2>4 DEF CountsKept, MainOK, InCirculation
<1>4. CASE StopAndLeak
  <2>1. hand \in Ptr /\ stage[hand] = "hand" /\ Move(hand, "leaked")
    BY <1>1, <1>4 DEF StopAndLeak, MainOK
  <2>2. stage' = [stage EXCEPT ![hand] = "leaked"] /\ stage \in [Ptr -> Stages]
    BY <2>1, TypeParts DEF Move
  <2>3. At("new")' = At("new") /\ \A i \in Ptr : stage'[i] = "none" <=> i > created'
    BY <1>4, <2>1, <2>2 DEF At, StopAndLeak, MainOK
  <2> QED  BY <1>4, <2>3 DEF StopAndLeak, MainOK, InCirculation
<1>5. CASE StopAndMerge \/ PushNull \/ PushLastNull
  <2>1. CountsKept
    BY <1>5, CountsStay DEF StopAndMerge, PushNull, PushLastNull
  <2>2. CASE StopAndMerge
    BY <2>1, <2>2 DEF StopAndMerge, CountsKept, MainOK, InCirculation
  <2>3. CASE PushNull
    BY <2>1, <2>3 DEF PushNull, CountsKept, MainOK, InCirculation
  <2>4. CASE PushLastNull
    BY <2>1, <2>4 DEF PushLastNull, CountsKept, MainOK, InCirculation
  <2> QED  BY <1>5, <2>2, <2>3, <2>4
<1>6. CASE LastMerge
  <2>1. CASE hand \in Ptr /\ stage[hand] = "hand"
    <3>1. stage' = [stage EXCEPT ![hand] = "deleted"] /\ stage \in [Ptr -> Stages]
      BY <1>6, TypeParts DEF LastMerge, Delete, Move
    <3>2. At("new")' = At("new") /\ \A i \in Ptr : stage'[i] = "none" <=> i > created'
      BY <1>6, <2>1, <3>1 DEF At, LastMerge, MainOK
    <3> QED  BY <1>6, <3>2 DEF LastMerge, MainOK, InCirculation
  <2>2. CASE hand = nullptr
    <3>1. stage' = stage
      BY <1>6, <2>2, TypeParts DEF LastMerge, Delete, Move, nullptr, Ptr
    <3>2. CountsKept
      BY <1>6, <3>1, CountsStay DEF LastMerge
    <3> QED  BY <1>6, <3>2 DEF LastMerge, CountsKept, MainOK, InCirculation
  <2> QED  BY <1>1, <2>1, <2>2
<1>7. CASE MaybeExitGracefully \/ JoinWorkers \/ RemoveTempDir \/ Exit \/ UseAfterFree
             \/ \E j \in Ptr : MergeExits(j)
  <2>1. /\ pc' \notin {"start", "loop", "check", "stop"}
        /\ UNCHANGED <<stage, created, jobId, hand, mergeQ, n>>
    BY <1>7 DEF MaybeExitGracefully, JoinWorkers, RemoveTempDir, Exit, UseAfterFree, MergeExits
  <2>2. CountsKept
    BY <2>1, CountsStay
  <2> QED  BY <2>1, <2>2 DEF CountsKept, MainOK, InCirculation
<1>8. ASSUME NEW w \in Workers, WorkerPop(w) PROVE MainOK' /\ InCirculation'
  <2>1. CASE Head(fuzzQ) = nullptr
    BY <1>2, <1>8, <2>1, CountsStay DEF WorkerPop
  <2>2. CASE Head(fuzzQ) # nullptr
    <3>1. Head(fuzzQ) \in Ptr /\ stage[Head(fuzzQ)] = "queued" /\ Move(Head(fuzzQ), "running")
      BY <1>8, <2>2, WorkerPopPlace DEF WorkerPop
    <3>2. UNCHANGED <<pc, n, hand, created, jobId, mergeQ>>
      BY <1>8 DEF WorkerPop
    <3>3. CountsKept
      BY <3>1, <3>2, CountsMove DEF Flying
    <3> QED  BY <1>2, <3>2, <3>3
  <2> QED  BY <2>1, <2>2
<1>9. ASSUME NEW w \in Workers, WorkerFinish(w) PROVE MainOK' /\ InCirculation'
  <2>1. PICK j : j = worker[w].job
    OBVIOUS
  <2>2. j \in Ptr /\ stage[j] = "running" /\ Move(j, "finished")
    BY <1>9, <2>1, WorkerFinishPlace DEF WorkerFinish
  <2>3. UNCHANGED <<pc, n, hand, created, jobId>> /\ mergeQ' = Push(mergeQ, j)
    BY <1>9, <2>1 DEF WorkerFinish
  <2>4. CountsKept
    BY <2>2, <2>3, CountsMove DEF Flying
  <2>5. /\ DOMAIN mergeQ' = 1..Len(mergeQ) + 1 /\ DOMAIN mergeQ = 1..Len(mergeQ) /\ Len(mergeQ) \in Nat
        /\ \A i \in 1..Len(mergeQ) : mergeQ'[i] = mergeQ[i]
        /\ mergeQ'[Len(mergeQ) + 1] = j
    <3>1. mergeQ \in Seq(Slots) /\ j \in Slots
      BY <2>2, TypeParts DEF Slots
    <3>2. /\ DOMAIN Push(mergeQ, j) = 1..Len(mergeQ) + 1
          /\ DOMAIN mergeQ = 1..Len(mergeQ) /\ Len(mergeQ) \in Nat
          /\ \A i \in 1..Len(mergeQ) : Push(mergeQ, j)[i] = mergeQ[i]
          /\ Push(mergeQ, j)[Len(mergeQ) + 1] = j
      BY <3>1, PushFacts
    <3> QED  BY <2>3, <3>2
  <2>6. j # nullptr
    BY <2>2 DEF Ptr, nullptr
  <2>7. (\A i \in DOMAIN mergeQ : mergeQ[i] # nullptr) => \A i \in DOMAIN mergeQ' : mergeQ'[i] # nullptr
    BY <2>5, <2>6
  <2> QED  BY <2>3, <2>4, <2>7 DEF CountsKept, MainOK, InCirculation
<1>10. ASSUME NEW j \in Ptr, ReadJobId(j) \/ MakeDirs(j) \/ PushJob(j) \/ Merge(j)
       PROVE  MainOK' /\ InCirculation'
  <2>1. CASE ReadJobId(j)
    BY <1>2, <2>1, CountsMove DEF ReadJobId, Flying, Creating
  <2>2. CASE MakeDirs(j)
    BY <1>2, <2>2, CountsMove DEF MakeDirs, Flying, Creating
  <2>3. CASE PushJob(j)
    BY <1>2, <2>3, CountsMove DEF PushJob, Flying, Creating
  <2>4. CASE Merge(j)
    BY <1>2, <2>4, CountsMove DEF Merge, Delete, Flying, Creating
  <2> QED  BY <1>10, <2>1, <2>2, <2>3, <2>4
<1>11. CASE Terminated \/ UNCHANGED vars
  BY <1>2, <1>11, CountsStay DEF Terminated, vars
<1> QED
  BY <1>3, <1>4, <1>5, <1>6, <1>7, <1>8, <1>9, <1>10, <1>11,
     StartWorkerCount, ContinueCount, IncrementCount DEF Next, MainStep
-----------------------------------------------------------------------------
(* The order of FuzzQ.                                                     *)

LEMMA InitStop == Init => StopOK
BY DEF Init, StopOK, Stopping, Nulls, Ended, nullptr

(* Steps that leave FuzzQ and the workers alone.                           *)
LEMMA StopStay ==
  ASSUME StopOK, UNCHANGED <<fuzzQ, worker, late>>,
         Stopping => Stopping',
         pc' \in {"freed", "removed"} => pc \in {"freed", "removed"} \/ Ended = Workers
  PROVE  StopOK'
<1>1. Nulls' = Nulls /\ Ended' = Ended
  BY DEF Nulls, Ended
<1> QED  BY <1>1 DEF StopOK

LEMMA PushedFacts ==
  ASSUME TypeOK, NEW x \in Slots
  PROVE  /\ DOMAIN Push(fuzzQ, x) = 1..Len(fuzzQ) + 1 /\ DOMAIN fuzzQ = 1..Len(fuzzQ) /\ Len(fuzzQ) \in Nat
         /\ \A i \in 1..Len(fuzzQ) : Push(fuzzQ, x)[i] = fuzzQ[i]
         /\ Push(fuzzQ, x)[Len(fuzzQ) + 1] = x
<1>1. fuzzQ \in Seq(Slots)
  BY TypeParts
<1>2. ASSUME NEW q \in Seq(Slots)
      PROVE  /\ DOMAIN Push(q, x) = 1..Len(q) + 1 /\ DOMAIN q = 1..Len(q) /\ Len(q) \in Nat
             /\ \A i \in 1..Len(q) : Push(q, x)[i] = q[i]
             /\ Push(q, x)[Len(q) + 1] = x
  BY PushFacts
<1> QED  BY <1>1, <1>2

(* Somebody puts x at the end of the queue.                                *)
LEMMA StopPush ==
  ASSUME TypeOK, StopOK, NEW x \in Slots, fuzzQ' = Push(fuzzQ, x), Ended' = Ended,
         Stopping => Stopping',
         late' = late \/ late' = late \cup {x},
         IF Stopping THEN x = nullptr \/ x \in late' ELSE x # nullptr,
         pc' \notin {"freed", "removed"} \/ pc' = pc
  PROVE  StopOK'
<1>1. /\ DOMAIN fuzzQ' = 1..Len(fuzzQ) + 1 /\ DOMAIN fuzzQ = 1..Len(fuzzQ) /\ Len(fuzzQ) \in Nat
      /\ \A i \in 1..Len(fuzzQ) : fuzzQ'[i] = fuzzQ[i]
      /\ fuzzQ'[Len(fuzzQ) + 1] = x
  <2>1. /\ DOMAIN Push(fuzzQ, x) = 1..Len(fuzzQ) + 1 /\ DOMAIN fuzzQ = 1..Len(fuzzQ) /\ Len(fuzzQ) \in Nat
        /\ \A i \in 1..Len(fuzzQ) : Push(fuzzQ, x)[i] = fuzzQ[i]
        /\ Push(fuzzQ, x)[Len(fuzzQ) + 1] = x
    BY PushedFacts
  <2> QED  BY <2>1
<1>2. CASE ~Stopping
  <2>1. Nulls = {} /\ Ended = {} /\ x # nullptr
    BY <1>2 DEF StopOK
  <2>2. Nulls' = {}
    BY <1>1, <2>1 DEF Nulls
  <2>3. pc' \notin {"freed", "removed"}
    BY <1>2 DEF Stopping
  <2> QED  BY <2>1, <2>2, <2>3 DEF StopOK
<1>3. CASE Stopping
  <2>1. x = nullptr \/ x \in late'
    BY <1>3
  <2>2. \A k \in Nulls' : \A i \in DOMAIN fuzzQ' :
          k < i /\ fuzzQ'[i] # nullptr => fuzzQ'[i] \in late'
    <3> SUFFICES ASSUME NEW k \in Nulls', NEW i \in DOMAIN fuzzQ', k < i, fuzzQ'[i] # nullptr
                 PROVE  fuzzQ'[i] \in late'
      OBVIOUS
    <3>1. CASE i = Len(fuzzQ) + 1
      BY <1>1, <2>1, <3>1
    <3>2. CASE i # Len(fuzzQ) + 1
      <4>1. k \in DOMAIN fuzzQ /\ i \in DOMAIN fuzzQ /\ fuzzQ'[k] = nullptr
        BY <1>1, <3>2 DEF Nulls
      <4>2. k \in Nulls /\ fuzzQ[i] = fuzzQ'[i]
        BY <1>1, <4>1 DEF Nulls
      <4> QED  BY <4>1, <4>2 DEF StopOK
    <3> QED  BY <3>1, <3>2
  <2>3. Ended # {} => \A i \in DOMAIN fuzzQ' : fuzzQ'[i] # nullptr => fuzzQ'[i] \in late'
    BY <1>1, <2>1 DEF StopOK
  <2> QED  BY <1>3, <2>2, <2>3 DEF StopOK
<1> QED  BY <1>2, <1>3

LEMMA WorkerPopStop ==
  ASSUME TypeOK, StopOK, NEW w \in Workers, WorkerPop(w)
  PROVE  StopOK'
<1>1. /\ fuzzQ' = Rest(fuzzQ) /\ Head(fuzzQ) = fuzzQ[1]
      /\ Len(fuzzQ) \in Nat \ {0} /\ DOMAIN fuzzQ = 1..Len(fuzzQ)
      /\ DOMAIN fuzzQ' = 1..Len(fuzzQ) - 1
      /\ \A i \in 1..Len(fuzzQ) - 1 : fuzzQ'[i] = fuzzQ[i + 1]
      /\ late' = late /\ pc' = pc /\ worker[w].pc = "idle"
  BY RestFacts, TypeParts DEF WorkerPop
<1>2. Stopping' = Stopping
  BY <1>1 DEF Stopping
<1>3. \A k \in Nulls' : \A i \in DOMAIN fuzzQ' :
        k < i /\ fuzzQ'[i] # nullptr => fuzzQ'[i] \in late'
  <2> SUFFICES ASSUME NEW k \in Nulls', NEW i \in DOMAIN fuzzQ', k < i, fuzzQ'[i] # nullptr
               PROVE  fuzzQ'[i] \in late'
    OBVIOUS
  <2>1. k \in DOMAIN fuzzQ' /\ fuzzQ'[k] = nullptr
    BY DEF Nulls
  <2>2. /\ k + 1 \in DOMAIN fuzzQ /\ i + 1 \in DOMAIN fuzzQ /\ k + 1 < i + 1
        /\ fuzzQ[k + 1] = nullptr /\ fuzzQ[i + 1] = fuzzQ'[i]
    BY <1>1, <2>1
  <2>3. k + 1 \in Nulls
    BY <2>2 DEF Nulls
  <2> QED  BY <1>1, <2>2, <2>3 DEF StopOK
<1>4. CASE Head(fuzzQ) = nullptr
  <2>1. 1 \in Nulls
    BY <1>1, <1>4 DEF Nulls
  <2>2. Stopping
    BY <2>1 DEF StopOK
  <2>3. \A i \in DOMAIN fuzzQ' : fuzzQ'[i] # nullptr => fuzzQ'[i] \in late'
    <3> SUFFICES ASSUME NEW i \in DOMAIN fuzzQ', fuzzQ'[i] # nullptr
                 PROVE  fuzzQ'[i] \in late'
      OBVIOUS
    <3>1. i + 1 \in DOMAIN fuzzQ /\ 1 < i + 1 /\ fuzzQ[i + 1] = fuzzQ'[i]
      BY <1>1
    <3> QED  BY <1>1, <2>1, <3>1 DEF StopOK
  <2>4. pc \notin {"freed", "removed"}
    BY <1>1 DEF StopOK, Ended
  <2> QED  BY <1>1, <1>2, <1>3, <2>2, <2>3, <2>4 DEF StopOK
<1>5. CASE Head(fuzzQ) # nullptr
  <2>1. worker' = [worker EXCEPT ![w] = [pc |-> "run", job |-> Head(fuzzQ)]]
    BY <1>5 DEF WorkerPop
  <2>2. Ended' = Ended
    BY <1>1, <2>1, TypeParts DEF Ended
  <2>3. Nulls = {} => Nulls' = {}
    BY <1>1 DEF Nulls
  <2>4. Ended # {} => \A i \in DOMAIN fuzzQ' : fuzzQ'[i] # nullptr => fuzzQ'[i] \in late'
    <3> SUFFICES ASSUME Ended # {}, NEW i \in DOMAIN fuzzQ', fuzzQ'[i] # nullptr
                 PROVE  fuzzQ'[i] \in late'
      OBVIOUS
    <3>1. i + 1 \in DOMAIN fuzzQ /\ fuzzQ[i + 1] = fuzzQ'[i]
      BY <1>1
    <3> QED  BY <1>1, <3>1 DEF StopOK
  <2> QED  BY <1>1, <1>2, <1>3, <2>2, <2>3, <2>4 DEF StopOK
<1> QED  BY <1>4, <1>5

LEMMA StepStop == TypeOK /\ MainOK /\ StopOK /\ [Next]_vars => StopOK'
<1> SUFFICES ASSUME TypeOK, MainOK, StopOK, [Next]_vars PROVE StopOK'
  OBVIOUS
<1>1. CASE StartWorker
  <2>1. created + 1 \in Ptr /\ created + 1 # nullptr
    BY <1>1, ForkAssumption DEF StartWorker, MainOK, TypeOK, Ptr, nullptr
  <2>2. ~Stopping /\ Ended = {}
    BY <1>1 DEF StartWorker, StopOK, Stopping
  <2>3. Ended' = {}
    BY <1>1, <2>2, TypeParts DEF StartWorker, Ended
  <2>4. /\ fuzzQ' = Push(fuzzQ, created + 1) /\ late' = late
        /\ pc' \notin {"freed", "removed"} /\ created + 1 \in Slots
    BY <1>1, <2>1 DEF StartWorker, Slots
  <2> QED  BY <2>1, <2>2, <2>3, <2>4, StopPush
<1>2. CASE PushNull
  <2>1. /\ Ended' = Ended /\ Stopping /\ Stopping' /\ fuzzQ' = Push(fuzzQ, nullptr)
        /\ late' = late /\ pc' = pc /\ nullptr \in Slots
    BY <1>2 DEF PushNull, Ended, Stopping, Slots
  <2> QED  BY <2>1, StopPush
<1>3. ASSUME NEW j \in Ptr, PushJob(j) PROVE StopOK'
  <2>1. /\ Ended' = Ended /\ Stopping' = Stopping /\ fuzzQ' = Push(fuzzQ, j)
        /\ late' = IF Stopping THEN late \cup {j} ELSE late
        /\ pc' = pc /\ j \in Slots /\ j # nullptr
    BY <1>3 DEF PushJob, Ended, Stopping, Slots, Ptr, nullptr
  <2> QED  BY <2>1, StopPush
<1>4. ASSUME NEW w \in Workers, WorkerPop(w) PROVE StopOK'
  BY <1>4, WorkerPopStop
<1>5. ASSUME NEW w \in Workers, WorkerFinish(w) PROVE StopOK'
  <2>1. /\ worker' = [worker EXCEPT ![w] = [pc |-> "idle", job |-> nullptr]]
        /\ worker[w].pc = "run" /\ UNCHANGED <<pc, fuzzQ, late>>
    BY <1>5 DEF WorkerFinish
  <2>2. Ended' = Ended /\ Nulls' = Nulls /\ Stopping' = Stopping
    BY <2>1, TypeParts DEF Ended, Nulls, Stopping
  <2> QED  BY <2>1, <2>2 DEF StopOK
<1>6. CASE JoinWorkers
  <2>1. Ended = Workers
    BY <1>6 DEF JoinWorkers, Ended
  <2> QED  BY <1>6, <2>1, StopStay DEF JoinWorkers, Stopping
<1>7. CASE PopFinished \/ MaybeExitGracefully \/ StopAndLeak \/ StopAndMerge \/ Continue
  <2>1. /\ pc \in {"loop", "check"} /\ pc' \notin {"freed", "removed"}
        /\ UNCHANGED <<fuzzQ, worker, late>>
    BY <1>7 DEF PopFinished, MaybeExitGracefully, StopAndLeak, StopAndMerge, Continue
  <2> QED  BY <2>1, StopStay DEF Stopping
<1>8. CASE PushLastNull \/ LastMerge \/ RemoveTempDir \/ Exit \/ UseAfterFree
             \/ \E j \in Ptr : MergeExits(j)
  <2>1. /\ pc' \in {"join", "lastmerge", "removed", "exit"}
        /\ pc' = "removed" => pc = "freed"
        /\ UNCHANGED <<fuzzQ, worker, late>>
    BY <1>8 DEF PushLastNull, LastMerge, RemoveTempDir, Exit, UseAfterFree, MergeExits
  <2> QED  BY <2>1, StopStay DEF Stopping
<1>9. CASE \/ Terminated \/ UNCHANGED vars
           \/ \E j \in Ptr : IncrementJobId(j) \/ ReadJobId(j) \/ MakeDirs(j) \/ Merge(j)
  <2>1. UNCHANGED <<pc, fuzzQ, worker, late>>
    BY <1>9 DEF Terminated, vars, IncrementJobId, ReadJobId, MakeDirs, Merge
  <2> QED  BY <2>1, StopStay DEF Stopping
<1> QED
  BY <1>1, <1>2, <1>3, <1>4, <1>5, <1>6, <1>7, <1>8, <1>9 DEF Next, MainStep
-----------------------------------------------------------------------------
LEMMA StepIInv == IInv /\ [Next]_vars => IInv'
BY StepType, StepPlace, StepCount, StepStop DEF IInv

(* The invariant of fork mode.                                             *)
THEOREM ForkConsistent == Spec => []IInv
<1>1. Init => IInv
  BY InitType, InitPlace, InitCount, InitStop DEF IInv
<1> QED  BY <1>1, StepIInv, PTL DEF Spec

(* No job is ever in two places: none runs twice, and none is read after   *)
(* the merge thread deleted it.                                            *)
THEOREM JobsNotShared == Spec => []JobInOnePlace
<1>1. IInv => JobInOnePlace
  BY DEF IInv
<1> QED  BY <1>1, ForkConsistent, PTL

(* Whenever main waits for a finished job, exactly NumJobs jobs are on     *)
(* their way, whatever the number of workers and of jobs run so far.       *)
THEOREM JobsConserved == Spec => []InCirculation
<1>1. IInv => InCirculation
  BY DEF IInv
<1> QED  BY <1>1, ForkConsistent, PTL

(* "Other jobs need to finish": what was queued before main decided to     *)
(* stop has been run when the workers have ended.                          *)
THEOREM QueuedJobsRun == Spec => []QueuedBeforeStopRuns
<1>1. IInv => QueuedBeforeStopRuns
  <2>1. Workers # {}
    BY ForkAssumption DEF Workers
  <2> QED  BY <2>1 DEF IInv, StopOK, QueuedBeforeStopRuns
<1> QED  BY <1>1, ForkConsistent, PTL


-----------------------------------------------------------------------------
(* The nullptrs of FuzzQ: every one pushed is there or has ended a worker. *)
NullsOf(q) == {i \in DOMAIN q : q[i] = nullptr}

LEMMA NullsFinite ==
  ASSUME NEW q \in Seq(Slots)
  PROVE  IsFiniteSet(NullsOf(q)) /\ Cardinality(NullsOf(q)) \in Nat
<1>1. Len(q) \in Nat /\ DOMAIN q = 1..Len(q)
  OBVIOUS
<1>2. IsFiniteSet(1..Len(q))
  <2>1. 1 \in Int /\ Len(q) \in Int
    BY <1>1
  <2> QED  BY <2>1, FS_Interval
<1>3. IsFiniteSet(NullsOf(q))
  BY <1>1, <1>2, FS_Subset DEF NullsOf
<1> QED  BY <1>3, FS_CardinalityType

LEMMA NullsPush ==
  ASSUME NEW q \in Seq(Slots), NEW x \in Slots
  PROVE  Cardinality(NullsOf(Push(q, x)))
           = Cardinality(NullsOf(q)) + (IF x = nullptr THEN 1 ELSE 0)
<1>1. /\ DOMAIN Push(q, x) = 1..Len(q) + 1 /\ DOMAIN q = 1..Len(q) /\ Len(q) \in Nat
      /\ \A i \in 1..Len(q) : Push(q, x)[i] = q[i]
      /\ Push(q, x)[Len(q) + 1] = x
  BY DEF Push
<1>2. IsFiniteSet(NullsOf(q)) /\ Cardinality(NullsOf(q)) \in Nat
  BY NullsFinite
<1>3. CASE x = nullptr
  <2>1. NullsOf(Push(q, x)) = NullsOf(q) \cup {Len(q) + 1}
    BY <1>1, <1>3 DEF NullsOf
  <2>2. Len(q) + 1 \notin NullsOf(q)
    BY <1>1 DEF NullsOf
  <2> QED  BY <1>2, <1>3, <2>1, <2>2, FS_AddElement
<1>4. CASE x # nullptr
  <2>1. NullsOf(Push(q, x)) = NullsOf(q)
    BY <1>1, <1>4 DEF NullsOf
  <2> QED  BY <1>2, <1>4, <2>1
<1> QED  BY <1>3, <1>4

LEMMA NullsRest ==
  ASSUME NEW q \in Seq(Slots), q # <<>>
  PROVE  Cardinality(NullsOf(q))
           = Cardinality(NullsOf(Rest(q))) + (IF Head(q) = nullptr THEN 1 ELSE 0)
<1>1. /\ Rest(q) \in Seq(Slots) /\ Head(q) = q[1]
      /\ Len(q) \in Nat \ {0} /\ DOMAIN q = 1..Len(q)
      /\ DOMAIN Rest(q) = 1..Len(q) - 1
      /\ \A i \in 1..Len(q) - 1 : Rest(q)[i] = q[i + 1]
  BY RestFacts
<1>2. IsFiniteSet(NullsOf(Rest(q))) /\ IsFiniteSet(NullsOf(q)) /\ Cardinality(NullsOf(q)) \in Nat
  BY <1>1, NullsFinite
<1> DEFINE S == NullsOf(Rest(q))
           T == NullsOf(q) \ {1}
           f == [i \in S |-> i + 1]
<1>3. Cardinality(T) = Cardinality(S)
  <2>1. S \subseteq Int /\ \A i \in S : i + 1 \in T
    BY <1>1 DEF NullsOf
  <2>2. \A k \in T : k \in Int /\ k - 1 \in S
    BY <1>1 DEF NullsOf
  <2> HIDE DEF S, T
  <2>3. f \in [S -> T] /\ \A a, b \in S : f[a] = f[b] => a = b
    BY <2>1
  <2>4. \A k \in T : \E a \in S : f[a] = k
    <3> SUFFICES ASSUME NEW k \in T PROVE \E a \in S : f[a] = k
      OBVIOUS
    <3>1. k - 1 \in S /\ f[k - 1] = k
      BY <2>2
    <3> QED  BY <3>1
  <2> HIDE DEF f
  <2>5. f \in Bijection(S, T)
    BY <2>3, <2>4 DEF Bijection, Injection, Surjection, IsInjective
  <2>6. ExistsBijection(S, T)
    BY <2>5 DEF ExistsBijection
  <2>7. IsFiniteSet(S)
    BY <1>2 DEF S
  <2> QED  BY <2>6, <2>7, FS_Bijection
<1>4. CASE Head(q) = nullptr
  <2>1. 1 \in NullsOf(q)
    BY <1>1, <1>4 DEF NullsOf
  <2>2. Cardinality(T) = Cardinality(NullsOf(q)) - 1
    BY <1>2, <2>1, FS_RemoveElement
  <2> QED  BY <1>2, <1>3, <1>4, <2>2
<1>5. CASE Head(q) # nullptr
  <2>1. T = NullsOf(q)
    BY <1>1, <1>5 DEF NullsOf
  <2>2. Cardinality(NullsOf(q)) = Cardinality(NullsOf(Rest(q)))
    <3> HIDE DEF T
    <3> QED  BY <1>3, <2>1
  <2> QED  BY <1>2, <1>5, <2>2
<1> QED  BY <1>4, <1>5

LEMMA EndedFinite == IsFiniteSet(Ended) /\ Cardinality(Ended) \in Nat
<1>1. IsFiniteSet(Workers)
  <2>1. 1 \in Int /\ NumJobs \in Int
    BY ForkAssumption
  <2> QED  BY <2>1, FS_Interval DEF Workers
<1>2. Ended \subseteq Workers
  BY DEF Ended
<1>3. IsFiniteSet(Ended)
  BY <1>1, <1>2, FS_Subset
<1> QED  BY <1>3, FS_CardinalityType

(* While main stops, n counts the nullptrs it has pushed.                  *)
Pushed == Stopping /\ pc # "exit" => Cardinality(Nulls) + Cardinality(Ended) = n

LEMMA PushedStays ==
  ASSUME Pushed, UNCHANGED <<fuzzQ, worker, n>>, pc' # "exit" => Stopping /\ pc # "exit"
  PROVE  Pushed'
<1>1. Nulls' = Nulls /\ Ended' = Ended
  BY DEF Nulls, Ended
<1> QED  BY <1>1 DEF Pushed

LEMMA StepPushed == IInv /\ Pushed /\ [Next]_vars => Pushed'
<1> SUFFICES ASSUME IInv, Pushed, [Next]_vars PROVE Pushed'
  OBVIOUS
<1>1. /\ TypeOK /\ StopOK /\ fuzzQ \in Seq(Slots) /\ n \in Nat
      /\ worker \in [Workers -> [pc : {"unborn", "idle", "run", "done"}, job : Ptr \cup {nullptr}]]
  BY TypeParts DEF IInv, TypeOK
<1>2. Nulls = NullsOf(fuzzQ) /\ Nulls' = NullsOf(fuzzQ')
  BY DEF Nulls, NullsOf
<1>3. Cardinality(Nulls) \in Nat /\ Cardinality(Ended) \in Nat /\ IsFiniteSet(Ended)
  BY <1>1, <1>2, NullsFinite, EndedFinite
<1>4. CASE StartWorker \/ PopFinished \/ Continue
  <2>1. pc' \in {"start", "loop", "check"}
    BY <1>4 DEF StartWorker, PopFinished, Continue
  <2> QED  BY <2>1 DEF Pushed, Stopping
<1>5. CASE MaybeExitGracefully \/ Exit \/ UseAfterFree \/ \E j \in Ptr : MergeExits(j)
  <2>1. pc' = "exit"
    BY <1>5 DEF MaybeExitGracefully, Exit, UseAfterFree, MergeExits
  <2> QED  BY <2>1 DEF Pushed
<1>6. CASE StopAndLeak \/ StopAndMerge
  <2>1. pc = "check" /\ n' = 0 /\ UNCHANGED <<fuzzQ, worker>>
    BY <1>6 DEF StopAndLeak, StopAndMerge
  <2>2. Nulls' = {} /\ Ended' = {}
    BY <1>1, <2>1 DEF StopOK, Stopping, Nulls, Ended
  <2>3. Cardinality({}) = 0
    BY FS_EmptySet
  <2> QED  BY <2>1, <2>2, <2>3 DEF Pushed
<1>7. CASE PushNull
  <2>1. pc = "stop" /\ fuzzQ' = Push(fuzzQ, nullptr) /\ n' = n + 1 /\ worker' = worker
        /\ nullptr \in Slots
    BY <1>7 DEF PushNull, Slots
  <2>2. Cardinality(Nulls') = Cardinality(Nulls) + 1
    BY <1>1, <1>2, <2>1, NullsPush
  <2>3. Ended' = Ended
    BY <2>1 DEF Ended
  <2>4. Cardinality(Nulls) + Cardinality(Ended) = n
    BY <2>1 DEF Pushed, Stopping
  <2>5. Cardinality(Nulls') + Cardinality(Ended') = n'
    BY <1>1, <1>3, <2>1, <2>2, <2>3, <2>4
  <2> QED  BY <2>5 DEF Pushed
<1>8. CASE PushLastNull \/ LastMerge \/ JoinWorkers \/ RemoveTempDir
  <2>1. pc \in {"stop", "lastmerge", "join", "freed"} /\ UNCHANGED <<fuzzQ, worker, n>>
    BY <1>8 DEF PushLastNull, LastMerge, JoinWorkers, RemoveTempDir
  <2> QED  BY <2>1, PushedStays DEF Stopping
<1>9. ASSUME NEW w \in Workers, WorkerPop(w) PROVE Pushed'
  <2>1. /\ worker[w].pc = "idle" /\ fuzzQ # <<>> /\ fuzzQ' = Rest(fuzzQ) /\ UNCHANGED <<pc, n>>
    BY <1>9 DEF WorkerPop
  <2>2. Cardinality(Nulls') \in Nat
        /\ Cardinality(Nulls) = Cardinality(Nulls') + (IF Head(fuzzQ) = nullptr THEN 1 ELSE 0)
    BY <1>1, <1>2, <2>1, NullsRest, NullsFinite, RestFacts
  <2>3. CASE Head(fuzzQ) = nullptr
    <3>1. worker' = [worker EXCEPT ![w].pc = "done"]
      BY <1>9, <2>3 DEF WorkerPop, AfterNull
    <3>2. Ended' = Ended \cup {w} /\ w \notin Ended
      BY <1>1, <2>1, <3>1 DEF Ended
    <3>3. Cardinality(Ended') = Cardinality(Ended) + 1
      BY <1>3, <3>2, FS_AddElement
    <3> QED  BY <1>1, <1>3, <2>1, <2>2, <2>3, <3>3 DEF Pushed, Stopping
  <2>4. CASE Head(fuzzQ) # nullptr
    <3>1. worker' = [worker EXCEPT ![w] = [pc |-> "run", job |-> Head(fuzzQ)]]
      BY <1>9, <2>4 DEF WorkerPop
    <3>2. Ended' = Ended
      BY <1>1, <2>1, <3>1 DEF Ended
    <3> QED  BY <1>1, <1>3, <2>1, <2>2, <2>4, <3>2 DEF Pushed, Stopping
  <2> QED  BY <2>3, <2>4
<1>10. ASSUME NEW w \in Workers, WorkerFinish(w) PROVE Pushed'
  <2>1. /\ worker' = [worker EXCEPT ![w] = [pc |-> "idle", job |-> nullptr]]
        /\ worker[w].pc = "run" /\ UNCHANGED <<pc, fuzzQ, n>>
    BY <1>10 DEF WorkerFinish
  <2>2. Ended' = Ended /\ Nulls' = Nulls /\ Stopping' = Stopping
    BY <1>1, <2>1 DEF Ended, Nulls, Stopping
  <2> QED  BY <2>1, <2>2 DEF Pushed
<1>11. ASSUME NEW j \in Ptr, PushJob(j) PROVE Pushed'
  <2>1. /\ fuzzQ' = Push(fuzzQ, j) /\ UNCHANGED <<pc, n, worker>> /\ j \in Slots /\ j # nullptr
    BY <1>11 DEF PushJob, Slots, Ptr, nullptr
  <2>2. Cardinality(Nulls') = Cardinality(Nulls)
    BY <1>1, <1>2, <1>3, <2>1, NullsPush
  <2>3. Ended' = Ended
    BY <2>1 DEF Ended
  <2> QED  BY <2>1, <2>2, <2>3 DEF Pushed, Stopping
<1>12. CASE \/ Terminated \/ UNCHANGED vars
            \/ \E j \in Ptr : IncrementJobId(j) \/ ReadJobId(j) \/ MakeDirs(j) \/ Merge(j)
  <2>1. UNCHANGED <<pc, fuzzQ, worker, n>>
    BY <1>12 DEF Terminated, vars, IncrementJobId, ReadJobId, MakeDirs, Merge
  <2>2. Nulls' = Nulls /\ Ended' = Ended
    BY <2>1 DEF Nulls, Ended
  <2> QED  BY <2>1, <2>2 DEF Pushed, Stopping
<1> QED
  BY <1>4, <1>5, <1>6, <1>7, <1>8, <1>9, <1>10, <1>11, <1>12 DEF Next, MainStep

(* StopJobs pushes as many nullptrs as there are workers that have not     *)
(* ended: none of them waits for ever for a job, and no nullptr is left to *)
(* end a worker while main goes on (FuzzerFork.cpp, StopJobs and           *)
(* WorkerThread).                                                          *)
THEOREM NullsEnough == Spec => []NullsSuffice
<1>1. Init => Pushed
  BY DEF Init, Pushed, Stopping
<1>2. IInv /\ Pushed => NullsSuffice
  <2> SUFFICES ASSUME IInv, Pushed PROVE NullsSuffice
    OBVIOUS
  <2>1. StopOK /\ n \in Nat /\ NumJobs \in Nat /\ fuzzQ \in Seq(Slots)
    BY TypeParts, ForkAssumption DEF IInv, TypeOK
  <2>2. Cardinality(Nulls) \in Nat /\ Cardinality(Ended) \in Nat
    BY <2>1, NullsFinite, EndedFinite DEF Nulls, NullsOf
  <2> QED  BY <2>1, <2>2 DEF NullsSuffice, Pushed, StopOK
<1> QED  BY <1>1, <1>2, StepPushed, ForkConsistent, PTL DEF Spec
=============================================================================
