------------------------- MODULE WorkerQueueProofs -------------------------
(***************************************************************************)
(* Proofs about WorkerQueue, for any number of jobs, workers, retries and  *)
(* restarts: no slot leaks, no job waits beside an idle worker, a key is   *)
(* completed once, and every step is one that JobLifecycle allows.         *)
(***************************************************************************)
EXTENDS WorkerQueue, FiniteSetTheorems, WellFoundedInduction, TLAPS

\* Every set of numbers has a least one.
LEMMA LeastNumber ==
  ASSUME NEW T, T \subseteq Nat, T # {}
  PROVE  \E n \in T : \A m \in T : n <= m
<1> DEFINE R == OpToRel(<, Nat)
<1>1. IsWellFoundedOn(R, Nat)
  BY NatLessThanWellFounded
<1>2. \A m, n \in Nat : m < n => <<m, n>> \in R
  BY DEF OpToRel
<1> HIDE DEF R
<1>3. PICK n \in T : \A m \in T : ~ (<<m, n>> \in R)
  BY <1>1, WFMin
<1>4. ASSUME NEW m \in T PROVE n <= m
  <2>1. ~ (m < n)
    BY <1>2, <1>3, Zenon
  <2> QED
    BY <2>1
<1> QED
  BY <1>4

\* The sort of processNext has a first element: the oldest of the jobs of the
\* highest priority.
LEMMA FirstInOrder ==
  ASSUME NEW jobs \in [Jobs -> JobType], NEW Q, Q \subseteq Jobs, Q # {}
  PROVE  \E j \in Q : \A k \in Q : j = k \/ Before(j, k, jobs)
<1> DEFINE Ranks == {4 - jobs[j].priority : j \in Q}
<1>1. \A j \in Q : j \in Nat /\ jobs[j].priority \in 0..4
  BY WorkerAssumption DEF Jobs, JobType
<1>2. PICK r \in Ranks : \A s \in Ranks : r <= s
  <2>1. Ranks \subseteq Nat /\ Ranks # {}
    BY <1>1
  <2> HIDE DEF Ranks
  <2> QED
    BY <2>1, LeastNumber
<1> DEFINE Highest == {j \in Q : 4 - jobs[j].priority = r}
<1>3. PICK j \in Highest : \A k \in Highest : j <= k
  <2>1. Highest \subseteq Nat /\ Highest # {}
    BY <1>1
  <2> HIDE DEF Highest
  <2> QED
    BY <2>1, LeastNumber
<1>4. ASSUME NEW k \in Q PROVE j = k \/ Before(j, k, jobs)
  <2>1. r <= 4 - jobs[k].priority
    BY <1>2
  <2>2. jobs[j].priority >= jobs[k].priority
    BY <1>1, <2>1
  <2>3. CASE jobs[j].priority = jobs[k].priority
    <3>1. j <= k
      BY <1>3, <2>3
    <3> QED
      BY <1>1, <2>3, <3>1 DEF Before
  <2> QED
    BY <1>1, <2>2, <2>3 DEF Before
<1> QED
  BY <1>4

LEMMA JobsFinite ==
  ASSUME NEW S, S \subseteq Jobs
  PROVE  IsFiniteSet(S) /\ Cardinality(S) \in Nat
<1>1. IsFiniteSet(Jobs)
  BY FS_Interval, WorkerAssumption DEF Jobs
<1> QED
  BY <1>1, FS_Subset, FS_CardinalityType

\* One pass of processNext awaits at most one handler, and leaves no job with
\* a handler waiting unless it awaits one.
LEMMA AwaitsOne ==
  ASSUME NEW jobs \in [Jobs -> JobType]
  PROVE  /\ Awaited(jobs) = {} => With("QUEUED", jobs) = Thrown(jobs)
         /\ Awaited(jobs) # {} => \E a \in With("QUEUED", jobs) : Awaited(jobs) = {a}
<1> DEFINE Q == {j \in With("QUEUED", jobs) : jobs[j].handled}
<1>1. CASE Q = {}
  BY <1>1 DEF Awaited, Thrown
<1>2. CASE Q # {}
  <2>1. Q \subseteq Jobs
    BY DEF With
  <2>2. PICK a \in Q : \A k \in Q : a = k \/ Before(a, k, jobs)
    <3> HIDE DEF Q
    <3> QED
      BY <1>2, <2>1, FirstInOrder
  <2>3. a \in Awaited(jobs)
    BY <2>2 DEF Awaited
  <2>4. ASSUME NEW b \in Awaited(jobs) PROVE b = a
    <3>1. b = a \/ (Before(a, b, jobs) /\ Before(b, a, jobs))
      BY <2>2, <2>4 DEF Awaited
    <3>2. /\ a \in Nat /\ b \in Nat
          /\ jobs[a].priority \in Nat /\ jobs[b].priority \in Nat
      BY WorkerAssumption DEF Awaited, With, Jobs, JobType
    <3> QED
      BY <3>1, <3>2 DEF Before
  <2> QED
    BY <2>3, <2>4
<1> QED
  BY <1>1, <1>2

-----------------------------------------------------------------------------
(* processNext.                                                            *)

\* A queue of well-typed jobs in which those that wait have a try left.
GoodJobs(jobs) ==
  /\ jobs \in [Jobs -> JobType]
  /\ \A j \in Jobs : jobs[j].status = "QUEUED" => jobs[j].attempts <= MaxRetries

\* A queue as processNext may find it: its workers are counted.
Counted(jobs, active, armed) ==
  /\ GoodJobs(jobs)
  /\ armed \in [Jobs -> Nat]
  /\ active = Cardinality(With("PROCESSING", jobs))
  /\ active <= Limit

\* What a pass does to each job: a waiting one may be taken up or buried.
LEMMA TakenMoves ==
  ASSUME NEW jobs, GoodJobs(jobs), NEW j \in Jobs
  PROVE  /\ Taken(jobs)[j] \in JobType
         /\ Taken(jobs)[j].key = jobs[j].key
         /\ \/ Taken(jobs)[j] = jobs[j]
            \/ /\ jobs[j].status = "QUEUED"
               /\ Taken(jobs)[j].status \in {"PROCESSING", "DEAD_LETTER"}
<1>1. jobs[j] \in JobType /\ (jobs[j].status = "QUEUED" => jobs[j].attempts <= MaxRetries)
  BY DEF GoodJobs
<1>2. j \in Thrown(jobs) \cup Awaited(jobs) => jobs[j].status = "QUEUED"
  BY DEF Thrown, Awaited, With
<1>3. CASE j \in Thrown(jobs)
  <2>1. Taken(jobs)[j] = [jobs[j] EXCEPT !.status = "DEAD_LETTER", !.attempts = MaxRetries + 1]
    BY <1>3 DEF Taken
  <2>2. MaxRetries + 1 \in 0..(MaxRetries + 1) /\ "DEAD_LETTER" \in Statuses
    BY WorkerAssumption DEF Statuses
  <2>3. /\ Taken(jobs)[j] \in JobType
        /\ Taken(jobs)[j].key = jobs[j].key
        /\ Taken(jobs)[j].status = "DEAD_LETTER"
    BY <1>1, <2>1, <2>2 DEF JobType
  <2> QED
    BY <1>2, <1>3, <2>3
<1>4. CASE j \in Awaited(jobs) /\ j \notin Thrown(jobs)
  <2>1. Taken(jobs)[j] = [jobs[j] EXCEPT !.status = "PROCESSING", !.attempts = @ + 1]
    BY <1>4 DEF Taken
  <2>2. jobs[j].attempts + 1 \in 0..(MaxRetries + 1) /\ "PROCESSING" \in Statuses
    BY <1>1, <1>2, <1>4, WorkerAssumption DEF JobType, Statuses
  <2>3. /\ Taken(jobs)[j] \in JobType
        /\ Taken(jobs)[j].key = jobs[j].key
        /\ Taken(jobs)[j].status = "PROCESSING"
    BY <1>1, <2>1, <2>2 DEF JobType
  <2> QED
    BY <1>2, <1>4, <2>3
<1>5. CASE j \notin Awaited(jobs) /\ j \notin Thrown(jobs)
  BY <1>1, <1>5 DEF Taken
<1> QED
  BY <1>3, <1>4, <1>5

LEMMA TakenQueue ==
  ASSUME NEW jobs, GoodJobs(jobs)
  PROVE  /\ GoodJobs(Taken(jobs))
         /\ With("PROCESSING", Taken(jobs)) = With("PROCESSING", jobs) \cup Awaited(jobs)
         /\ With("QUEUED", Taken(jobs)) = With("QUEUED", jobs) \ (Awaited(jobs) \cup Thrown(jobs))
<1>1. GoodJobs(Taken(jobs))
  <2>1. Taken(jobs) \in [Jobs -> JobType]
    BY TakenMoves DEF Taken
  <2> QED
    BY <2>1, TakenMoves DEF GoodJobs
<1>2. ASSUME NEW j \in Jobs
      PROVE  /\ Taken(jobs)[j].status = "PROCESSING"
                <=> jobs[j].status = "PROCESSING" \/ j \in Awaited(jobs)
             /\ Taken(jobs)[j].status = "QUEUED"
                <=> jobs[j].status = "QUEUED" /\ j \notin Awaited(jobs) \cup Thrown(jobs)
  <2>1. jobs[j] \in JobType
    BY DEF GoodJobs
  <2> QED
    BY <2>1 DEF Taken, JobType, Awaited, Thrown, With
<1>3. Awaited(jobs) \subseteq Jobs
  BY DEF Awaited, With
<1> QED
  BY <1>1, <1>2, <1>3 DEF With

LEMMA Pass ==
  ASSUME NEW jobs, NEW active, NEW armed, Counted(jobs, active, armed),
         ProcessNext(jobs, active, armed)
  PROVE  /\ Counted(job', activeWorkers', timers')
         /\ \/ active >= Limit - 1
            \/ \E j \in Jobs : With("QUEUED", jobs) \subseteq {j}
            => NoIdleWorker'
         /\ \A j \in Jobs :
              /\ job'[j].key = jobs[j].key
              /\ \/ job'[j] = jobs[j]
                 \/ /\ jobs[j].status = "QUEUED"
                    /\ job'[j].status \in {"PROCESSING", "DEAD_LETTER"}
<1>0. /\ active \in Nat /\ Limit \in Nat \ {0}
      /\ jobs \in [Jobs -> JobType]
      /\ With("PROCESSING", jobs) \subseteq Jobs
  BY JobsFinite, WorkerAssumption DEF Counted, GoodJobs, With
<1>1. CASE active >= Limit
  <2>1. job' = jobs /\ activeWorkers' = active /\ timers' = armed
    BY <1>1 DEF ProcessNext
  <2>2. activeWorkers' = Limit
    BY <1>0, <1>1, <2>1, WorkerAssumption DEF Counted
  <2> QED
    BY <2>1, <2>2 DEF Counted, NoIdleWorker
<1>2. CASE ~ (active >= Limit)
  <2>1. /\ job' = Taken(jobs)
        /\ activeWorkers' = active + Cardinality(Awaited(jobs))
        /\ timers' = Armed(jobs, armed)
    BY <1>2 DEF ProcessNext
  <2>2. timers' \in [Jobs -> Nat]
    BY <2>1, WorkerAssumption DEF Armed, Counted
  <2>3. CASE Awaited(jobs) = {}
    <3>1. activeWorkers' = active
      BY <1>0, <2>1, <2>3, FS_EmptySet
    <3>2. With("QUEUED", job') = {}
      BY <1>0, <2>1, <2>3, AwaitsOne, TakenQueue DEF Counted
    <3>3. Counted(job', activeWorkers', timers')
      BY <2>1, <2>2, <2>3, <3>1, TakenQueue DEF Counted
    <3> QED
      BY <2>1, <3>2, <3>3, TakenMoves DEF Counted, NoIdleWorker
  <2>4. CASE Awaited(jobs) # {}
    <3>1. PICK a \in With("QUEUED", jobs) : Awaited(jobs) = {a}
      BY <1>0, <2>4, AwaitsOne
    <3>2. activeWorkers' = active + 1
      BY <2>1, <3>1, FS_Singleton
    <3>3. Cardinality(With("PROCESSING", job')) = active + 1
      <4>1. With("PROCESSING", job') = With("PROCESSING", jobs) \cup {a}
        BY <2>1, <3>1, TakenQueue DEF Counted
      <4>2. a \notin With("PROCESSING", jobs)
        BY <3>1 DEF With
      <4>3. IsFiniteSet(With("PROCESSING", jobs))
        BY <1>0, JobsFinite
      <4> QED
        BY <4>1, <4>2, <4>3, FS_AddElement DEF Counted
    <3>4. With("QUEUED", job') \subseteq With("QUEUED", jobs) \ {a}
      BY <2>1, <3>1, TakenQueue DEF Counted
    <3>5. NoIdleWorker' \/ ~ (\/ active >= Limit - 1
                              \/ \E j \in Jobs : With("QUEUED", jobs) \subseteq {j})
      BY <1>0, <1>2, <3>1, <3>2, <3>4 DEF NoIdleWorker
    <3> QED
      BY <1>0, <1>2, <2>1, <2>2, <3>2, <3>3, <3>5, TakenQueue, TakenMoves DEF Counted
  <2> QED
    BY <2>3, <2>4
<1> QED
  BY <1>1, <1>2

-----------------------------------------------------------------------------
(* The inductive invariant.                                                *)

\* Numbers above `created` are not used yet.
Unused(jobs, n) == \A j \in Jobs : j > n => jobs[j] = NoJob

\* A key leads to the only job under it, and completions were counted in
\* earlier lives of the process, and by that job once it is COMPLETED.
KeysCounted(jobs, index, count) ==
  \A k \in Keys :
    /\ \A j \in Jobs : jobs[j].key = k => index[k] = j
    /\ index[k] = 0 => count[k] <= restarts
    /\ index[k] # 0 => count[k] <= restarts
                         + IF jobs[index[k]].status = "COMPLETED" THEN 1 ELSE 0

Inv ==
  /\ TypeOK
  /\ Counted(job, activeWorkers, timers)
  /\ NoIdleWorker
  /\ Unused(job, created)
  /\ KeysCounted(job, idempotencyMap, completions)

LEMMA InvInit == Init => Inv
<1> SUFFICES ASSUME Init PROVE Inv
  OBVIOUS
<1>1. \A j \in Jobs : job[j] = NoJob /\ NoJob \in JobType
  BY WorkerAssumption DEF Init, NoJob, JobType, Statuses
<1>2. With("PROCESSING", job) = {} /\ With("QUEUED", job) = {}
  BY <1>1 DEF With, NoJob
<1>3. Cardinality(With("PROCESSING", job)) = 0
  BY <1>2, FS_EmptySet
<1>4. TypeOK
  BY <1>1, WorkerAssumption DEF Init, TypeOK
<1>5. Counted(job, activeWorkers, timers)
  <2>1. GoodJobs(job)
    BY <1>2, <1>4 DEF GoodJobs, TypeOK, With
  <2> QED
    BY <2>1, <1>3, <1>4, WorkerAssumption DEF Init, Counted, TypeOK
<1>6. NoIdleWorker
  BY <1>2 DEF NoIdleWorker
<1>7. Unused(job, created)
  BY <1>1 DEF Unused
<1>8. KeysCounted(job, idempotencyMap, completions)
  BY <1>1, WorkerAssumption DEF Init, KeysCounted, NoJob
<1> QED
  BY <1>4, <1>5, <1>6, <1>7, <1>8 DEF Inv

\* What every operation that ends in a pass has to show of the queue it
\* hands over.
LEMMA InvPass ==
  ASSUME Inv, NEW jobs, NEW active, NEW armed,
         Counted(jobs, active, armed),
         ProcessNext(jobs, active, armed),
         active >= Limit - 1 \/ \E j \in Jobs : With("QUEUED", jobs) \subseteq {j},
         created' \in 0..MaxJobs,
         idempotencyMap' \in [Keys -> 0..MaxJobs],
         requeues' \in 0..MaxRequeues,
         completions' \in [Keys -> Nat],
         Unused(jobs, created'),
         KeysCounted(jobs, idempotencyMap', completions'),
         UNCHANGED restarts
  PROVE  Inv'
<1>1. /\ Counted(job, activeWorkers, timers)'
      /\ NoIdleWorker'
  BY Pass
<1>2. TypeOK'
  <2>1. activeWorkers' \in 0..Limit
    <3>1. activeWorkers' \in Nat
      BY <1>1, JobsFinite DEF Counted, With
    <3> QED
      BY <1>1, <3>1, WorkerAssumption DEF Counted
  <2> QED
    BY <1>1, <2>1 DEF Inv, TypeOK, Counted, GoodJobs
<1>3. Unused(job, created)'
  <2> SUFFICES ASSUME NEW j \in Jobs, j > created' PROVE job'[j] = NoJob
    BY DEF Unused
  <2>1. jobs[j] = NoJob
    BY DEF Unused
  <2> QED
    BY <2>1, Pass DEF NoJob
<1>4. KeysCounted(job, idempotencyMap, completions)'
  <2> SUFFICES ASSUME NEW k \in Keys
               PROVE  /\ \A j \in Jobs : job'[j].key = k => idempotencyMap'[k] = j
                      /\ idempotencyMap'[k] = 0 => completions'[k] <= restarts'
                      /\ idempotencyMap'[k] # 0 =>
                           completions'[k] <= restarts'
                             + IF job'[idempotencyMap'[k]].status = "COMPLETED" THEN 1 ELSE 0
    BY DEF KeysCounted
  <2>1. \A j \in Jobs : job'[j].key = k => idempotencyMap'[k] = j
    BY Pass DEF KeysCounted
  <2>2. idempotencyMap'[k] = 0 => completions'[k] <= restarts'
    BY DEF KeysCounted
  <2>3. ASSUME idempotencyMap'[k] # 0
        PROVE  completions'[k] <= restarts'
                 + IF job'[idempotencyMap'[k]].status = "COMPLETED" THEN 1 ELSE 0
    <3>1. idempotencyMap'[k] \in Jobs
      BY <2>3, WorkerAssumption DEF Jobs
    <3>2. jobs[idempotencyMap'[k]].status = "COMPLETED"
          <=> job'[idempotencyMap'[k]].status = "COMPLETED"
      BY <3>1, Pass
    <3> QED
      BY <2>3, <3>2 DEF KeysCounted
  <2> QED
    BY <2>1, <2>2, <2>3
<1> QED
  BY <1>1, <1>2, <1>3, <1>4 DEF Inv

\* A job that was not being processed is put in the queue.
LEMMA PutInQueue ==
  ASSUME Inv, NEW j \in Jobs, job[j].status # "PROCESSING", NEW new \in JobType,
         new.status = "QUEUED", new.attempts <= MaxRetries,
         NEW next, next = [job EXCEPT ![j] = new]
  PROVE  /\ Counted(next, activeWorkers, timers)
         /\ \/ activeWorkers >= Limit - 1
            \/ \E i \in Jobs : With("QUEUED", next) \subseteq {i}
<1>1. GoodJobs(job)
  BY DEF Inv, Counted
<1>2. /\ With("PROCESSING", next) = With("PROCESSING", job) \ {j}
      /\ With("QUEUED", next) = With("QUEUED", job) \cup {j}
      /\ GoodJobs(next)
  BY <1>1 DEF GoodJobs, With
<1>3. With("PROCESSING", job) \ {j} = With("PROCESSING", job)
  BY DEF With
<1>4. activeWorkers >= Limit - 1 \/ With("QUEUED", job) = {}
  BY WorkerAssumption DEF Inv, NoIdleWorker
<1> QED
  BY <1>2, <1>3, <1>4 DEF Inv, Counted

\* A job that was being processed settles, and its slot is given back.
LEMMA SlotGivenBack ==
  ASSUME Inv, NEW j \in Jobs, job[j].status = "PROCESSING", NEW new \in JobType,
         new.status # "PROCESSING", new.status = "QUEUED" => new.attempts <= MaxRetries,
         NEW armed \in [Jobs -> Nat],
         NEW next, next = [job EXCEPT ![j] = new]
  PROVE  /\ Counted(next, activeWorkers - 1, armed)
         /\ \/ activeWorkers - 1 >= Limit - 1
            \/ \E i \in Jobs : With("QUEUED", next) \subseteq {i}
<1>1. GoodJobs(job) /\ activeWorkers = Cardinality(With("PROCESSING", job))
  BY DEF Inv, Counted
<1>2. /\ With("PROCESSING", next) = With("PROCESSING", job) \ {j}
      /\ With("QUEUED", next) \subseteq With("QUEUED", job) \cup {j}
      /\ GoodJobs(next)
  BY <1>1 DEF GoodJobs, With
<1>3. j \in With("PROCESSING", job) /\ With("PROCESSING", job) \subseteq Jobs
  BY DEF With
<1>4. Cardinality(With("PROCESSING", job) \ {j}) = activeWorkers - 1
  BY <1>1, <1>3, JobsFinite, FS_RemoveElement
<1>5. activeWorkers >= Limit \/ With("QUEUED", job) = {}
  BY WorkerAssumption DEF Inv, NoIdleWorker
<1>6. activeWorkers \in Nat /\ activeWorkers <= Limit /\ Limit \in Nat
  BY WorkerAssumption DEF Inv, TypeOK
<1>7. Counted(next, activeWorkers - 1, armed)
  <2>1. activeWorkers - 1 = Cardinality(With("PROCESSING", next))
    BY <1>2, <1>4
  <2>2. activeWorkers - 1 <= Limit
    BY <1>6
  <2> QED
    BY <1>2, <2>1, <2>2 DEF Counted
<1>8. CASE activeWorkers >= Limit
  BY <1>6, <1>7, <1>8
<1>9. CASE With("QUEUED", job) = {}
  BY <1>2, <1>7, <1>9
<1> QED
  BY <1>5, <1>8, <1>9

-----------------------------------------------------------------------------
(* The operations.                                                         *)

LEMMA InvEnqueue ==
  ASSUME Inv, NEW p \in Priorities, NEW k \in Keys \cup {NoKey}, NEW h \in BOOLEAN,
         EnqueueJob(p, k, h)
  PROVE  Inv'
<1> DEFINE new  == [status |-> "QUEUED", attempts |-> 0, priority |-> p, key |-> k,
                    handled |-> h]
           next == [job EXCEPT ![created'] = new]
<1>1. /\ created' = created + 1 /\ created' \in Jobs /\ created' \in 0..MaxJobs
      /\ job \in [Jobs -> JobType]
      /\ job[created'] = NoJob
  BY WorkerAssumption DEF EnqueueJob, Inv, TypeOK, Unused, Jobs
<1>2. new \in JobType /\ new.status = "QUEUED" /\ new.attempts <= MaxRetries /\ new.key = k
  BY WorkerAssumption DEF JobType, Statuses
<1>3. ProcessNext(next, activeWorkers, timers) /\ UNCHANGED <<requeues, restarts, completions>>
  BY DEF EnqueueJob
<1>4. job[created'].status # "PROCESSING"
  BY <1>1 DEF NoJob
<1>5. \A j \in Jobs : next[j] = IF j = created' THEN new ELSE job[j]
  BY <1>1
<1>6. Unused(next, created')
  BY <1>1, <1>5 DEF Inv, Unused, TypeOK, Jobs
<1>7. idempotencyMap' \in [Keys -> 0..MaxJobs]
  BY <1>1 DEF EnqueueJob, Inv, TypeOK
<1>8. KeysCounted(next, idempotencyMap', completions')
  <2> SUFFICES ASSUME NEW q \in Keys
               PROVE  /\ \A j \in Jobs : next[j].key = q => idempotencyMap'[q] = j
                      /\ idempotencyMap'[q] = 0 => completions'[q] <= restarts
                      /\ idempotencyMap'[q] # 0 => completions'[q] <= restarts
                           + IF next[idempotencyMap'[q]].status = "COMPLETED" THEN 1 ELSE 0
    BY DEF KeysCounted
  <2>1. idempotencyMap'[q] = IF q = k THEN created' ELSE idempotencyMap[q]
    BY DEF EnqueueJob
  <2>2. q = k => idempotencyMap[q] = 0
    BY DEF EnqueueJob, Hit
  <2>3. /\ \A j \in Jobs : job[j].key = q => idempotencyMap[q] = j
        /\ idempotencyMap[q] = 0 => completions[q] <= restarts
        /\ idempotencyMap[q] # 0 => completions[q] <= restarts
             + IF job[idempotencyMap[q]].status = "COMPLETED" THEN 1 ELSE 0
    BY DEF Inv, KeysCounted
  <2>4. CASE q = k
    <3>1. \A j \in Jobs : next[j].key = q => j = created'
      BY <1>5, <2>2, <2>3, <2>4, WorkerAssumption DEF Jobs
    <3>2. completions'[q] <= restarts /\ idempotencyMap'[q] = created'
      BY <1>3, <2>1, <2>2, <2>3, <2>4
    <3>3. next[created'].status = "QUEUED"
      BY <1>1, <1>2, <1>5
    <3> HIDE DEF next
    <3>4. restarts \in Nat
      BY WorkerAssumption DEF Inv, TypeOK
    <3> QED
      BY <3>1, <3>2, <3>3, <3>4
  <2>5. CASE q # k
    <3>1. idempotencyMap'[q] = idempotencyMap[q]
      BY <2>1, <2>5
    <3>2. \A j \in Jobs : next[j].key = q => job[j].key = q
      BY <1>2, <1>5, <2>5
    <3>3. ASSUME idempotencyMap[q] # 0, job[idempotencyMap[q]].status = "COMPLETED"
          PROVE  next[idempotencyMap[q]].status = "COMPLETED"
      <4>1. idempotencyMap[q] \in Jobs
        BY <3>3, WorkerAssumption DEF Inv, TypeOK, Jobs
      <4>2. idempotencyMap[q] # created'
        BY <1>1, <3>3 DEF NoJob
      <4> QED
        BY <1>5, <3>3, <4>1, <4>2
    <3> HIDE DEF next
    <3>4. restarts \in Nat /\ completions[q] \in Nat
      BY WorkerAssumption DEF Inv, TypeOK
    <3> QED
      BY <1>3, <2>3, <3>1, <3>2, <3>3, <3>4
  <2> QED
    BY <2>4, <2>5
<1>9. /\ Counted(next, activeWorkers, timers)
      /\ activeWorkers >= Limit - 1 \/ \E i \in Jobs : With("QUEUED", next) \subseteq {i}
  <2> HIDE DEF new
  <2> QED
    BY <1>1, <1>2, <1>4, PutInQueue
<1> HIDE DEF next, new
<1>10. requeues' \in 0..MaxRequeues /\ completions' \in [Keys -> Nat]
  BY <1>3 DEF Inv, TypeOK
<1> QED
  BY <1>1, <1>3, <1>6, <1>7, <1>8, <1>9, <1>10, InvPass

\* A job that was not COMPLETED takes another status: its key leads to it as
\* before, and it is counted if the new status is COMPLETED.
LEMMA StatusChange ==
  ASSUME Inv, NEW j \in Jobs, job[j].status \notin {"NONE", "COMPLETED"},
         NEW new \in JobType, new.key = job[j].key,
         NEW next, next = [job EXCEPT ![j] = new],
         NEW count, \A k \in Keys : count[k] =
           completions[k] + IF new.status = "COMPLETED" /\ k = new.key THEN 1 ELSE 0
  PROVE  /\ Unused(next, created)
         /\ KeysCounted(next, idempotencyMap, count)
<1>1. /\ job \in [Jobs -> JobType] /\ created \in Nat
      /\ \A i \in Jobs : next[i] = IF i = j THEN new ELSE job[i]
  BY DEF Inv, TypeOK
<1>2. Unused(next, created)
  <2>1. \A i \in Jobs : i > created => job[i] = NoJob
    BY DEF Inv, Unused
  <2>2. ~ (j > created)
    BY <2>1 DEF NoJob
  <2> QED
    BY <1>1, <2>1, <2>2 DEF Unused
<1>3. ASSUME NEW k \in Keys
      PROVE  /\ \A i \in Jobs : next[i].key = k => idempotencyMap[k] = i
             /\ idempotencyMap[k] = 0 => count[k] <= restarts
             /\ idempotencyMap[k] # 0 => count[k] <= restarts
                  + IF next[idempotencyMap[k]].status = "COMPLETED" THEN 1 ELSE 0
  <2>1. /\ \A i \in Jobs : job[i].key = k => idempotencyMap[k] = i
        /\ idempotencyMap[k] = 0 => completions[k] <= restarts
        /\ idempotencyMap[k] # 0 => completions[k] <= restarts
             + IF job[idempotencyMap[k]].status = "COMPLETED" THEN 1 ELSE 0
    BY DEF Inv, KeysCounted
  <2>2. completions[k] \in Nat /\ restarts \in Nat
    BY WorkerAssumption DEF Inv, TypeOK
  <2>3. \A i \in Jobs : next[i].key = k => idempotencyMap[k] = i
    BY <1>1, <2>1
  <2>4. idempotencyMap[k] \in Nat /\ (idempotencyMap[k] # 0 => idempotencyMap[k] \in Jobs)
    BY WorkerAssumption DEF Inv, TypeOK, Jobs
  <2>5. CASE new.key = k
    <3>1. idempotencyMap[k] = j /\ j # 0
      BY <1>1, <2>3, <2>5, WorkerAssumption DEF Jobs
    <3>2. completions[k] <= restarts
      BY <2>1, <2>2, <3>1
    <3>3. count[k] = completions[k] + IF new.status = "COMPLETED" THEN 1 ELSE 0
      BY <2>5
    <3>4. next[idempotencyMap[k]].status = new.status
      BY <1>1, <3>1
    <3> QED
      BY <2>2, <2>3, <3>1, <3>2, <3>3, <3>4
  <2>6. CASE new.key # k
    <3>1. count[k] = completions[k]
      BY <2>2, <2>6
    <3>2. idempotencyMap[k] # 0 /\ job[idempotencyMap[k]].status = "COMPLETED"
          => next[idempotencyMap[k]].status = "COMPLETED"
      BY <1>1, <2>4
    <3> QED
      BY <2>1, <2>2, <2>3, <3>1, <3>2
  <2> QED
    BY <2>5, <2>6
<1> QED
  BY <1>2, <1>3 DEF KeysCounted

\* The job of a settled handler, or one called back, with a pass after it.
LEMMA InvSettled ==
  ASSUME Inv, NEW j \in Jobs, job[j].status = "PROCESSING",
         NEW new \in JobType, new.key = job[j].key, new.status # "PROCESSING",
         new.status = "QUEUED" => new.attempts <= MaxRetries,
         NEW armed \in [Jobs -> Nat],
         FreeSlot([job EXCEPT ![j] = new], armed),
         completions' = [k \in Keys |->
           completions[k] + IF new.status = "COMPLETED" /\ k = new.key THEN 1 ELSE 0],
         UNCHANGED <<created, idempotencyMap, requeues, restarts>>
  PROVE  Inv'
<1> DEFINE next == [job EXCEPT ![j] = new]
<1>1. ProcessNext(next, activeWorkers - 1, armed)
  BY DEF FreeSlot
<1>2. /\ Counted(next, activeWorkers - 1, armed)
      /\ \/ activeWorkers - 1 >= Limit - 1
         \/ \E i \in Jobs : With("QUEUED", next) \subseteq {i}
  BY SlotGivenBack
<1>3. /\ Unused(next, created)
      /\ KeysCounted(next, idempotencyMap, completions')
  BY StatusChange
<1>4. /\ created' \in 0..MaxJobs /\ requeues' \in 0..MaxRequeues
      /\ idempotencyMap' \in [Keys -> 0..MaxJobs]
      /\ completions' \in [Keys -> Nat]
      /\ created' = created /\ idempotencyMap' = idempotencyMap
  BY DEF Inv, TypeOK
<1> HIDE DEF next
<1> QED
  BY <1>1, <1>2, <1>3, <1>4, InvPass

LEMMA InvHandlerSucceeds ==
  ASSUME Inv, NEW j \in Jobs, HandlerSucceeds(j)
  PROVE  Inv'
<1> DEFINE new == [job[j] EXCEPT !.status = "COMPLETED"]
<1>1. job \in [Jobs -> JobType]
  BY DEF Inv, TypeOK
<1>2. new \in JobType /\ new.key = job[j].key /\ new.status = "COMPLETED"
  BY <1>1 DEF JobType, Statuses
<1>3. FreeSlot([job EXCEPT ![j] = new], timers)
  BY DEF HandlerSucceeds
<1>4. completions' = [k \in Keys |->
        completions[k] + IF new.status = "COMPLETED" /\ k = new.key THEN 1 ELSE 0]
  BY <1>2 DEF HandlerSucceeds
<1>5. timers \in [Jobs -> Nat]
  BY DEF Inv, TypeOK
<1> HIDE DEF new
<1> QED
  BY <1>2, <1>3, <1>4, <1>5, InvSettled DEF HandlerSucceeds

LEMMA InvHandlerFails ==
  ASSUME Inv, NEW j \in Jobs, HandlerFails(j)
  PROVE  Inv'
<1>1. job \in [Jobs -> JobType] /\ timers \in [Jobs -> Nat] /\ completions \in [Keys -> Nat]
  BY DEF Inv, TypeOK
<1>2. CASE Retryable(job[j].attempts)
  <2> DEFINE new == [job[j] EXCEPT !.status = "QUEUED"]
  <2>1. new \in JobType /\ new.key = job[j].key /\ new.status = "QUEUED"
        /\ new.attempts <= MaxRetries
    BY <1>1, <1>2 DEF JobType, Statuses, Retryable
  <2>2. FreeSlot([job EXCEPT ![j] = new], [timers EXCEPT ![j] = @ + 1])
    BY <1>2 DEF HandlerFails
  <2>3. [timers EXCEPT ![j] = @ + 1] \in [Jobs -> Nat]
    BY <1>1
  <2>4. completions' = [k \in Keys |->
          completions[k] + IF new.status = "COMPLETED" /\ k = new.key THEN 1 ELSE 0]
    BY <1>1, <2>1 DEF HandlerFails
  <2> HIDE DEF new
  <2> QED
    BY <2>1, <2>2, <2>3, <2>4, InvSettled DEF HandlerFails
<1>3. CASE ~ Retryable(job[j].attempts)
  <2> DEFINE new == [job[j] EXCEPT !.status = "DEAD_LETTER"]
  <2>1. new \in JobType /\ new.key = job[j].key /\ new.status = "DEAD_LETTER"
    BY <1>1 DEF JobType, Statuses
  <2>2. FreeSlot([job EXCEPT ![j] = new], timers)
    BY <1>3 DEF HandlerFails
  <2>4. completions' = [k \in Keys |->
          completions[k] + IF new.status = "COMPLETED" /\ k = new.key THEN 1 ELSE 0]
    BY <1>1, <2>1 DEF HandlerFails
  <2> HIDE DEF new
  <2> QED
    BY <1>1, <2>1, <2>2, <2>4, InvSettled DEF HandlerFails
<1> QED
  BY <1>2, <1>3

LEMMA InvTimerFires ==
  ASSUME Inv, NEW j \in Jobs, TimerFires(j)
  PROVE  Inv'
<1> DEFINE armed == [timers EXCEPT ![j] = @ - 1]
<1>1. /\ armed \in [Jobs -> Nat]
      /\ ProcessNext(job, activeWorkers, armed)
      /\ UNCHANGED <<created, idempotencyMap, requeues, restarts, completions>>
  BY DEF TimerFires, Inv, TypeOK
<1>2. Counted(job, activeWorkers, armed)
  BY <1>1 DEF Inv, Counted
<1>3. activeWorkers >= Limit - 1 \/ \E i \in Jobs : With("QUEUED", job) \subseteq {i}
  <2>1. activeWorkers = Limit \/ With("QUEUED", job) \subseteq {j}
    BY DEF Inv, NoIdleWorker
  <2> QED
    BY <2>1, WorkerAssumption
<1>4. /\ created' \in 0..MaxJobs /\ requeues' \in 0..MaxRequeues
      /\ idempotencyMap' \in [Keys -> 0..MaxJobs]
      /\ completions' \in [Keys -> Nat]
      /\ Unused(job, created')
      /\ KeysCounted(job, idempotencyMap', completions')
  BY <1>1 DEF Inv, TypeOK, Unused, KeysCounted
<1> HIDE DEF armed
<1> QED
  BY <1>1, <1>2, <1>3, <1>4, InvPass

LEMMA InvRetryDeadLetterJob ==
  ASSUME Inv, NEW j \in Jobs, RetryDeadLetterJob(j)
  PROVE  Inv'
<1> DEFINE new  == [job[j] EXCEPT !.status = "QUEUED", !.attempts = 0]
           next == [job EXCEPT ![j] = new]
<1>1. job \in [Jobs -> JobType] /\ job[j].status = "DEAD_LETTER"
  BY DEF Inv, TypeOK, RetryDeadLetterJob
<1>2. new \in JobType /\ new.key = job[j].key /\ new.status = "QUEUED" /\ new.attempts = 0
  <2>1. 0 \in 0..(MaxRetries + 1)
    BY WorkerAssumption
  <2>2. job[j] \in JobType
    BY <1>1
  <2> QED
    BY <2>1, <2>2 DEF JobType, Statuses
<1>3. /\ ProcessNext([job EXCEPT ![j].status = "QUEUED", ![j].attempts = 0],
                     activeWorkers, timers)
      /\ [job EXCEPT ![j].status = "QUEUED", ![j].attempts = 0] = next
      /\ UNCHANGED <<created, idempotencyMap, restarts, completions>>
  BY <1>1 DEF RetryDeadLetterJob, JobType
<1>4. \A k \in Keys : completions[k] =
        completions[k] + IF new.status = "COMPLETED" /\ k = new.key THEN 1 ELSE 0
  BY <1>2 DEF Inv, TypeOK
<1>5. requeues' \in 0..MaxRequeues
  BY WorkerAssumption DEF RetryDeadLetterJob, Inv, TypeOK
<1> HIDE DEF new
<1>6. /\ Counted(next, activeWorkers, timers)
      /\ activeWorkers >= Limit - 1 \/ \E i \in Jobs : With("QUEUED", next) \subseteq {i}
  <2>1. new.attempts <= MaxRetries
    BY <1>2, WorkerAssumption
  <2> QED
    BY <1>1, <1>2, <2>1, PutInQueue
<1>7. Unused(next, created) /\ KeysCounted(next, idempotencyMap, completions)
  BY <1>1, <1>2, <1>4, StatusChange
<1>8. /\ created' \in 0..MaxJobs /\ idempotencyMap' \in [Keys -> 0..MaxJobs]
      /\ completions' \in [Keys -> Nat]
  BY <1>3 DEF Inv, TypeOK
<1> HIDE DEF next
<1> QED
  BY <1>3, <1>5, <1>6, <1>7, <1>8, InvPass

LEMMA InvRestart ==
  ASSUME Inv, Restart
  PROVE  Inv'
<1>1. \A j \in Jobs : job'[j] = NoJob /\ NoJob \in JobType
  BY WorkerAssumption DEF Restart, NoJob, JobType, Statuses
<1>2. With("PROCESSING", job') = {} /\ With("QUEUED", job') = {}
  BY <1>1 DEF With, NoJob
<1>3. Cardinality(With("PROCESSING", job')) = 0
  BY <1>2, FS_EmptySet
<1>4. TypeOK'
  BY <1>1, WorkerAssumption DEF Restart, Inv, TypeOK
<1>5. Counted(job, activeWorkers, timers)'
  <2>1. GoodJobs(job')
    BY <1>2, <1>4 DEF GoodJobs, TypeOK, With
  <2> QED
    BY <2>1, <1>3, <1>4, WorkerAssumption DEF Restart, Counted, TypeOK
<1>6. NoIdleWorker'
  BY <1>2 DEF NoIdleWorker
<1>7. Unused(job, created)'
  BY <1>1 DEF Unused
<1>8. KeysCounted(job, idempotencyMap, completions)'
  <2>1. \A k \in Keys : completions[k] <= restarts + 1
    BY WorkerAssumption DEF Inv, TypeOK, KeysCounted
  <2> QED
    BY <1>1, <2>1, WorkerAssumption DEF Restart, KeysCounted, NoJob
<1> QED
  BY <1>4, <1>5, <1>6, <1>7, <1>8 DEF Inv

LEMMA InvStep == Inv /\ [Next]_vars => Inv'
<1> SUFFICES ASSUME Inv, [Next]_vars PROVE Inv'
  OBVIOUS
<1>1. CASE Next
  BY <1>1, InvEnqueue, InvHandlerSucceeds, InvHandlerFails, InvTimerFires,
     InvRetryDeadLetterJob, InvRestart DEF Next
<1>2. CASE UNCHANGED vars
  BY <1>2 DEF vars, Inv, TypeOK, Counted, NoIdleWorker, Unused, KeysCounted
<1> QED
  BY <1>1, <1>2

LEMMA AlwaysInv == Spec => []Inv
<1> QED
  BY InvInit, InvStep, PTL DEF Spec, Safety

-----------------------------------------------------------------------------
(* The results.                                                            *)

\* The variables stay well typed, attempts within the retries allowed
\* (worker.service.ts:168, 181).
THEOREM TypeCorrect == Spec => []TypeOK
<1>1. Inv => TypeOK
  BY DEF Inv
<1> QED
  BY <1>1, AlwaysInv, PTL

\* activeWorkers counts the jobs being processed and respects the limit:
\* no slot is leaked or given back twice (lines 166, 203), whatever fails,
\* throws or restarts.
THEOREM SlotsAreCounted == Spec => []SlotsMatchJobs
<1>1. Inv => SlotsMatchJobs
  BY DEF Inv, Counted, SlotsMatchJobs
<1> QED
  BY <1>1, AlwaysInv, PTL

\* No job waits beside an idle worker: the calls of processNext at lines 140,
\* 204 and 232 suffice, and the backoff timer finds nothing to do.
THEOREM NoWorkerIdles == Spec => []NoIdleWorker
<1>1. Inv => NoIdleWorker
  BY DEF Inv
<1> QED
  BY <1>1, AlwaysInv, PTL

\* Under one idempotency key a job is completed once in each life of the
\* process (lines 105-114), however often the request is repeated and the
\* dead job called back.
THEOREM KeysAreCompletedOnce == Spec => []KeyCompletedOnce
<1>1. Inv => KeyCompletedOnce
  <2> SUFFICES ASSUME Inv, NEW k \in Keys PROVE completions[k] <= restarts + 1
    BY DEF KeyCompletedOnce
  <2> QED
    BY WorkerAssumption DEF Inv, TypeOK, KeysCounted
<1> QED
  BY <1>1, AlwaysInv, PTL

-----------------------------------------------------------------------------
(* Steps.  All of them but Restart move one job and hand the queue to a     *)
(* pass of processNext.                                                    *)

Moved(now, new) ==
  <<now.status, new.status>> \in
    { <<"NONE", "QUEUED">>, <<"PROCESSING", "COMPLETED">>, <<"PROCESSING", "QUEUED">>,
      <<"PROCESSING", "DEAD_LETTER">>, <<"DEAD_LETTER", "QUEUED">> }

HandsOver(jobs, active, armed) ==
  /\ Counted(jobs, active, armed)
  /\ ProcessNext(jobs, active, armed)
  /\ \A i \in Jobs : jobs[i] = job[i] \/ Moved(job[i], jobs[i])

LEMMA HandedOver ==
  ASSUME Inv, Next
  PROVE  Restart \/ \E jobs, active, armed : HandsOver(jobs, active, armed)
<1>0. job \in [Jobs -> JobType] /\ timers \in [Jobs -> Nat]
  BY DEF Inv, TypeOK
<1>1. ASSUME NEW p \in Priorities, NEW q \in Keys \cup {NoKey}, NEW h \in BOOLEAN,
             EnqueueJob(p, q, h)
      PROVE  \E jobs, active, armed : HandsOver(jobs, active, armed)
  <2> DEFINE new  == [status |-> "QUEUED", attempts |-> 0, priority |-> p, key |-> q,
                      handled |-> h]
             next == [job EXCEPT ![created'] = new]
  <2>1. created' \in Jobs /\ job[created'] = NoJob
    BY <1>1, WorkerAssumption DEF EnqueueJob, Inv, TypeOK, Unused, Jobs
  <2>2. new \in JobType /\ new.status = "QUEUED" /\ new.attempts <= MaxRetries
    BY WorkerAssumption DEF JobType, Statuses
  <2>3. ProcessNext(next, activeWorkers, timers)
    BY <1>1 DEF EnqueueJob
  <2> HIDE DEF new
  <2>4. \A i \in Jobs : next[i] = job[i] \/ Moved(job[i], next[i])
    BY <1>0, <2>1, <2>2 DEF Moved, NoJob
  <2>5. Counted(next, activeWorkers, timers)
    BY <2>1, <2>2, PutInQueue DEF NoJob
  <2> HIDE DEF next
  <2> QED
    BY <2>3, <2>4, <2>5 DEF HandsOver
<1>2. ASSUME NEW j \in Jobs, job[j].status = "PROCESSING",
             NEW s \in {"COMPLETED", "QUEUED", "DEAD_LETTER"}, NEW armed \in [Jobs -> Nat],
             s = "QUEUED" => job[j].attempts <= MaxRetries,
             FreeSlot([job EXCEPT ![j].status = s], armed)
      PROVE  \E jobs, active, timer : HandsOver(jobs, active, timer)
  <2> DEFINE new  == [job[j] EXCEPT !.status = s]
             next == [job EXCEPT ![j] = new]
  <2>1. new \in JobType /\ new.status = s /\ new.attempts = job[j].attempts
    BY <1>0 DEF JobType, Statuses
  <2>2. ProcessNext(next, activeWorkers - 1, armed)
    BY <1>2 DEF FreeSlot
  <2> HIDE DEF new
  <2>3. \A i \in Jobs : next[i] = job[i] \/ Moved(job[i], next[i])
    BY <1>0, <1>2, <2>1 DEF Moved
  <2>4. Counted(next, activeWorkers - 1, armed)
    BY <1>2, <2>1, SlotGivenBack
  <2> HIDE DEF next
  <2> QED
    BY <2>2, <2>3, <2>4 DEF HandsOver
<1>3. ASSUME NEW j \in Jobs, HandlerSucceeds(j)
      PROVE  \E jobs, active, armed : HandsOver(jobs, active, armed)
  BY <1>0, <1>2, <1>3 DEF HandlerSucceeds
<1>4. ASSUME NEW j \in Jobs, HandlerFails(j)
      PROVE  \E jobs, active, armed : HandsOver(jobs, active, armed)
  <2>1. [timers EXCEPT ![j] = @ + 1] \in [Jobs -> Nat]
    BY <1>0
  <2> QED
    BY <1>0, <1>2, <1>4, <2>1 DEF HandlerFails, Retryable
<1>5. ASSUME NEW j \in Jobs, TimerFires(j)
      PROVE  \E jobs, active, armed : HandsOver(jobs, active, armed)
  <2> DEFINE armed == [timers EXCEPT ![j] = @ - 1]
  <2>1. armed \in [Jobs -> Nat] /\ ProcessNext(job, activeWorkers, armed)
    BY <1>0, <1>5 DEF TimerFires
  <2> HIDE DEF armed
  <2>2. Counted(job, activeWorkers, armed)
    BY <2>1 DEF Inv, Counted
  <2> QED
    BY <2>1, <2>2 DEF HandsOver
<1>6. ASSUME NEW j \in Jobs, RetryDeadLetterJob(j)
      PROVE  \E jobs, active, armed : HandsOver(jobs, active, armed)
  <2> DEFINE new  == [job[j] EXCEPT !.status = "QUEUED", !.attempts = 0]
             next == [job EXCEPT ![j] = new]
  <2>1. job[j].status = "DEAD_LETTER" /\ job[j] \in JobType
    BY <1>0, <1>6 DEF RetryDeadLetterJob
  <2>2. new \in JobType /\ new.status = "QUEUED" /\ new.attempts <= MaxRetries
    <3>1. 0 \in 0..(MaxRetries + 1) /\ 0 <= MaxRetries
      BY WorkerAssumption
    <3> QED
      BY <2>1, <3>1 DEF JobType, Statuses
  <2>3. ProcessNext(next, activeWorkers, timers)
    BY <1>0, <1>6 DEF RetryDeadLetterJob, JobType
  <2> HIDE DEF new
  <2>4. \A i \in Jobs : next[i] = job[i] \/ Moved(job[i], next[i])
    BY <1>0, <2>1, <2>2 DEF Moved
  <2>5. job[j].status # "PROCESSING"
    BY <2>1
  <2>6. Counted(next, activeWorkers, timers)
    BY <2>2, <2>5, PutInQueue
  <2> HIDE DEF next
  <2> QED
    BY <2>3, <2>4, <2>6 DEF HandsOver
<1> QED
  BY <1>1, <1>3, <1>4, <1>5, <1>6 DEF Next

\* What a pass takes up goes before all it leaves behind.
LEMMA PassInOrder ==
  ASSUME NEW jobs, NEW active, NEW armed, Counted(jobs, active, armed),
         ProcessNext(jobs, active, armed),
         NEW j \in Jobs, NEW k \in Jobs,
         jobs[j].status # "PROCESSING",
         job'[j].status = "PROCESSING", job'[k].status = "QUEUED"
  PROVE  Before(j, k, jobs) /\ job'[j].priority = jobs[j].priority
                            /\ job'[k].priority = jobs[k].priority
<1>1. job' = Taken(jobs)
  BY DEF ProcessNext
<1>2. GoodJobs(jobs) /\ jobs \in [Jobs -> JobType]
  BY DEF Counted, GoodJobs
<1>3. j \in With("PROCESSING", job') /\ k \in With("QUEUED", job')
  BY DEF With
<1>4. j \in Awaited(jobs) /\ k \in With("QUEUED", jobs) \ (Awaited(jobs) \cup Thrown(jobs))
  <2>1. j \notin With("PROCESSING", jobs)
    BY DEF With
  <2> QED
    BY <1>1, <1>2, <1>3, <2>1, TakenQueue
<1>5. \A a \in Jobs : a \in Nat /\ jobs[a].priority \in Nat
  BY <1>2, WorkerAssumption DEF Jobs, JobType
<1>6. Before(j, k, jobs)
  <2>1. CASE jobs[k].handled
    BY <1>4, <2>1 DEF Awaited
  <2>2. CASE ~ jobs[k].handled
    <3>1. PICK h \in With("QUEUED", jobs) : jobs[h].handled /\ ~ Before(k, h, jobs)
      BY <1>4, <2>2 DEF Thrown
    <3>2. j = h \/ Before(j, h, jobs)
      BY <1>4, <3>1 DEF Awaited
    <3>3. h # k /\ h \in Jobs
      BY <2>2, <3>1 DEF With
    <3>4. Before(h, k, jobs)
      BY <1>5, <3>1, <3>3 DEF Before
    <3> QED
      BY <1>5, <3>2, <3>3, <3>4 DEF Before
  <2> QED
    BY <2>1, <2>2
<1>7. /\ job'[j].priority = jobs[j].priority
      /\ job'[k].priority = jobs[k].priority
  <2>1. jobs[j] \in JobType /\ jobs[k] \in JobType
    BY <1>2
  <2>2. j \notin Thrown(jobs)
    BY <1>4 DEF Awaited, Thrown
  <2>3. job'[j] = [jobs[j] EXCEPT !.status = "PROCESSING", !.attempts = @ + 1]
    BY <1>1, <1>4, <2>2 DEF Taken
  <2>4. job'[k] = jobs[k]
    BY <1>1, <1>4 DEF Taken
  <2> QED
    BY <2>1, <2>3, <2>4 DEF JobType
<1> QED
  BY <1>6, <1>7

\* Jobs are served by priority and, within one, by age (lines 158-160): none
\* is taken up while one that goes before it stays in the queue.
THEOREM InOrder == Spec => ServedInOrder
<1> DEFINE Goal(j, k) ==
      (/\ job'[j].status = "PROCESSING" /\ job'[j].attempts # job[j].attempts
       /\ job'[k].status = "QUEUED")
      => \/ job'[j].priority > job'[k].priority
         \/ job'[j].priority = job'[k].priority /\ j < k
<1>1. ASSUME Inv, Next, NEW j \in Jobs, NEW k \in Jobs PROVE Goal(j, k)
  <2>1. CASE Restart
    BY <2>1 DEF Restart, NoJob
  <2>2. ASSUME NEW jobs, NEW active, NEW armed, HandsOver(jobs, active, armed)
        PROVE  Goal(j, k)
    <3>1. Counted(jobs, active, armed) /\ ProcessNext(jobs, active, armed)
      BY <2>2 DEF HandsOver
    <3>2. CASE jobs[j].status = "PROCESSING"
      <4>1. jobs[j] = job[j]
        BY <2>2, <3>2 DEF HandsOver, Moved
      <4>2. job'[j] = jobs[j]
        BY <3>1, <3>2, Pass
      <4> QED
        BY <4>1, <4>2
    <3>3. CASE jobs[j].status # "PROCESSING"
      BY <3>1, <3>3, PassInOrder DEF Before
    <3> QED
      BY <3>2, <3>3
  <2> HIDE DEF Goal
  <2> QED
    BY <1>1, <2>1, <2>2, HandedOver
<1>2. Inv /\ [Next]_vars => [\A j, k \in Jobs : Goal(j, k)]_vars
  BY <1>1
<1> QED
  BY <1>2, AlwaysInv, PTL DEF Spec, Safety, ServedInOrder

\* Every step of the queue is one that JobLifecycle allows, or changes no
\* job's phase: the safety part of KeepsPromise.  (That every job ends is
\* checked by TLC.)
THEOREM StepsKeepPromise ==
  Spec => Lifecycle!Init /\ [][Lifecycle!Next]_Phase
<1>1. Init => Lifecycle!Init
  BY DEF Init, Lifecycle!Init, Phase, PhaseOf, NoJob
<1>2. ASSUME Inv, Inv', Next PROVE Lifecycle!Next
  <2>1. CASE Restart
    <3>1. Lifecycle!Restart
      BY <2>1 DEF Restart, NoJob, Lifecycle!Restart, Phase, PhaseOf
    <3> QED
      BY <3>1 DEF Lifecycle!Next
  <2>2. ASSUME NEW jobs, NEW active, NEW armed, HandsOver(jobs, active, armed)
        PROVE  Lifecycle!Next
    <3>1. /\ job \in [Jobs -> JobType] /\ job' \in [Jobs -> JobType]
          /\ jobs \in [Jobs -> JobType]
      BY <1>2, <2>2 DEF Inv, TypeOK, HandsOver, Counted, GoodJobs
    <3>2. Phase' \in [Jobs -> Lifecycle!Phases]
      BY <3>1 DEF Phase, PhaseOf, JobType, Statuses, Lifecycle!Phases
    <3>3. ASSUME NEW j \in Jobs, Phase'[j] # Phase[j]
          PROVE  <<Phase[j], Phase'[j]>> \in Lifecycle!Edges
      <4>1. /\ job[j].status \in Statuses
            /\ Phase[j] = PhaseOf[job[j].status] /\ Phase'[j] = PhaseOf[job'[j].status]
        BY <3>1 DEF Phase, JobType
      <4>2. jobs[j].status = job[j].status \/ Moved(job[j], jobs[j])
        BY <2>2 DEF HandsOver
      <4>3. \/ job'[j].status = jobs[j].status
            \/ /\ jobs[j].status = "QUEUED"
               /\ job'[j].status \in {"PROCESSING", "DEAD_LETTER"}
        BY <2>2, Pass DEF HandsOver
      <4> QED
        BY <3>3, <4>1, <4>2, <4>3 DEF Moved, PhaseOf, Statuses, Lifecycle!Edges
    <3>4. {j \in Jobs : Phase'[j] = "running"} = With("PROCESSING", job')
      BY <3>1 DEF Phase, PhaseOf, JobType, Statuses, With
    <3>5. Lifecycle!Cardinality({j \in Jobs : Phase'[j] = "running"}) <= Limit
      <4>1. Lifecycle!Cardinality(With("PROCESSING", job')) = Cardinality(With("PROCESSING", job'))
        BY Zenon DEF Lifecycle!Cardinality, Cardinality
      <4> QED
        BY <1>2, <3>4, <4>1 DEF Inv, Counted
    <3> QED
      BY <3>2, <3>3, <3>5 DEF Lifecycle!Next, Lifecycle!Work
  <2> QED
    BY <1>2, <2>1, <2>2, HandedOver
<1>3. UNCHANGED vars => UNCHANGED Phase
  BY DEF vars, Phase
<1> QED
  BY <1>1, <1>2, <1>3, AlwaysInv, PTL DEF Spec, Safety
=============================================================================
