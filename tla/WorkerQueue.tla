---------------------------- MODULE WorkerQueue ----------------------------
(***************************************************************************)
(* The in-memory job queue of worker.service.ts: jobs of four priorities,  *)
(* an idempotency index, a bounded number of handlers awaited at a time,   *)
(* retries with a backoff timer, and a dead-letter list that an operator   *)
(* can requeue from.                                                       *)
(*                                                                         *)
(* JavaScript runs each stretch between two awaits alone, so a step is:    *)
(* an enqueue with the processNext it calls, the settling of one handler   *)
(* with everything up to the next await, or a timer.  Jobs are numbered in *)
(* the order of creation, which is the order of createdAt and, for equal   *)
(* ones, of the Map the queue is.  A job of a type without a handler       *)
(* (the route accepts any string) throws before any await.                 *)
(***************************************************************************)
EXTENDS Integers, FiniteSets, FiniteSetsExt

CONSTANTS
  MaxJobs,     \* bound on the jobs created
  Keys,        \* idempotency keys clients use
  NoKey,       \* no idempotency key
  Priorities,  \* weights of the priorities (priorityWeight), a higher one first
  Limit,       \* concurrencyLimit
  MaxRetries,  \* maxRetries of every job: the route leaves the default
  MaxRequeues, \* bound on the requeues from the dead-letter list
  MaxRestarts  \* bound on the restarts of the process

ASSUME WorkerAssumption ==
  /\ MaxJobs \in Nat
  /\ NoKey \notin Keys
  /\ Priorities \subseteq 1..4
  /\ Limit \in Nat \ {0}
  /\ MaxRetries \in Nat
  /\ MaxRequeues \in Nat
  /\ MaxRestarts \in Nat

VARIABLES
  created,        \* jobs created, also those a restart has forgotten
  job,            \* [1..MaxJobs -> the job of that number]
  idempotencyMap, \* [Keys -> the job created under the key, or 0]
  activeWorkers,
  timers,         \* [1..MaxJobs -> backoff timers armed for the job]
  requeues,
  restarts,
  completions     \* [Keys -> times a job under the key was COMPLETED]

vars == <<created, job, idempotencyMap, activeWorkers, timers, requeues, restarts,
          completions>>

Jobs == 1..MaxJobs
Statuses == {"NONE", "QUEUED", "PROCESSING", "COMPLETED", "DEAD_LETTER"}

NoJob == [status |-> "NONE", attempts |-> 0, priority |-> 0, key |-> NoKey,
          handled |-> TRUE]

With(status, jobs) == {j \in Jobs : jobs[j].status = status}

-----------------------------------------------------------------------------
(* processNext.                                                            *)

\* Plausible bug: the queue is served by age alone.
BeforeByAge(j, k, jobs) == j < k

\* Higher priority first, then the older job.
Before(j, k, jobs) ==
  \/ jobs[j].priority > jobs[k].priority
  \/ jobs[j].priority = jobs[k].priority /\ j < k

\* The handlers that throw before an await leave their slot within the same
\* step, and are picked again until their retries are used up: all of those
\* that come before the first job with a handler end in the dead-letter list.
Thrown(jobs) ==
  {j \in With("QUEUED", jobs) :
     /\ ~jobs[j].handled
     /\ \A k \in With("QUEUED", jobs) : jobs[k].handled => Before(j, k, jobs)}

\* The job whose handler is called and awaited: at most one.
Awaited(jobs) ==
  {j \in With("QUEUED", jobs) :
     /\ jobs[j].handled
     /\ \A k \in With("QUEUED", jobs) :
          jobs[k].handled => j = k \/ Before(j, k, jobs)}

\* What processNext leaves of the queue `jobs` when a worker is free.
Taken(jobs) ==
  LET thrown  == Thrown(jobs)
      awaited == Awaited(jobs)
  IN  [j \in Jobs |->
         IF j \in thrown
           THEN [jobs[j] EXCEPT !.status = "DEAD_LETTER", !.attempts = MaxRetries + 1]
         ELSE IF j \in awaited
           THEN [jobs[j] EXCEPT !.status = "PROCESSING", !.attempts = @ + 1]
         ELSE jobs[j]]

\* The timers a pass over `jobs` arms: one for each retry of a job that threw.
Armed(jobs, armed) ==
  LET thrown == Thrown(jobs)
  IN  [j \in Jobs |-> armed[j] + IF j \in thrown THEN MaxRetries ELSE 0]

\* Plausible bug: a job without a handler keeps the slot it was given.
ProcessNextLeakingSlot(jobs, active, armed) ==
  IF active >= Limit
  THEN /\ job' = jobs
       /\ activeWorkers' = active
       /\ timers' = armed
  ELSE /\ job' = Taken(jobs)
       /\ activeWorkers' = active + Cardinality(Awaited(jobs) \cup Thrown(jobs))
       /\ timers' = Armed(jobs, armed)

\* processNext on the queue `jobs`, with `active` workers counted and the
\* timers `armed` so far.
ProcessNext(jobs, active, armed) ==
  IF active >= Limit
  THEN /\ job' = jobs
       /\ activeWorkers' = active
       /\ timers' = armed
  ELSE /\ job' = Taken(jobs)
       /\ activeWorkers' = active + Cardinality(Awaited(jobs))
       /\ timers' = Armed(jobs, armed)

-----------------------------------------------------------------------------
(* The operations.                                                         *)

Init ==
  /\ created = 0
  /\ job = [j \in Jobs |-> NoJob]
  /\ idempotencyMap = [k \in Keys |-> 0]
  /\ activeWorkers = 0
  /\ timers = [j \in Jobs |-> 0]
  /\ requeues = 0
  /\ restarts = 0
  /\ completions = [k \in Keys |-> 0]

\* Plausible bug: the index is consulted for unfinished jobs only.
HitWhilePending(key) ==
  key \in Keys /\ idempotencyMap[key] # 0 /\
    job[idempotencyMap[key]].status \notin {"COMPLETED", "DEAD_LETTER"}

\* The job under this key is returned as it is, even a dead one.
Hit(key) == key \in Keys /\ idempotencyMap[key] # 0

\* enqueueJob: a hit changes nothing, so only a miss is a step.
EnqueueJob(priority, key, handled) ==
  /\ ~Hit(key)
  /\ created < MaxJobs
  /\ created' = created + 1
  /\ idempotencyMap' = [k \in Keys |-> IF k = key THEN created' ELSE idempotencyMap[k]]
  /\ ProcessNext([job EXCEPT ![created'] = [status |-> "QUEUED", attempts |-> 0,
                     priority |-> priority, key |-> key, handled |-> handled]],
                 activeWorkers, timers)
  /\ UNCHANGED <<requeues, restarts, completions>>

\* Plausible bug: the slot of a handler that settled is not filled again.
FreeSlotOnly(jobs, armed) ==
  /\ job' = jobs
  /\ activeWorkers' = activeWorkers - 1
  /\ timers' = armed

\* The finally block: the slot is given back, and taken at once by the next.
FreeSlot(jobs, armed) == ProcessNext(jobs, activeWorkers - 1, armed)

\* A handler's promise is fulfilled.
HandlerSucceeds(j) ==
  /\ job[j].status = "PROCESSING"
  /\ FreeSlot([job EXCEPT ![j].status = "COMPLETED"], timers)
  /\ completions' = [k \in Keys |->
                       completions[k] + IF k = job[j].key THEN 1 ELSE 0]
  /\ UNCHANGED <<created, idempotencyMap, requeues, restarts>>

\* Plausible bug: every failure is retried, so none ever ends as dead.
RetryableForever(attempts) == TRUE

Retryable(attempts) == attempts <= MaxRetries

\* A handler's promise is rejected: requeued with a timer, or dead.
HandlerFails(j) ==
  /\ job[j].status = "PROCESSING"
  /\ IF Retryable(job[j].attempts)
     THEN FreeSlot([job EXCEPT ![j].status = "QUEUED"], [timers EXCEPT ![j] = @ + 1])
     ELSE FreeSlot([job EXCEPT ![j].status = "DEAD_LETTER"], timers)
  /\ UNCHANGED <<created, idempotencyMap, requeues, restarts, completions>>

\* A backoff timer calls processNext.
TimerFires(j) ==
  /\ timers[j] > 0
  /\ ProcessNext(job, activeWorkers, [timers EXCEPT ![j] = @ - 1])
  /\ UNCHANGED <<created, idempotencyMap, requeues, restarts, completions>>

RetryDeadLetterJob(j) ==
  /\ job[j].status = "DEAD_LETTER"
  /\ requeues < MaxRequeues
  /\ requeues' = requeues + 1
  /\ ProcessNext([job EXCEPT ![j].status = "QUEUED", ![j].attempts = 0],
                 activeWorkers, timers)
  /\ UNCHANGED <<created, idempotencyMap, restarts, completions>>

\* The process restarts: its Maps, its timers and its handlers are gone.
Restart ==
  /\ restarts < MaxRestarts
  /\ restarts' = restarts + 1
  /\ job' = [j \in Jobs |-> NoJob]
  /\ idempotencyMap' = [k \in Keys |-> 0]
  /\ activeWorkers' = 0
  /\ timers' = [j \in Jobs |-> 0]
  /\ UNCHANGED <<created, requeues, completions>>

HandlerSettles(j) == HandlerSucceeds(j) \/ HandlerFails(j)

Next ==
  \/ \E p \in Priorities, k \in Keys \cup {NoKey}, h \in BOOLEAN : EnqueueJob(p, k, h)
  \/ \E j \in Jobs : HandlerSucceeds(j)
  \/ \E j \in Jobs : HandlerFails(j)
  \/ \E j \in Jobs : TimerFires(j)
  \/ \E j \in Jobs : RetryDeadLetterJob(j)
  \/ Restart

\* Handlers are local async functions whose database calls are caught: each
\* settles, one way or the other.  Nothing is assumed of clients or timers.
Fairness == \A j \in Jobs : WF_vars(HandlerSettles(j))

Safety == Init /\ [][Next]_vars

Spec == Safety /\ Fairness

-----------------------------------------------------------------------------
(* Properties.                                                             *)

JobType == [status : Statuses, attempts : 0..(MaxRetries + 1),
            priority : 0..4, key : Keys \cup {NoKey}, handled : BOOLEAN]

\* Types.  attempts is what the metrics and the retry decision rest on: it
\* never exceeds the first try and MaxRetries more (worker.service.ts:168).
TypeOK ==
  /\ created \in 0..MaxJobs
  /\ job \in [Jobs -> JobType]
  /\ idempotencyMap \in [Keys -> 0..MaxJobs]
  /\ activeWorkers \in 0..Limit
  /\ timers \in [Jobs -> Nat]
  /\ requeues \in 0..MaxRequeues
  /\ restarts \in 0..MaxRestarts
  /\ completions \in [Keys -> Nat]

\* The counter of workers is the number of jobs being processed, through
\* failures, retries, unknown types and restarts, and never over the limit:
\* a slot is neither leaked nor given back twice (lines 166 and 203).
SlotsMatchJobs ==
  /\ activeWorkers = Cardinality(With("PROCESSING", job))
  /\ activeWorkers <= Limit

\* No job waits beside an idle worker, whether or not a timer is still to
\* come: each of enqueue, requeue and the finally block fills the slot there
\* is.  This is why the queue needs no polling loop.
NoIdleWorker == With("QUEUED", job) # {} => activeWorkers = Limit

\* A client that repeats a request with its idempotency key has it completed
\* at most once, and once more only for each restart, which forgets the index
\* (lines 105-114).
KeyCompletedOnce == \A k \in Keys : completions[k] <= restarts + 1

\* The queue is served in order: when a job is taken up, none that stays
\* behind goes before it.  A retried job keeps its place by creation, and so
\* goes ahead of younger ones of its priority.
ServedInOrder ==
  [][\A j, k \in Jobs :
        (/\ job'[j].status = "PROCESSING" /\ job'[j].attempts # job[j].attempts
         /\ job'[k].status = "QUEUED")
        => \/ job'[j].priority > job'[k].priority
           \/ job'[j].priority = job'[k].priority /\ j < k]_vars

PhaseOf == [NONE |-> "none", QUEUED |-> "waiting", PROCESSING |-> "running",
            COMPLETED |-> "done", DEAD_LETTER |-> "failed"]

\* The queue keeps the promise of JobLifecycle: jobs move along its edges,
\* and every accepted job ends as completed or dead unless a restart forgets
\* it, however often it fails and whatever is enqueued before it.
Phase == [j \in Jobs |-> PhaseOf[job[j].status]]
Lifecycle == INSTANCE JobLifecycle WITH phase <- Phase
KeepsPromise == Lifecycle!Spec
=============================================================================
