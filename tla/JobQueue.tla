------------------------------- MODULE JobQueue -------------------------------
(***************************************************************************)
(* The actor-style job queues of JobQueue.cpp with the global queue of     *)
(* GlobalQueue.cpp, one action per access to state that threads share.     *)
(* Every LockQueue operation is one action: it runs under the queue's      *)
(* write lock (RWSpinLock).                                                *)
(***************************************************************************)
EXTENDS Integers, Sequences, FiniteSets

CONSTANTS
    Threads,    \* threads that push jobs and drain the global queue
    Queues,     \* the JobQueue objects
    Jobs,       \* the jobs that are pushed, each at most once
    NoQueue,    \* LCurrentJobQueue == nullptr
    NoJob,      \* no job is running
    AllowClear, \* ClearJobs may be called
    TimeLeft    \* the values of GetTickCount64() < LEndTickCount: {FALSE} while
                \* nobody assigns LEndTickCount, as in this repository (CoreTLS.cpp:5)

ASSUME SetsAssumption ==
    /\ IsFiniteSet(Threads)
    /\ NoQueue \notin Queues
    /\ NoJob \notin Jobs
    /\ AllowClear \in BOOLEAN
    /\ TimeLeft \subseteq BOOLEAN

VARIABLES
    jobs,      \* jobs[q]: _jobs
    jobCount,  \* jobCount[q]: _jobCount
    global,    \* GGlobalQueue
    push,      \* push[t]: the JobQueue::Push that t is inside of
    at,        \* at[t]: where t is in JobQueue::Execute
    cur,       \* cur[t]: LCurrentJobQueue
    batch,     \* batch[t]: the jobs of Execute's local vector still to run
    size,      \* size[t]: Execute's local jobCount
    fresh,     \* jobs nobody has pushed yet
    forgotten  \* history: the jobs ClearJobs has thrown away

vars == <<jobs, jobCount, global, push, at, cur, batch, size, fresh, forgotten>>

NoPush == [at |-> "no"]
PushState == [at : {"counted", "queued"}, queue : Queues, job : Jobs,
              first : BOOLEAN, only : BOOLEAN]

TypeOK ==
    /\ jobs \in [Queues -> Seq(Jobs)]
    /\ jobCount \in [Queues -> Int]
    /\ global \in Seq(Queues)
    /\ push \in [Threads -> {NoPush} \union PushState]
    /\ at \in [Threads -> {"out", "pop", "run", "body", "more"}]
    /\ cur \in [Threads -> Queues \union {NoQueue}]
    /\ batch \in [Threads -> Seq(Jobs)]
    /\ size \in [Threads -> Nat]
    /\ fresh \in SUBSET Jobs
    /\ forgotten \in SUBSET Jobs

\* t may call into the queues: it runs no job queue, or it is inside a job.
Free(t) == push[t] = NoPush /\ at[t] \in {"out", "body"}

-------------------------------------------------------------------------------
(* JobQueue::Push *)

\* Mutant of CountJob: the first job is told by an empty queue.
CountJobByQueue(t, q, j, only) ==
    /\ jobCount' = [jobCount EXCEPT ![q] = @ + 1]
    /\ push' = [push EXCEPT ![t] = [at |-> "counted", queue |-> q, job |-> j,
                                    first |-> jobs[q] = <<>>, only |-> only]]

\* prevCount = _jobCount.fetch_add(1).
CountJob(t, q, j, only) ==
    /\ jobCount' = [jobCount EXCEPT ![q] = @ + 1]
    /\ push' = [push EXCEPT ![t] = [at |-> "counted", queue |-> q, job |-> j,
                                    first |-> jobCount[q] = 0, only |-> only]]

\* A thread calls Push with a new job.
PushCount(t, q, j, only) ==
    /\ Free(t)
    /\ j \in fresh
    /\ fresh' = fresh \ {j}
    /\ CountJob(t, q, j, only)
    /\ UNCHANGED <<jobs, global, at, cur, batch, size, forgotten>>

\* _jobs.Push(job).
PushJob(t) ==
    /\ push[t].at = "counted"
    /\ jobs' = [jobs EXCEPT ![push[t].queue] = Append(@, push[t].job)]
    /\ push' = [push EXCEPT ![t].at = "queued"]
    /\ UNCHANGED <<jobCount, global, at, cur, batch, size, fresh, forgotten>>

\* t enters Execute of q: LCurrentJobQueue = this.
Enter(t, q) ==
    /\ cur' = [cur EXCEPT ![t] = q]
    /\ at' = [at EXCEPT ![t] = "pop"]
    /\ UNCHANGED <<jobs, jobCount, batch, size, fresh, forgotten>>

\* Somebody else is responsible for the queue.
PushReturn(t) ==
    /\ push[t].at = "queued"
    /\ ~push[t].first
    /\ push' = [push EXCEPT ![t] = NoPush]
    /\ UNCHANGED <<jobs, jobCount, global, at, cur, batch, size, fresh, forgotten>>

\* The thread that pushed the first job runs the queue,
PushExecute(t) ==
    /\ push[t].at = "queued"
    /\ push[t].first
    /\ cur[t] = NoQueue /\ ~push[t].only
    /\ push' = [push EXCEPT ![t] = NoPush]
    /\ Enter(t, push[t].queue)
    /\ UNCHANGED global

\* or leaves it to a thread that has time.
PushHandOver(t) ==
    /\ push[t].at = "queued"
    /\ push[t].first
    /\ cur[t] # NoQueue \/ push[t].only
    /\ push' = [push EXCEPT ![t] = NoPush]
    /\ global' = Append(global, push[t].queue)
    /\ UNCHANGED <<jobs, jobCount, at, cur, batch, size, fresh, forgotten>>

-------------------------------------------------------------------------------
(* JobQueue::Execute *)

\* Mutant of ExecPopAll: one job is taken, and the others go with it.
ExecPopAllTakesOne(t) ==
    /\ at[t] = "pop"
    /\ batch' = [batch EXCEPT ![t] = IF jobs[cur[t]] = <<>> THEN <<>>
                                     ELSE <<Head(jobs[cur[t]])>>]
    /\ size' = [size EXCEPT ![t] = Len(jobs[cur[t]])]
    /\ jobs' = [jobs EXCEPT ![cur[t]] = <<>>]
    /\ at' = [at EXCEPT ![t] = "run"]
    /\ UNCHANGED <<jobCount, global, push, cur, fresh, forgotten>>

ExecPopAll(t) ==
    /\ at[t] = "pop"
    /\ batch' = [batch EXCEPT ![t] = jobs[cur[t]]]
    /\ size' = [size EXCEPT ![t] = Len(jobs[cur[t]])]
    /\ jobs' = [jobs EXCEPT ![cur[t]] = <<>>]
    /\ at' = [at EXCEPT ![t] = "run"]
    /\ UNCHANGED <<jobCount, global, push, cur, fresh, forgotten>>

\* jobs[i]->Execute() begins; the job may push jobs.
ExecJobStart(t) ==
    /\ at[t] = "run"
    /\ batch[t] # <<>>
    /\ at' = [at EXCEPT ![t] = "body"]
    /\ UNCHANGED <<jobs, jobCount, global, push, cur, batch, size, fresh, forgotten>>

ExecJobEnd(t) ==
    /\ at[t] = "body"
    /\ push[t] = NoPush
    /\ batch' = [batch EXCEPT ![t] = Tail(@)]
    /\ at' = [at EXCEPT ![t] = "run"]
    /\ UNCHANGED <<jobs, jobCount, global, push, cur, size, fresh, forgotten>>

\* Mutant of ExecSubtract: an empty queue ends Execute.
ExecSubtractByQueue(t) ==
    /\ at[t] = "run"
    /\ batch[t] = <<>>
    /\ jobCount' = [jobCount EXCEPT ![cur[t]] = @ - size[t]]
    /\ size' = [size EXCEPT ![t] = 0]
    /\ IF jobs[cur[t]] = <<>>
       THEN /\ at' = [at EXCEPT ![t] = "out"]
            /\ cur' = [cur EXCEPT ![t] = NoQueue]
       ELSE /\ at' = [at EXCEPT ![t] = "more"]
            /\ UNCHANGED cur
    /\ UNCHANGED <<jobs, global, push, batch, fresh, forgotten>>

\* _jobCount.fetch_sub(jobCount): done when no job came in meanwhile.
ExecSubtract(t) ==
    /\ at[t] = "run"
    /\ batch[t] = <<>>
    /\ jobCount' = [jobCount EXCEPT ![cur[t]] = @ - size[t]]
    /\ size' = [size EXCEPT ![t] = 0]
    /\ IF jobCount[cur[t]] = size[t]
       THEN /\ at' = [at EXCEPT ![t] = "out"]
            /\ cur' = [cur EXCEPT ![t] = NoQueue]
       ELSE /\ at' = [at EXCEPT ![t] = "more"]
            /\ UNCHANGED cur
    /\ UNCHANGED <<jobs, global, push, batch, fresh, forgotten>>

\* now < LEndTickCount: go round again.
ExecAgain(t) ==
    /\ TRUE \in TimeLeft
    /\ at[t] = "more"
    /\ at' = [at EXCEPT ![t] = "pop"]
    /\ UNCHANGED <<jobs, jobCount, global, push, cur, batch, size, fresh, forgotten>>

\* Mutant of ExecYield: the queue is not given back.
ExecYieldDrops(t) ==
    /\ FALSE \in TimeLeft
    /\ at[t] = "more"
    /\ cur' = [cur EXCEPT ![t] = NoQueue]
    /\ at' = [at EXCEPT ![t] = "out"]
    /\ UNCHANGED <<jobs, jobCount, global, push, batch, size, fresh, forgotten>>

\* now >= LEndTickCount: give the queue back to the global queue.
ExecYield(t) ==
    /\ FALSE \in TimeLeft
    /\ at[t] = "more"
    /\ global' = Append(global, cur[t])
    /\ cur' = [cur EXCEPT ![t] = NoQueue]
    /\ at' = [at EXCEPT ![t] = "out"]
    /\ UNCHANGED <<jobs, jobCount, push, batch, size, fresh, forgotten>>

-------------------------------------------------------------------------------
\* ThreadManager::DoGlobalQueueWork, one round that has time and finds a queue.
\* Nothing in the repository calls it: a worker is free to, and never has to.
DoGlobalQueueWork(t) ==
    /\ TRUE \in TimeLeft
    /\ at[t] = "out"
    /\ push[t] = NoPush
    /\ global # <<>>
    /\ global' = Tail(global)
    /\ Enter(t, Head(global))
    /\ UNCHANGED push

\* JobQueue::ClearJobs empties _jobs and leaves _jobCount as it is.
ClearJobs(t, q) ==
    /\ AllowClear
    /\ Free(t)
    /\ jobs[q] # <<>>
    /\ jobs' = [jobs EXCEPT ![q] = <<>>]
    /\ forgotten' = forgotten \union {jobs[q][i] : i \in 1..Len(jobs[q])}
    /\ UNCHANGED <<jobCount, global, push, at, cur, batch, size, fresh>>

-------------------------------------------------------------------------------
Init ==
    /\ jobs = [q \in Queues |-> <<>>]
    /\ jobCount = [q \in Queues |-> 0]
    /\ global = <<>>
    /\ push = [t \in Threads |-> NoPush]
    /\ at = [t \in Threads |-> "out"]
    /\ cur = [t \in Threads |-> NoQueue]
    /\ batch = [t \in Threads |-> <<>>]
    /\ size = [t \in Threads |-> 0]
    /\ fresh = Jobs
    /\ forgotten = {}

\* What a thread goes on to do inside Push and Execute,
Inside(t) ==
    \/ PushJob(t) \/ PushReturn(t) \/ PushExecute(t) \/ PushHandOver(t)
    \/ ExecPopAll(t) \/ ExecJobStart(t) \/ ExecJobEnd(t) \/ ExecSubtract(t)
    \/ ExecAgain(t) \/ ExecYield(t)

\* and what a worker of DoGlobalQueueWork does.
Work(t) == Inside(t) \/ DoGlobalQueueWork(t)

Call(t) ==
    \/ \E q \in Queues, j \in Jobs, only \in BOOLEAN : PushCount(t, q, j, only)
    \/ \E q \in Queues : ClearJobs(t, q)

Next == \E t \in Threads : Work(t) \/ Call(t)

Spec == Init /\ [][Next]_vars

-------------------------------------------------------------------------------
(* Properties *)

\* Who is responsible for running q: the thread that pushed its first job and
\* has not passed it on, a thread inside Execute, an entry of the global queue.
Duties(q) ==
    {<<"push", t>> : t \in {u \in Threads : push[u] # NoPush /\ push[u].queue = q
                                            /\ push[u].first}}
    \union {<<"exec", t>> : t \in {u \in Threads : cur[u] = q}}
    \union {<<"global", i>> : i \in {k \in DOMAIN global : global[k] = q}}

\* Never two: no two threads run the same queue, and the queue is never in the
\* global queue while a thread runs it, nor in it twice (JobQueue.cpp 8-24, 46-58).
OneDuty == \A q \in Queues : \A d, e \in Duties(q) : d = e

\* Never none while a job waits: the fetch_sub that ends Execute and the
\* fetch_add of a concurrent Push cannot both leave the job to the other.
NoJobStranded == \A q \in Queues : jobs[q] # <<>> => Duties(q) # {}

\* The queues behave as serial executors: no two jobs of a queue overlap, jobs
\* run in the order of _jobs, none twice, and none leaves its queue without
\* running but those ClearJobs throws away (JobQueue.cpp 28-63).
ExecutorOf(q) == {t \in Threads : cur[t] = q}

Running(q) ==
    IF \E t \in ExecutorOf(q) : at[t] = "body"
    THEN Head(batch[CHOOSE t \in ExecutorOf(q) : at[t] = "body"]) ELSE NoJob

Pending(q) ==
    IF ExecutorOf(q) = {} THEN jobs[q]
    ELSE LET t == CHOOSE u \in ExecutorOf(q) : TRUE
         IN (IF at[t] = "body" THEN Tail(batch[t]) ELSE batch[t]) \o jobs[q]

Serial == INSTANCE SerialExecutor
            WITH pending <- [q \in Queues |-> Pending(q)],
                 running <- [q \in Queues |-> Running(q)],
                 dropped <- forgotten

ImplementsSerialExecutor == Serial!Spec

===============================================================================
