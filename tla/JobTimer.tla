------------------------------- MODULE JobTimer -------------------------------
(***************************************************************************)
(* The timer of JobTimer.cpp on top of the job queues: DoTimer reserves a  *)
(* job, a thread that calls Distribute pushes the jobs that are due to     *)
(* their owners, outside the timer's lock and under the flag               *)
(* _distributing.  What is done under the lock is one action.              *)
(***************************************************************************)
EXTENDS JobQueue

CONSTANTS
    Strong,   \* the jobs that hold a shared_ptr to their queue
    Delays,   \* the values of tickAfter
    LastTick  \* GetTickCount64 is followed up to here

ASSUME TimerAssumption ==
    /\ Strong \subseteq Jobs
    /\ Delays \subseteq Nat
    /\ LastTick \in Nat

VARIABLES
    clock,         \* GetTickCount64()
    reserve,       \* reserve[t]: the items (one at most) t is about to push
    items,         \* _items
    distributing,  \* _distributing
    dist,          \* dist[t]: where t is in Distribute
    due,           \* due[t]: the items of its local vector still to hand over
    gone,          \* queues whose last shared_ptr is gone
    started,       \* history: the jobs that have begun to run
    cleared,       \* history: the jobs that Clear has dropped
    owed           \* history: owed[j]: the jobs of j's queue that waited beside
                   \* it for an earlier tick

timerVars == <<clock, reserve, items, distributing, dist, due, gone,
               cleared, owed>>
allVars == <<vars, timerVars, started>>

Items == [executeTick : Nat, owner : Queues, job : Jobs]

NotDistributing == [at |-> "no"]

TimerTypeOK ==
    /\ TypeOK
    /\ clock \in 0..LastTick
    /\ reserve \in [Threads -> SUBSET Items]
    /\ items \in SUBSET Items
    /\ distributing \in BOOLEAN
    /\ dist \in [Threads -> {NotDistributing}
                   \union [at : {"call", "take"}, now : Nat] \union [at : {"push"}]]
    /\ due \in [Threads -> Seq(Items)]
    /\ gone \in SUBSET Queues
    /\ started \in SUBSET Jobs
    /\ cleared \in SUBSET Jobs
    /\ owed \in [Jobs -> SUBSET Jobs]

\* t may begin something new: it is idle, or it runs a job.
FreeToCall(t) ==
    /\ Free(t)
    /\ reserve[t] = {}
    /\ at[t] = "body" \/ dist[t] = NotDistributing

-------------------------------------------------------------------------------
(* Reserve *)

\* DoTimer: the tick is computed before the lock is taken.
ReserveTick(t, q, j, tickAfter) ==
    /\ FreeToCall(t)
    /\ q \notin gone
    /\ clock + tickAfter <= LastTick
    /\ j \in fresh
    /\ fresh' = fresh \ {j}
    /\ reserve' = [reserve EXCEPT ![t] =
                     {[executeTick |-> clock + tickAfter, owner |-> q, job |-> j]}]
    /\ UNCHANGED <<jobs, jobCount, global, push, at, cur, batch, size, forgotten>>
    /\ UNCHANGED <<clock, items, distributing, dist, due, gone, cleared, owed, started>>

Earlier(i, k) == i.owner = k.owner /\ i.executeTick < k.executeTick

\* Under the lock; the history notes which jobs now wait side by side.
ReserveInsert(t) ==
    \E i \in reserve[t] :
        /\ items' = items \union {i}
        /\ owed' = [j \in Jobs |->
                      IF j = i.job THEN {k.job : k \in {m \in items : Earlier(m, i)}}
                      ELSE IF \E k \in items : k.job = j /\ Earlier(i, k)
                      THEN owed[j] \union {i.job} ELSE owed[j]]
        /\ reserve' = [reserve EXCEPT ![t] = {}]
        /\ UNCHANGED <<vars, clock, distributing, dist, due, gone, cleared, started>>

-------------------------------------------------------------------------------
(* Distribute *)

\* DistributeReservedJob reads the clock and calls Distribute (in this repository
\* nobody calls it: a thread is free to, and never has to),
DistributeCall(t) ==
    /\ FreeToCall(t)
    /\ at[t] = "out"
    /\ dist' = [dist EXCEPT ![t] = [at |-> "call", now |-> clock]]
    /\ UNCHANGED <<vars, clock, reserve, items, distributing, due, gone, cleared, owed, started>>

\* Mutant of DistributeEnter: the flag keeps nobody out.
DistributeEnterAlways(t) ==
    /\ dist[t].at = "call"
    /\ distributing' = TRUE
    /\ dist' = [dist EXCEPT ![t] = [at |-> "take", now |-> dist[t].now]]
    /\ UNCHANGED <<vars, clock, reserve, items, due, gone, cleared, owed, started>>

\* which one thread at a time gets into.
DistributeEnter(t) ==
    /\ dist[t].at = "call"
    /\ distributing' = TRUE
    /\ dist' = [dist EXCEPT ![t] = IF distributing THEN NotDistributing
                                   ELSE [at |-> "take", now |-> dist[t].now]]
    /\ UNCHANGED <<vars, clock, reserve, items, due, gone, cleared, owed, started>>

\* The orders in which the priority queue may give these items: by tick, items
\* of one tick in any order.
PopOrders(S) ==
    {s \in [1..Cardinality(S) -> S] :
        \A m, n \in DOMAIN s : m < n => /\ s[m] # s[n]
                                        /\ s[m].executeTick <= s[n].executeTick}

\* Mutant of DistributeTake: it returns when nothing is due and keeps the flag.
DistributeTakeReturns(t) ==
    /\ dist[t].at = "take"
    /\ LET ready == {i \in items : i.executeTick <= dist[t].now}
       IN /\ items' = items \ ready
          /\ \E s \in PopOrders(ready) : due' = [due EXCEPT ![t] = s]
          /\ dist' = [dist EXCEPT ![t] = IF ready = {} THEN NotDistributing ELSE [at |-> "push"]]
    /\ UNCHANGED <<vars, clock, reserve, distributing, gone, cleared, owed, started>>

\* Under the lock, the items whose time has come go to a local vector.
DistributeTake(t) ==
    /\ dist[t].at = "take"
    /\ LET ready == {i \in items : i.executeTick <= dist[t].now}
       IN /\ items' = items \ ready
          /\ \E s \in PopOrders(ready) : due' = [due EXCEPT ![t] = s]
    /\ dist' = [dist EXCEPT ![t] = [at |-> "push"]]
    /\ UNCHANGED <<vars, clock, reserve, distributing, gone, cleared, owed, started>>

\* t is between two items of the loop.
NextItem(t) == dist[t].at = "push" /\ at[t] = "out" /\ push[t] = NoPush

\* owner.lock(), and owner->Push if there is one.
HandOver(t, i) ==
    IF i.owner \in gone THEN UNCHANGED <<jobCount, push>>
    ELSE CountJob(t, i.owner, i.job, FALSE)

\* One item of the loop; t is inside Push, and the Execute that Push may call,
\* before it comes to the next.
DistributeOne(t) ==
    /\ NextItem(t)
    /\ due[t] # <<>>
    /\ HandOver(t, Head(due[t]))
    /\ due' = [due EXCEPT ![t] = Tail(@)]
    /\ UNCHANGED <<jobs, global, at, cur, batch, size, fresh, forgotten>>
    /\ UNCHANGED <<clock, reserve, items, distributing, dist, gone, cleared, owed, started>>

\* _distributing.store(false).
DistributeDone(t) ==
    /\ NextItem(t)
    /\ due[t] = <<>>
    /\ distributing' = FALSE
    /\ dist' = [dist EXCEPT ![t] = NotDistributing]
    /\ UNCHANGED <<vars, clock, reserve, items, due, gone, cleared, owed, started>>

\* Clear drops what is reserved.
Clear(t) ==
    /\ FreeToCall(t)
    /\ items # {}
    /\ items' = {}
    /\ cleared' = cleared \union {i.job : i \in items}
    /\ UNCHANGED <<vars, clock, reserve, distributing, dist, due, gone, owed, started>>

-------------------------------------------------------------------------------
\* The last shared_ptr to q goes: nothing pushes to it, runs it or holds it.
DropQueue(q) ==
    /\ q \notin gone
    /\ Duties(q) = {}
    /\ \A t \in Threads :
          /\ push[t] # NoPush => push[t].queue # q
          /\ \A i \in reserve[t] : i.owner # q
          /\ \A n \in DOMAIN due[t] : due[t][n].owner = q => due[t][n].job \notin Strong
    /\ \A i \in items : i.owner = q => i.job \notin Strong
    /\ gone' = gone \union {q}
    /\ UNCHANGED <<vars, clock, reserve, items, distributing, dist, due, cleared, owed, started>>

Tick ==
    /\ clock < LastTick
    /\ clock' = clock + 1
    /\ UNCHANGED <<vars, reserve, items, distributing, dist, due, gone, cleared, owed, started>>

\* The steps of JobQueue; the history notes the jobs that start.
QueueStep(t) ==
    /\ started' = IF at[t] = "run" /\ at'[t] = "body"
                  THEN started \union {Head(batch[t])} ELSE started
    /\ UNCHANGED timerVars

\* A thread goes on with the Push or Execute it is in,
QueueInside(t) ==
    /\ reserve[t] = {}
    /\ Inside(t)
    /\ QueueStep(t)

\* or takes up a queue that was handed over.
QueueWork(t) ==
    \/ QueueInside(t)
    \/ FreeToCall(t) /\ DoGlobalQueueWork(t) /\ QueueStep(t)

QueueCall(t) ==
    /\ FreeToCall(t)
    /\ \E q \in Queues \ gone, j \in Jobs, only \in BOOLEAN : PushCount(t, q, j, only)
    /\ UNCHANGED <<timerVars, started>>

QueueClear(t) ==
    /\ FreeToCall(t)
    /\ \E q \in Queues \ gone : ClearJobs(t, q)
    /\ UNCHANGED <<timerVars, started>>

TimerInit ==
    /\ Init
    /\ clock = 0
    /\ reserve = [t \in Threads |-> {}]
    /\ items = {}
    /\ distributing = FALSE
    /\ dist = [t \in Threads |-> NotDistributing]
    /\ due = [t \in Threads |-> <<>>]
    /\ gone = {}
    /\ started = {}
    /\ cleared = {}
    /\ owed = [j \in Jobs |-> {}]

\* What a thread goes on to do inside Distribute.
DistributeInside(t) ==
    DistributeEnter(t) \/ DistributeTake(t) \/ DistributeOne(t) \/ DistributeDone(t)

Distribute(t) == DistributeCall(t) \/ DistributeInside(t)

TimerNext ==
    \/ Tick
    \/ \E q \in Queues : DropQueue(q)
    \/ \E t \in Threads :
          \/ QueueWork(t) \/ QueueCall(t) \/ QueueClear(t)
          \/ ReserveInsert(t) \/ Distribute(t) \/ Clear(t)
          \/ \E q \in Queues, j \in Jobs, tickAfter \in Delays :
                ReserveTick(t, q, j, tickAfter)

TimerSpec == TimerInit /\ [][TimerNext]_allVars

\* A thread goes on with the call it is in, and jobs return.  Nothing makes a
\* thread call Distribute or take a queue from the global queue: the I/O threads
\* only run the io_context, and ThreadManager's DistributeReservedJob and
\* DoGlobalQueueWork have no caller.
TimerFairSpec ==
    /\ TimerSpec
    /\ \A t \in Threads :
          /\ WF_allVars(QueueInside(t))
          /\ WF_allVars(ReserveInsert(t))
          /\ WF_allVars(DistributeInside(t))

-------------------------------------------------------------------------------
(* Properties *)

\* Two jobs of one queue that wait in the timer side by side run in the order
\* of their ticks, whichever threads distribute them: only the flag
\* _distributing keeps a later Distribute from overtaking the pushes of an
\* earlier one (JobTimer.cpp 18, 37-46), and JobQueue keeps the order.
TimedJobsKeepOrder == \A j \in started : owed[j] \ (cleared \union forgotten) \subseteq started

\* A job on its way is not left behind.  One that is queued runs, or ClearJobs
\* takes it, or it waits in a queue that is in the global queue; one that
\* Distribute has taken from the timer gets into its queue and does the same,
\* unless the queue is gone (JobQueue.cpp 8-24, 31-60, JobTimer.cpp 21-42).
\* From the global queue on nothing is promised: a thread must call
\* DoGlobalQueueWork with time left, and in this repository none does.
\* After a ClearJobs nothing is promised to the items of a Distribute either.
Queued(q, j) == \E i \in DOMAIN jobs[q] : jobs[q][i] = j

Due(j) == {i \in UNION {{due[t][n] : n \in DOMAIN due[t]} : t \in Threads} : i.job = j}

HandedOver(j) == \E q \in Queues, i \in DOMAIN global : global[i] = q /\ Queued(q, j)

EveryJobRuns ==
    \A j \in Jobs :
        Due(j) # {} \/ (\E q \in Queues : Queued(q, j))
            ~> \/ j \in started \union forgotten
               \/ HandedOver(j)
               \/ \E i \in Due(j) : i.owner \in gone \/ forgotten # {}

\* A Distribute that has begun gives the flag back, or nobody could distribute
\* again, although the jobs it pushes may run in it (JobTimer.cpp 15-47).  Once
\* ClearJobs has been used it may not: _jobCount stays behind, and an Execute
\* inside Distribute goes round for ever while there is time left.
FlagComesBack == distributing ~> ~distributing \/ forgotten # {}

===============================================================================
