---------------------------- MODULE SerialExecutor ----------------------------
(***************************************************************************)
(* What a set of job queues promises: the jobs of one queue run one at a   *)
(* time, in the order they were queued, each of them once; different       *)
(* queues run independently; a job leaves its queue without running only   *)
(* by a Drop, which is on record.  JobQueue is shown to implement it.      *)
(***************************************************************************)
EXTENDS Naturals, Sequences

CONSTANTS Queues, Jobs, NoJob

VARIABLES
    pending,   \* pending[q]: queued jobs of q that have not started
    running,   \* running[q]: the job of q that is running, or NoJob
    dropped    \* the jobs that somebody asked to forget

avars == <<pending, running, dropped>>

Submit(q, j) ==
    /\ pending' = [pending EXCEPT ![q] = Append(@, j)]
    /\ UNCHANGED <<running, dropped>>

Start(q) ==
    /\ running[q] = NoJob
    /\ pending[q] # <<>>
    /\ running' = [running EXCEPT ![q] = Head(pending[q])]
    /\ pending' = [pending EXCEPT ![q] = Tail(@)]
    /\ UNCHANGED dropped

Finish(q) ==
    /\ running[q] # NoJob
    /\ running' = [running EXCEPT ![q] = NoJob]
    /\ UNCHANGED <<pending, dropped>>

\* The youngest jobs are forgotten on request, and every one of them is recorded.
Drop(q) ==
    /\ \E n \in 0..Len(pending[q]) :
          /\ pending' = [pending EXCEPT ![q] = SubSeq(@, 1, n)]
          /\ dropped' = dropped \union {pending[q][i] : i \in n+1..Len(pending[q])}
    /\ UNCHANGED running

Init ==
    /\ pending = [q \in Queues |-> <<>>]
    /\ running = [q \in Queues |-> NoJob]
    /\ dropped = {}

Next == \E q \in Queues :
          \/ \E j \in Jobs : Submit(q, j)
          \/ Start(q) \/ Finish(q) \/ Drop(q)

Spec == Init /\ [][Next]_avars

===============================================================================
