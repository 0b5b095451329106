---------------------------- MODULE JobQueue_proofs ----------------------------
(***************************************************************************)
(* The job queues and the timer on top of them.                            *)
(*                                                                         *)
(* At any time exactly one thread or one entry of the global queue is      *)
(* responsible for a queue whose _jobCount is positive, and nobody for the *)
(* others: that is the inductive invariant.  With one executor for each,   *)
(* the queues implement the serial executors.                              *)
(*                                                                         *)
(* Jobs of one queue that wait side by side in the timer keep the order of *)
(* their ticks on their way through Distribute, Push, _jobs and Execute:   *)
(* each action moves the earlier of two from one station to the next       *)
(* before the later one.                                                   *)
(***************************************************************************)
EXTENDS JobTimer, FiniteSetTheorems, SequenceTheorems, TLAPS

\* t pushed the first job of q and has not passed q on.
First(t, q) == push[t] # NoPush /\ push[t].first /\ push[t].queue = q

\* q is in the global queue.
InGlobal(q) == \E i \in 1..Len(global) : global[i] = q

\* The threads between the fetch_add and the _jobs.Push of a push to q.
Counted(q) ==
    {t \in Threads : push[t] # NoPush /\ push[t].at = "counted" /\ push[t].queue = q}

\* What a thread's position in Push and Execute says about its locals.
LocalInv ==
    \A t \in Threads :
        /\ at[t] = "out" <=> cur[t] = NoQueue
        /\ at[t] \in {"out", "pop", "more"} => size[t] = 0 /\ batch[t] = <<>>
        /\ at[t] = "body" => batch[t] # <<>>
        /\ at[t] \in {"pop", "run", "more"} => push[t] = NoPush

\* Every job is counted from before it is queued until after it has run.
CountInv ==
    \A q \in Queues :
        /\ jobCount[q] >= Len(jobs[q]) + Cardinality(Counted(q))
        /\ \A t \in Threads : cur[t] = q =>
              jobCount[q] >= Len(jobs[q]) + Cardinality(Counted(q)) + size[t]

\* No queue has two keepers.
UniqueInv ==
    /\ \A t, u \in Threads : cur[t] = cur[u] /\ cur[t] # NoQueue => t = u
    /\ \A t, u \in Threads, q \in Queues : First(t, q) /\ First(u, q) => t = u
    /\ \A i, j \in 1..Len(global) : global[i] = global[j] => i = j
    /\ \A t, u \in Threads, q \in Queues : cur[t] = q => ~First(u, q)
    /\ \A t \in Threads, q \in Queues : cur[t] = q => ~InGlobal(q)
    /\ \A t \in Threads, q \in Queues : First(t, q) => ~InGlobal(q)

\* A queue has a keeper exactly while its _jobCount is positive.
KeptInv ==
    \A q \in Queues :
        jobCount[q] > 0 <=> \/ \E t \in Threads : cur[t] = q
                            \/ \E t \in Threads : First(t, q)
                            \/ InGlobal(q)

IInv == TypeOK /\ LocalInv /\ CountInv /\ UniqueInv /\ KeptInv

-------------------------------------------------------------------------------
(* Facts the steps share. *)

\* The threads inside a push to one queue can be counted.
LEMMA CountedFacts ==
    ASSUME NEW C \in SUBSET Threads
    PROVE  IsFiniteSet(C) /\ Cardinality(C) \in Nat
  BY SetsAssumption, FS_Subset, FS_CardinalityType

\* A step that moves no responsibility keeps everybody's.
LEMMA KeepersUnchanged ==
    ASSUME UniqueInv, KeptInv, cur' = cur, global' = global,
           \A u \in Threads, q \in Queues : First(u, q)' <=> First(u, q),
           \A q \in Queues : jobCount'[q] > 0 <=> jobCount[q] > 0
    PROVE  UniqueInv' /\ KeptInv'
<1>1. \A q \in Queues : InGlobal(q)' <=> InGlobal(q)
  BY DEF InGlobal
<1>2. UniqueInv'
  BY <1>1 DEF UniqueInv
<1>3. KeptInv'
  BY <1>1 DEF KeptInv
<1>. QED  BY <1>2, <1>3

\* Handing q from its pushing or executing thread t to the global queue.
LEMMA KeeperToGlobal ==
    ASSUME TypeOK, UniqueInv, KeptInv, NEW t \in Threads, NEW q \in Queues,
           cur[t] = q \/ First(t, q),
           global' = Append(global, q), jobCount' = jobCount,
           \A u \in Threads : cur'[u] = IF u = t /\ cur[t] = q THEN NoQueue ELSE cur[u],
           \A u \in Threads, p \in Queues : First(u, p)' <=> First(u, p) /\ <<u, p>> # <<t, q>>
    PROVE  UniqueInv' /\ KeptInv'
<1>1. /\ Len(global) \in Nat /\ Len(global') = Len(global) + 1
      /\ \A i \in 1..Len(global) : global'[i] = global[i]
      /\ global'[Len(global) + 1] = q
  BY DEF TypeOK
<1>2. ~InGlobal(q)
  BY DEF UniqueInv
<1>3. \A p \in Queues : InGlobal(p)' <=> InGlobal(p) \/ p = q
  BY <1>1 DEF InGlobal
<1>4. \A u \in Threads : cur'[u] # q /\ ~First(u, q)'
  BY SetsAssumption DEF UniqueInv
<1>5. \A i, j \in 1..Len(global') : global'[i] = global'[j] => i = j
  <2>. SUFFICES ASSUME NEW i \in 1..Len(global'), NEW j \in 1..Len(global'),
                       global'[i] = global'[j]
                PROVE  i = j
    OBVIOUS
  <2>1. /\ i \in 1..Len(global) \/ i = Len(global) + 1
        /\ j \in 1..Len(global) \/ j = Len(global) + 1
    BY <1>1
  <2>2. \A k \in 1..Len(global) : global[k] # q
    BY <1>2 DEF InGlobal
  <2>. QED  BY <1>1, <2>1, <2>2 DEF UniqueInv
<1>6. UniqueInv'
  <2>1. \A u, v \in Threads : cur'[u] = cur'[v] /\ cur'[u] # NoQueue => u = v
    BY DEF UniqueInv
  <2>2. \A u, v \in Threads, p \in Queues : First(u, p)' /\ First(v, p)' => u = v
    BY DEF UniqueInv
  <2>3. \A u, v \in Threads, p \in Queues : cur'[u] = p => ~First(v, p)'
    BY SetsAssumption DEF UniqueInv
  <2>4. \A u \in Threads, p \in Queues : cur'[u] = p => ~InGlobal(p)'
    BY <1>3, <1>4, SetsAssumption DEF UniqueInv
  <2>5. \A u \in Threads, p \in Queues : First(u, p)' => ~InGlobal(p)'
    BY <1>3, <1>4 DEF UniqueInv
  <2>. QED  BY <1>5, <2>1, <2>2, <2>3, <2>4, <2>5 DEF UniqueInv
<1>7. KeptInv'
  <2>1. jobCount[q] > 0
    BY DEF KeptInv
  <2>2. ASSUME NEW p \in Queues, p # q
        PROVE  /\ (\E u \in Threads : cur'[u] = p) <=> (\E u \in Threads : cur[u] = p)
               /\ (\E u \in Threads : First(u, p)') <=> (\E u \in Threads : First(u, p))
               /\ InGlobal(p)' <=> InGlobal(p)
    BY <1>3, <2>2, SetsAssumption
  <2>3. InGlobal(q)'
    BY <1>3
  <2>4. ASSUME NEW p \in Queues
        PROVE  jobCount'[p] > 0 <=> \/ \E u \in Threads : cur'[u] = p
                                    \/ \E u \in Threads : First(u, p)'
                                    \/ InGlobal(p)'
    <3>1. CASE p = q
      BY <2>1, <2>3, <3>1
    <3>2. CASE p # q
      BY <2>2, <3>2 DEF KeptInv
    <3>. QED  BY <3>1, <3>2
  <2>. QED  BY <2>4 DEF KeptInv
<1>. QED  BY <1>6, <1>7

\* t, which keeps nothing else in Execute, takes q from its own push or from
\* the global queue.
LEMMA KeeperToExecute ==
    ASSUME TypeOK, UniqueInv, KeptInv, NEW t \in Threads, NEW q \in Queues,
           cur[t] = NoQueue, jobCount' = jobCount,
           \A u \in Threads : cur'[u] = IF u = t THEN q ELSE cur[u],
           \A u \in Threads, p \in Queues : First(u, p)' => First(u, p),
           \A u \in Threads, p \in Queues : p # q /\ First(u, p) => First(u, p)',
           \A p \in Queues : p # q => (InGlobal(p)' <=> InGlobal(p)),
           \A i, j \in 1..Len(global') : global'[i] = global'[j] => i = j,
           \/ First(t, q) /\ ~First(t, q)' /\ (InGlobal(q)' => InGlobal(q))
           \/ InGlobal(q) /\ ~InGlobal(q)'
    PROVE  UniqueInv' /\ KeptInv'
<1>1. /\ \A u \in Threads : cur[u] # q
      /\ \A u \in Threads : ~First(u, q)'
      /\ ~InGlobal(q)'
  BY DEF UniqueInv
<1>2. UniqueInv'
  <2>1. \A u, v \in Threads : cur'[u] = cur'[v] /\ cur'[u] # NoQueue => u = v
    BY <1>1 DEF UniqueInv
  <2>2. \A u, v \in Threads, p \in Queues : First(u, p)' /\ First(v, p)' => u = v
    BY DEF UniqueInv
  <2>3. \A u, v \in Threads, p \in Queues : cur'[u] = p => ~First(v, p)'
    BY <1>1 DEF UniqueInv
  <2>4. \A u \in Threads, p \in Queues : cur'[u] = p => ~InGlobal(p)'
    BY <1>1 DEF UniqueInv
  <2>5. \A u \in Threads, p \in Queues : First(u, p)' => ~InGlobal(p)'
    BY <1>1 DEF UniqueInv
  <2>. QED  BY <2>1, <2>2, <2>3, <2>4, <2>5 DEF UniqueInv
<1>3. KeptInv'
  <2>1. jobCount[q] > 0
    BY DEF KeptInv
  <2>2. ASSUME NEW p \in Queues
        PROVE  jobCount'[p] > 0 <=> \/ \E u \in Threads : cur'[u] = p
                                    \/ \E u \in Threads : First(u, p)'
                                    \/ InGlobal(p)'
    <3>1. CASE p = q
      BY <2>1, <3>1
    <3>2. CASE p # q
      <4>1. (\E u \in Threads : cur'[u] = p) <=> (\E u \in Threads : cur[u] = p)
        BY <3>2, SetsAssumption
      <4>2. (\E u \in Threads : First(u, p)') <=> (\E u \in Threads : First(u, p))
        BY <3>2
      <4>. QED  BY <3>2, <4>1, <4>2 DEF KeptInv
    <3>. QED  BY <3>1, <3>2
  <2>. QED  BY <2>2 DEF KeptInv
<1>. QED  BY <1>2, <1>3

-------------------------------------------------------------------------------
(* One lemma per action. *)

\* fetch_add: the push that finds zero becomes the keeper of the queue.
LEMMA CountJobStep ==
    ASSUME IInv, NEW t \in Threads, NEW q \in Queues, NEW j \in Jobs,
           NEW only \in BOOLEAN, Free(t), CountJob(t, q, j, only), fresh' \in SUBSET Jobs,
           UNCHANGED <<jobs, global, at, cur, batch, size, forgotten>>
    PROVE  IInv'
<1>. USE SetsAssumption DEF IInv
<1>0. /\ push[t] = NoPush /\ at[t] \in {"out", "body"}
      /\ push'[t] = [at |-> "counted", queue |-> q, job |-> j,
                     first |-> jobCount[q] = 0, only |-> only]
      /\ \A u \in Threads \ {t} : push'[u] = push[u]
      /\ push'[t] # NoPush /\ push'[t].at = "counted" /\ push'[t].queue = q
      /\ push'[t].first = (jobCount[q] = 0)
      /\ jobs' = jobs /\ global' = global /\ cur' = cur /\ size' = size
      /\ jobCount'[q] = jobCount[q] + 1
      /\ \A p \in Queues \ {q} : jobCount'[p] = jobCount[p]
  BY DEF CountJob, Free, TypeOK, NoPush
<1>1. TypeOK'
  BY DEF TypeOK, CountJob, PushState, NoPush
<1>2. LocalInv'
  BY DEF TypeOK, CountJob, Free, NoPush, LocalInv
<1>3. CountInv'
  <2>1. Counted(q)' = Counted(q) \union {t} /\ t \notin Counted(q)
    BY <1>0 DEF Counted
  <2>2. Cardinality(Counted(q)') = Cardinality(Counted(q)) + 1
        /\ Cardinality(Counted(q)) \in Nat
    <3>1. IsFiniteSet(Counted(q)) /\ Cardinality(Counted(q)) \in Nat
      BY CountedFacts DEF Counted
    <3>. QED  BY <2>1, <3>1, FS_AddElement
  <2>3. \A p \in Queues \ {q} : Counted(p)' = Counted(p)
    BY <1>0 DEF Counted
  <2>4. ASSUME NEW p \in Queues \ {q}
        PROVE  /\ jobCount'[p] >= Len(jobs'[p]) + Cardinality(Counted(p)')
               /\ \A u \in Threads : cur'[u] = p =>
                     jobCount'[p] >= Len(jobs'[p]) + Cardinality(Counted(p)') + size'[u]
    BY <1>0, <2>3, <2>4 DEF CountInv
  <2>5. /\ jobCount'[q] >= Len(jobs'[q]) + Cardinality(Counted(q)')
        /\ \A u \in Threads : cur'[u] = q =>
              jobCount'[q] >= Len(jobs'[q]) + Cardinality(Counted(q)') + size'[u]
    BY <1>0, <2>2 DEF CountInv, TypeOK
  <2>. QED  BY <2>4, <2>5 DEF CountInv
<1>4. UniqueInv' /\ KeptInv'
  <2>1. \A u \in Threads, p \in Queues :
           First(u, p)' <=> First(u, p) \/ (u = t /\ p = q /\ jobCount[q] = 0)
    BY <1>0 DEF First
  <2>2. jobCount[q] \in Nat
    <3>1. Len(jobs[q]) \in Nat /\ Cardinality(Counted(q)) \in Nat /\ jobCount[q] \in Int
      BY CountedFacts DEF TypeOK, Counted
    <3>. QED  BY <3>1 DEF CountInv
  <2>3. CASE jobCount[q] # 0
    <3>1. \A p \in Queues : jobCount'[p] > 0 <=> jobCount[p] > 0
      BY <1>0, <2>2, <2>3
    <3>. QED  BY <1>0, <2>1, <2>3, <3>1, KeepersUnchanged
  <2>4. CASE jobCount[q] = 0
    <3>1. /\ \A u \in Threads : cur[u] # q /\ ~First(u, q)
          /\ ~InGlobal(q)
      BY <2>4 DEF KeptInv
    <3>2. \A p \in Queues : InGlobal(p)' <=> InGlobal(p)
      BY <1>0 DEF InGlobal
    <3>3. UniqueInv'
      BY <1>0, <2>1, <3>1, <3>2 DEF UniqueInv
    <3>4. jobCount'[q] > 0 /\ First(t, q)'
      BY <1>0, <2>1, <2>4
    <3>5. KeptInv'
      BY <1>0, <2>1, <3>2, <3>4 DEF KeptInv
    <3>. QED  BY <3>3, <3>5
  <2>. QED  BY <2>3, <2>4
<1>. QED  BY <1>1, <1>2, <1>3, <1>4

\* A call of Push begins with it.
LEMMA PushCountStep ==
    ASSUME IInv, NEW t \in Threads, NEW q \in Queues, NEW j \in Jobs,
           NEW only \in BOOLEAN, PushCount(t, q, j, only)
    PROVE  IInv'
<1>1. fresh' \in SUBSET Jobs
  BY DEF PushCount, IInv, TypeOK
<1>. QED  BY <1>1, CountJobStep DEF PushCount

\* _jobs.Push: a counted job becomes a queued one.
LEMMA PushJobStep ==
    ASSUME IInv, NEW t \in Threads, PushJob(t)
    PROVE  IInv'
<1>. USE SetsAssumption DEF IInv
<1>a. PICK q \in Queues : q = push[t].queue
  BY DEF PushJob, TypeOK, NoPush, PushState
<1>. USE <1>a
<1>0. /\ push[t] \in PushState /\ push[t].at = "counted" /\ q \in Queues
      /\ push[t].job \in Jobs
  BY DEF PushJob, TypeOK, NoPush, PushState
<1>1. /\ push'[t] = [push[t] EXCEPT !.at = "queued"]
      /\ \A u \in Threads \ {t} : push'[u] = push[u]
      /\ push' = [push EXCEPT ![t] = [push[t] EXCEPT !.at = "queued"]]
      /\ global' = global /\ cur' = cur /\ size' = size /\ jobCount' = jobCount
      /\ at' = at /\ batch' = batch /\ fresh' = fresh /\ forgotten' = forgotten
  BY DEF PushJob, TypeOK
<1>2. /\ push'[t] \in PushState /\ push'[t].at = "queued" /\ push'[t].queue = q
      /\ push'[t].first = push[t].first /\ push[t] # NoPush /\ push'[t] # NoPush
  BY <1>0, <1>1 DEF PushState, NoPush
<1>3. /\ jobs' = [jobs EXCEPT ![q] = Append(jobs[q], push[t].job)]
      /\ jobs' \in [Queues -> Seq(Jobs)]
      /\ Len(jobs'[q]) = Len(jobs[q]) + 1 /\ Len(jobs[q]) \in Nat
      /\ \A p \in Queues \ {q} : jobs'[p] = jobs[p]
  BY <1>0 DEF PushJob, TypeOK
<1>4. TypeOK'
  BY <1>1, <1>2, <1>3 DEF TypeOK
<1>5. LocalInv'
  BY <1>1, <1>2 DEF LocalInv
<1>6. CountInv'
  <2>1. Counted(q)' = Counted(q) \ {t} /\ t \in Counted(q)
    <3>1. t \in Counted(q)
      BY <1>0, <1>2 DEF Counted
    <3>2. ~(t \in Counted(q)')
      BY <1>2 DEF Counted
    <3>3. \A u \in Threads \ {t} : u \in Counted(q)' <=> u \in Counted(q)
      BY <1>1 DEF Counted
    <3>4. Counted(q) \subseteq Threads /\ Counted(q)' \subseteq Threads
      BY DEF Counted
    <3>. QED  BY <3>1, <3>2, <3>3, <3>4
  <2>2. Cardinality(Counted(q)') = Cardinality(Counted(q)) - 1
        /\ Cardinality(Counted(q)) \in Nat
    <3>1. IsFiniteSet(Counted(q)) /\ Cardinality(Counted(q)) \in Nat
      BY CountedFacts DEF Counted
    <3>2. Cardinality(Counted(q) \ {t}) = Cardinality(Counted(q)) - 1
      BY <2>1, <3>1, FS_RemoveElement
    <3>. QED  BY <2>1, <3>1, <3>2
  <2>3. ASSUME NEW p \in Queues \ {q}
        PROVE  Counted(p)' = Counted(p)
    <3>1. ~(t \in Counted(p)) /\ ~(t \in Counted(p)')
      BY <1>0, <1>2 DEF Counted
    <3>2. \A u \in Threads \ {t} : u \in Counted(p)' <=> u \in Counted(p)
      BY <1>1 DEF Counted
    <3>3. Counted(p) \subseteq Threads /\ Counted(p)' \subseteq Threads
      BY DEF Counted
    <3>. QED  BY <3>1, <3>2, <3>3
  <2>4. ASSUME NEW p \in Queues \ {q}
        PROVE  /\ jobCount'[p] >= Len(jobs'[p]) + Cardinality(Counted(p)')
               /\ \A u \in Threads : cur'[u] = p =>
                     jobCount'[p] >= Len(jobs'[p]) + Cardinality(Counted(p)') + size'[u]
    BY <1>1, <1>3, <2>3, <2>4 DEF CountInv
  <2>5. /\ jobCount'[q] >= Len(jobs'[q]) + Cardinality(Counted(q)')
        /\ \A u \in Threads : cur'[u] = q =>
              jobCount'[q] >= Len(jobs'[q]) + Cardinality(Counted(q)') + size'[u]
    BY <1>0, <1>1, <1>3, <2>2 DEF CountInv, TypeOK
  <2>. QED  BY <2>4, <2>5 DEF CountInv
<1>7. UniqueInv' /\ KeptInv'
  <2>1. \A u \in Threads, p \in Queues : First(u, p)' <=> First(u, p)
    BY <1>1, <1>2 DEF First
  <2>. QED  BY <1>1, <2>1, KeepersUnchanged
<1>. QED  BY <1>4, <1>5, <1>6, <1>7

\* A push that was not the first leaves the queue to its keeper.
LEMMA PushReturnStep ==
    ASSUME IInv, NEW t \in Threads, PushReturn(t)
    PROVE  IInv'
<1>. USE SetsAssumption DEF IInv
<1>0. /\ push[t].at = "queued" /\ ~push[t].first
      /\ push'[t] = NoPush /\ \A u \in Threads \ {t} : push'[u] = push[u]
      /\ cur' = cur /\ global' = global /\ jobCount' = jobCount /\ jobs' = jobs
      /\ size' = size
  BY DEF PushReturn, TypeOK
<1>1. TypeOK'
  BY DEF TypeOK, PushReturn
<1>2. LocalInv'
  BY DEF TypeOK, PushReturn, LocalInv
<1>3. CountInv'
  <2>1. \A q \in Queues : Counted(q)' = Counted(q)
    BY <1>0 DEF Counted
  <2>. QED  BY <1>0, <2>1 DEF CountInv
<1>4. UniqueInv' /\ KeptInv'
  <2>1. \A u \in Threads, q \in Queues : First(u, q)' <=> First(u, q)
    BY <1>0 DEF First
  <2>. QED  BY <1>0, <2>1, KeepersUnchanged
<1>. QED  BY <1>1, <1>2, <1>3, <1>4

\* The first pusher turns into the executor.
LEMMA PushExecuteStep ==
    ASSUME IInv, NEW t \in Threads, PushExecute(t)
    PROVE  IInv'
<1>. USE SetsAssumption DEF IInv
<1>a. PICK q \in Queues : q = push[t].queue
  <2>1. push[t] \in {NoPush} \union PushState /\ push[t].at = "queued"
    BY DEF PushExecute, TypeOK
  <2>2. push[t] \in PushState
    BY <2>1 DEF NoPush
  <2>3. push[t].queue \in Queues
    BY <2>2 DEF PushState
  <2>. QED  BY <2>3
<1>. USE <1>a
<1>0. /\ push[t] \in PushState /\ push[t].at = "queued" /\ push[t].first
      /\ q \in Queues /\ push[t] # NoPush
  BY DEF PushExecute, TypeOK, NoPush, PushState
<1>1. /\ push'[t] = NoPush /\ \A u \in Threads \ {t} : push'[u] = push[u]
      /\ cur[t] = NoQueue /\ cur' = [cur EXCEPT ![t] = q]
      /\ at' = [at EXCEPT ![t] = "pop"] /\ global' = global
      /\ jobCount' = jobCount /\ jobs' = jobs /\ size' = size /\ batch' = batch
      /\ fresh' = fresh /\ forgotten' = forgotten /\ push' = [push EXCEPT ![t] = NoPush]
  BY DEF PushExecute, Enter, TypeOK
<1>2. TypeOK'
  BY <1>0, <1>1 DEF TypeOK
<1>3. LocalInv'
  BY <1>0, <1>1 DEF TypeOK, LocalInv
<1>4. CountInv'
  <2>1. \A p \in Queues : Counted(p)' = Counted(p)
    BY <1>0, <1>1 DEF Counted, NoPush
  <2>2. size[t] = 0
    BY <1>1 DEF LocalInv
  <2>3. \A p \in Queues : Len(jobs[p]) \in Nat /\ Cardinality(Counted(p)) \in Nat
    BY CountedFacts DEF TypeOK, Counted
  <2>. QED  BY <1>0, <1>1, <2>1, <2>2, <2>3 DEF CountInv, TypeOK
<1>5. UniqueInv' /\ KeptInv'
  <2>1. First(t, q) /\ ~First(t, q)'
    BY <1>0, <1>1 DEF First
  <2>2. \A u \in Threads, p \in Queues : First(u, p)' <=> First(u, p) /\ <<u, p>> # <<t, q>>
    BY <1>0, <1>1 DEF First
  <2>3. \A u \in Threads, p \in Queues : First(u, p)' => First(u, p)
    BY <2>2
  <2>4. \A u \in Threads, p \in Queues : p # q /\ First(u, p) => First(u, p)'
    BY <2>2
  <2>5. \A p \in Queues : InGlobal(p)' <=> InGlobal(p)
    BY <1>1 DEF InGlobal
  <2>6. \A u \in Threads : cur'[u] = IF u = t THEN q ELSE cur[u]
    BY <1>1 DEF TypeOK
  <2>7. \A i, k \in 1..Len(global') : global'[i] = global'[k] => i = k
    BY <1>1 DEF UniqueInv
  <2>. QED  BY <1>0, <1>1, <2>1, <2>3, <2>4, <2>5, <2>6, <2>7, KeeperToExecute
<1>. QED  BY <1>2, <1>3, <1>4, <1>5

\* The first pusher leaves the queue in the global queue.
LEMMA PushHandOverStep ==
    ASSUME IInv, NEW t \in Threads, PushHandOver(t)
    PROVE  IInv'
<1>. USE SetsAssumption DEF IInv
<1>a. PICK q \in Queues : q = push[t].queue
  <2>1. push[t] \in {NoPush} \union PushState /\ push[t].at = "queued"
    BY DEF PushHandOver, TypeOK
  <2>2. push[t] \in PushState
    BY <2>1 DEF NoPush
  <2>3. push[t].queue \in Queues
    BY <2>2 DEF PushState
  <2>. QED  BY <2>3
<1>. USE <1>a
<1>0. /\ push[t] \in PushState /\ push[t].at = "queued" /\ push[t].first
      /\ q \in Queues /\ push[t] # NoPush
  BY DEF PushHandOver, TypeOK, NoPush, PushState
<1>1. /\ push'[t] = NoPush /\ \A u \in Threads \ {t} : push'[u] = push[u]
      /\ cur' = cur /\ at' = at /\ global' = Append(global, q)
      /\ jobCount' = jobCount /\ jobs' = jobs /\ size' = size /\ batch' = batch
      /\ fresh' = fresh /\ forgotten' = forgotten /\ push' = [push EXCEPT ![t] = NoPush]
  BY DEF PushHandOver, TypeOK
<1>2. TypeOK'
  BY <1>0, <1>1 DEF TypeOK
<1>3. LocalInv'
  BY <1>0, <1>1 DEF LocalInv
<1>4. CountInv'
  <2>1. \A p \in Queues : Counted(p)' = Counted(p)
    BY <1>0, <1>1 DEF Counted, NoPush
  <2>. QED  BY <1>1, <2>1 DEF CountInv
<1>5. UniqueInv' /\ KeptInv'
  <2>1. First(t, q)
    BY <1>0 DEF First
  <2>2. \A u \in Threads, p \in Queues : First(u, p)' <=> First(u, p) /\ <<u, p>> # <<t, q>>
    BY <1>0, <1>1 DEF First
  <2>3. \A u \in Threads : cur'[u] = IF u = t /\ cur[t] = q THEN NoQueue ELSE cur[u]
    BY <1>0, <1>1, <2>1 DEF UniqueInv
  <2>. QED  BY <1>0, <1>1, <2>1, <2>2, <2>3, KeeperToGlobal
<1>. QED  BY <1>2, <1>3, <1>4, <1>5

\* PopAll: queued jobs become jobs of the executor's batch.
LEMMA ExecPopAllStep ==
    ASSUME IInv, NEW t \in Threads, ExecPopAll(t)
    PROVE  IInv'
<1>. USE SetsAssumption DEF IInv
<1>a. PICK q \in Queues : q = cur[t]
  BY DEF ExecPopAll, TypeOK, LocalInv
<1>. USE <1>a
<1>1. /\ push' = push /\ cur' = cur /\ global' = global /\ jobCount' = jobCount
      /\ fresh' = fresh /\ forgotten' = forgotten /\ at[t] = "pop" /\ at' = [at EXCEPT ![t] = "run"]
      /\ batch' = [batch EXCEPT ![t] = jobs[q]]
      /\ jobs' = [jobs EXCEPT ![q] = <<>>] /\ size' = [size EXCEPT ![t] = Len(jobs[q])]
  BY DEF ExecPopAll
<1>2. /\ jobs[q] \in Seq(Jobs) /\ Len(jobs[q]) \in Nat /\ <<>> \in Seq(Jobs)
      /\ jobs'[q] = <<>> /\ Len(jobs'[q]) = 0
      /\ \A p \in Queues \ {q} : jobs'[p] = jobs[p]
      /\ size'[t] = Len(jobs[q]) /\ \A u \in Threads \ {t} : size'[u] = size[u]
  BY <1>1 DEF TypeOK
<1>3. TypeOK'
  BY <1>1, <1>2 DEF TypeOK
<1>4. LocalInv'
  BY <1>1, <1>2 DEF LocalInv, TypeOK
<1>5. CountInv'
  <2>1. \A p \in Queues : Counted(p)' = Counted(p) /\ Cardinality(Counted(p)) \in Nat
    BY <1>1, CountedFacts DEF Counted
  <2>2. ASSUME NEW p \in Queues \ {q}
        PROVE  /\ jobCount'[p] >= Len(jobs'[p]) + Cardinality(Counted(p)')
               /\ \A u \in Threads : cur'[u] = p =>
                     jobCount'[p] >= Len(jobs'[p]) + Cardinality(Counted(p)') + size'[u]
    BY <1>1, <1>2, <2>1, <2>2 DEF CountInv
  <2>3. jobCount[q] >= Len(jobs[q]) + Cardinality(Counted(q))
    BY DEF CountInv
  <2>4. \A u \in Threads : cur'[u] = q => u = t
    BY <1>1 DEF UniqueInv
  <2>5. /\ jobCount'[q] >= Len(jobs'[q]) + Cardinality(Counted(q)')
        /\ \A u \in Threads : cur'[u] = q =>
              jobCount'[q] >= Len(jobs'[q]) + Cardinality(Counted(q)') + size'[u]
    BY <1>1, <1>2, <2>1, <2>3, <2>4 DEF TypeOK
  <2>. QED  BY <2>2, <2>5 DEF CountInv
<1>6. UniqueInv' /\ KeptInv'
  <2>1. \A u \in Threads, p \in Queues : First(u, p)' <=> First(u, p)
    BY <1>1 DEF First
  <2>. QED  BY <1>1, <2>1, KeepersUnchanged
<1>. QED  BY <1>3, <1>4, <1>5, <1>6

\* Steps inside Execute's loop that touch only the thread's own locals.
LEMMA ExecLocalStep ==
    ASSUME IInv, NEW t \in Threads, ExecJobStart(t) \/ ExecJobEnd(t) \/ ExecAgain(t)
    PROVE  IInv'
<1>. USE SetsAssumption DEF IInv
<1>1. /\ push' = push /\ cur' = cur /\ global' = global /\ jobCount' = jobCount
      /\ fresh' = fresh /\ forgotten' = forgotten /\ jobs' = jobs /\ size' = size
      /\ at[t] \in {"run", "body", "more"} /\ at'[t] \in {"run", "body", "pop"}
      /\ at' \in [Threads -> {"out", "pop", "run", "body", "more"}]
      /\ \A u \in Threads \ {t} : at'[u] = at[u] /\ batch'[u] = batch[u]
  BY DEF ExecJobStart, ExecJobEnd, ExecAgain, TypeOK
<1>2. batch' \in [Threads -> Seq(Jobs)]
  <2>1. CASE ExecJobEnd(t)
    <3>1. batch[t] \in Seq(Jobs) /\ batch[t] # <<>>
      BY <2>1 DEF ExecJobEnd, TypeOK, LocalInv
    <3>2. Tail(batch[t]) \in Seq(Jobs)
      BY <3>1, HeadTailProperties
    <3>. QED  BY <2>1, <3>2 DEF ExecJobEnd, TypeOK
  <2>2. CASE ExecJobStart(t) \/ ExecAgain(t)
    BY <2>2 DEF ExecJobStart, ExecAgain, TypeOK
  <2>. QED  BY <2>1, <2>2
<1>3. TypeOK'
  BY <1>1, <1>2 DEF TypeOK
<1>4. LocalInv'
  BY <1>1 DEF LocalInv, TypeOK, ExecJobStart, ExecJobEnd, ExecAgain
<1>5. CountInv'
  BY <1>1 DEF CountInv, Counted
<1>6. UniqueInv' /\ KeptInv'
  <2>1. \A u \in Threads, p \in Queues : First(u, p)' <=> First(u, p)
    BY <1>1 DEF First
  <2>. QED  BY <1>1, <2>1, KeepersUnchanged
<1>. QED  BY <1>3, <1>4, <1>5, <1>6

\* ClearJobs takes jobs away but leaves them counted.
LEMMA ClearJobsStep ==
    ASSUME IInv, NEW t \in Threads, NEW q \in Queues, ClearJobs(t, q)
    PROVE  IInv'
<1>. USE SetsAssumption DEF IInv
<1>1. /\ push' = push /\ cur' = cur /\ global' = global /\ jobCount' = jobCount
      /\ size' = size /\ jobs' = [jobs EXCEPT ![q] = <<>>]
  BY DEF ClearJobs
<1>2. TypeOK'
  BY DEF ClearJobs, TypeOK
<1>3. LocalInv'
  BY DEF ClearJobs, LocalInv
<1>4. CountInv'
  <2>1. \A p \in Queues : Counted(p)' = Counted(p) /\ Cardinality(Counted(p)) \in Nat
    BY <1>1, CountedFacts DEF Counted
  <2>2. \A p \in Queues : Len(jobs[p]) \in Nat /\ Len(jobs'[p]) \in Nat
                          /\ Len(jobs'[p]) <= Len(jobs[p])
    <3>1. Len(<<>>) = 0
      OBVIOUS
    <3>. QED  BY <1>1, <3>1 DEF TypeOK
  <2>3. \A p \in Queues : jobCount[p] \in Int /\ \A u \in Threads : size[u] \in Nat
    BY DEF TypeOK
  <2>. QED  BY <1>1, <2>1, <2>2, <2>3 DEF CountInv
<1>5. UniqueInv' /\ KeptInv'
  <2>1. \A u \in Threads, p \in Queues : First(u, p)' <=> First(u, p)
    BY <1>1 DEF First
  <2>. QED  BY <1>1, <2>1, KeepersUnchanged
<1>. QED  BY <1>2, <1>3, <1>4, <1>5

\* fetch_sub: the executor stops being the keeper exactly at zero.
LEMMA ExecSubtractStep ==
    ASSUME IInv, NEW t \in Threads, ExecSubtract(t)
    PROVE  IInv'
<1>. USE SetsAssumption DEF IInv
<1>a. PICK q \in Queues : q = cur[t]
  BY DEF ExecSubtract, TypeOK, LocalInv
<1>. USE <1>a
<1>1. /\ push' = push /\ global' = global /\ jobs' = jobs /\ batch' = batch
      /\ fresh' = fresh /\ forgotten' = forgotten /\ at[t] = "run" /\ batch[t] = <<>>
      /\ jobCount' = [jobCount EXCEPT ![q] = jobCount[q] - size[t]]
      /\ size' = [size EXCEPT ![t] = 0]
      /\ \A u \in Threads \ {t} : cur'[u] = cur[u] /\ at'[u] = at[u]
      /\ IF jobCount[q] = size[t] THEN at'[t] = "out" /\ cur'[t] = NoQueue
                                  ELSE at'[t] = "more" /\ cur'[t] = q
      /\ cur' \in [Threads -> Queues \union {NoQueue}]
      /\ at' \in [Threads -> {"out", "pop", "run", "body", "more"}]
  BY DEF ExecSubtract, TypeOK
<1>2. /\ jobCount[q] \in Int /\ size[t] \in Nat /\ Len(jobs[q]) \in Nat
      /\ Cardinality(Counted(q)) \in Nat
      /\ jobCount[q] >= Len(jobs[q]) + Cardinality(Counted(q)) + size[t]
      /\ jobCount'[q] = jobCount[q] - size[t]
      /\ \A p \in Queues \ {q} : jobCount'[p] = jobCount[p]
  <2>1. jobCount[q] \in Int /\ size[t] \in Nat /\ Len(jobs[q]) \in Nat
    BY DEF TypeOK
  <2>2. Cardinality(Counted(q)) \in Nat
    BY CountedFacts DEF Counted
  <2>3. jobCount[q] >= Len(jobs[q]) + Cardinality(Counted(q)) + size[t]
    BY DEF CountInv
  <2>4. /\ jobCount'[q] = jobCount[q] - size[t]
        /\ \A p \in Queues \ {q} : jobCount'[p] = jobCount[p]
    BY <1>1 DEF TypeOK
  <2>. QED  BY <2>1, <2>2, <2>3, <2>4
<1>3. TypeOK'
  <2>1. jobCount' \in [Queues -> Int] /\ size' \in [Threads -> Nat]
    BY <1>1, <1>2 DEF TypeOK
  <2>. QED  BY <1>1, <2>1 DEF TypeOK
<1>4. LocalInv'
  BY <1>1, <1>2 DEF LocalInv, TypeOK
<1>5. \A u \in Threads : u # t => cur[u] # q
  BY DEF UniqueInv
<1>6. CountInv'
  <2>1. \A p \in Queues : Counted(p)' = Counted(p)
    BY <1>1 DEF Counted
  <2>2. ASSUME NEW p \in Queues \ {q}
        PROVE  /\ jobCount'[p] >= Len(jobs'[p]) + Cardinality(Counted(p)')
               /\ \A u \in Threads : cur'[u] = p =>
                     jobCount'[p] >= Len(jobs'[p]) + Cardinality(Counted(p)') + size'[u]
    <3>1. \A u \in Threads : cur'[u] = p => cur[u] = p /\ size'[u] = size[u]
      BY <1>1, <2>2 DEF TypeOK
    <3>. QED  BY <1>1, <1>2, <2>1, <3>1, <2>2 DEF CountInv
  <2>3. \A u \in Threads : cur'[u] = q => u = t /\ size'[u] = 0
    BY <1>1, <1>5 DEF TypeOK
  <2>4. /\ jobCount'[q] >= Len(jobs'[q]) + Cardinality(Counted(q)')
        /\ \A u \in Threads : cur'[u] = q =>
              jobCount'[q] >= Len(jobs'[q]) + Cardinality(Counted(q)') + size'[u]
    BY <1>1, <1>2, <2>1, <2>3
  <2>. QED  BY <2>2, <2>4 DEF CountInv
<1>7. \A u \in Threads, p \in Queues : First(u, p)' <=> First(u, p)
  BY <1>1 DEF First
<1>8. UniqueInv' /\ KeptInv'
  <2>1. CASE jobCount[q] # size[t]
    <3>1. cur' = cur
      BY <1>1, <2>1 DEF ExecSubtract
    <3>2. \A p \in Queues : jobCount'[p] > 0 <=> jobCount[p] > 0
      BY <1>2, <2>1
    <3>. QED  BY <1>1, <1>7, <3>1, <3>2, KeepersUnchanged
  <2>2. CASE jobCount[q] = size[t]
    <3>1. \A p \in Queues : InGlobal(p)' <=> InGlobal(p)
      BY <1>1 DEF InGlobal
    <3>2. UniqueInv'
      <4>1. \A u, v \in Threads : cur'[u] = cur'[v] /\ cur'[u] # NoQueue => u = v
        BY <1>1, <2>2 DEF UniqueInv
      <4>2. \A u \in Threads, p \in Queues : cur'[u] = p => cur[u] = p
        BY <1>1, <2>2
      <4>. QED  BY <1>1, <1>7, <3>1, <4>1, <4>2 DEF UniqueInv
    <3>3. /\ jobCount'[q] = 0
          /\ \A u \in Threads : cur'[u] # q /\ ~First(u, q)'
          /\ ~InGlobal(q)'
      <4>1. jobCount'[q] = 0
        BY <1>2, <2>2
      <4>2. \A u \in Threads : cur'[u] # q
        BY <1>1, <1>5, <2>2
      <4>3. ~InGlobal(q)' /\ \A u \in Threads : ~First(u, q)'
        BY <1>7, <3>1 DEF UniqueInv
      <4>. QED  BY <4>1, <4>2, <4>3
    <3>4. ASSUME NEW p \in Queues
          PROVE  jobCount'[p] > 0 <=> \/ \E u \in Threads : cur'[u] = p
                                      \/ \E u \in Threads : First(u, p)'
                                      \/ InGlobal(p)'
      <4>1. CASE p = q
        BY <3>3, <4>1
      <4>2. CASE p # q
        <5>1. (\E u \in Threads : cur'[u] = p) <=> (\E u \in Threads : cur[u] = p)
          BY <1>1, <2>2, <4>2
        <5>. QED  BY <1>2, <1>7, <3>1, <4>2, <5>1 DEF KeptInv
      <4>. QED  BY <4>1, <4>2
    <3>5. KeptInv'
      BY <3>4 DEF KeptInv
    <3>. QED  BY <3>2, <3>5
  <2>. QED  BY <2>1, <2>2
<1>. QED  BY <1>3, <1>4, <1>6, <1>8

\* An executor out of time leaves the queue in the global queue.
LEMMA ExecYieldStep ==
    ASSUME IInv, NEW t \in Threads, ExecYield(t)
    PROVE  IInv'
<1>. USE SetsAssumption DEF IInv
<1>a. PICK q \in Queues : q = cur[t]
  BY DEF ExecYield, TypeOK, LocalInv
<1>. USE <1>a
<1>1. /\ push' = push /\ jobs' = jobs /\ batch' = batch /\ size' = size
      /\ fresh' = fresh /\ forgotten' = forgotten /\ at[t] = "more" /\ jobCount' = jobCount
      /\ global' = Append(global, q)
      /\ cur' = [cur EXCEPT ![t] = NoQueue] /\ at' = [at EXCEPT ![t] = "out"]
  BY DEF ExecYield
<1>2. TypeOK'
  BY <1>1 DEF TypeOK
<1>3. LocalInv'
  BY <1>1 DEF LocalInv, TypeOK
<1>4. CountInv'
  <2>1. \A u \in Threads, p \in Queues : cur'[u] = p => cur[u] = p
    BY <1>1 DEF TypeOK
  <2>2. \A p \in Queues : Counted(p)' = Counted(p)
    BY <1>1 DEF Counted
  <2>3. /\ jobCount' = jobCount /\ jobs' = jobs /\ size' = size
    BY <1>1
  <2>. QED  BY <2>1, <2>2, <2>3 DEF CountInv
<1>5. UniqueInv' /\ KeptInv'
  <2>1. \A u \in Threads, p \in Queues : First(u, p)' <=> First(u, p) /\ <<u, p>> # <<t, q>>
    BY <1>1 DEF First, UniqueInv
  <2>2. \A u \in Threads : cur'[u] = IF u = t /\ cur[t] = q THEN NoQueue ELSE cur[u]
    BY <1>1 DEF TypeOK
  <2>. QED  BY <1>1, <2>1, <2>2, KeeperToGlobal
<1>. QED  BY <1>2, <1>3, <1>4, <1>5

\* A worker takes the oldest entry of the global queue.
LEMMA DoGlobalQueueWorkStep ==
    ASSUME IInv, NEW t \in Threads, DoGlobalQueueWork(t)
    PROVE  IInv'
<1>. USE SetsAssumption DEF IInv
<1>a. PICK q \in Queues : q = Head(global)
  BY HeadTailProperties DEF DoGlobalQueueWork, TypeOK
<1>. USE <1>a
<1>1. /\ push' = push /\ jobs' = jobs /\ batch' = batch /\ size' = size
      /\ fresh' = fresh /\ forgotten' = forgotten /\ jobCount' = jobCount /\ global # <<>>
      /\ at[t] = "out" /\ push[t] = NoPush /\ global' = Tail(global)
      /\ cur' = [cur EXCEPT ![t] = q] /\ at' = [at EXCEPT ![t] = "pop"]
  BY DEF DoGlobalQueueWork, Enter
<1>2. /\ global' \in Seq(Queues) /\ Len(global) \in Nat \ {0} /\ global[1] = q
      /\ Len(global') = Len(global) - 1
      /\ \A i \in 1..Len(global') : global'[i] = global[i + 1]
  <2>1. global \in Seq(Queues) /\ Len(global) \in Nat \ {0}
    BY <1>1, EmptySeq DEF TypeOK
  <2>2. global[1] = q
    BY <1>1, <2>1
  <2>. QED  BY <1>1, <2>1, <2>2, HeadTailProperties
<1>3. TypeOK'
  BY <1>1, <1>2 DEF TypeOK
<1>4. LocalInv'
  BY <1>1 DEF LocalInv, TypeOK
<1>5. cur[t] = NoQueue /\ size[t] = 0
  BY <1>1 DEF LocalInv
<1>6. CountInv'
  <2>1. \A p \in Queues : Counted(p)' = Counted(p)
    BY <1>1 DEF Counted
  <2>2. \A p \in Queues : Len(jobs[p]) \in Nat /\ Cardinality(Counted(p)) \in Nat
    BY CountedFacts DEF TypeOK, Counted
  <2>. QED  BY <1>1, <1>5, <2>1, <2>2 DEF CountInv, TypeOK
<1>7. UniqueInv' /\ KeptInv'
  <2>1. \A u \in Threads, p \in Queues : First(u, p)' <=> First(u, p)
    BY <1>1 DEF First
  <2>2. \A u \in Threads : cur'[u] = IF u = t THEN q ELSE cur[u]
    BY <1>1 DEF TypeOK
  <2>3. \A i, k \in 1..Len(global) : global[i] = global[k] => i = k
    BY DEF UniqueInv
  <2>4. \A i, k \in 1..Len(global') : global'[i] = global'[k] => i = k
    <3>. SUFFICES ASSUME NEW i \in 1..Len(global'), NEW k \in 1..Len(global'),
                         global'[i] = global'[k]
                  PROVE  i = k
      OBVIOUS
    <3>1. i + 1 \in 1..Len(global) /\ k + 1 \in 1..Len(global)
      BY <1>2
    <3>. QED  BY <1>2, <2>3, <3>1
  <2>5. InGlobal(q)
    BY <1>2 DEF InGlobal
  <2>6. ~InGlobal(q)'
    <3>. SUFFICES ASSUME NEW i \in 1..Len(global'), global'[i] = q PROVE FALSE
      BY DEF InGlobal
    <3>1. i + 1 \in 1..Len(global) /\ 1 \in 1..Len(global) /\ global[i + 1] = global[1]
      BY <1>2
    <3>. QED  BY <2>3, <3>1
  <2>7. ASSUME NEW p \in Queues, p # q PROVE InGlobal(p)' <=> InGlobal(p)
    <3>1. ASSUME NEW i \in 1..Len(global'), global'[i] = p PROVE InGlobal(p)
      <4>1. i + 1 \in 1..Len(global) /\ global[i + 1] = p
        BY <1>2, <3>1
      <4>. QED  BY <4>1 DEF InGlobal
    <3>2. ASSUME NEW i \in 1..Len(global), global[i] = p PROVE InGlobal(p)'
      <4>1. i # 1
        BY <1>2, <2>7, <3>2
      <4>2. i - 1 \in 1..Len(global') /\ global'[i - 1] = p
        BY <1>2, <3>2, <4>1
      <4>. QED  BY <4>2 DEF InGlobal
    <3>. QED  BY <3>1, <3>2 DEF InGlobal
  <2>. QED  BY <1>1, <1>5, <2>1, <2>2, <2>4, <2>5, <2>6, <2>7, KeeperToExecute
<1>. QED  BY <1>3, <1>4, <1>6, <1>7

-------------------------------------------------------------------------------
(* The invariant and what it gives. *)

\* The invariant holds when the queues are constructed.
LEMMA InitIInv == Init => IInv
<1>. SUFFICES ASSUME Init PROVE IInv
  OBVIOUS
<1>. USE SetsAssumption
<1>1. TypeOK /\ LocalInv
  BY DEF Init, TypeOK, LocalInv
<1>2. \A q \in Queues : Counted(q) = {} /\ ~InGlobal(q) /\ \A t \in Threads : ~First(t, q)
  BY DEF Init, Counted, InGlobal, First
<1>3. CountInv
  <2>1. \A q \in Queues : Len(jobs[q]) = 0 /\ jobCount[q] = 0
    BY DEF Init
  <2>2. \A q \in Queues : Cardinality(Counted(q)) = 0
    BY <1>2, FS_EmptySet
  <2>3. \A t \in Threads, q \in Queues : cur[t] # q
    BY DEF Init
  <2>. QED  BY <2>1, <2>2, <2>3 DEF CountInv
<1>4. UniqueInv
  BY <1>2 DEF Init, UniqueInv
<1>5. KeptInv
  BY <1>2 DEF Init, KeptInv
<1>. QED  BY <1>1, <1>3, <1>4, <1>5 DEF IInv

\* Every step of every thread keeps the invariant.
LEMMA NextIInv == IInv /\ [Next]_vars => IInv'
<1>. SUFFICES ASSUME IInv, [Next]_vars PROVE IInv'
  OBVIOUS
<1>1. CASE UNCHANGED vars
  <2>. USE <1>1 DEF vars, IInv
  <2>1. TypeOK' /\ LocalInv'
    BY DEF TypeOK, LocalInv
  <2>2. CountInv'
    BY DEF CountInv, Counted
  <2>3. UniqueInv' /\ KeptInv'
    BY DEF UniqueInv, KeptInv, First, InGlobal
  <2>. QED  BY <2>1, <2>2, <2>3
<1>2. ASSUME NEW t \in Threads, Work(t) PROVE IInv'
  BY <1>2, PushJobStep, PushReturnStep, PushExecuteStep, PushHandOverStep,
     ExecPopAllStep, ExecLocalStep, ExecSubtractStep, ExecYieldStep,
     DoGlobalQueueWorkStep DEF Work, Inside
<1>3. ASSUME NEW t \in Threads, Call(t) PROVE IInv'
  BY <1>3, PushCountStep, ClearJobsStep DEF Call
<1>. QED  BY <1>1, <1>2, <1>3 DEF Next

\* Type correctness of the job queues.
THEOREM TypeCorrect == Spec => []TypeOK
<1>1. IInv => TypeOK
  BY DEF IInv
<1>. QED  BY <1>1, InitIInv, NextIInv, PTL DEF Spec

\* At most one thread or entry of the global queue is responsible for a queue,
\* for any number of threads, queues and jobs.
THEOREM AtMostOneDuty == Spec => []OneDuty
<1>1. ASSUME IInv PROVE OneDuty
  <2>. SUFFICES ASSUME NEW q \in Queues, NEW d \in Duties(q), NEW e \in Duties(q)
                PROVE  d = e
    BY DEF OneDuty
  <2>1. DOMAIN global = 1..Len(global)
    BY <1>1 DEF IInv, TypeOK
  <2>2. \A x \in Duties(q) :
           \/ \E t \in Threads : x = <<"push", t>> /\ First(t, q)
           \/ \E t \in Threads : x = <<"exec", t>> /\ cur[t] = q
           \/ \E i \in 1..Len(global) : x = <<"global", i>> /\ global[i] = q
    BY <2>1 DEF Duties, First
  <2>3. q # NoQueue
    BY SetsAssumption
  <2>. QED  BY <1>1, <2>2, <2>3 DEF IInv, UniqueInv, InGlobal
<1>. QED  BY <1>1, InitIInv, NextIInv, PTL DEF Spec

\* A queue that holds a job has somebody responsible for running it.
THEOREM NeverStranded == Spec => []NoJobStranded
<1>1. ASSUME IInv PROVE NoJobStranded
  <2>. SUFFICES ASSUME NEW q \in Queues, jobs[q] # <<>>
                PROVE  Duties(q) # {}
    BY DEF NoJobStranded
  <2>1. Len(jobs[q]) \in Nat \ {0}
    BY <1>1, EmptySeq DEF IInv, TypeOK
  <2>2. jobCount[q] > 0
    <3>1. jobCount[q] \in Int /\ Cardinality(Counted(q)) \in Nat
      BY <1>1, CountedFacts DEF IInv, TypeOK, Counted
    <3>. QED  BY <1>1, <2>1, <3>1 DEF IInv, CountInv
  <2>3. DOMAIN global = 1..Len(global)
    BY <1>1 DEF IInv, TypeOK
  <2>4. CASE \E t \in Threads : cur[t] = q
    BY <2>4 DEF Duties
  <2>5. CASE \E t \in Threads : First(t, q)
    BY <2>5 DEF Duties, First
  <2>6. CASE InGlobal(q)
    BY <2>3, <2>6 DEF Duties, InGlobal
  <2>. QED  BY <1>1, <2>2, <2>4, <2>5, <2>6 DEF IInv, KeptInv
<1>. QED  BY <1>1, InitIInv, NextIInv, PTL DEF Spec

-------------------------------------------------------------------------------
(* The queues implement serial executors. *)

\* Head and tail of a concatenation are those of what comes first,
LEMMA HeadTailConcat ==
    ASSUME NEW S, NEW s \in Seq(S), NEW u \in Seq(S), s # <<>>
    PROVE  s \o u # <<>> /\ Head(s \o u) = Head(s) /\ Tail(s \o u) = Tail(s) \o u
<1>1. /\ s \o u \in Seq(S) /\ Len(s \o u) = Len(s) + Len(u)
      /\ \A i \in 1..Len(s) + Len(u) : (s \o u)[i] = IF i <= Len(s) THEN s[i] ELSE u[i - Len(s)]
  BY ConcatProperties
<1>2. Len(s) \in Nat \ {0} /\ Len(u) \in Nat
  BY EmptySeq
<1>3. s \o u # <<>>
  BY <1>1, <1>2
<1>4. Head(s \o u) = Head(s)
  <2>1. (s \o u)[1] = s[1]
    BY <1>1, <1>2
  <2>. QED  BY <1>1, <1>2, <1>3, <2>1
<1>5. Tail(s \o u) = Tail(s) \o u
  <2>1. /\ Tail(s) \in Seq(S) /\ Len(Tail(s)) = Len(s) - 1
        /\ \A i \in 1..Len(Tail(s)) : Tail(s)[i] = s[i + 1]
    BY HeadTailProperties
  <2>2. /\ Tail(s \o u) \in Seq(S) /\ Len(Tail(s \o u)) = Len(s \o u) - 1
        /\ \A i \in 1..Len(Tail(s \o u)) : Tail(s \o u)[i] = (s \o u)[i + 1]
    BY <1>1, <1>3, HeadTailProperties
  <2>3. /\ Tail(s) \o u \in Seq(S) /\ Len(Tail(s) \o u) = Len(Tail(s)) + Len(u)
        /\ \A i \in 1..Len(Tail(s)) + Len(u) :
             (Tail(s) \o u)[i] = IF i <= Len(Tail(s)) THEN Tail(s)[i] ELSE u[i - Len(Tail(s))]
    BY <2>1, ConcatProperties
  <2>4. ASSUME NEW i \in 1..Len(Tail(s \o u)) PROVE Tail(s \o u)[i] = (Tail(s) \o u)[i]
    <3>1. i \in Nat /\ i + 1 \in 1..Len(s) + Len(u) /\ i \in 1..Len(Tail(s)) + Len(u)
      BY <1>1, <1>2, <2>1, <2>2
    <3>2. CASE i <= Len(Tail(s))
      <4>1. i + 1 <= Len(s) /\ i \in 1..Len(Tail(s))
        BY <1>2, <2>1, <3>1, <3>2
      <4>. QED  BY <1>1, <2>1, <2>2, <2>3, <3>1, <3>2, <4>1
    <3>3. CASE ~(i <= Len(Tail(s)))
      <4>1. ~(i + 1 <= Len(s)) /\ (i + 1) - Len(s) = i - Len(Tail(s))
        BY <1>2, <2>1, <3>1, <3>3
      <4>. QED  BY <1>1, <2>2, <2>3, <3>1, <3>3, <4>1
    <3>. QED  BY <3>2, <3>3
  <2>5. Len(Tail(s \o u)) = Len(Tail(s) \o u)
    BY <1>1, <1>2, <2>1, <2>2, <2>3
  <2>. QED  BY <2>2, <2>3, <2>4, <2>5, SeqEqual
<1>. QED  BY <1>3, <1>4, <1>5

\* what is appended is appended to what comes last,
LEMMA AppendToConcat ==
    ASSUME NEW S, NEW s \in Seq(S), NEW u \in Seq(S), NEW e \in S
    PROVE  s \o Append(u, e) = Append(s \o u, e)
<1>. DEFINE one == <<e>>
<1>1. one \in Seq(S) /\ s \o u \in Seq(S)
  BY ConcatProperties
<1>2. Append(u, e) = u \o one /\ Append(s \o u, e) = (s \o u) \o one
  BY <1>1, AppendIsConcat
<1>. HIDE DEF one
<1>3. (s \o u) \o one = s \o (u \o one)
  BY <1>1, ConcatAssociative
<1>. QED  BY <1>2, <1>3

\* and the front is what comes first.
LEMMA FrontOfConcat ==
    ASSUME NEW S, NEW s \in Seq(S), NEW u \in Seq(S)
    PROVE  Len(s) \in 0..Len(s \o u) /\ SubSeq(s \o u, 1, Len(s)) = s
<1>1. Len(s) \in Nat /\ Len(u) \in Nat /\ Len(s \o u) = Len(s) + Len(u)
  BY ConcatProperties
<1>2. SubSeq(s \o u, 1, Len(s)) = s
  <2>1. CASE Len(s) = 0
    <3>1. s = <<>>
      BY <2>1, EmptySeq
    <3>2. SubSeq(s \o u, 1, 0) = <<>>
      BY SubSeqEmpty
    <3>. QED  BY <2>1, <3>1, <3>2
  <2>2. CASE Len(s) # 0
    <3>1. 1 \in 1..Len(s) /\ Len(s) \in 1..Len(s)
      BY <1>1, <2>2
    <3>2. SubSeq(s \o u, 1, Len(s)) = SubSeq(s, 1, Len(s))
      BY <3>1, SubSeqOfConcat1
    <3>. QED  BY <3>2, SubSeqFull
  <2>. QED  BY <2>1, <2>2
<1>. QED  BY <1>1, <1>2

\* The elements of s after the first n.
After(n, s) == {s[i] : i \in n+1..Len(s)}

\* What comes after the front of a concatenation is what comes last.
LEMMA BackOfConcat ==
    ASSUME NEW S, NEW s \in Seq(S), NEW u \in Seq(S)
    PROVE  After(Len(s), s \o u) = After(0, u)
<1>1. /\ Len(s) \in Nat /\ Len(u) \in Nat /\ Len(s \o u) = Len(s) + Len(u)
      /\ \A i \in 1..Len(s) + Len(u) : (s \o u)[i] = IF i <= Len(s) THEN s[i] ELSE u[i - Len(s)]
  BY ConcatProperties
<1>2. ASSUME NEW i \in 1..Len(u)
      PROVE  Len(s) + i \in Len(s)+1..Len(s \o u) /\ (s \o u)[Len(s) + i] = u[i]
  <2>1. /\ Len(s) + i \in Len(s)+1..Len(s \o u) /\ Len(s) + i \in 1..Len(s) + Len(u)
        /\ ~(Len(s) + i <= Len(s)) /\ (Len(s) + i) - Len(s) = i
    BY <1>1
  <2>. QED  BY <1>1, <2>1
<1>3. ASSUME NEW i \in Len(s)+1..Len(s \o u)
      PROVE  i - Len(s) \in 1..Len(u) /\ (s \o u)[i] = u[i - Len(s)]
  <2>1. i - Len(s) \in 1..Len(u) /\ i \in 1..Len(s) + Len(u) /\ ~(i <= Len(s))
    BY <1>1
  <2>. QED  BY <1>1, <2>1
<1>. DEFINE c == s \o u
<1>4. /\ \A i \in 1..Len(u) : \E k \in Len(s)+1..Len(c) : c[k] = u[i]
      /\ \A k \in Len(s)+1..Len(c) : \E i \in 1..Len(u) : c[k] = u[i]
  BY <1>2, <1>3
<1>5. After(0, u) = {u[i] : i \in 1..Len(u)}
  BY DEF After
<1>6. After(Len(s), c) = {c[k] : k \in Len(s)+1..Len(c)}
  BY DEF After
<1>7. After(Len(s), c) = After(0, u)
  <2>. HIDE DEF c
  <2>. QED  BY <1>4, <1>5, <1>6
<1>. QED  BY <1>7

\* What the thread that executes a queue has of it: the job it is in, and the
\* jobs it has taken and not begun.
Doing(t) == IF at[t] = "body" THEN Head(batch[t]) ELSE NoJob
Taken(t) == IF at[t] = "body" THEN Tail(batch[t]) ELSE batch[t]

\* Running and Pending without their CHOOSE.
Seen ==
    \A q \in Queues :
        /\ \A t \in Threads :
              cur[t] = q => Running(q) = Doing(t) /\ Pending(q) = Taken(t) \o jobs[q]
        /\ (\A t \in Threads : cur[t] # q) => Running(q) = NoJob /\ Pending(q) = jobs[q]

\* A queue has one executor at most, so this is what they are.
LEMMA SeenIs == IInv => Seen
<1>. SUFFICES ASSUME IInv, NEW q \in Queues
              PROVE  /\ \A t \in Threads :
                          cur[t] = q => Running(q) = Doing(t) /\ Pending(q) = Taken(t) \o jobs[q]
                     /\ (\A t \in Threads : cur[t] # q) => Running(q) = NoJob /\ Pending(q) = jobs[q]
  BY DEF Seen
<1>1. ASSUME NEW t \in Threads, cur[t] = q
      PROVE  Running(q) = Doing(t) /\ Pending(q) = Taken(t) \o jobs[q]
  <2>1. ExecutorOf(q) = {t}
    <3>1. q # NoQueue
      BY SetsAssumption
    <3>. QED  BY <1>1, <3>1 DEF IInv, UniqueInv, ExecutorOf
  <2>2. Running(q) = Doing(t)
    BY <2>1 DEF Running, Doing
  <2>3. Pending(q) = Taken(t) \o jobs[q]
    <3>1. ExecutorOf(q) # {} /\ (CHOOSE u \in ExecutorOf(q) : TRUE) = t
      BY <2>1
    <3>. QED  BY <3>1, Zenon DEF Pending, Taken
  <2>. QED  BY <2>2, <2>3
<1>2. ASSUME \A t \in Threads : cur[t] # q
      PROVE  Running(q) = NoJob /\ Pending(q) = jobs[q]
  <2>1. ExecutorOf(q) = {}
    BY <1>2 DEF ExecutorOf
  <2>. QED  BY <2>1 DEF Running, Pending
<1>. QED  BY <1>1, <1>2

\* A queue is the same to the abstract executor.
Same(q) == Running(q)' = Running(q) /\ Pending(q)' = Pending(q)

\* A queue is the same when its jobs, its executor and what that has of it are.
LEMMA SameQueue ==
    ASSUME Seen, Seen', NEW q \in Queues, jobs'[q] = jobs[q],
           \A t \in Threads : cur'[t] = q <=> cur[t] = q,
           \A t \in Threads : cur[t] = q => Doing(t)' = Doing(t) /\ Taken(t)' = Taken(t)
    PROVE  Same(q)
<1>1. CASE \E t \in Threads : cur[t] = q
  <2>1. PICK t \in Threads : cur[t] = q
    BY <1>1
  <2>2. Running(q) = Doing(t) /\ Pending(q) = Taken(t) \o jobs[q]
    BY <2>1 DEF Seen
  <2>3. Running(q)' = Doing(t)' /\ Pending(q)' = Taken(t)' \o jobs'[q]
    BY <2>1 DEF Seen
  <2>. QED  BY <2>1, <2>2, <2>3 DEF Same
<1>2. CASE \A t \in Threads : cur[t] # q
  <2>1. Running(q) = NoJob /\ Pending(q) = jobs[q]
    BY <1>2 DEF Seen
  <2>2. Running(q)' = NoJob /\ Pending(q)' = jobs'[q]
    BY <1>2 DEF Seen
  <2>. QED  BY <2>1, <2>2 DEF Same
<1>. QED  BY <1>1, <1>2

\* The types of what a thread has of its queue.
LEMMA TakenType ==
    ASSUME IInv, NEW t \in Threads
    PROVE  /\ batch[t] \in Seq(Jobs) /\ Taken(t) \in Seq(Jobs)
           /\ at[t] = "body" => batch[t] # <<>> /\ Head(batch[t]) \in Jobs
<1>1. batch[t] \in Seq(Jobs) /\ (at[t] = "body" => batch[t] # <<>>)
  BY DEF IInv, TypeOK, LocalInv
<1>2. batch[t] # <<>> => Head(batch[t]) \in Jobs /\ Tail(batch[t]) \in Seq(Jobs)
  BY <1>1, HeadTailProperties
<1>. QED  BY <1>1, <1>2 DEF Taken

\* _jobs.Push submits a job, whoever executes the queue.
LEMMA PushJobSubmits ==
    ASSUME IInv, Seen, Seen', NEW t \in Threads, PushJob(t)
    PROVE  \E q \in Queues, j \in Jobs :
              /\ Pending(q)' = Append(Pending(q), j) /\ Running(q)' = Running(q)
              /\ \A p \in Queues \ {q} : Same(p)
<1>1. push[t] # NoPush /\ push[t] \in PushState
  BY DEF PushJob, NoPush, IInv, TypeOK
<1>2. PICK q \in Queues : q = push[t].queue
  BY <1>1 DEF PushState
<1>3. PICK j \in Jobs : j = push[t].job
  BY <1>1 DEF PushState
<1>4. /\ jobs' = [jobs EXCEPT ![q] = Append(@, j)]
      /\ cur' = cur /\ at' = at /\ batch' = batch
  BY <1>2, <1>3 DEF PushJob
<1>5. /\ jobs[q] \in Seq(Jobs) /\ jobs'[q] = Append(jobs[q], j)
      /\ \A p \in Queues \ {q} : jobs'[p] = jobs[p]
  BY <1>4 DEF IInv, TypeOK
<1>6. \A u \in Threads : Doing(u)' = Doing(u) /\ Taken(u)' = Taken(u)
  BY <1>4 DEF Doing, Taken
<1>7. \A p \in Queues \ {q} : Same(p)
  BY <1>4, <1>5, <1>6, SameQueue
<1>8. Pending(q)' = Append(Pending(q), j) /\ Running(q)' = Running(q)
  <2>1. CASE \E u \in Threads : cur[u] = q
    <3>1. PICK u \in Threads : cur[u] = q
      BY <2>1
    <3>2. Running(q) = Doing(u) /\ Pending(q) = Taken(u) \o jobs[q]
      BY <3>1 DEF Seen
    <3>3. Running(q)' = Doing(u)' /\ Pending(q)' = Taken(u)' \o jobs'[q]
      BY <1>4, <3>1 DEF Seen
    <3>4. Taken(u) \in Seq(Jobs)
      BY TakenType
    <3>5. Taken(u) \o Append(jobs[q], j) = Append(Taken(u) \o jobs[q], j)
      BY <1>5, <3>4, AppendToConcat
    <3>. QED  BY <1>5, <1>6, <3>2, <3>3, <3>5
  <2>2. CASE \A u \in Threads : cur[u] # q
    <3>1. Running(q) = NoJob /\ Pending(q) = jobs[q]
      BY <2>2 DEF Seen
    <3>2. Running(q)' = NoJob /\ Pending(q)' = jobs'[q]
      BY <1>4, <2>2 DEF Seen
    <3>. QED  BY <1>5, <3>1, <3>2
  <2>. QED  BY <2>1, <2>2
<1>. QED  BY <1>7, <1>8

\* A thread that takes over a queue, or lets go of it, between two jobs changes
\* nothing about it as long as it leaves no job out.
LEMMA HandingOn ==
    ASSUME IInv, IInv', Seen, Seen', NEW t \in Threads, NEW q \in Queues,
           cur[t] \in {q, NoQueue}, cur'[t] \in {q, NoQueue}, cur[t] = q \/ cur'[t] = q,
           at[t] # "body", at'[t] # "body",
           cur[t] = NoQueue => batch[t] = <<>>, cur'[t] = NoQueue => batch'[t] = <<>>,
           batch'[t] \o jobs'[q] = batch[t] \o jobs[q],
           \A p \in Queues \ {q} : jobs'[p] = jobs[p],
           \A u \in Threads \ {t} : cur'[u] = cur[u] /\ at'[u] = at[u] /\ batch'[u] = batch[u]
    PROVE  \A p \in Queues : Same(p)
<1>1. q # NoQueue
  BY SetsAssumption
<1>2. \A u \in Threads \ {t} : cur[u] # q /\ cur'[u] # q
  BY <1>1 DEF IInv, UniqueInv
<1>3. jobs[q] \in Seq(Jobs) /\ jobs'[q] \in Seq(Jobs)
  BY DEF IInv, TypeOK
<1>4. Doing(t) = NoJob /\ Taken(t) = batch[t] /\ Doing(t)' = NoJob /\ Taken(t)' = batch'[t]
  BY DEF Doing, Taken
<1>5. ASSUME NEW p \in Queues \ {q} PROVE Same(p)
  <2>1. p # NoQueue
    BY SetsAssumption
  <2>2. \A u \in Threads \ {t} : Doing(u)' = Doing(u) /\ Taken(u)' = Taken(u)
    BY DEF Doing, Taken
  <2>3. cur[t] # p /\ cur'[t] # p
    BY <2>1
  <2>. QED  BY <2>2, <2>3, SameQueue
<1>6. Running(q) = NoJob /\ Pending(q) = batch[t] \o jobs[q]
  <2>1. CASE cur[t] = q
    BY <1>4, <2>1 DEF Seen
  <2>2. CASE cur[t] # q
    <3>1. Running(q) = NoJob /\ Pending(q) = jobs[q]
      BY <1>2, <2>2 DEF Seen
    <3>. QED  BY <1>3, <2>2, <3>1, ConcatEmptySeq
  <2>. QED  BY <2>1, <2>2
<1>7. Running(q)' = NoJob /\ Pending(q)' = batch'[t] \o jobs'[q]
  <2>1. CASE cur'[t] = q
    BY <1>4, <2>1 DEF Seen
  <2>2. CASE cur'[t] # q
    <3>1. Running(q)' = NoJob /\ Pending(q)' = jobs'[q]
      BY <1>2, <2>2 DEF Seen
    <3>. QED  BY <1>3, <2>2, <3>1, ConcatEmptySeq
  <2>. QED  BY <2>1, <2>2
<1>8. Same(q)
  BY <1>6, <1>7 DEF Same
<1>. QED  BY <1>5, <1>8

\* Taking over a queue, taking its jobs and giving it up are nothing to it.
LEMMA HandingOnIsNothing ==
    ASSUME IInv, IInv', Seen, Seen', NEW t \in Threads,
           \/ PushExecute(t) \/ DoGlobalQueueWork(t) \/ ExecPopAll(t)
           \/ ExecSubtract(t) \/ ExecAgain(t) \/ ExecYield(t)
    PROVE  \A q \in Queues : Same(q)
<1>1. /\ batch[t] \in Seq(Jobs) /\ \A q \in Queues : jobs[q] \in Seq(Jobs)
      /\ at[t] = "out" <=> cur[t] = NoQueue
      /\ at[t] \in {"out", "pop", "more"} => batch[t] = <<>>
  BY DEF IInv, TypeOK, LocalInv
<1>2. CASE PushExecute(t) \/ DoGlobalQueueWork(t)
  <2>1. PICK q \in Queues : cur' = [cur EXCEPT ![t] = q]
    <3>1. ASSUME PushExecute(t) PROVE push[t].queue \in Queues
      BY <3>1 DEF PushExecute, IInv, TypeOK, NoPush, PushState
    <3>2. ASSUME DoGlobalQueueWork(t) PROVE Head(global) \in Queues
      BY <3>2, HeadTailProperties DEF DoGlobalQueueWork, IInv, TypeOK
    <3>. QED  BY <1>2, <3>1, <3>2 DEF PushExecute, DoGlobalQueueWork, Enter
  <2>2. cur \in [Threads -> Queues \union {NoQueue}] /\ at \in [Threads -> {"out", "pop", "run", "body", "more"}]
    BY DEF IInv, TypeOK
  <2>3. /\ cur[t] = NoQueue /\ at[t] = "out" /\ at' = [at EXCEPT ![t] = "pop"]
        /\ batch' = batch /\ jobs' = jobs
    BY <1>1, <1>2 DEF PushExecute, DoGlobalQueueWork, Enter
  <2>4. cur'[t] = q /\ at'[t] = "pop" /\ batch[t] = <<>>
    BY <1>1, <2>1, <2>2, <2>3
  <2>5. \A u \in Threads \ {t} : cur'[u] = cur[u] /\ at'[u] = at[u] /\ batch'[u] = batch[u]
    BY <2>1, <2>2, <2>3
  <2>. QED  BY <2>3, <2>4, <2>5, HandingOn
<1>3. CASE ExecPopAll(t) \/ ExecSubtract(t) \/ ExecAgain(t) \/ ExecYield(t)
  <2>1. PICK q \in Queues : cur[t] = q
    BY <1>1, <1>3 DEF ExecPopAll, ExecSubtract, ExecAgain, ExecYield, IInv, TypeOK
  <2>2. /\ cur'[t] \in {q, NoQueue} /\ at[t] # "body" /\ at'[t] # "body"
        /\ \A u \in Threads \ {t} : cur'[u] = cur[u] /\ at'[u] = at[u] /\ batch'[u] = batch[u]
    <3>1. cur' = cur \/ cur' = [cur EXCEPT ![t] = NoQueue]
      BY <1>3 DEF ExecPopAll, ExecSubtract, ExecAgain, ExecYield
    <3>2. at[t] # "body" /\ \E a \in {"run", "out", "more", "pop"} : at' = [at EXCEPT ![t] = a]
      BY <1>3 DEF ExecPopAll, ExecSubtract, ExecAgain, ExecYield
    <3>3. batch' = batch \/ batch' = [batch EXCEPT ![t] = jobs[cur[t]]]
      BY <1>3 DEF ExecPopAll, ExecSubtract, ExecAgain, ExecYield
    <3>. QED  BY <2>1, <3>1, <3>2, <3>3 DEF IInv, TypeOK
  <2>3. batch[t] = <<>> \/ at[t] \in {"pop", "more"}
    BY <1>3 DEF ExecPopAll, ExecSubtract, ExecAgain, ExecYield
  <2>4. batch[t] = <<>>
    BY <1>1, <2>3
  <2>5. /\ batch'[t] \o jobs'[q] = batch[t] \o jobs[q]
        /\ cur'[t] = NoQueue => batch'[t] = <<>>
        /\ \A p \in Queues \ {q} : jobs'[p] = jobs[p]
    <3>1. CASE ExecPopAll(t)
      <4>1. batch'[t] = jobs[q] /\ jobs'[q] = <<>> /\ cur' = cur
        BY <2>1, <3>1 DEF ExecPopAll, IInv, TypeOK
      <4>2. \A p \in Queues \ {q} : jobs'[p] = jobs[p]
        BY <2>1, <3>1 DEF ExecPopAll, IInv, TypeOK
      <4>3. jobs[q] \o <<>> = jobs[q] /\ <<>> \o jobs[q] = jobs[q]
        BY <1>1, ConcatEmptySeq
      <4>. QED  BY <2>1, <2>4, <4>1, <4>2, <4>3, SetsAssumption
    <3>2. CASE ExecSubtract(t) \/ ExecAgain(t) \/ ExecYield(t)
      <4>1. batch' = batch /\ jobs' = jobs
        BY <3>2 DEF ExecSubtract, ExecAgain, ExecYield
      <4>. QED  BY <2>4, <4>1
    <3>. QED  BY <1>3, <3>1, <3>2
  <2>6. cur[t] # NoQueue
    BY <2>1, SetsAssumption
  <2>. QED  BY <2>1, <2>2, <2>5, <2>6, HandingOn
<1>. QED  BY <1>2, <1>3

\* A thread begins the oldest job that is pending,
LEMMA JobStartStarts ==
    ASSUME IInv, Seen, Seen', NEW t \in Threads, ExecJobStart(t)
    PROVE  \E q \in Queues :
              /\ Running(q) = NoJob /\ Pending(q) # <<>>
              /\ Running(q)' = Head(Pending(q)) /\ Pending(q)' = Tail(Pending(q))
              /\ \A p \in Queues \ {q} : Same(p)
<1>1. /\ at[t] = "run" /\ batch[t] # <<>> /\ at' = [at EXCEPT ![t] = "body"]
      /\ cur' = cur /\ jobs' = jobs /\ batch' = batch
  BY DEF ExecJobStart
<1>2. PICK q \in Queues : cur[t] = q
  BY <1>1 DEF IInv, TypeOK, LocalInv
<1>3. at'[t] = "body" /\ \A u \in Threads \ {t} : at'[u] = at[u]
  BY <1>1 DEF IInv, TypeOK
<1>4. /\ Doing(t) = NoJob /\ Taken(t) = batch[t]
      /\ Doing(t)' = Head(batch[t]) /\ Taken(t)' = Tail(batch[t])
  BY <1>1, <1>3 DEF Doing, Taken
<1>5. /\ Running(q) = NoJob /\ Pending(q) = batch[t] \o jobs[q]
      /\ Running(q)' = Head(batch[t]) /\ Pending(q)' = Tail(batch[t]) \o jobs[q]
  BY <1>1, <1>2, <1>4 DEF Seen
<1>6. batch[t] \in Seq(Jobs) /\ jobs[q] \in Seq(Jobs)
  BY DEF IInv, TypeOK
<1>7. /\ batch[t] \o jobs[q] # <<>>
      /\ Head(batch[t] \o jobs[q]) = Head(batch[t])
      /\ Tail(batch[t] \o jobs[q]) = Tail(batch[t]) \o jobs[q]
  BY <1>1, <1>6, HeadTailConcat
<1>8. ASSUME NEW p \in Queues \ {q} PROVE Same(p)
  <2>1. \A u \in Threads \ {t} : Doing(u)' = Doing(u) /\ Taken(u)' = Taken(u)
    BY <1>1, <1>3 DEF Doing, Taken
  <2>. QED  BY <1>1, <1>2, <2>1, SameQueue
<1>. QED  BY <1>5, <1>7, <1>8

\* and ends it.
LEMMA JobEndFinishes ==
    ASSUME IInv, Seen, Seen', NEW t \in Threads, ExecJobEnd(t)
    PROVE  \E q \in Queues :
              /\ Running(q) # NoJob /\ Running(q)' = NoJob /\ Pending(q)' = Pending(q)
              /\ \A p \in Queues \ {q} : Same(p)
<1>1. /\ at[t] = "body" /\ at' = [at EXCEPT ![t] = "run"]
      /\ cur' = cur /\ jobs' = jobs /\ batch' = [batch EXCEPT ![t] = Tail(@)]
  BY DEF ExecJobEnd
<1>2. PICK q \in Queues : cur[t] = q
  BY <1>1 DEF IInv, TypeOK, LocalInv
<1>3. /\ at'[t] = "run" /\ batch'[t] = Tail(batch[t])
      /\ \A u \in Threads \ {t} : at'[u] = at[u] /\ batch'[u] = batch[u]
  BY <1>1 DEF IInv, TypeOK
<1>4. /\ Doing(t) = Head(batch[t]) /\ Taken(t) = Tail(batch[t])
      /\ Doing(t)' = NoJob /\ Taken(t)' = Tail(batch[t])
  BY <1>1, <1>3 DEF Doing, Taken
<1>5. /\ Running(q) = Head(batch[t]) /\ Pending(q) = Tail(batch[t]) \o jobs[q]
      /\ Running(q)' = NoJob /\ Pending(q)' = Tail(batch[t]) \o jobs[q]
  BY <1>1, <1>2, <1>4 DEF Seen
<1>6. Head(batch[t]) \in Jobs
  BY <1>1, TakenType
<1>7. ASSUME NEW p \in Queues \ {q} PROVE Same(p)
  <2>1. \A u \in Threads \ {t} : Doing(u)' = Doing(u) /\ Taken(u)' = Taken(u)
    BY <1>1, <1>3 DEF Doing, Taken
  <2>. QED  BY <1>1, <1>2, <2>1, SameQueue
<1>. QED  BY <1>5, <1>6, <1>7, SetsAssumption

\* ClearJobs drops the youngest jobs, those no thread has taken.
LEMMA ClearJobsDrops ==
    ASSUME IInv, Seen, Seen', NEW t \in Threads, NEW q \in Queues, ClearJobs(t, q)
    PROVE  /\ \E n \in 0..Len(Pending(q)) :
                 /\ Pending(q)' = SubSeq(Pending(q), 1, n)
                 /\ forgotten' = forgotten \union After(n, Pending(q))
           /\ Running(q)' = Running(q)
           /\ \A p \in Queues \ {q} : Same(p)
<1>1. /\ jobs' = [jobs EXCEPT ![q] = <<>>]
      /\ cur' = cur /\ at' = at /\ batch' = batch
      /\ forgotten' = forgotten \union After(0, jobs[q])
  BY DEF ClearJobs, After
<1>2. /\ jobs[q] \in Seq(Jobs) /\ jobs'[q] = <<>>
      /\ \A p \in Queues \ {q} : jobs'[p] = jobs[p]
  BY <1>1 DEF IInv, TypeOK
<1>3. \A u \in Threads : Doing(u)' = Doing(u) /\ Taken(u)' = Taken(u)
  BY <1>1 DEF Doing, Taken
<1>4. \A p \in Queues \ {q} : Same(p)
  BY <1>1, <1>2, <1>3, SameQueue
<1>5. CASE \E u \in Threads : cur[u] = q
  <2>1. PICK u \in Threads : cur[u] = q
    BY <1>5
  <2>2. Running(q) = Doing(u) /\ Pending(q) = Taken(u) \o jobs[q]
    BY <2>1 DEF Seen
  <2>3. Running(q)' = Doing(u) /\ Pending(q)' = Taken(u) \o <<>>
    BY <1>1, <1>2, <1>3, <2>1 DEF Seen
  <2>4. Taken(u) \in Seq(Jobs)
    BY TakenType
  <2>5. Pending(q)' = Taken(u)
    BY <2>3, <2>4, ConcatEmptySeq
  <2>6. /\ Len(Taken(u)) \in 0..Len(Taken(u) \o jobs[q])
        /\ SubSeq(Taken(u) \o jobs[q], 1, Len(Taken(u))) = Taken(u)
    BY <1>2, <2>4, FrontOfConcat
  <2>. DEFINE s == Taken(u)
              w == jobs[q]
              both == s \o w
  <2>7. After(Len(s), both) = After(0, w)
    <3>1. s \in Seq(Jobs) /\ w \in Seq(Jobs)
      BY <1>2, <2>4
    <3>. HIDE DEF s, w
    <3>. QED  BY <3>1, BackOfConcat
  <2>8. /\ Len(s) \in 0..Len(both) /\ SubSeq(both, 1, Len(s)) = s
        /\ Pending(q) = both /\ Pending(q)' = s
        /\ forgotten' = forgotten \union After(Len(s), both)
    BY <1>1, <2>2, <2>5, <2>6, <2>7
  <2>9. \E n \in 0..Len(Pending(q)) : /\ Pending(q)' = SubSeq(Pending(q), 1, n)
                                     /\ forgotten' = forgotten \union After(n, Pending(q))
    <3>. HIDE DEF s, w, both
    <3>. QED  BY <2>8
  <2>. QED  BY <1>4, <2>2, <2>3, <2>9
<1>6. CASE \A u \in Threads : cur[u] # q
  <2>1. Running(q) = NoJob /\ Pending(q) = jobs[q]
    BY <1>6 DEF Seen
  <2>2. Running(q)' = NoJob /\ Pending(q)' = <<>>
    BY <1>1, <1>2, <1>6 DEF Seen
  <2>3. 0 \in 0..Len(jobs[q]) /\ SubSeq(jobs[q], 1, 0) = <<>>
    BY <1>2, SubSeqEmpty
  <2>. QED  BY <1>1, <1>4, <2>1, <2>2, <2>3
<1>. QED  BY <1>5, <1>6

\* The queues as the abstract executor sees them.
Waiting == [q \in Queues |-> Pending(q)]
Busy == [q \in Queues |-> Running(q)]

\* Every step is a step of the serial executors, or nothing to them.
LEMMA StepRefines ==
    ASSUME IInv, IInv', Seen, Seen', [Next]_vars
    PROVE  [Serial!Next]_(Serial!avars)
<1>1. (\A q \in Queues : Same(q)) /\ forgotten' = forgotten => UNCHANGED Serial!avars
  BY DEF Same, Serial!avars
<1>2. ASSUME jobs' = jobs, cur' = cur, at' = at, batch' = batch, forgotten' = forgotten
      PROVE  UNCHANGED Serial!avars
  <2>1. \A u \in Threads : Doing(u)' = Doing(u) /\ Taken(u)' = Taken(u)
    BY <1>2 DEF Doing, Taken
  <2>. QED  BY <1>1, <1>2, <2>1, SameQueue
<1>3. ASSUME NEW t \in Threads, Work(t)
      PROVE  Serial!Next \/ UNCHANGED Serial!avars
  <2>0. forgotten' = forgotten
    BY <1>3 DEF Work, Inside, PushJob, PushReturn, PushExecute, PushHandOver, ExecPopAll,
                ExecJobStart, ExecJobEnd, ExecSubtract, ExecAgain, ExecYield,
                DoGlobalQueueWork, Enter
  <2>1. CASE PushJob(t)
    <3>1. PICK q \in Queues, j \in Jobs :
             /\ Pending(q)' = Append(Pending(q), j) /\ Running(q)' = Running(q)
             /\ \A p \in Queues \ {q} : Same(p)
      BY <2>1, PushJobSubmits
    <3>2. /\ Waiting' = [Waiting EXCEPT ![q] = Append(@, j)] /\ Busy' = Busy
      BY <3>1 DEF Waiting, Busy, Same
    <3>3. Serial!Submit(q, j)
      BY <2>0, <3>2 DEF Serial!Submit, Waiting, Busy
    <3>. QED  BY <3>3 DEF Serial!Next
  <2>2. CASE PushReturn(t) \/ PushHandOver(t)
    BY <1>2, <2>0, <2>2 DEF PushReturn, PushHandOver
  <2>3. CASE \/ PushExecute(t) \/ DoGlobalQueueWork(t) \/ ExecPopAll(t)
             \/ ExecSubtract(t) \/ ExecAgain(t) \/ ExecYield(t)
    BY <1>1, <2>0, <2>3, HandingOnIsNothing
  <2>4. CASE ExecJobStart(t)
    <3>1. PICK q \in Queues :
             /\ Running(q) = NoJob /\ Pending(q) # <<>>
             /\ Running(q)' = Head(Pending(q)) /\ Pending(q)' = Tail(Pending(q))
             /\ \A p \in Queues \ {q} : Same(p)
      BY <2>4, JobStartStarts
    <3>2. /\ Waiting' = [Waiting EXCEPT ![q] = Tail(@)]
          /\ Busy' = [Busy EXCEPT ![q] = Head(Waiting[q])]
          /\ Busy[q] = NoJob /\ Waiting[q] # <<>>
      BY <3>1 DEF Waiting, Busy, Same
    <3>3. Serial!Start(q)
      BY <2>0, <3>2 DEF Serial!Start, Waiting, Busy
    <3>. QED  BY <3>3 DEF Serial!Next
  <2>5. CASE ExecJobEnd(t)
    <3>1. PICK q \in Queues :
             /\ Running(q) # NoJob /\ Running(q)' = NoJob /\ Pending(q)' = Pending(q)
             /\ \A p \in Queues \ {q} : Same(p)
      BY <2>5, JobEndFinishes
    <3>2. Waiting' = Waiting /\ Busy' = [Busy EXCEPT ![q] = NoJob] /\ Busy[q] # NoJob
      BY <3>1 DEF Waiting, Busy, Same
    <3>3. Serial!Finish(q)
      BY <2>0, <3>2 DEF Serial!Finish, Waiting, Busy
    <3>. QED  BY <3>3 DEF Serial!Next
  <2>. QED  BY <1>3, <2>1, <2>2, <2>3, <2>4, <2>5 DEF Work, Inside
<1>4. ASSUME NEW t \in Threads, Call(t)
      PROVE  Serial!Next \/ UNCHANGED Serial!avars
  <2>1. ASSUME NEW q \in Queues, ClearJobs(t, q) PROVE Serial!Next
    <3>1. Running(q)' = Running(q) /\ \A p \in Queues \ {q} : Same(p)
      BY <2>1, ClearJobsDrops
    <3>2. PICK n \in 0..Len(Pending(q)) :
             /\ Pending(q)' = SubSeq(Pending(q), 1, n)
             /\ forgotten' = forgotten \union After(n, Pending(q))
      BY <2>1, ClearJobsDrops
    <3>3. /\ n \in 0..Len(Waiting[q]) /\ Waiting' = [Waiting EXCEPT ![q] = SubSeq(@, 1, n)]
          /\ Busy' = Busy
          /\ forgotten' = forgotten \union After(n, Waiting[q])
      BY <3>1, <3>2 DEF Waiting, Busy, Same
    <3>4. Serial!Drop(q)
      BY <3>3 DEF Serial!Drop, Waiting, Busy, After
    <3>. QED  BY <3>4 DEF Serial!Next
  <2>2. ASSUME NEW q \in Queues, NEW j \in Jobs, NEW only \in BOOLEAN, PushCount(t, q, j, only)
        PROVE  UNCHANGED Serial!avars
    BY <1>2, <2>2 DEF PushCount
  <2>. QED  BY <1>4, <2>1, <2>2 DEF Call
<1>5. CASE UNCHANGED vars
  BY <1>2, <1>5 DEF vars
<1>. QED  BY <1>3, <1>4, <1>5 DEF Next

\* The job queues implement the serial executors: the jobs of a queue run one at a
\* time, in the order of _jobs, none twice, and the only jobs that leave a queue
\* without running are those ClearJobs throws away, for any number of threads,
\* queues and jobs (JobQueue.cpp 5-63, JobQueue.h:36).
THEOREM ImplementsExecutors == Spec => ImplementsSerialExecutor
<1>1. Init => Serial!Init
  <2>. SUFFICES ASSUME Init PROVE Serial!Init
    OBVIOUS
  <2>1. \A q \in Queues : ExecutorOf(q) = {} /\ jobs[q] = <<>>
    BY SetsAssumption DEF Init, ExecutorOf
  <2>2. \A q \in Queues : Running(q) = NoJob /\ Pending(q) = <<>>
    BY <2>1 DEF Running, Pending
  <2>. QED  BY <2>2 DEF Init, Serial!Init
<1>2. IInv /\ IInv' /\ Seen /\ Seen' /\ [Next]_vars => [Serial!Next]_(Serial!avars)
  BY StepRefines
<1>. QED  BY <1>1, <1>2, InitIInv, NextIInv, SeenIs, PTL
          DEF Spec, ImplementsSerialExecutor, Serial!Spec

-------------------------------------------------------------------------------
(* The timer: the queues underneath it. *)

\* A step that leaves the queues alone, but for the jobs nobody has pushed, keeps
\* their invariant.
LEMMA FreshStep ==
    ASSUME IInv, fresh' \in SUBSET Jobs,
           UNCHANGED <<jobs, jobCount, global, push, at, cur, batch, size, forgotten>>
    PROVE  IInv'
<1>1. TypeOK'
  BY DEF IInv, TypeOK
<1>2. LocalInv' /\ CountInv'
  BY DEF IInv, LocalInv, CountInv, Counted
<1>3. UniqueInv' /\ KeptInv'
  BY DEF IInv, UniqueInv, KeptInv, First, InGlobal
<1>. QED  BY <1>1, <1>2, <1>3 DEF IInv

\* The timer calls the queues in the ways they allow for.
LEMMA QueuesUnderneath == IInv /\ TimerTypeOK /\ [TimerNext]_allVars => IInv'
<1>. SUFFICES ASSUME IInv, TimerTypeOK, [TimerNext]_allVars PROVE IInv'
  OBVIOUS
<1>1. ASSUME UNCHANGED vars PROVE IInv'
  BY <1>1, NextIInv
<1>2. ASSUME NEW t \in Threads, QueueWork(t) PROVE IInv'
  <2>1. Work(t)
    BY <1>2 DEF QueueWork, QueueInside, Work
  <2>. QED  BY <2>1, NextIInv DEF Next
<1>3. ASSUME NEW t \in Threads, QueueCall(t) \/ QueueClear(t) PROVE IInv'
  BY <1>3, PushCountStep, ClearJobsStep DEF QueueCall, QueueClear
<1>4. ASSUME NEW t \in Threads, NEW q \in Queues, NEW j \in Jobs, NEW d \in Delays,
             ReserveTick(t, q, j, d)
      PROVE  IInv'
  <2>1. fresh' \in SUBSET Jobs
    BY <1>4 DEF ReserveTick, IInv, TypeOK
  <2>. QED  BY <1>4, <2>1, FreshStep DEF ReserveTick
<1>5. ASSUME NEW t \in Threads, DistributeOne(t) PROVE IInv'
  <2>. DEFINE i == Head(due[t])
  <2>1. i \in Items
    BY <1>5, HeadTailProperties DEF DistributeOne, TimerTypeOK
  <2>2. i.owner \in Queues /\ i.job \in Jobs /\ FALSE \in BOOLEAN
    BY <2>1 DEF Items
  <2>. HIDE DEF i
  <2>3. CASE i.owner \in gone
    <3>1. UNCHANGED vars
      BY <1>5, <2>3 DEF DistributeOne, HandOver, i, vars
    <3>. QED  BY <1>1, <3>1
  <2>4. CASE i.owner \notin gone
    <3>1. CountJob(t, i.owner, i.job, FALSE)
      BY <1>5, <2>4 DEF DistributeOne, HandOver, i
    <3>2. Free(t) /\ fresh' \in SUBSET Jobs
      BY <1>5 DEF DistributeOne, NextItem, Free, IInv, TypeOK
    <3>. QED  BY <1>5, <2>2, <3>1, <3>2, CountJobStep DEF DistributeOne
  <2>. QED  BY <2>3, <2>4
<1>6. ASSUME NEW t \in Threads,
             \/ ReserveInsert(t) \/ DistributeCall(t) \/ DistributeEnter(t)
             \/ DistributeTake(t) \/ DistributeDone(t) \/ Clear(t)
      PROVE  UNCHANGED vars
  BY <1>6 DEF ReserveInsert, DistributeCall, DistributeEnter, DistributeTake, DistributeDone, Clear
<1>7. ASSUME Tick \/ (\E q \in Queues : DropQueue(q)) \/ UNCHANGED allVars
      PROVE  UNCHANGED vars
  BY <1>7 DEF Tick, DropQueue, allVars
<1>. QED  BY <1>1, <1>2, <1>3, <1>4, <1>5, <1>6, <1>7 DEF TimerNext, Distribute, DistributeInside

\* What the priority queue gives is a sequence of all there is, each item once.
LEMMA PopOrderIs ==
    ASSUME NEW S \in SUBSET Items, IsFiniteSet(S), NEW s \in PopOrders(S)
    PROVE  /\ s \in Seq(Items) /\ \A n \in 1..Len(s) : s[n] \in S
           /\ \A m, n \in 1..Len(s) : m < n => s[m] # s[n] /\ s[m].executeTick <= s[n].executeTick
           /\ \A i \in S : \E n \in 1..Len(s) : s[n] = i
<1>. DEFINE N == Cardinality(S)
<1>1. N \in Nat
  BY FS_CardinalityType
<1>2. /\ s \in [1..N -> S]
      /\ \A m, n \in 1..N : m < n => s[m] # s[n] /\ s[m].executeTick <= s[n].executeTick
  BY DEF PopOrders
<1>. HIDE DEF N
<1>3. s \in Seq(Items) /\ Len(s) = N
  BY <1>1, <1>2
<1>4. \A m, n \in 1..N : s[m] = s[n] => m = n
  <2>. SUFFICES ASSUME NEW m \in 1..N, NEW n \in 1..N, s[m] = s[n], m # n PROVE FALSE
    OBVIOUS
  <2>1. m < n \/ n < m
    OBVIOUS
  <2>. QED  BY <1>2, <2>1
<1>5. s \in Injection(1..N, S)
  BY <1>2, <1>4 DEF Injection, IsInjective
<1>6. Cardinality(1..N) = N
  BY <1>1, FS_Interval
<1>7. s \in Surjection(1..N, S)
  BY <1>5, <1>6, FS_Injection DEF N
<1>8. \A i \in S : \E n \in 1..N : s[n] = i
  BY <1>7 DEF Surjection
<1>. QED  BY <1>2, <1>3, <1>8

\* Which thread distributes, and that it alone has jobs to hand over.
DistInv ==
    /\ IsFiniteSet(items)
    /\ \A t \in Threads : dist[t].at \in {"take", "push"} => distributing
    /\ \A t, u \in Threads :
          dist[t].at \in {"take", "push"} /\ dist[u].at \in {"take", "push"} => t = u
    /\ \A t \in Threads : due[t] # <<>> => dist[t].at = "push"
    /\ \A t \in Threads : at[t] = "body" => Head(batch[t]) \in started

\* t has counted job j and not queued it yet.
Pushing(t, j) == push[t] # NoPush /\ push[t].at = "counted" /\ push[t].job = j

\* j is in a place that it has to leave before it is pushed, taken or started.
Unstarted(j) ==
    j \notin started /\ \A t \in Threads : \A n \in 1..Len(batch[t]) : batch[t][n] # j
Unpushed(j) ==
    /\ Unstarted(j)
    /\ \A q \in Queues : \A n \in 1..Len(jobs[q]) : jobs[q][n] # j
    /\ \A t \in Threads : ~Pushing(t, j)
Undue(j) ==
    Unpushed(j) /\ \A t \in Threads : \A n \in 1..Len(due[t]) : due[t][n].job # j
Unlisted(j) ==
    Undue(j) /\ \A i \in items : i.job # j
Unreserved(j) == \A t \in Threads : \A i \in reserve[t] : i.job # j

\* On its way into the timer and out of it a job is in one place.
OnceInv ==
    /\ \A j \in fresh : Unlisted(j) /\ Unreserved(j)
    /\ \A t \in Threads : \A i \in reserve[t] :
          /\ Unlisted(i.job)
          /\ \A u \in Threads : \A m \in reserve[u] : m.job = i.job => u = t /\ m = i
    /\ \A i \in items : Undue(i.job) /\ \A m \in items : m.job = i.job => m = i
    /\ \A t \in Threads : \A n \in 1..Len(due[t]) :
          /\ Unpushed(due[t][n].job)
          /\ \A u \in Threads : \A m \in 1..Len(due[u]) :
                due[u][m].job = due[t][n].job => u = t /\ m = n

\* Wherever j is on its way through the timer, it is there for q.
Home(j, q) ==
    /\ j \notin fresh /\ Unreserved(j)
    /\ \A i \in items : i.job = j => i.owner = q
    /\ \A t \in Threads : \A n \in 1..Len(due[t]) : due[t][n].job = j => due[t][n].owner = q
    /\ \A t \in Threads : Pushing(t, j) => push[t].queue = q
    /\ \A p \in Queues : \A n \in 1..Len(jobs[p]) : jobs[p][n] = j => p = q
    /\ \A t \in Threads : \A n \in 1..Len(batch[t]) : batch[t][n] = j => cur[t] = q

\* k is in one of the places on the way, and j has not come as far: both wait in
\* the timer,
BothListed(j, k) ==
    \E i, m \in items : i.job = k /\ m.job = j /\ i.executeTick < m.executeTick
\* k is to be handed over,
DueBefore(j, k) ==
    \E t \in Threads : \E n \in 1..Len(due[t]) :
        /\ due[t][n].job = k /\ Unpushed(j)
        /\ \A u \in Threads : \A m \in 1..Len(due[u]) : due[u][m].job = j => u = t /\ n < m
\* is handed over,
PushedBefore(j, k) ==
    \E t \in Threads : Pushing(t, k) /\ dist[t].at = "push" /\ Unpushed(j)
\* is in _jobs of its queue,
QueuedBefore(q, j, k) ==
    \E n \in 1..Len(jobs[q]) :
        jobs[q][n] = k /\ Unstarted(j) /\ \A m \in 1..Len(jobs[q]) : jobs[q][m] = j => n < m
\* is about to run,
TakenBefore(q, j, k) ==
    \E t \in Threads : \E n \in 1..Len(batch[t]) :
        /\ cur[t] = q /\ batch[t][n] = k /\ j \notin started
        /\ \A m \in 1..Len(batch[t]) : batch[t][m] = j => n < m
\* or both come too late for their queue.
BothLate(q, j) == q \in gone /\ Unpushed(j)

Before(q, j, k) ==
    \/ BothListed(j, k) \/ DueBefore(j, k) \/ PushedBefore(j, k)
    \/ QueuedBefore(q, j, k) \/ TakenBefore(q, j, k) \/ BothLate(q, j)

\* Of two jobs that waited side by side the one with the earlier tick is ahead,
\* until it has started or was dropped.
PairInv ==
    \A j \in Jobs : \A k \in owed[j] :
        k \in started \union cleared \union forgotten \/
        (j # k /\ \E q \in Queues : Home(j, q) /\ Home(k, q) /\ Before(q, j, k))

TimerInv == IInv /\ TimerTypeOK /\ DistInv /\ OnceInv /\ PairInv

\* Every step keeps the types.
LEMMA TimerTypeStep ==
    IInv' /\ TimerTypeOK /\ DistInv /\ [TimerNext]_allVars => TimerTypeOK'
<1>. SUFFICES ASSUME IInv', TimerTypeOK, DistInv, [TimerNext]_allVars PROVE TimerTypeOK'
  OBVIOUS
<1>. USE TimerAssumption
<1>0. TypeOK'
  BY DEF IInv
<1>1. ASSUME NEW t \in Threads, QueueWork(t) PROVE TimerTypeOK'
  <2>1. started' \in SUBSET Jobs
    <3>1. at[t] = "run" /\ at'[t] = "body" => batch[t] # <<>>
      BY <1>1 DEF QueueWork, QueueInside, Inside, PushJob, PushReturn, PushExecute, PushHandOver, Enter,
                  ExecPopAll, ExecJobStart, ExecJobEnd, ExecSubtract, ExecAgain, ExecYield,
                  DoGlobalQueueWork, TimerTypeOK, TypeOK
    <3>2. batch[t] \in Seq(Jobs) /\ started \in SUBSET Jobs
      BY DEF TimerTypeOK, TypeOK
    <3>3. batch[t] # <<>> => Head(batch[t]) \in Jobs
      BY <3>2, HeadTailProperties
    <3>. QED  BY <1>1, <3>1, <3>2, <3>3 DEF QueueWork, QueueInside, QueueStep
  <2>. QED  BY <1>0, <1>1, <2>1 DEF QueueWork, QueueInside, QueueStep, timerVars, TimerTypeOK
<1>2. ASSUME NEW t \in Threads, QueueCall(t) \/ QueueClear(t) PROVE TimerTypeOK'
  BY <1>0, <1>2 DEF QueueCall, QueueClear, timerVars, TimerTypeOK
<1>3. ASSUME NEW t \in Threads, NEW q \in Queues, NEW j \in Jobs, NEW d \in Delays,
             ReserveTick(t, q, j, d)
      PROVE  TimerTypeOK'
  <2>0. clock \in Nat /\ d \in Nat
    <3>1. clock \in 0..LastTick /\ LastTick \in Nat
      BY DEF TimerTypeOK
    <3>2. d \in Nat
      BY TimerAssumption
    <3>. QED  BY <3>1, <3>2
  <2>1. clock + d \in Nat
    BY <2>0
  <2>2. {[executeTick |-> clock + d, owner |-> q, job |-> j]} \in SUBSET Items
    BY <2>1 DEF Items
  <2>3. reserve' \in [Threads -> SUBSET Items]
    BY <1>3, <2>2 DEF ReserveTick, TimerTypeOK
  <2>. QED  BY <1>0, <1>3, <2>3 DEF ReserveTick, TimerTypeOK
<1>4. ASSUME NEW t \in Threads, ReserveInsert(t) PROVE TimerTypeOK'
  <2>1. PICK i \in reserve[t] :
          /\ items' = items \union {i}
          /\ owed' = [j \in Jobs |->
                        IF j = i.job THEN {k.job : k \in {m \in items : Earlier(m, i)}}
                        ELSE IF \E k \in items : k.job = j /\ Earlier(i, k)
                        THEN owed[j] \union {i.job} ELSE owed[j]]
          /\ reserve' = [reserve EXCEPT ![t] = {}]
    BY <1>4 DEF ReserveInsert
  <2>2. i \in Items /\ items \in SUBSET Items
    BY DEF TimerTypeOK
  <2>3. /\ i.job \in Jobs /\ \A k \in items : k.job \in Jobs
        /\ owed \in [Jobs -> SUBSET Jobs]
    BY <2>2 DEF TimerTypeOK, Items
  <2>4. owed' \in [Jobs -> SUBSET Jobs]
    <3>1. ASSUME NEW j \in Jobs PROVE owed'[j] \in SUBSET Jobs
      BY <2>1, <2>3
    <3>2. owed' = [j \in Jobs |-> owed'[j]]
      BY <2>1
    <3>. QED  BY <3>1, <3>2
  <2>5. reserve' \in [Threads -> SUBSET Items]
    BY <2>1 DEF TimerTypeOK
  <2>. QED  BY <1>0, <1>4, <2>1, <2>2, <2>4, <2>5 DEF ReserveInsert, TimerTypeOK
<1>5. ASSUME NEW t \in Threads, DistributeCall(t) PROVE TimerTypeOK'
  <2>1. dist' \in [Threads -> {NotDistributing}
                      \union [at : {"call", "take"}, now : Nat] \union [at : {"push"}]]
    BY <1>5 DEF DistributeCall, TimerTypeOK
  <2>. QED  BY <1>0, <1>5, <2>1 DEF DistributeCall, TimerTypeOK
<1>6. ASSUME NEW t \in Threads, DistributeEnter(t) PROVE TimerTypeOK'
  <2>1. dist[t].at = "call" => dist[t].now \in Nat
    BY DEF TimerTypeOK, NotDistributing
  <2>2. dist' \in [Threads -> {NotDistributing}
                      \union [at : {"call", "take"}, now : Nat] \union [at : {"push"}]]
    BY <1>6, <2>1 DEF DistributeEnter, TimerTypeOK
  <2>3. distributing' \in BOOLEAN
    BY <1>6 DEF DistributeEnter
  <2>. QED  BY <1>0, <1>6, <2>2, <2>3 DEF DistributeEnter, TimerTypeOK
<1>7. ASSUME NEW t \in Threads, DistributeTake(t) PROVE TimerTypeOK'
  <2>. DEFINE ready == {i \in items : i.executeTick <= dist[t].now}
  <2>1. PICK s \in PopOrders(ready) : due' = [due EXCEPT ![t] = s]
    BY <1>7 DEF DistributeTake
  <2>2. ready \in SUBSET Items /\ ready \in SUBSET items /\ IsFiniteSet(items)
    BY DEF TimerTypeOK, DistInv
  <2>3. IsFiniteSet(ready)
    BY <2>2, FS_Subset
  <2>. HIDE DEF ready
  <2>4. s \in Seq(Items)
    BY <2>1, <2>2, <2>3, PopOrderIs
  <2>5. due' \in [Threads -> Seq(Items)]
    BY <2>1, <2>4 DEF TimerTypeOK
  <2>6. dist' \in [Threads -> {NotDistributing}
                      \union [at : {"call", "take"}, now : Nat] \union [at : {"push"}]]
    BY <1>7 DEF DistributeTake, TimerTypeOK
  <2>7. items' \in SUBSET Items
    BY <1>7 DEF DistributeTake, TimerTypeOK
  <2>. QED  BY <1>0, <1>7, <2>5, <2>6, <2>7 DEF DistributeTake, TimerTypeOK
<1>8. ASSUME NEW t \in Threads, DistributeOne(t) PROVE TimerTypeOK'
  <2>1. due[t] \in Seq(Items) /\ due[t] # <<>>
    BY <1>8 DEF DistributeOne, TimerTypeOK
  <2>2. Tail(due[t]) \in Seq(Items)
    BY <2>1, HeadTailProperties
  <2>3. due' \in [Threads -> Seq(Items)]
    BY <1>8, <2>2 DEF DistributeOne, TimerTypeOK
  <2>. QED  BY <1>0, <1>8, <2>3 DEF DistributeOne, TimerTypeOK
<1>9. ASSUME NEW t \in Threads, DistributeDone(t) PROVE TimerTypeOK'
  <2>1. dist' \in [Threads -> {NotDistributing}
                      \union [at : {"call", "take"}, now : Nat] \union [at : {"push"}]]
    BY <1>9 DEF DistributeDone, TimerTypeOK
  <2>2. distributing' \in BOOLEAN
    BY <1>9 DEF DistributeDone
  <2>. QED  BY <1>0, <1>9, <2>1, <2>2 DEF DistributeDone, TimerTypeOK
<1>10. ASSUME NEW t \in Threads, Clear(t) PROVE TimerTypeOK'
  <2>1. cleared' \in SUBSET Jobs /\ items' \in SUBSET Items
    BY <1>10 DEF Clear, TimerTypeOK, Items
  <2>. QED  BY <1>0, <1>10, <2>1 DEF Clear, TimerTypeOK
<1>11. ASSUME NEW q \in Queues, DropQueue(q) PROVE TimerTypeOK'
  <2>1. gone' \in SUBSET Queues
    BY <1>11 DEF DropQueue, TimerTypeOK
  <2>. QED  BY <1>0, <1>11, <2>1 DEF DropQueue, TimerTypeOK
<1>12. CASE Tick
  BY <1>0, <1>12 DEF Tick, TimerTypeOK
<1>13. CASE UNCHANGED allVars
  BY <1>0, <1>13 DEF allVars, timerVars, TimerTypeOK
<1>. QED  BY <1>1, <1>2, <1>3, <1>4, <1>5, <1>6, <1>7, <1>8, <1>9, <1>10, <1>11, <1>12, <1>13
          DEF TimerNext, Distribute, DistributeInside

\* One thread at a time distributes, and what runs has been started.
LEMMA DistStep ==
    IInv /\ TimerTypeOK /\ DistInv /\ [TimerNext]_allVars => DistInv'
<1>. SUFFICES ASSUME IInv, TimerTypeOK, DistInv, [TimerNext]_allVars PROVE DistInv'
  OBVIOUS
<1>. DEFINE InIt(d) == d.at \in {"take", "push"}
<1>. USE DEF NotDistributing
<1>0. ASSUME \A t \in Threads : dist'[t] = dist[t], due' = due, at' = at, batch' = batch,
             started' = started, distributing' = distributing, IsFiniteSet(items')
      PROVE  DistInv'
  BY <1>0 DEF DistInv
<1>1. ASSUME NEW t \in Threads, QueueWork(t) PROVE DistInv'
  <2>1. \A u \in Threads : at'[u] = "body" =>
           /\ batch'[u] = batch[u]
           /\ at[u] = "body" \/ (u = t /\ at[t] = "run")
    BY <1>1 DEF QueueWork, QueueInside, Inside, PushJob, PushReturn, PushExecute, PushHandOver, Enter,
                ExecPopAll, ExecJobStart, ExecJobEnd, ExecSubtract, ExecAgain, ExecYield,
                DoGlobalQueueWork, IInv, TypeOK
  <2>2. started' = IF at[t] = "run" /\ at'[t] = "body"
                   THEN started \union {Head(batch[t])} ELSE started
    BY <1>1 DEF QueueWork, QueueInside, QueueStep
  <2>3. \A u \in Threads : at'[u] = "body" => Head(batch'[u]) \in started'
    BY <2>1, <2>2 DEF DistInv
  <2>. QED  BY <1>1, <2>3 DEF QueueWork, QueueInside, QueueStep, timerVars, DistInv
<1>2. ASSUME NEW t \in Threads, QueueCall(t) \/ QueueClear(t) PROVE DistInv'
  BY <1>2 DEF QueueCall, QueueClear, PushCount, ClearJobs, timerVars, DistInv
<1>3. ASSUME NEW t \in Threads, NEW q \in Queues, NEW j \in Jobs, NEW d \in Delays,
             ReserveTick(t, q, j, d)
      PROVE  DistInv'
  BY <1>3 DEF ReserveTick, DistInv
<1>4. ASSUME NEW t \in Threads, ReserveInsert(t) PROVE DistInv'
  <2>1. PICK i \in reserve[t] : items' = items \union {i}
    BY <1>4 DEF ReserveInsert
  <2>2. IsFiniteSet(items')
    BY <2>1, FS_AddElement DEF DistInv
  <2>. QED  BY <1>0, <1>4, <2>2 DEF ReserveInsert, vars
<1>5. ASSUME NEW t \in Threads, DistributeCall(t) PROVE DistInv'
  <2>1. \A u \in Threads : dist'[u] = IF u = t THEN [at |-> "call", now |-> clock] ELSE dist[u]
    BY <1>5 DEF DistributeCall, TimerTypeOK
  <2>2. /\ due' = due /\ at' = at /\ batch' = batch /\ started' = started
        /\ items' = items /\ distributing' = distributing /\ dist[t].at # "push"
    BY <1>5 DEF DistributeCall, FreeToCall, vars
  <2>. QED  BY <2>1, <2>2 DEF DistInv
<1>6. ASSUME NEW t \in Threads, DistributeEnter(t) PROVE DistInv'
  <2>1. \A u \in Threads : u # t => dist'[u] = dist[u]
    BY <1>6 DEF DistributeEnter, TimerTypeOK
  <2>2. dist'[t].at = IF distributing THEN "no" ELSE "take"
    BY <1>6 DEF DistributeEnter, TimerTypeOK
  <2>3. /\ due' = due /\ at' = at /\ batch' = batch /\ started' = started
        /\ items' = items /\ distributing' /\ dist[t].at = "call"
    BY <1>6 DEF DistributeEnter, vars
  <2>. QED  BY <2>1, <2>2, <2>3 DEF DistInv
<1>7. ASSUME NEW t \in Threads, DistributeTake(t) PROVE DistInv'
  <2>1. \A u \in Threads : u # t => dist'[u] = dist[u] /\ due'[u] = due[u]
    BY <1>7 DEF DistributeTake, TimerTypeOK
  <2>2. dist'[t].at = "push" /\ dist[t].at = "take"
    BY <1>7 DEF DistributeTake, TimerTypeOK
  <2>3. /\ at' = at /\ batch' = batch /\ started' = started /\ distributing' = distributing
    BY <1>7 DEF DistributeTake, vars
  <2>4. items' \in SUBSET items /\ IsFiniteSet(items)
    BY <1>7 DEF DistributeTake, DistInv
  <2>5. IsFiniteSet(items')
    BY <2>4, FS_Subset
  <2>. QED  BY <2>1, <2>2, <2>3, <2>5 DEF DistInv
<1>8. ASSUME NEW t \in Threads, DistributeOne(t) PROVE DistInv'
  <2>1. \A u \in Threads : u # t => due'[u] = due[u]
    BY <1>8 DEF DistributeOne, TimerTypeOK
  <2>2. /\ at' = at /\ batch' = batch /\ started' = started /\ distributing' = distributing
        /\ items' = items /\ dist' = dist /\ dist[t].at = "push"
    BY <1>8 DEF DistributeOne, NextItem
  <2>. QED  BY <2>1, <2>2 DEF DistInv
<1>9. ASSUME NEW t \in Threads, DistributeDone(t) PROVE DistInv'
  <2>1. \A u \in Threads : u # t => dist'[u] = dist[u]
    BY <1>9 DEF DistributeDone, TimerTypeOK
  <2>2. dist'[t].at = "no" /\ dist[t].at = "push" /\ due[t] = <<>>
    BY <1>9 DEF DistributeDone, NextItem, TimerTypeOK
  <2>3. /\ at' = at /\ batch' = batch /\ started' = started
        /\ items' = items /\ due' = due
    BY <1>9 DEF DistributeDone, vars
  <2>. QED  BY <2>1, <2>2, <2>3 DEF DistInv
<1>10. ASSUME NEW t \in Threads, Clear(t) PROVE DistInv'
  BY <1>0, <1>10, FS_EmptySet DEF Clear, vars
<1>11. ASSUME Tick \/ (\E q \in Queues : DropQueue(q)) \/ UNCHANGED allVars PROVE DistInv'
  BY <1>0, <1>11 DEF Tick, DropQueue, allVars, timerVars, vars, DistInv
<1>. QED  BY <1>1, <1>2, <1>3, <1>4, <1>5, <1>6, <1>7, <1>8, <1>9, <1>10, <1>11
          DEF TimerNext, Distribute, DistributeInside

-------------------------------------------------------------------------------
(* What a job waits in keeps it from what comes after. *)

\* What is in the timer is there for its owner alone.
ListedHome == \A i \in items : Home(i.job, i.owner)

\* That is so when a job is in one place.
LEMMA ListedIsHome == TimerTypeOK /\ OnceInv => ListedHome
<1>. SUFFICES ASSUME TimerTypeOK, OnceInv, NEW i \in items PROVE Home(i.job, i.owner)
  BY DEF ListedHome
<1>1. i.job \notin fresh /\ Unreserved(i.job)
  BY DEF OnceInv, Unlisted, Unreserved
<1>2. Undue(i.job) /\ \A m \in items : m.job = i.job => m = i
  BY DEF OnceInv
<1>. QED  BY <1>1, <1>2 DEF Home, Undue, Unpushed, Unstarted

\* A step that puts nothing into the timer and pushes nothing.
LEMMA OnceKept ==
    ASSUME OnceInv, fresh' = fresh, reserve' = reserve, due' = due, items' \in SUBSET items,
           \A j \in Jobs : Unpushed(j) => Unpushed(j)', TimerTypeOK
    PROVE  OnceInv'
<1>1. \A j \in Jobs : (Undue(j) => Undue(j)') /\ (Unlisted(j) => Unlisted(j)')
  BY DEF Undue, Unlisted
<1>2. \A j \in Jobs : Unreserved(j)' = Unreserved(j)
  BY DEF Unreserved
<1>3. fresh \in SUBSET Jobs /\ \A i \in Items : i.job \in Jobs
  BY DEF TimerTypeOK, TypeOK, Items
<1>4. /\ \A t \in Threads : \A i \in reserve[t] : i.job \in Jobs
      /\ \A i \in items : i.job \in Jobs
      /\ \A t \in Threads : \A n \in 1..Len(due[t]) : due[t][n].job \in Jobs
  BY <1>3 DEF TimerTypeOK
<1>5. \A j \in fresh' : Unlisted(j)' /\ Unreserved(j)'
  BY <1>1, <1>2, <1>3 DEF OnceInv
<1>6. \A t \in Threads : \A i \in reserve'[t] :
          /\ Unlisted(i.job)'
          /\ \A u \in Threads : \A m \in reserve'[u] : m.job = i.job => u = t /\ m = i
  BY <1>1, <1>4 DEF OnceInv
<1>7. \A i \in items' : Undue(i.job)' /\ \A m \in items' : m.job = i.job => m = i
  BY <1>1, <1>4 DEF OnceInv
<1>8. \A t \in Threads : \A n \in 1..Len(due'[t]) :
          \A u \in Threads : \A m \in 1..Len(due'[u]) :
             due'[u][m].job = due'[t][n].job => u = t /\ m = n
  BY DEF OnceInv
<1>9. ASSUME NEW t \in Threads, NEW n \in 1..Len(due'[t]) PROVE Unpushed(due[t][n].job)'
  <2>. DEFINE j == due[t][n].job
  <2>1. Unpushed(j) /\ j \in Jobs /\ j' = j
    BY <1>4, <1>9 DEF OnceInv
  <2>2. (\A i \in Jobs : Unpushed(i) => Unpushed(i)') => Unpushed(j)'
    BY <2>1 DEF Unpushed, Unstarted, Pushing
  <2>. QED  BY <2>2
<1>. QED  BY <1>5, <1>6, <1>7, <1>8, <1>9 DEF OnceInv

\* A step that moves job j nowhere.
Still(j) ==
    /\ jobs' = jobs /\ batch' = batch /\ started' = started
    /\ items' = items /\ due' = due /\ gone \in SUBSET gone'
    /\ fresh' \in SUBSET fresh /\ (Unreserved(j) => Unreserved(j)')
    /\ \A u \in Threads : Pushing(u, j)' = Pushing(u, j)
    /\ \A u \in Threads : Pushing(u, j) => /\ push'[u].queue = push[u].queue
                                           /\ dist[u].at = "push" => dist'[u].at = "push"
    /\ \A u \in Threads : batch[u] # <<>> => cur'[u] = cur[u]

\* What is ahead of a job stays there when neither moves.
LEMMA StillAhead ==
    ASSUME NEW j \in Jobs, NEW k \in Jobs, NEW q \in Queues, TimerTypeOK,
           Still(j), Still(k), Home(j, q), Home(k, q), Before(q, j, k)
    PROVE  Home(j, q)' /\ Home(k, q)' /\ Before(q, j, k)'
<1>0. \A u \in Threads : batch[u] \in Seq(Jobs)
  BY DEF TimerTypeOK, TypeOK
<1>1. \A u \in Threads : \A n \in 1..Len(batch[u]) : cur'[u] = cur[u]
  BY <1>0 DEF Still
<1>2. ASSUME NEW i \in Jobs, Home(i, q), Still(i) PROVE Home(i, q)'
  <2>1. i \notin fresh' /\ Unreserved(i)'
    BY <1>2 DEF Home, Still
  <2>2. \A t \in Threads : Pushing(t, i)' => push'[t].queue = q
    BY <1>2 DEF Home, Still
  <2>3. \A t \in Threads : \A n \in 1..Len(batch[t]) : batch[t][n] = i => cur'[t] = q
    BY <1>1, <1>2 DEF Home
  <2>. QED  BY <1>2, <2>1, <2>2, <2>3 DEF Home, Still
<1>3. Unstarted(j)' = Unstarted(j)
  BY DEF Still, Unstarted
<1>4. Unpushed(j) => Unpushed(j)'
  BY <1>3 DEF Still, Unpushed
<1>5. BothListed(j, k) => BothListed(j, k)'
  BY DEF Still, BothListed
<1>6. DueBefore(j, k) => DueBefore(j, k)'
  BY <1>4 DEF Still, DueBefore
<1>7. PushedBefore(j, k) => PushedBefore(j, k)'
  BY <1>4 DEF Still, PushedBefore
<1>8. QueuedBefore(q, j, k) => QueuedBefore(q, j, k)'
  BY <1>3 DEF Still, QueuedBefore
<1>9. TakenBefore(q, j, k) => TakenBefore(q, j, k)'
  BY <1>1 DEF Still, TakenBefore
<1>10. BothLate(q, j) => BothLate(q, j)'
  BY <1>4 DEF Still, BothLate
<1>. QED  BY <1>2, <1>5, <1>6, <1>7, <1>8, <1>9, <1>10 DEF Before

\* The invariant follows when every pair is kept or the first has started.
LEMMA PairsKept ==
    ASSUME TimerTypeOK, PairInv, owed' = owed,
           started \in SUBSET started', cleared \in SUBSET cleared', forgotten \in SUBSET forgotten',
           \A j, k \in Jobs : \A q \in Queues :
              j # k /\ Home(j, q) /\ Home(k, q) /\ Before(q, j, k)
                 => \/ k \in started' \union cleared' \union forgotten'
                    \/ Home(j, q)' /\ Home(k, q)' /\ Before(q, j, k)'
    PROVE  PairInv'
<1>. SUFFICES ASSUME NEW j \in Jobs, NEW k \in owed[j], k \notin started' \union cleared' \union forgotten'
              PROVE  j # k /\ \E q \in Queues : Home(j, q)' /\ Home(k, q)' /\ Before(q, j, k)'
  BY DEF PairInv
<1>1. k \in Jobs
  BY DEF TimerTypeOK
<1>2. j # k /\ \E q \in Queues : Home(j, q) /\ Home(k, q) /\ Before(q, j, k)
  BY DEF PairInv
<1>. QED  BY <1>1, <1>2

\* The job that is queued is the last in its queue.
LEMMA PushJobAhead ==
    ASSUME NEW t \in Threads, TimerTypeOK, LocalInv, PushJob(t),
           UNCHANGED timerVars, started' = started
    PROVE  /\ \A j \in Jobs : Unpushed(j) => Unpushed(j)'
           /\ \A j, k \in Jobs : \A q \in Queues :
                 j # k /\ Home(j, q) /\ Home(k, q) /\ Before(q, j, k)
                    => Home(j, q)' /\ Home(k, q)' /\ Before(q, j, k)'
<1>. DEFINE p == push[t].queue
            x == push[t].job
<1>1. /\ push[t] # NoPush /\ push[t].at = "counted" /\ p \in Queues /\ x \in Jobs
      /\ jobs' = [jobs EXCEPT ![p] = Append(@, x)]
      /\ push' = [push EXCEPT ![t].at = "queued"]
      /\ batch' = batch /\ cur' = cur /\ fresh' = fresh
  BY DEF PushJob, NoPush, TimerTypeOK, TypeOK, PushState
<1>2. Pushing(t, x)
  BY <1>1 DEF Pushing
<1>3. /\ \A i : ~Pushing(t, i)'
      /\ \A u \in Threads : u # t => push'[u] = push[u]
  BY <1>1 DEF Pushing, TimerTypeOK, TypeOK
<1>4. /\ \A r \in Queues : jobs[r] \in Seq(Jobs)
      /\ \A r \in Queues : r # p => jobs'[r] = jobs[r]
      /\ jobs'[p] = Append(jobs[p], x)
  BY <1>1 DEF TimerTypeOK, TypeOK
<1>5. /\ Len(jobs[p]) \in Nat /\ Len(jobs'[p]) = Len(jobs[p]) + 1
      /\ \A n \in 1..Len(jobs[p]) : jobs'[p][n] = jobs[p][n]
      /\ jobs'[p][Len(jobs[p]) + 1] = x
  BY <1>1, <1>4
<1>6. \A n \in 1..Len(jobs'[p]) : n \in 1..Len(jobs[p]) \/ n = Len(jobs[p]) + 1
  BY <1>5
<1>. HIDE DEF p, x
<1>7. \A j : Unstarted(j)' = Unstarted(j)
  BY <1>1 DEF Unstarted
<1>8. ASSUME NEW j \in Jobs, Unpushed(j) PROVE Unpushed(j)' /\ j # x
  <2>1. j # x
    BY <1>2, <1>8 DEF Unpushed
  <2>2. \A r \in Queues : \A n \in 1..Len(jobs'[r]) : jobs'[r][n] # j
    BY <1>1, <1>4, <1>5, <1>6, <1>8, <2>1 DEF Unpushed
  <2>3. \A u \in Threads : ~Pushing(u, j)'
    BY <1>3, <1>8 DEF Unpushed, Pushing
  <2>. QED  BY <1>7, <1>8, <2>1, <2>2, <2>3 DEF Unpushed
<1>9. ASSUME NEW j \in Jobs, NEW q \in Queues, Home(j, q) PROVE Home(j, q)'
  <2>1. j = x => q = p
    BY <1>2, <1>9 DEF Home, p
  <2>2. \A r \in Queues : \A n \in 1..Len(jobs'[r]) : jobs'[r][n] = j => r = q
    BY <1>1, <1>4, <1>5, <1>6, <1>9, <2>1 DEF Home
  <2>3. \A u \in Threads : Pushing(u, j)' => push'[u].queue = q
    BY <1>3, <1>9 DEF Home, Pushing
  <2>4. Unreserved(j)'
    BY <1>9 DEF Home, Unreserved, timerVars
  <2>. QED  BY <1>1, <1>9, <2>2, <2>3, <2>4 DEF Home, timerVars
<1>10. ASSUME NEW j \in Jobs, NEW k \in Jobs, NEW q \in Queues,
              j # k, Home(j, q), Home(k, q), Before(q, j, k)
       PROVE  Before(q, j, k)'
  <2>1. BothListed(j, k) => BothListed(j, k)'
    BY DEF BothListed, timerVars
  <2>2. DueBefore(j, k) => DueBefore(j, k)'
    BY <1>8 DEF DueBefore, timerVars
  <2>3. ASSUME PushedBefore(j, k) PROVE PushedBefore(j, k)' \/ QueuedBefore(q, j, k)'
    <3>1. PICK u \in Threads : Pushing(u, k) /\ dist[u].at = "push" /\ Unpushed(j)
      BY <2>3 DEF PushedBefore
    <3>2. CASE u # t
      BY <1>3, <1>8, <3>1, <3>2 DEF PushedBefore, Pushing, timerVars
    <3>3. CASE u = t
      <4>1. k = x /\ q = p
        BY <1>2, <1>10, <3>1, <3>3 DEF Pushing, Home, x, p
      <4>2. Unstarted(j)' /\ \A n \in 1..Len(jobs[p]) : jobs[p][n] # j
        BY <1>1, <1>7, <3>1 DEF Unpushed
      <4>3. \A n \in 1..Len(jobs'[p]) : jobs'[p][n] # j
        BY <1>5, <1>6, <1>10, <4>1, <4>2
      <4>4. Len(jobs[p]) + 1 \in 1..Len(jobs'[p])
        BY <1>5
      <4>. QED  BY <1>5, <4>1, <4>2, <4>3, <4>4 DEF QueuedBefore
    <3>. QED  BY <3>2, <3>3
  <2>4. ASSUME QueuedBefore(q, j, k) PROVE QueuedBefore(q, j, k)'
    <3>1. PICK n \in 1..Len(jobs[q]) :
             jobs[q][n] = k /\ Unstarted(j) /\ \A m \in 1..Len(jobs[q]) : jobs[q][m] = j => n < m
      BY <2>4 DEF QueuedBefore
    <3>2. CASE q # p
      BY <1>4, <1>7, <3>1, <3>2 DEF QueuedBefore
    <3>3. CASE q = p
      <4>1. n \in 1..Len(jobs'[q]) /\ jobs'[q][n] = k
        BY <1>5, <3>1, <3>3
      <4>2. \A m \in 1..Len(jobs'[q]) : jobs'[q][m] = j => n < m
        BY <1>5, <1>6, <3>1, <3>3
      <4>. QED  BY <1>7, <3>1, <4>1, <4>2 DEF QueuedBefore
    <3>. QED  BY <3>2, <3>3
  <2>5. TakenBefore(q, j, k) => TakenBefore(q, j, k)'
    BY <1>1 DEF TakenBefore
  <2>6. BothLate(q, j) => BothLate(q, j)'
    BY <1>8 DEF BothLate, timerVars
  <2>. QED  BY <1>10, <2>1, <2>2, <2>3, <2>4, <2>5, <2>6 DEF Before
<1>. QED  BY <1>8, <1>9, <1>10

\* Execute takes the jobs in the order they are queued in.
LEMMA PopAllAhead ==
    ASSUME NEW t \in Threads, TimerTypeOK, LocalInv, ExecPopAll(t),
           UNCHANGED timerVars, started' = started
    PROVE  /\ \A j \in Jobs : Unpushed(j) => Unpushed(j)'
           /\ \A j, k \in Jobs : \A q \in Queues :
                 j # k /\ Home(j, q) /\ Home(k, q) /\ Before(q, j, k)
                    => Home(j, q)' /\ Home(k, q)' /\ Before(q, j, k)'
<1>. DEFINE p == cur[t]
<1>1. /\ p \in Queues /\ batch[t] = <<>>
      /\ jobs' = [jobs EXCEPT ![p] = <<>>]
      /\ batch' = [batch EXCEPT ![t] = jobs[p]]
      /\ push' = push /\ cur' = cur /\ fresh' = fresh
  BY DEF ExecPopAll, TimerTypeOK, TypeOK, LocalInv
<1>2. /\ \A r \in Queues : r # p => jobs'[r] = jobs[r]
      /\ \A n \in 1..Len(jobs'[p]) : FALSE
      /\ \A u \in Threads : u # t => batch'[u] = batch[u]
      /\ batch'[t] = jobs[p]
      /\ \A n \in 1..Len(batch[t]) : FALSE
  BY <1>1 DEF TimerTypeOK, TypeOK
<1>. HIDE DEF p
<1>3. \A u \in Threads : \A j : Pushing(u, j)' = Pushing(u, j)
  BY <1>1 DEF Pushing
<1>4. ASSUME NEW j \in Jobs, \A n \in 1..Len(jobs[p]) : jobs[p][n] # j, Unstarted(j)
      PROVE  Unstarted(j)'
  BY <1>2, <1>4 DEF Unstarted
<1>5. ASSUME NEW j \in Jobs, Unpushed(j) PROVE Unpushed(j)'
  <2>1. Unstarted(j)'
    BY <1>1, <1>4, <1>5 DEF Unpushed
  <2>2. \A r \in Queues : \A n \in 1..Len(jobs'[r]) : jobs'[r][n] # j
    BY <1>1, <1>2, <1>5 DEF Unpushed
  <2>. QED  BY <1>3, <1>5, <2>1, <2>2 DEF Unpushed
<1>6. ASSUME NEW j \in Jobs, NEW q \in Queues, Home(j, q) PROVE Home(j, q)'
  <2>1. \A r \in Queues : \A n \in 1..Len(jobs'[r]) : jobs'[r][n] = j => r = q
    BY <1>1, <1>2, <1>6 DEF Home
  <2>2. \A n \in 1..Len(jobs[p]) : jobs[p][n] = j => p = q
    BY <1>1, <1>6 DEF Home
  <2>3. \A u \in Threads : \A n \in 1..Len(batch'[u]) : batch'[u][n] = j => cur'[u] = q
    BY <1>1, <1>2, <1>6, <2>2 DEF Home, p
  <2>4. \A u \in Threads : Pushing(u, j)' => push'[u].queue = q
    BY <1>1, <1>3, <1>6 DEF Home
  <2>5. Unreserved(j)'
    BY <1>6 DEF Home, Unreserved, timerVars
  <2>. QED  BY <1>1, <1>6, <2>1, <2>3, <2>4, <2>5 DEF Home, timerVars
<1>7. ASSUME NEW j \in Jobs, NEW k \in Jobs, NEW q \in Queues,
             j # k, Home(j, q), Home(k, q), Before(q, j, k)
      PROVE  Before(q, j, k)'
  <2>1. BothListed(j, k) => BothListed(j, k)'
    BY DEF BothListed, timerVars
  <2>2. DueBefore(j, k) => DueBefore(j, k)'
    BY <1>5 DEF DueBefore, timerVars
  <2>3. PushedBefore(j, k) => PushedBefore(j, k)'
    BY <1>3, <1>5 DEF PushedBefore, timerVars
  <2>4. ASSUME QueuedBefore(q, j, k) PROVE QueuedBefore(q, j, k)' \/ TakenBefore(q, j, k)'
    <3>1. PICK n \in 1..Len(jobs[q]) :
             jobs[q][n] = k /\ Unstarted(j) /\ \A m \in 1..Len(jobs[q]) : jobs[q][m] = j => n < m
      BY <2>4 DEF QueuedBefore
    <3>2. CASE q # p
      <4>1. \A m \in 1..Len(jobs[p]) : jobs[p][m] # j
        BY <1>1, <1>7, <3>2 DEF Home
      <4>. QED  BY <1>2, <1>4, <3>1, <3>2, <4>1 DEF QueuedBefore
    <3>3. CASE q = p
      BY <1>1, <1>2, <3>1, <3>3 DEF TakenBefore, Unstarted, p
    <3>. QED  BY <3>2, <3>3
  <2>5. TakenBefore(q, j, k) => TakenBefore(q, j, k)'
    BY <1>1, <1>2 DEF TakenBefore
  <2>6. BothLate(q, j) => BothLate(q, j)'
    BY <1>5 DEF BothLate, timerVars
  <2>. QED  BY <1>7, <2>1, <2>2, <2>3, <2>4, <2>5, <2>6 DEF Before
<1>. QED  BY <1>5, <1>6, <1>7

\* The job that starts is the first of its batch.
LEMMA JobStartAhead ==
    ASSUME NEW t \in Threads, TimerTypeOK, LocalInv, UniqueInv, ExecJobStart(t),
           UNCHANGED timerVars, started' = started \union {Head(batch[t])}
    PROVE  /\ \A j \in Jobs : Unpushed(j) => Unpushed(j)'
           /\ \A j, k \in Jobs : \A q \in Queues :
                 j # k /\ Home(j, q) /\ Home(k, q) /\ Before(q, j, k)
                    => k \in started' \/ (Home(j, q)' /\ Home(k, q)' /\ Before(q, j, k)')
<1>. DEFINE h == Head(batch[t])
<1>1. /\ batch[t] \in Seq(Jobs) /\ batch[t] # <<>> /\ cur[t] # NoQueue
      /\ jobs' = jobs /\ batch' = batch /\ push' = push /\ cur' = cur /\ fresh' = fresh
  BY DEF ExecJobStart, TimerTypeOK, TypeOK, LocalInv
<1>2. 1 \in 1..Len(batch[t]) /\ batch[t][1] = h
  BY <1>1
<1>3. started' = started \union {h}
  OBVIOUS
<1>. HIDE DEF h
<1>4. ASSUME NEW j \in Jobs, Unstarted(j) PROVE Unstarted(j)'
  BY <1>1, <1>2, <1>3, <1>4 DEF Unstarted
<1>5. \A u \in Threads : \A j : Pushing(u, j)' = Pushing(u, j)
  BY <1>1 DEF Pushing
<1>6. ASSUME NEW j \in Jobs, Unpushed(j) PROVE Unpushed(j)'
  BY <1>1, <1>4, <1>5, <1>6 DEF Unpushed
<1>7. ASSUME NEW j \in Jobs, NEW q \in Queues, Home(j, q) PROVE Home(j, q)'
  <2>1. Unreserved(j)'
    BY <1>7 DEF Home, Unreserved, timerVars
  <2>2. \A u \in Threads : Pushing(u, j)' => push'[u].queue = q
    BY <1>1, <1>5, <1>7 DEF Home
  <2>. QED  BY <1>1, <1>7, <2>1, <2>2 DEF Home, timerVars
<1>8. ASSUME NEW j \in Jobs, NEW k \in Jobs, NEW q \in Queues,
             j # k, Home(j, q), Home(k, q), Before(q, j, k)
      PROVE  k \in started' \/ Before(q, j, k)'
  <2>1. BothListed(j, k) => BothListed(j, k)'
    BY DEF BothListed, timerVars
  <2>2. DueBefore(j, k) => DueBefore(j, k)'
    BY <1>6 DEF DueBefore, timerVars
  <2>3. PushedBefore(j, k) => PushedBefore(j, k)'
    BY <1>5, <1>6 DEF PushedBefore, timerVars
  <2>4. QueuedBefore(q, j, k) => QueuedBefore(q, j, k)'
    BY <1>1, <1>4 DEF QueuedBefore
  <2>5. ASSUME TakenBefore(q, j, k), k # h PROVE TakenBefore(q, j, k)'
    <3>1. PICK u \in Threads : \E n \in 1..Len(batch[u]) :
             /\ cur[u] = q /\ batch[u][n] = k /\ j \notin started
             /\ \A m \in 1..Len(batch[u]) : batch[u][m] = j => n < m
      BY <2>5 DEF TakenBefore
    <3>2. PICK n \in 1..Len(batch[u]) :
             /\ cur[u] = q /\ batch[u][n] = k /\ j \notin started
             /\ \A m \in 1..Len(batch[u]) : batch[u][m] = j => n < m
      BY <3>1
    <3>3. j # h
      <4>. SUFFICES ASSUME j = h PROVE FALSE
        OBVIOUS
      <4>1. cur[t] = q
        BY <1>2, <1>8 DEF Home
      <4>2. u = t
        BY <1>1, <3>2, <4>1 DEF UniqueInv
      <4>3. n < 1
        BY <1>2, <3>2, <4>2
      <4>. QED  BY <4>3
    <3>4. j \notin started'
      BY <1>3, <3>2, <3>3
    <3>. QED  BY <1>1, <3>2, <3>4 DEF TakenBefore
  <2>6. BothLate(q, j) => BothLate(q, j)'
    BY <1>6 DEF BothLate, timerVars
  <2>. QED  BY <1>3, <1>8, <2>1, <2>2, <2>3, <2>4, <2>5, <2>6 DEF Before
<1>. QED  BY <1>6, <1>7, <1>8

\* The job that returns has started before.
LEMMA JobEndAhead ==
    ASSUME NEW t \in Threads, TimerTypeOK, LocalInv, DistInv, ExecJobEnd(t),
           UNCHANGED timerVars, started' = started
    PROVE  /\ \A j \in Jobs : Unpushed(j) => Unpushed(j)'
           /\ \A j, k \in Jobs : \A q \in Queues :
                 j # k /\ Home(j, q) /\ Home(k, q) /\ Before(q, j, k)
                    => k \in started' \/ (Home(j, q)' /\ Home(k, q)' /\ Before(q, j, k)')
<1>. DEFINE b == batch[t]
<1>1. /\ b \in Seq(Jobs) /\ b # <<>> /\ Head(b) \in started
      /\ jobs' = jobs /\ batch' = [batch EXCEPT ![t] = Tail(b)]
      /\ push' = push /\ cur' = cur /\ fresh' = fresh
  BY DEF ExecJobEnd, TimerTypeOK, TypeOK, LocalInv, DistInv
<1>2. /\ \A u \in Threads : u # t => batch'[u] = batch[u]
      /\ batch'[t] = Tail(b)
  BY <1>1 DEF TimerTypeOK, TypeOK
<1>3. /\ Len(b) \in Nat /\ Len(b) >= 1 /\ Len(Tail(b)) = Len(b) - 1
      /\ \A n \in 1..Len(Tail(b)) : Tail(b)[n] = b[n + 1]
      /\ Head(b) = b[1]
  BY <1>1
<1>4. \A n \in 1..Len(batch'[t]) : n + 1 \in 1..Len(batch[t]) /\ batch'[t][n] = batch[t][n + 1]
  BY <1>2, <1>3
<1>5. \A n \in 1..Len(batch[t]) :
         \/ batch[t][n] \in started
         \/ n - 1 \in 1..Len(batch'[t]) /\ batch'[t][n - 1] = batch[t][n]
  <2>. SUFFICES ASSUME NEW n \in 1..Len(b), b[n] \notin started
                PROVE  n - 1 \in 1..Len(Tail(b)) /\ Tail(b)[n - 1] = b[n]
    BY <1>2
  <2>1. n # 1
    BY <1>1, <1>3
  <2>2. n - 1 \in 1..Len(Tail(b)) /\ (n - 1) + 1 = n
    BY <1>3, <2>1
  <2>. QED  BY <1>3, <2>2
<1>. HIDE DEF b
<1>6. ASSUME NEW j \in Jobs, Unstarted(j) PROVE Unstarted(j)'
  BY <1>2, <1>4, <1>6 DEF Unstarted
<1>7. \A u \in Threads : \A j : Pushing(u, j)' = Pushing(u, j)
  BY <1>1 DEF Pushing
<1>8. ASSUME NEW j \in Jobs, Unpushed(j) PROVE Unpushed(j)'
  BY <1>1, <1>6, <1>7, <1>8 DEF Unpushed
<1>9. ASSUME NEW j \in Jobs, NEW q \in Queues, Home(j, q) PROVE Home(j, q)'
  <2>1. Unreserved(j)'
    BY <1>9 DEF Home, Unreserved, timerVars
  <2>2. \A u \in Threads : Pushing(u, j)' => push'[u].queue = q
    BY <1>1, <1>7, <1>9 DEF Home
  <2>3. \A u \in Threads : \A n \in 1..Len(batch'[u]) : batch'[u][n] = j => cur'[u] = q
    <3>1. \A n \in 1..Len(batch'[t]) : batch'[t][n] = j => cur[t] = q
      BY <1>4, <1>9 DEF Home
    <3>2. \A u \in Threads : \A n \in 1..Len(batch[u]) : batch[u][n] = j => cur[u] = q
      BY <1>9 DEF Home
    <3>. QED  BY <1>1, <1>2, <3>1, <3>2
  <2>. QED  BY <1>1, <1>9, <2>1, <2>2, <2>3 DEF Home, timerVars
<1>10. ASSUME NEW j \in Jobs, NEW k \in Jobs, NEW q \in Queues,
              j # k, Home(j, q), Home(k, q), Before(q, j, k)
       PROVE  k \in started' \/ Before(q, j, k)'
  <2>1. BothListed(j, k) => BothListed(j, k)'
    BY DEF BothListed, timerVars
  <2>2. DueBefore(j, k) => DueBefore(j, k)'
    BY <1>8 DEF DueBefore, timerVars
  <2>3. PushedBefore(j, k) => PushedBefore(j, k)'
    BY <1>7, <1>8 DEF PushedBefore, timerVars
  <2>4. QueuedBefore(q, j, k) => QueuedBefore(q, j, k)'
    BY <1>1, <1>6 DEF QueuedBefore
  <2>5. ASSUME TakenBefore(q, j, k), k \notin started PROVE TakenBefore(q, j, k)'
    <3>1. PICK u \in Threads : \E n \in 1..Len(batch[u]) :
             /\ cur[u] = q /\ batch[u][n] = k /\ j \notin started
             /\ \A m \in 1..Len(batch[u]) : batch[u][m] = j => n < m
      BY <2>5 DEF TakenBefore
    <3>2. PICK n \in 1..Len(batch[u]) :
             /\ cur[u] = q /\ batch[u][n] = k /\ j \notin started
             /\ \A m \in 1..Len(batch[u]) : batch[u][m] = j => n < m
      BY <3>1
    <3>3. CASE u # t
      BY <1>1, <1>2, <3>2, <3>3 DEF TakenBefore
    <3>4. CASE u = t
      <4>1. n - 1 \in 1..Len(batch'[t]) /\ batch'[t][n - 1] = k
        BY <1>5, <2>5, <3>2, <3>4
      <4>2. ASSUME NEW m \in 1..Len(batch'[t]), batch'[t][m] = j PROVE n - 1 < m
        <5>1. m + 1 \in 1..Len(batch[t]) /\ batch[t][m + 1] = j
          BY <1>4, <4>2
        <5>2. n < m + 1
          BY <3>2, <3>4, <5>1
        <5>. QED  BY <5>2, <3>2
      <4>. QED  BY <1>1, <3>2, <3>4, <4>1, <4>2 DEF TakenBefore
    <3>. QED  BY <3>3, <3>4
  <2>6. BothLate(q, j) => BothLate(q, j)'
    BY <1>8 DEF BothLate, timerVars
  <2>. QED  BY <1>10, <2>1, <2>2, <2>3, <2>4, <2>5, <2>6 DEF Before
<1>. QED  BY <1>8, <1>9, <1>10

\* The other steps of Push and Execute move no job.
LEMMA QueueWorkStill ==
    ASSUME NEW t \in Threads, TimerTypeOK, LocalInv, UNCHANGED timerVars, started' = started,
           \/ PushReturn(t) \/ PushExecute(t) \/ PushHandOver(t) \/ ExecSubtract(t)
           \/ ExecAgain(t) \/ ExecYield(t) \/ DoGlobalQueueWork(t)
    PROVE  /\ \A j \in Jobs : Unpushed(j) => Unpushed(j)'
           /\ \A j \in Jobs : Still(j)
           /\ fresh' = fresh
<1>1. jobs' = jobs /\ batch' = batch /\ fresh' = fresh
  BY DEF PushReturn, PushExecute, PushHandOver, ExecSubtract, ExecAgain, ExecYield,
         DoGlobalQueueWork, Enter
<1>2. /\ \A u \in Threads : u # t => push'[u] = push[u]
      /\ push'[t] = push[t] \/ (push'[t] = NoPush /\ push[t].at = "queued")
  BY DEF PushReturn, PushExecute, PushHandOver, ExecSubtract, ExecAgain, ExecYield,
         DoGlobalQueueWork, Enter, TimerTypeOK, TypeOK
<1>3. \A u \in Threads : \A j : Pushing(u, j)' = Pushing(u, j)
  BY <1>2 DEF Pushing
<1>4. \A u \in Threads : \A j : Pushing(u, j) => push'[u].queue = push[u].queue
  BY <1>2 DEF Pushing
<1>5. \A u \in Threads : batch[u] # <<>> => cur'[u] = cur[u]
  BY DEF PushReturn, PushExecute, PushHandOver, ExecSubtract, ExecAgain, ExecYield,
         DoGlobalQueueWork, Enter, TimerTypeOK, TypeOK, LocalInv
<1>6. \A j : Unreserved(j) => Unreserved(j)'
  BY DEF Unreserved, timerVars
<1>7. \A j \in Jobs : Still(j)
  BY <1>1, <1>3, <1>4, <1>5, <1>6 DEF Still, timerVars
<1>8. \A j \in Jobs : Unpushed(j) => Unpushed(j)'
  BY <1>1, <1>3 DEF Unpushed, Unstarted
<1>. QED  BY <1>1, <1>7, <1>8

\* What goes on in the queues forgets no job.
LEMMA QueueWorkForgetsNothing ==
    ASSUME NEW t \in Threads, QueueWork(t)
    PROVE  forgotten' = forgotten
BY DEF QueueWork, QueueInside, Inside, PushJob, PushReturn, PushExecute, PushHandOver,
       ExecPopAll, ExecJobStart, ExecJobEnd, ExecSubtract, ExecAgain, ExecYield,
       DoGlobalQueueWork, Enter

\* What goes on in the queues keeps the pairs.
LEMMA QueueWorkAhead ==
    ASSUME NEW t \in Threads, TimerInv, QueueWork(t)
    PROVE  /\ \A j \in Jobs : Unpushed(j) => Unpushed(j)'
           /\ \A j, k \in Jobs : \A q \in Queues :
                 j # k /\ Home(j, q) /\ Home(k, q) /\ Before(q, j, k)
                    => k \in started' \/ (Home(j, q)' /\ Home(k, q)' /\ Before(q, j, k)')
           /\ fresh' = fresh /\ started \in SUBSET started'
<1>. USE DEF TimerInv, IInv
<1>1. UNCHANGED timerVars /\ (Inside(t) \/ DoGlobalQueueWork(t))
  BY DEF QueueWork, QueueInside, QueueStep
<1>2. started' = IF at[t] = "run" /\ at'[t] = "body"
                 THEN started \union {Head(batch[t])} ELSE started
  BY DEF QueueWork, QueueInside, QueueStep
<1>3. CASE PushJob(t)
  <2>1. started' = started /\ fresh' = fresh
    BY <1>2, <1>3 DEF PushJob
  <2>. QED  BY <1>1, <1>3, <2>1, PushJobAhead
<1>4. CASE ExecPopAll(t)
  <2>1. started' = started /\ fresh' = fresh
    BY <1>2, <1>4 DEF ExecPopAll
  <2>. QED  BY <1>1, <1>4, <2>1, PopAllAhead
<1>5. CASE ExecJobStart(t)
  <2>1. started' = started \union {Head(batch[t])} /\ fresh' = fresh
    BY <1>2, <1>5 DEF ExecJobStart, TypeOK
  <2>. QED  BY <1>1, <1>5, <2>1, JobStartAhead
<1>6. CASE ExecJobEnd(t)
  <2>1. started' = started /\ fresh' = fresh
    BY <1>2, <1>6 DEF ExecJobEnd
  <2>. QED  BY <1>1, <1>6, <2>1, JobEndAhead
<1>7. CASE \/ PushReturn(t) \/ PushExecute(t) \/ PushHandOver(t) \/ ExecSubtract(t)
           \/ ExecAgain(t) \/ ExecYield(t) \/ DoGlobalQueueWork(t)
  <2>1. started' = started
    BY <1>2, <1>7 DEF PushReturn, PushExecute, PushHandOver, ExecSubtract, ExecAgain, ExecYield,
                      DoGlobalQueueWork, Enter, TypeOK
  <2>2. /\ \A j \in Jobs : Unpushed(j) => Unpushed(j)'
        /\ \A j \in Jobs : Still(j)
        /\ fresh' = fresh
    BY <1>1, <1>7, <2>1, QueueWorkStill
  <2>. QED  BY <2>1, <2>2, StillAhead
<1>. QED  BY <1>1, <1>3, <1>4, <1>5, <1>6, <1>7 DEF Inside

-------------------------------------------------------------------------------
(* The steps of the timer. *)

\* A reserved job and a pushed one leave the jobs nobody has used.
LEMMA ReserveAhead ==
    ASSUME NEW t \in Threads, NEW p \in Queues, NEW x \in Jobs, NEW d \in Delays,
           TimerInv, ReserveTick(t, p, x, d)
    PROVE  OnceInv' /\ PairInv'
<1>. USE DEF TimerInv, IInv
<1>. DEFINE i == [executeTick |-> clock + d, owner |-> p, job |-> x]
<1>1. /\ x \in fresh /\ fresh' = fresh \ {x} /\ reserve[t] = {} /\ i.job = x
      /\ reserve' = [reserve EXCEPT ![t] = {i}]
      /\ jobs' = jobs /\ push' = push /\ batch' = batch /\ cur' = cur /\ items' = items
      /\ due' = due /\ started' = started /\ dist' = dist /\ gone' = gone /\ owed' = owed
      /\ cleared' = cleared /\ forgotten' = forgotten
  BY DEF ReserveTick, FreeToCall
<1>2. /\ \A u \in Threads : u # t => reserve'[u] = reserve[u]
      /\ reserve'[t] = {i}
  BY <1>1 DEF TimerTypeOK
<1>. HIDE DEF i
<1>3. \A u \in Threads : \A j : Pushing(u, j)' = Pushing(u, j)
  BY <1>1 DEF Pushing
<1>4. \A j : Unpushed(j)' = Unpushed(j)
  BY <1>1, <1>3 DEF Unpushed, Unstarted
<1>5. \A j : Undue(j)' = Undue(j) /\ Unlisted(j)' = Unlisted(j)
  BY <1>1, <1>4 DEF Undue, Unlisted
<1>6. \A j : j # x => Unreserved(j)' = Unreserved(j)
  BY <1>1, <1>2 DEF Unreserved
<1>7. Unlisted(x) /\ Unreserved(x)
  BY <1>1 DEF OnceInv
<1>8. OnceInv'
  <2>1. \A j \in fresh' : Unlisted(j)' /\ Unreserved(j)'
    BY <1>1, <1>5, <1>6 DEF OnceInv
  <2>2. ASSUME NEW u \in Threads, NEW m \in reserve'[u] PROVE Unlisted(m.job)'
    <3>1. Unlisted(m.job)
      BY <1>1, <1>2, <1>7, <2>2 DEF OnceInv
    <3>. QED  BY <1>5, <3>1
  <2>3. ASSUME NEW u \in Threads, NEW m \in reserve'[u],
               NEW v \in Threads, NEW n \in reserve'[v], n.job = m.job
        PROVE  v = u /\ n = m
    <3>1. \A w \in Threads : \A k \in reserve[w] : k.job # x
      BY <1>7 DEF Unreserved
    <3>. QED  BY <1>1, <1>2, <2>3, <3>1 DEF OnceInv
  <2>4. \A m \in items' : Undue(m.job)' /\ \A n \in items' : n.job = m.job => n = m
    BY <1>1, <1>5 DEF OnceInv
  <2>5. ASSUME NEW u \in Threads, NEW n \in 1..Len(due'[u]) PROVE Unpushed(due[u][n].job)'
    BY <1>1, <1>3, <2>5 DEF OnceInv, Unpushed, Unstarted
  <2>6. \A u \in Threads : \A n \in 1..Len(due'[u]) :
           \A v \in Threads : \A m \in 1..Len(due'[v]) :
              due'[v][m].job = due'[u][n].job => v = u /\ m = n
    BY <1>1 DEF OnceInv
  <2>. QED  BY <2>1, <2>2, <2>3, <2>4, <2>5, <2>6 DEF OnceInv
<1>9. ASSUME NEW j \in Jobs, j \notin fresh PROVE Still(j)
  BY <1>1, <1>3, <1>6, <1>9 DEF Still
<1>10. \A j \in Jobs : \A q \in Queues : Home(j, q) => Still(j)
  BY <1>9 DEF Home
<1>11. \A j, k \in Jobs : \A q \in Queues :
         j # k /\ Home(j, q) /\ Home(k, q) /\ Before(q, j, k)
            => Home(j, q)' /\ Home(k, q)' /\ Before(q, j, k)'
  BY <1>10, StillAhead
<1>. QED  BY <1>1, <1>8, <1>11, PairsKept

\* A job that is pushed right away has nothing to do with the timer.
LEMMA QueueCallAhead ==
    ASSUME NEW t \in Threads, TimerInv, QueueCall(t)
    PROVE  OnceInv' /\ PairInv'
<1>. USE DEF TimerInv, IInv
<1>0. PICK p \in Queues, x \in Jobs, only \in BOOLEAN : PushCount(t, p, x, only)
  BY DEF QueueCall
<1>1. /\ x \in fresh /\ fresh' = fresh \ {x} /\ push[t] = NoPush
      /\ jobs' = jobs /\ batch' = batch /\ cur' = cur /\ reserve' = reserve /\ items' = items
      /\ due' = due /\ started' = started /\ dist' = dist /\ gone' = gone /\ owed' = owed
      /\ cleared' = cleared /\ forgotten' = forgotten
  BY <1>0 DEF PushCount, Free, QueueCall, timerVars
<1>2. /\ \A u \in Threads : u # t => push'[u] = push[u]
      /\ push'[t].job = x
  BY <1>0 DEF PushCount, CountJob, TypeOK
<1>3. \A u \in Threads : \A j : j # x => /\ Pushing(u, j)' = Pushing(u, j)
                                         /\ Pushing(u, j) => push'[u] = push[u]
  BY <1>1, <1>2 DEF Pushing
<1>4. \A j : j # x => Unpushed(j)' = Unpushed(j)
  BY <1>1, <1>3 DEF Unpushed, Unstarted
<1>5. \A j : j # x => Undue(j)' = Undue(j) /\ Unlisted(j)' = Unlisted(j)
  BY <1>1, <1>4 DEF Undue, Unlisted
<1>6. \A j : Unreserved(j)' = Unreserved(j)
  BY <1>1 DEF Unreserved
<1>7. Unlisted(x) /\ Unreserved(x)
  BY <1>1 DEF OnceInv
<1>8. OnceInv'
  <2>1. \A j \in fresh' : Unlisted(j)' /\ Unreserved(j)'
    BY <1>1, <1>5, <1>6 DEF OnceInv
  <2>2. \A u \in Threads : \A m \in reserve'[u] : Unlisted(m.job)'
    BY <1>1, <1>5, <1>7 DEF OnceInv, Unreserved
  <2>3. \A u \in Threads : \A m \in reserve'[u] :
           \A v \in Threads : \A n \in reserve'[v] : n.job = m.job => v = u /\ n = m
    BY <1>1 DEF OnceInv
  <2>4. \A m \in items' : Undue(m.job)' /\ \A n \in items' : n.job = m.job => n = m
    BY <1>1, <1>5, <1>7 DEF OnceInv, Unlisted
  <2>5. ASSUME NEW u \in Threads, NEW n \in 1..Len(due'[u]) PROVE Unpushed(due[u][n].job)'
    <3>. DEFINE j == due[u][n].job
    <3>1. Unpushed(j) /\ j # x /\ j' = j
      BY <1>1, <1>7, <2>5 DEF OnceInv, Unlisted, Undue
    <3>2. (\A i : i # x => Unpushed(i)' = Unpushed(i)) => Unpushed(j)'
      BY <3>1 DEF Unpushed, Unstarted, Pushing
    <3>. QED  BY <1>4, <3>2
  <2>6. \A u \in Threads : \A n \in 1..Len(due'[u]) :
           \A v \in Threads : \A m \in 1..Len(due'[v]) :
              due'[v][m].job = due'[u][n].job => v = u /\ m = n
    BY <1>1 DEF OnceInv
  <2>. QED  BY <2>1, <2>2, <2>3, <2>4, <2>5, <2>6 DEF OnceInv
<1>9. ASSUME NEW j \in Jobs, j \notin fresh PROVE Still(j)
  BY <1>1, <1>3, <1>6, <1>9 DEF Still
<1>10. \A j \in Jobs : \A q \in Queues : Home(j, q) => Still(j)
  BY <1>9 DEF Home
<1>11. \A j, k \in Jobs : \A q \in Queues :
         j # k /\ Home(j, q) /\ Home(k, q) /\ Before(q, j, k)
            => Home(j, q)' /\ Home(k, q)' /\ Before(q, j, k)'
  BY <1>10, StillAhead
<1>. QED  BY <1>1, <1>8, <1>11, PairsKept

\* The insertion makes the pairs.
LEMMA InsertAhead ==
    ASSUME NEW t \in Threads, TimerInv, TimerTypeOK', ReserveInsert(t)
    PROVE  OnceInv' /\ PairInv'
<1>. USE DEF TimerInv, IInv
<1>0. PICK i \in reserve[t] :
          /\ items' = items \union {i}
          /\ owed' = [j \in Jobs |->
                        IF j = i.job THEN {k.job : k \in {m \in items : Earlier(m, i)}}
                        ELSE IF \E k \in items : k.job = j /\ Earlier(i, k)
                        THEN owed[j] \union {i.job} ELSE owed[j]]
          /\ reserve' = [reserve EXCEPT ![t] = {}]
  BY DEF ReserveInsert
<1>1. /\ jobs' = jobs /\ batch' = batch /\ cur' = cur /\ push' = push /\ fresh' = fresh
      /\ due' = due /\ started' = started /\ dist' = dist /\ gone' = gone
      /\ cleared' = cleared /\ forgotten' = forgotten
  BY DEF ReserveInsert, vars
<1>2. /\ \A u \in Threads : u # t => reserve'[u] = reserve[u]
      /\ reserve'[t] = {}
      /\ \A u \in Threads : reserve'[u] \in SUBSET reserve[u]
  BY <1>0 DEF TimerTypeOK
<1>. DEFINE x == i.job
<1>3. \A u \in Threads : \A j : Pushing(u, j)' = Pushing(u, j)
  BY <1>1 DEF Pushing
<1>4. \A j : Unpushed(j)' = Unpushed(j) /\ Undue(j)' = Undue(j)
  BY <1>1, <1>3 DEF Unpushed, Unstarted, Undue
<1>5. \A j : j # x => (Unlisted(j) => Unlisted(j)')
  BY <1>0, <1>4 DEF Unlisted
<1>6. \A j : Unreserved(j) => Unreserved(j)'
  BY <1>2 DEF Unreserved
<1>7. Unlisted(x) /\ Undue(x) /\ \A m \in items : m.job # x
  BY DEF OnceInv, Unlisted
<1>8. \A u \in Threads : \A m \in reserve'[u] : m.job # x
  BY <1>2 DEF OnceInv
<1>9. OnceInv'
  <2>1. \A j \in fresh' : Unlisted(j)' /\ Unreserved(j)'
    <3>1. \A j \in fresh : j # x
      BY DEF OnceInv, Unreserved
    <3>. QED  BY <1>1, <1>5, <1>6, <3>1 DEF OnceInv
  <2>2. \A u \in Threads : \A m \in reserve'[u] : Unlisted(m.job)'
    BY <1>2, <1>5, <1>8 DEF OnceInv
  <2>3. \A u \in Threads : \A m \in reserve'[u] :
           \A v \in Threads : \A n \in reserve'[v] : n.job = m.job => v = u /\ n = m
    BY <1>2 DEF OnceInv
  <2>4. \A m \in items' : Undue(m.job)'
    BY <1>0, <1>4, <1>7 DEF OnceInv
  <2>5. \A m \in items' : \A n \in items' : n.job = m.job => n = m
    BY <1>0, <1>7 DEF OnceInv
  <2>6. ASSUME NEW u \in Threads, NEW n \in 1..Len(due'[u]) PROVE Unpushed(due[u][n].job)'
    BY <1>1, <1>3, <2>6 DEF OnceInv, Unpushed, Unstarted
  <2>7. \A u \in Threads : \A n \in 1..Len(due'[u]) :
           \A v \in Threads : \A m \in 1..Len(due'[v]) :
              due'[v][m].job = due'[u][n].job => v = u /\ m = n
    BY <1>1 DEF OnceInv
  <2>. QED  BY <2>1, <2>2, <2>3, <2>4, <2>5, <2>6, <2>7 DEF OnceInv
<1>10. \A m \in items' : Home(m.job, m.owner)'
  <2>1. ListedHome'
    BY <1>9, ListedIsHome, PTL
  <2>. QED  BY <2>1 DEF ListedHome
<1>11. ASSUME NEW j \in Jobs, NEW q \in Queues, Home(j, q) PROVE Home(j, q)' /\ j # x
  <2>1. j # x /\ Unreserved(j)'
    BY <1>6, <1>11 DEF Home, Unreserved
  <2>2. \A m \in items' : m.job = j => m.owner = q
    BY <1>0, <1>11, <2>1 DEF Home
  <2>. QED  BY <1>1, <1>3, <1>11, <2>1, <2>2 DEF Home
<1>12. ASSUME NEW j \in Jobs, NEW k \in Jobs, NEW q \in Queues, Before(q, j, k)
       PROVE  Before(q, j, k)'
  <2>1. BothListed(j, k) => BothListed(j, k)'
    BY <1>0 DEF BothListed
  <2>2. DueBefore(j, k) => DueBefore(j, k)'
    BY <1>1, <1>4 DEF DueBefore
  <2>3. PushedBefore(j, k) => PushedBefore(j, k)'
    BY <1>1, <1>3, <1>4 DEF PushedBefore
  <2>4. QueuedBefore(q, j, k) => QueuedBefore(q, j, k)'
    BY <1>1 DEF QueuedBefore, Unstarted
  <2>5. TakenBefore(q, j, k) => TakenBefore(q, j, k)'
    BY <1>1 DEF TakenBefore
  <2>6. BothLate(q, j) => BothLate(q, j)'
    BY <1>1, <1>4 DEF BothLate
  <2>. QED  BY <1>12, <2>1, <2>2, <2>3, <2>4, <2>5, <2>6 DEF Before
<1>13. i \in items' /\ items \in SUBSET items' /\ \A m \in items' : m \in Items
  BY <1>0 DEF TimerTypeOK
<1>14. ASSUME NEW a \in items', NEW b \in items', Earlier(a, b)
       PROVE  Home(b.job, b.owner)' /\ Home(a.job, b.owner)' /\ BothListed(b.job, a.job)'
  <2>1. Home(b.job, b.owner)' /\ Home(a.job, a.owner)'
    BY <1>10
  <2>2. a.owner = b.owner /\ a.executeTick < b.executeTick
    BY <1>14 DEF Earlier
  <2>3. BothListed(b.job, a.job)'
    BY <2>2 DEF BothListed
  <2>4. Home(a.job, b.owner)'
    BY <2>1, <2>2
  <2>. QED  BY <2>1, <2>3, <2>4
<1>15. PairInv'
  <2>. SUFFICES ASSUME NEW j \in Jobs, NEW k \in owed'[j], k \notin started' \union cleared' \union forgotten'
                PROVE  j # k /\ \E q \in Queues : Home(j, q)' /\ Home(k, q)' /\ Before(q, j, k)'
    BY DEF PairInv
  <2>1. CASE j = x
    <3>1. PICK a \in items : Earlier(a, i) /\ k = a.job
      BY <1>0, <2>1
    <3>2. i.owner \in Queues /\ k # j
      BY <1>7, <1>13, <2>1, <3>1 DEF Items
    <3>3. Home(i.job, i.owner)' /\ Home(a.job, i.owner)' /\ BothListed(i.job, a.job)'
      BY <1>13, <1>14, <3>1
    <3>. QED  BY <2>1, <3>1, <3>2, <3>3 DEF Before
  <2>2. CASE j # x /\ k \in owed[j]
    <3>1. k \in Jobs
      BY <2>2 DEF TimerTypeOK
    <3>2. PICK q \in Queues : j # k /\ Home(j, q) /\ Home(k, q) /\ Before(q, j, k)
      BY <1>1, <2>2 DEF PairInv
    <3>. QED  BY <1>11, <1>12, <3>1, <3>2
  <2>3. CASE j # x /\ k \notin owed[j]
    <3>1. PICK b \in items : b.job = j /\ Earlier(i, b) /\ k = x
      BY <1>0, <2>3
    <3>2. b.owner \in Queues /\ k # j
      BY <1>13, <2>3, <3>1 DEF Items
    <3>3. Home(b.job, b.owner)' /\ Home(i.job, b.owner)' /\ BothListed(b.job, i.job)'
      BY <1>13, <1>14, <3>1
    <3>. QED  BY <2>3, <3>1, <3>2, <3>3 DEF Before
  <2>. QED  BY <2>1, <2>2, <2>3
<1>. QED  BY <1>9, <1>15

\* A thread that is about to take the ready items has read the tick it takes them for.
LEMMA TakesAtATick ==
    ASSUME NEW d \in {NotDistributing} \union [at : {"call", "take"}, now : Nat] \union [at : {"push"}],
           d.at = "take"
    PROVE  d.now \in Nat
  BY DEF NotDistributing

\* Distribute takes from the timer all that is ready, in the order of the ticks.
LEMMA TakeAhead ==
    ASSUME NEW t \in Threads, TimerInv, DistributeTake(t)
    PROVE  OnceInv' /\ PairInv'
<1>. USE DEF TimerInv, IInv
<1>. DEFINE ready == {i \in items : i.executeTick <= dist[t].now}
<1>0. PICK s \in PopOrders(ready) : due' = [due EXCEPT ![t] = s]
  BY DEF DistributeTake
<1>1. /\ jobs' = jobs /\ batch' = batch /\ cur' = cur /\ push' = push /\ fresh' = fresh
      /\ reserve' = reserve /\ started' = started /\ gone' = gone /\ owed' = owed
      /\ cleared' = cleared /\ forgotten' = forgotten /\ items' = items \ ready /\ dist[t].at = "take"
  BY DEF DistributeTake, vars
<1>2. ready \in SUBSET Items /\ ready \in SUBSET items /\ IsFiniteSet(items)
  BY DEF TimerTypeOK, DistInv
<1>3. IsFiniteSet(ready)
  BY <1>2, FS_Subset
<1>4. dist[t].now \in Nat /\ \A i \in items : i.executeTick \in Nat
  <2>1. dist[t] \in {NotDistributing} \union [at : {"call", "take"}, now : Nat] \union [at : {"push"}]
    BY DEF TimerTypeOK
  <2>2. dist[t].now \in Nat
    BY <1>1, <2>1, TakesAtATick
  <2>3. \A i \in items : i \in Items
    BY DEF TimerTypeOK
  <2>. QED  BY <2>2, <2>3 DEF Items
<1>5. \A i \in items : \A m \in items : i \notin ready /\ i.executeTick < m.executeTick => m \notin ready
  BY <1>4
<1>. HIDE DEF ready
<1>6. /\ s \in Seq(Items) /\ \A n \in 1..Len(s) : s[n] \in ready
      /\ \A m, n \in 1..Len(s) : m < n => s[m] # s[n] /\ s[m].executeTick <= s[n].executeTick
      /\ \A i \in ready : \E n \in 1..Len(s) : s[n] = i
  BY <1>2, <1>3, PopOrderIs
<1>7. /\ \A u \in Threads : \A n \in 1..Len(due[u]) : FALSE
      /\ \A u \in Threads : dist[u].at # "push"
  <2>1. \A u \in Threads : dist[u].at # "push"
    BY <1>1 DEF DistInv
  <2>2. \A u \in Threads : due[u] = <<>>
    BY <2>1 DEF DistInv
  <2>. QED  BY <2>1, <2>2
<1>8. /\ \A u \in Threads : \A n \in 1..Len(due'[u]) : u = t
      /\ due'[t] = s
  BY <1>0, <1>7 DEF TimerTypeOK
<1>9. \A u \in Threads : \A j : Pushing(u, j)' = Pushing(u, j)
  BY <1>1 DEF Pushing
<1>10. \A j : Unpushed(j)' = Unpushed(j)
  BY <1>1, <1>9 DEF Unpushed, Unstarted
<1>11. \A j : (\A i \in ready : i.job # j) /\ Unpushed(j) => Undue(j)'
  BY <1>6, <1>8, <1>10 DEF Undue
<1>12. \A j : Unlisted(j) => Unlisted(j)'
  BY <1>1, <1>2, <1>11 DEF Unlisted, Undue
<1>13. \A j : Unreserved(j)' = Unreserved(j)
  BY <1>1 DEF Unreserved
<1>14. OnceInv'
  <2>1. \A j \in fresh' : Unlisted(j)' /\ Unreserved(j)'
    BY <1>1, <1>12, <1>13 DEF OnceInv
  <2>2. \A u \in Threads : \A m \in reserve'[u] : Unlisted(m.job)'
    BY <1>1, <1>12 DEF OnceInv
  <2>3. \A u \in Threads : \A m \in reserve'[u] :
           \A v \in Threads : \A n \in reserve'[v] : n.job = m.job => v = u /\ n = m
    BY <1>1 DEF OnceInv
  <2>4. ASSUME NEW m \in items' PROVE Undue(m.job)'
    <3>1. m \in items /\ m \notin ready /\ Unpushed(m.job)
      BY <1>1, <2>4 DEF OnceInv, Undue
    <3>2. \A i \in ready : i.job # m.job
      BY <1>2, <3>1 DEF OnceInv
    <3>. QED  BY <1>11, <3>1, <3>2
  <2>5. \A m \in items' : \A n \in items' : n.job = m.job => n = m
    BY <1>1 DEF OnceInv
  <2>6. ASSUME NEW u \in Threads, NEW n \in 1..Len(due'[u]) PROVE Unpushed(due[u][n].job)'
    <3>1. u = t /\ s[n] \in items /\ due'[u][n] = s[n]
      BY <1>2, <1>6, <1>8, <2>6
    <3>2. Unpushed(s[n].job)
      BY <3>1 DEF OnceInv, Undue
    <3>. QED  BY <1>1, <1>9, <3>1, <3>2 DEF Unpushed, Unstarted
  <2>7. ASSUME NEW u \in Threads, NEW n \in 1..Len(due'[u]),
               NEW v \in Threads, NEW m \in 1..Len(due'[v]), due'[v][m].job = due'[u][n].job
        PROVE  v = u /\ m = n
    <3>1. v = t /\ u = t /\ m \in 1..Len(s) /\ n \in 1..Len(s)
      BY <1>8
    <3>2. s[m] \in items /\ s[n] \in items /\ s[m].job = s[n].job
      BY <1>2, <1>6, <1>8, <2>7, <3>1
    <3>3. s[m] = s[n]
      BY <3>2 DEF OnceInv
    <3>4. m \in Int /\ n \in Int /\ ~(m < n) /\ ~(n < m)
      BY <1>6, <3>1, <3>3
    <3>. QED  BY <3>1, <3>4
  <2>. QED  BY <2>1, <2>2, <2>3, <2>4, <2>5, <2>6, <2>7 DEF OnceInv
<1>15. ASSUME NEW j \in Jobs, NEW q \in Queues, Home(j, q) PROVE Home(j, q)'
  <2>1. \A u \in Threads : \A n \in 1..Len(due'[u]) : due'[u][n].job = j => due'[u][n].owner = q
    BY <1>2, <1>6, <1>8, <1>15 DEF Home
  <2>2. \A m \in items' : m.job = j => m.owner = q
    BY <1>1, <1>15 DEF Home
  <2>. QED  BY <1>1, <1>9, <1>13, <1>15, <2>1, <2>2 DEF Home
<1>16. ASSUME NEW j \in Jobs, NEW k \in Jobs, NEW q \in Queues, Before(q, j, k)
       PROVE  Before(q, j, k)'
  <2>1. ASSUME BothListed(j, k) PROVE BothListed(j, k)' \/ DueBefore(j, k)'
    <3>1. PICK i \in items, m \in items : i.job = k /\ m.job = j /\ i.executeTick < m.executeTick
      BY <2>1 DEF BothListed
    <3>2. CASE i \notin ready
      BY <1>1, <1>5, <3>1, <3>2 DEF BothListed
    <3>3. CASE i \in ready
      <4>1. PICK n \in 1..Len(s) : s[n] = i
        BY <1>6, <3>3
      <4>2. Unpushed(j)'
        BY <1>10, <3>1 DEF OnceInv, Undue
      <4>3. ASSUME NEW l \in 1..Len(s), s[l].job = j PROVE n < l
        <5>1. s[l] = m
          BY <1>2, <1>6, <3>1, <4>3 DEF OnceInv
        <5>2. ~(s[l].executeTick <= s[n].executeTick)
          BY <1>4, <3>1, <4>1, <5>1
        <5>3. ~(l < n) /\ l # n
          BY <1>4, <1>6, <3>1, <4>1, <5>1, <5>2
        <5>. QED  BY <5>3
      <4>. QED  BY <1>8, <3>1, <4>1, <4>2, <4>3 DEF DueBefore
    <3>. QED  BY <3>2, <3>3
  <2>2. ~DueBefore(j, k) /\ ~PushedBefore(j, k)
    BY <1>7 DEF DueBefore, PushedBefore
  <2>4. QueuedBefore(q, j, k) => QueuedBefore(q, j, k)'
    BY <1>1 DEF QueuedBefore, Unstarted
  <2>5. TakenBefore(q, j, k) => TakenBefore(q, j, k)'
    BY <1>1 DEF TakenBefore
  <2>6. BothLate(q, j) => BothLate(q, j)'
    BY <1>1, <1>10 DEF BothLate
  <2>. QED  BY <1>16, <2>1, <2>2, <2>4, <2>5, <2>6 DEF Before
<1>. QED  BY <1>1, <1>14, <1>15, <1>16, PairsKept

\* The first of what is due is pushed, and nothing else until it is queued.
LEMMA HandOverAhead ==
    ASSUME NEW t \in Threads, TimerInv, DistributeOne(t)
    PROVE  OnceInv' /\ PairInv'
<1>. USE DEF TimerInv, IInv
<1>. DEFINE d == due[t]
            x == Head(d).job
            p == Head(d).owner
<1>1. /\ jobs' = jobs /\ batch' = batch /\ cur' = cur /\ fresh' = fresh /\ items' = items
      /\ reserve' = reserve /\ started' = started /\ gone' = gone /\ owed' = owed
      /\ cleared' = cleared /\ forgotten' = forgotten /\ dist' = dist /\ dist[t].at = "push" /\ push[t] = NoPush
      /\ d # <<>> /\ due' = [due EXCEPT ![t] = Tail(d)] /\ HandOver(t, Head(d))
  BY DEF DistributeOne, NextItem
<1>2. d \in Seq(Items) /\ 1 \in 1..Len(d) /\ d[1] = Head(d)
  BY <1>1 DEF TimerTypeOK
<1>3. /\ Len(d) \in Nat /\ Len(Tail(d)) = Len(d) - 1
      /\ \A n \in 1..Len(Tail(d)) : n + 1 \in 1..Len(d) /\ Tail(d)[n] = d[n + 1]
      /\ \A n \in 1..Len(d) : n # 1 => n - 1 \in 1..Len(Tail(d)) /\ (n - 1) + 1 = n
  BY <1>1, <1>2
<1>4. Head(d) \in Items /\ x \in Jobs /\ p \in Queues
  <2>1. Head(d) \in Items
    BY <1>2
  <2>. HIDE DEF d
  <2>. QED  BY <2>1 DEF Items
<1>5. /\ p \in gone => push' = push
      /\ p \notin gone =>
           push' = [push EXCEPT ![t] = [at |-> "counted", queue |-> p, job |-> x,
                                        first |-> jobCount[p] = 0, only |-> FALSE]]
  BY <1>1 DEF HandOver, CountJob
<1>6. /\ \A u \in Threads : u # t => due'[u] = due[u] /\ push'[u] = push[u]
      /\ due'[t] = Tail(d)
  BY <1>1, <1>5 DEF TimerTypeOK, TypeOK
<1>7. /\ p \notin gone => push'[t].at = "counted" /\ push'[t].queue = p /\ push'[t].job = x
                          /\ push'[t] # NoPush
      /\ p \in gone => push'[t] = NoPush
  BY <1>1, <1>5 DEF TypeOK, NoPush
<1>8. \A u \in Threads : u # t => dist[u].at # "push" /\ \A n \in 1..Len(due[u]) : FALSE
  BY <1>1 DEF DistInv
<1>. HIDE DEF d, x, p
<1>9. /\ \A u \in Threads : \A n \in 1..Len(due'[u]) : u = t
      /\ \A u \in Threads : \A n \in 1..Len(due[u]) : u = t
      /\ due[t] = d /\ d[1].job = x /\ d[1].owner = p
  BY <1>2, <1>6, <1>8 DEF d, x, p
<1>10. /\ \A u \in Threads : \A j : u # t => Pushing(u, j)' = Pushing(u, j)
       /\ \A j : Pushing(t, j)' => j = x /\ p \notin gone
       /\ \A j : j = x /\ p \notin gone => Pushing(t, j)'
       /\ \A j : ~Pushing(t, j)
  <2>1. \A u \in Threads : \A j : u # t => Pushing(u, j)' = Pushing(u, j)
    BY <1>6 DEF Pushing
  <2>2. \A j : Pushing(t, j)' => j = x /\ p \notin gone
    BY <1>7 DEF Pushing
  <2>3. \A j : j = x /\ p \notin gone => Pushing(t, j)'
    BY <1>7 DEF Pushing
  <2>4. \A j : ~Pushing(t, j)
    BY <1>1 DEF Pushing
  <2>. QED  BY <2>1, <2>2, <2>3, <2>4
<1>11. \A j : j # x \/ p \in gone => (Unpushed(j) => Unpushed(j)')
  BY <1>1, <1>10 DEF Unpushed, Unstarted
<1>12. \A n \in 1..Len(d) : n # 1 => d[n].job # x
  BY <1>2, <1>9 DEF OnceInv
<1>13. \A j : j # x /\ Undue(j) => Undue(j)'
  <2>1. \A j : (\A n \in 1..Len(d) : d[n].job # j) =>
               \A u \in Threads : \A n \in 1..Len(due'[u]) : due'[u][n].job # j
    <3>1. \A n \in 1..Len(due'[t]) : n + 1 \in 1..Len(d) /\ due'[t][n] = d[n + 1]
      BY <1>3, <1>6
    <3>. QED  BY <1>9, <3>1
  <2>. QED  BY <1>9, <1>11, <2>1 DEF Undue
<1>14. \A j : j # x /\ Unlisted(j) => Unlisted(j)'
  BY <1>1, <1>13 DEF Unlisted
<1>15. \A j : Undue(j) => j # x
  BY <1>2, <1>9 DEF Undue
<1>16. \A j : Unreserved(j)' = Unreserved(j)
  BY <1>1 DEF Unreserved
<1>17. OnceInv'
  <2>1. \A j \in fresh' : Unlisted(j)' /\ Unreserved(j)'
    BY <1>1, <1>14, <1>15, <1>16 DEF OnceInv, Unlisted
  <2>2. \A u \in Threads : \A m \in reserve'[u] : Unlisted(m.job)'
    BY <1>1, <1>14, <1>15 DEF OnceInv, Unlisted
  <2>3. \A u \in Threads : \A m \in reserve'[u] :
           \A v \in Threads : \A n \in reserve'[v] : n.job = m.job => v = u /\ n = m
    BY <1>1 DEF OnceInv
  <2>4. \A m \in items' : Undue(m.job)' /\ \A n \in items' : n.job = m.job => n = m
    BY <1>1, <1>13, <1>15 DEF OnceInv
  <2>5. ASSUME NEW u \in Threads, NEW n \in 1..Len(due'[u])
        PROVE  u = t /\ n + 1 \in 1..Len(d) /\ due'[u][n] = d[n + 1] /\ n # 0
    BY <1>3, <1>6, <1>9
  <2>6. ASSUME NEW u \in Threads, NEW n \in 1..Len(due'[u]) PROVE Unpushed(due[u][n].job)'
    <3>. DEFINE j == due'[u][n].job
    <3>1. n + 1 \in 1..Len(d) /\ n + 1 # 1 /\ j = d[n + 1].job
      BY <2>5
    <3>2. Unpushed(j) /\ j # x
      BY <1>9, <1>12, <3>1 DEF OnceInv
    <3>. HIDE DEF j
    <3>3. \A v \in Threads : /\ \A m \in 1..Len(batch'[v]) : batch'[v][m] # j
                             /\ ~(push'[v] # NoPush /\ push'[v].at = "counted" /\ push'[v].job = j)
      BY <1>1, <1>6, <1>7, <3>2 DEF Unpushed, Unstarted, Pushing
    <3>4. j \notin started' /\ \A q \in Queues : \A m \in 1..Len(jobs'[q]) : jobs'[q][m] # j
      BY <1>1, <3>2 DEF Unpushed, Unstarted
    <3>. QED  BY <3>3, <3>4 DEF j, Unpushed, Unstarted, Pushing
  <2>7. ASSUME NEW u \in Threads, NEW n \in 1..Len(due'[u]),
               NEW v \in Threads, NEW m \in 1..Len(due'[v]), due'[v][m].job = due'[u][n].job
        PROVE  v = u /\ m = n
    <3>1. /\ u = t /\ n + 1 \in 1..Len(d) /\ due'[u][n] = d[n + 1]
          /\ v = t /\ m + 1 \in 1..Len(d) /\ due'[v][m] = d[m + 1]
      BY <2>5
    <3>2. m + 1 = n + 1
      BY <1>9, <2>7, <3>1 DEF OnceInv
    <3>3. m \in Int /\ n \in Int
      OBVIOUS
    <3>. QED  BY <3>1, <3>2, <3>3
  <2>. QED  BY <2>1, <2>2, <2>3, <2>4, <2>6, <2>7 DEF OnceInv
<1>18. ASSUME NEW j \in Jobs, NEW q \in Queues, Home(j, q)
       PROVE  Home(j, q)' /\ (j = x => q = p)
  <2>1. \A n \in 1..Len(d) : d[n].job = j => d[n].owner = q
    BY <1>9, <1>18 DEF Home
  <2>2. j = x => q = p
    BY <1>2, <1>9, <2>1
  <2>3. \A u \in Threads : \A n \in 1..Len(due'[u]) : due'[u][n].job = j => due'[u][n].owner = q
    BY <1>3, <1>6, <1>9, <2>1
  <2>4. \A u \in Threads : Pushing(u, j)' => push'[u].queue = q
    BY <1>6, <1>7, <1>10, <1>18, <2>2 DEF Home
  <2>. QED  BY <1>1, <1>16, <1>18, <2>2, <2>3, <2>4 DEF Home
<1>19. ASSUME NEW j \in Jobs, NEW k \in Jobs, NEW q \in Queues,
              j # k, Home(j, q), Home(k, q), Before(q, j, k)
       PROVE  Before(q, j, k)'
  <2>1. BothListed(j, k) => BothListed(j, k)'
    BY <1>1 DEF BothListed
  <2>2. ASSUME DueBefore(j, k)
        PROVE  DueBefore(j, k)' \/ PushedBefore(j, k)' \/ BothLate(q, j)'
    <3>1. PICK n \in 1..Len(d) :
             /\ d[n].job = k /\ Unpushed(j)
             /\ \A m \in 1..Len(d) : d[m].job = j => n < m
      BY <1>9, <2>2 DEF DueBefore
    <3>2. j # x
      BY <1>2, <1>9, <3>1
    <3>3. Unpushed(j)'
      BY <1>11, <3>1, <3>2
    <3>4. CASE n = 1 /\ p \notin gone
      BY <1>1, <1>9, <1>10, <3>1, <3>3, <3>4 DEF PushedBefore
    <3>5. CASE n = 1 /\ p \in gone
      BY <1>1, <1>9, <1>18, <1>19, <3>1, <3>3, <3>5 DEF BothLate
    <3>6. CASE n # 1
      <4>1. n - 1 \in 1..Len(due'[t]) /\ due'[t][n - 1].job = k
        BY <1>3, <1>6, <3>1, <3>6
      <4>2. ASSUME NEW m \in 1..Len(due'[t]), due'[t][m].job = j PROVE n - 1 < m
        <5>1. m + 1 \in 1..Len(d) /\ d[m + 1].job = j
          BY <1>3, <1>6, <4>2
        <5>2. n < m + 1
          BY <3>1, <5>1
        <5>. QED  BY <5>2, <3>1
      <4>. QED  BY <1>9, <3>3, <4>1, <4>2 DEF DueBefore
    <3>. QED  BY <3>4, <3>5, <3>6
  <2>3. ~PushedBefore(j, k)
    BY <1>8, <1>10 DEF PushedBefore
  <2>4. QueuedBefore(q, j, k) => QueuedBefore(q, j, k)'
    BY <1>1 DEF QueuedBefore, Unstarted
  <2>5. TakenBefore(q, j, k) => TakenBefore(q, j, k)'
    BY <1>1 DEF TakenBefore
  <2>6. BothLate(q, j) => BothLate(q, j)'
    BY <1>1, <1>11, <1>18, <1>19 DEF BothLate
  <2>. QED  BY <1>19, <2>1, <2>2, <2>3, <2>4, <2>5, <2>6 DEF Before
<1>. QED  BY <1>1, <1>17, <1>18, <1>19, PairsKept

\* Clear drops the job that is ahead, if it is still in the timer.
LEMMA ClearAhead ==
    ASSUME NEW t \in Threads, TimerInv, Clear(t)
    PROVE  OnceInv' /\ PairInv'
<1>. USE DEF TimerInv, IInv
<1>1. /\ jobs' = jobs /\ batch' = batch /\ cur' = cur /\ push' = push /\ fresh' = fresh
      /\ reserve' = reserve /\ started' = started /\ gone' = gone /\ owed' = owed
      /\ dist' = dist /\ due' = due /\ items' = {}
      /\ cleared' = cleared \union {i.job : i \in items} /\ forgotten' = forgotten
  BY DEF Clear, vars
<1>2. \A u \in Threads : \A j : Pushing(u, j)' = Pushing(u, j)
  BY <1>1 DEF Pushing
<1>3. \A j : Unpushed(j)' = Unpushed(j)
  BY <1>1, <1>2 DEF Unpushed, Unstarted
<1>4. OnceInv'
  <2>1. items' \in SUBSET items
    BY <1>1
  <2>. QED  BY <1>1, <1>3, <2>1, OnceKept
<1>5. \A j : Unreserved(j)' = Unreserved(j)
  BY <1>1 DEF Unreserved
<1>6. ASSUME NEW j \in Jobs, NEW q \in Queues, Home(j, q) PROVE Home(j, q)'
  BY <1>1, <1>2, <1>5, <1>6 DEF Home
<1>7. ASSUME NEW j \in Jobs, NEW k \in Jobs, NEW q \in Queues, Before(q, j, k)
      PROVE  k \in cleared' \/ Before(q, j, k)'
  <2>1. BothListed(j, k) => k \in cleared'
    BY <1>1 DEF BothListed
  <2>2. DueBefore(j, k) => DueBefore(j, k)'
    BY <1>1, <1>3 DEF DueBefore
  <2>3. PushedBefore(j, k) => PushedBefore(j, k)'
    BY <1>1, <1>2, <1>3 DEF PushedBefore
  <2>4. QueuedBefore(q, j, k) => QueuedBefore(q, j, k)'
    BY <1>1 DEF QueuedBefore, Unstarted
  <2>5. TakenBefore(q, j, k) => TakenBefore(q, j, k)'
    BY <1>1 DEF TakenBefore
  <2>6. BothLate(q, j) => BothLate(q, j)'
    BY <1>1, <1>3 DEF BothLate
  <2>. QED  BY <1>7, <2>1, <2>2, <2>3, <2>4, <2>5, <2>6 DEF Before
<1>8. started \in SUBSET started' /\ cleared \in SUBSET cleared' /\ forgotten \in SUBSET forgotten'
  BY <1>1
<1>. QED  BY <1>1, <1>4, <1>6, <1>7, <1>8, PairsKept

\* ClearJobs forgets the job that is ahead, if it is still in _jobs.
LEMMA QueueClearAhead ==
    ASSUME NEW t \in Threads, TimerInv, QueueClear(t)
    PROVE  OnceInv' /\ PairInv'
<1>. USE DEF TimerInv, IInv
<1>1. PICK p \in Queues : ClearJobs(t, p)
  BY DEF QueueClear
<1>2. /\ batch' = batch /\ cur' = cur /\ push' = push /\ fresh' = fresh
      /\ jobs' = [jobs EXCEPT ![p] = <<>>]
      /\ forgotten' = forgotten \union {jobs[p][i] : i \in 1..Len(jobs[p])}
  BY <1>1 DEF ClearJobs
<1>3. /\ reserve' = reserve /\ started' = started /\ gone' = gone /\ owed' = owed
      /\ dist' = dist /\ due' = due /\ items' = items /\ cleared' = cleared
  BY DEF QueueClear, timerVars
<1>4. \A q \in Queues : /\ q # p => jobs'[q] = jobs[q]
                        /\ \A n \in 1..Len(jobs'[q]) : n \in 1..Len(jobs[q]) /\ jobs'[q][n] = jobs[q][n]
  BY <1>2 DEF TypeOK
<1>5. \A u \in Threads : \A j : Pushing(u, j)' = Pushing(u, j)
  BY <1>2 DEF Pushing
<1>6. \A j : (Unpushed(j) => Unpushed(j)') /\ Unstarted(j)' = Unstarted(j)
  BY <1>2, <1>3, <1>4, <1>5 DEF Unpushed, Unstarted
<1>7. OnceInv'
  <2>1. items' \in SUBSET items
    BY <1>3
  <2>. QED  BY <1>2, <1>3, <1>6, <2>1, OnceKept
<1>8. \A j : Unreserved(j)' = Unreserved(j)
  BY <1>3 DEF Unreserved
<1>9. ASSUME NEW j \in Jobs, NEW q \in Queues, Home(j, q) PROVE Home(j, q)'
  <2>1. \A r \in Queues : \A n \in 1..Len(jobs'[r]) : jobs'[r][n] = j => r = q
    BY <1>4, <1>9 DEF Home
  <2>. QED  BY <1>2, <1>3, <1>5, <1>8, <1>9, <2>1 DEF Home
<1>10. ASSUME NEW j \in Jobs, NEW k \in Jobs, NEW q \in Queues, Before(q, j, k)
       PROVE  k \in forgotten' \/ Before(q, j, k)'
  <2>1. BothListed(j, k) => BothListed(j, k)'
    BY <1>3 DEF BothListed
  <2>2. DueBefore(j, k) => DueBefore(j, k)'
    BY <1>3, <1>6 DEF DueBefore
  <2>3. PushedBefore(j, k) => PushedBefore(j, k)'
    BY <1>3, <1>5, <1>6 DEF PushedBefore
  <2>4. QueuedBefore(q, j, k) => k \in forgotten' \/ QueuedBefore(q, j, k)'
    <3>1. CASE q = p
      BY <1>2, <3>1 DEF QueuedBefore
    <3>2. CASE q # p
      BY <1>4, <1>6, <3>2 DEF QueuedBefore
    <3>. QED  BY <3>1, <3>2
  <2>5. TakenBefore(q, j, k) => TakenBefore(q, j, k)'
    BY <1>2, <1>3 DEF TakenBefore
  <2>6. BothLate(q, j) => BothLate(q, j)'
    BY <1>3, <1>6 DEF BothLate
  <2>. QED  BY <1>10, <2>1, <2>2, <2>3, <2>4, <2>5, <2>6 DEF Before
<1>11. started \in SUBSET started' /\ cleared \in SUBSET cleared' /\ forgotten \in SUBSET forgotten'
  BY <1>2, <1>3
<1>. QED  BY <1>3, <1>7, <1>9, <1>10, <1>11, PairsKept

\* The timer's other steps move no job.
LEMMA TimerStill ==
    ASSUME TimerInv,
           \/ Tick \/ (\E q \in Queues : DropQueue(q)) \/ UNCHANGED allVars
           \/ \E t \in Threads : DistributeCall(t) \/ DistributeEnter(t) \/ DistributeDone(t)
    PROVE  OnceInv' /\ PairInv'
<1>. USE DEF TimerInv, IInv
<1>1. /\ UNCHANGED vars /\ started' = started /\ reserve' = reserve /\ items' = items
      /\ due' = due /\ cleared' = cleared /\ owed' = owed /\ gone \in SUBSET gone'
  BY DEF Tick, DropQueue, DistributeCall, DistributeEnter, DistributeDone, allVars, timerVars
<1>2. \A u \in Threads : push[u] # NoPush /\ dist[u].at = "push" => dist'[u].at = "push"
  <2>1. ASSUME NEW t \in Threads, DistributeCall(t) \/ DistributeEnter(t) \/ DistributeDone(t)
        PROVE  /\ \A u \in Threads : u # t => dist'[u] = dist[u]
               /\ dist[t].at # "push" \/ push[t] = NoPush
    BY <2>1 DEF DistributeCall, FreeToCall, Free, DistributeEnter, DistributeDone, NextItem,
                TimerTypeOK
  <2>2. ASSUME Tick \/ (\E q \in Queues : DropQueue(q)) \/ UNCHANGED allVars PROVE dist' = dist
    BY <2>2 DEF Tick, DropQueue, allVars, timerVars
  <2>. QED  BY <2>1, <2>2
<1>3. /\ jobs' = jobs /\ batch' = batch /\ cur' = cur /\ push' = push /\ fresh' = fresh
      /\ forgotten' = forgotten
  BY <1>1 DEF vars
<1>4. \A u \in Threads : \A j : Pushing(u, j)' = Pushing(u, j)
  BY <1>3 DEF Pushing
<1>5. \A j : Unpushed(j)' = Unpushed(j) /\ Unreserved(j)' = Unreserved(j)
  BY <1>1, <1>3, <1>4 DEF Unpushed, Unstarted, Unreserved
<1>6. OnceInv'
  BY <1>1, <1>3, <1>5, OnceKept
<1>7. \A j \in Jobs : Still(j)
  BY <1>1, <1>2, <1>3, <1>4, <1>5 DEF Still, Pushing
<1>8. started \in SUBSET started' /\ cleared \in SUBSET cleared' /\ forgotten \in SUBSET forgotten'
  BY <1>1, <1>3
<1>. QED  BY <1>1, <1>6, <1>7, <1>8, StillAhead, PairsKept

\* Every step of the timer and the queues keeps the invariant.
LEMMA TimerStep == TimerInv /\ [TimerNext]_allVars => TimerInv'
<1>. SUFFICES ASSUME TimerInv, [TimerNext]_allVars PROVE TimerInv'
  OBVIOUS
<1>1. IInv'
  BY QueuesUnderneath DEF TimerInv
<1>2. TimerTypeOK' /\ DistInv'
  BY <1>1, TimerTypeStep, DistStep DEF TimerInv
<1>3. ASSUME NEW t \in Threads, QueueWork(t) PROVE OnceInv' /\ PairInv'
  <2>1. /\ \A j \in Jobs : Unpushed(j) => Unpushed(j)'
        /\ \A j, k \in Jobs : \A q \in Queues :
              j # k /\ Home(j, q) /\ Home(k, q) /\ Before(q, j, k)
                 => k \in started' \/ (Home(j, q)' /\ Home(k, q)' /\ Before(q, j, k)')
        /\ fresh' = fresh /\ started \in SUBSET started'
    BY <1>3, QueueWorkAhead
  <2>2. /\ reserve' = reserve /\ due' = due /\ items' \in SUBSET items
        /\ owed' = owed /\ cleared' = cleared
    BY <1>3 DEF QueueWork, QueueInside, QueueStep, timerVars
  <2>3. OnceInv'
    BY <2>1, <2>2, OnceKept DEF TimerInv
  <2>4. forgotten' = forgotten
    BY <1>3, QueueWorkForgetsNothing
  <2>5. PairInv'
    BY <2>1, <2>2, <2>4, PairsKept DEF TimerInv
  <2>. QED  BY <2>3, <2>5
<1>4. ASSUME NEW t \in Threads, QueueCall(t) \/ QueueClear(t) \/ ReserveInsert(t) \/ Clear(t)
      PROVE  OnceInv' /\ PairInv'
  BY <1>2, <1>4, QueueCallAhead, QueueClearAhead, InsertAhead, ClearAhead
<1>5. ASSUME NEW t \in Threads, Distribute(t) PROVE OnceInv' /\ PairInv'
  BY <1>5, TakeAhead, HandOverAhead, TimerStill DEF Distribute, DistributeInside
<1>6. ASSUME NEW t \in Threads, NEW q \in Queues, NEW j \in Jobs, NEW d \in Delays,
             ReserveTick(t, q, j, d)
      PROVE  OnceInv' /\ PairInv'
  BY <1>6, ReserveAhead
<1>7. CASE Tick \/ (\E q \in Queues : DropQueue(q)) \/ UNCHANGED allVars
  BY <1>1, <1>2, <1>7, TimerStill DEF TimerInv
<1>. QED  BY <1>1, <1>2, <1>3, <1>4, <1>5, <1>6, <1>7 DEF TimerNext, TimerInv

\* The timer begins empty.
LEMMA TimerInitInv == TimerInit => TimerInv
<1>. SUFFICES ASSUME TimerInit PROVE TimerInv
  OBVIOUS
<1>. USE DEF TimerInit
<1>1. IInv
  BY InitIInv
<1>2. TimerTypeOK
  <2>1. 0 \in 0..LastTick
    BY TimerAssumption
  <2>2. /\ reserve \in [Threads -> SUBSET Items] /\ due \in [Threads -> Seq(Items)]
        /\ owed \in [Jobs -> SUBSET Jobs]
    OBVIOUS
  <2>3. dist \in [Threads -> {NotDistributing}
                     \union [at : {"call", "take"}, now : Nat] \union [at : {"push"}]]
    OBVIOUS
  <2>. QED  BY <1>1, <2>1, <2>2, <2>3 DEF IInv, TimerTypeOK
<1>3. DistInv
  BY FS_EmptySet DEF DistInv, NotDistributing, Init
<1>4. \A j : Unlisted(j) /\ Unreserved(j)
  BY DEF Unlisted, Undue, Unpushed, Unstarted, Unreserved, Pushing, Init
<1>5. OnceInv
  BY <1>4 DEF OnceInv
<1>6. PairInv
  BY DEF PairInv
<1>. QED  BY <1>1, <1>2, <1>3, <1>5, <1>6 DEF TimerInv

\* The timer's state has the values its code can give it (JobTimer.h 6-51).
THEOREM TimerTypeCorrect == TimerSpec => []TimerTypeOK
<1>1. TimerInv => TimerTypeOK
  BY DEF TimerInv
<1>. QED  BY <1>1, TimerInitInv, TimerStep, PTL DEF TimerSpec

\* A reserved job is in one place on its way through the timer, and one that waited
\* beside it for an earlier tick is ahead of it (JobTimer.cpp 7-48).
THEOREM TimerInvariant == TimerSpec => []TimerInv
  BY TimerInitInv, TimerStep, PTL DEF TimerSpec

\* The jobs of a queue that wait in the timer side by side run in the order of their
\* ticks, whatever the number of threads that distribute, push and run them: only one
\* of them at a time hands jobs over, and the queues keep the order (JobTimer.cpp 15-48).
THEOREM TimedOrder == TimerSpec => []TimedJobsKeepOrder
<1>1. TimerInv => TimedJobsKeepOrder
  <2>. SUFFICES ASSUME TimerInv, NEW j \in started, NEW k \in owed[j],
                       k \notin cleared \union forgotten, k \notin started
                PROVE  FALSE
    BY DEF TimedJobsKeepOrder
  <2>1. j \in Jobs
    BY DEF TimerInv, TimerTypeOK
  <2>2. PICK q \in Queues : Home(j, q) /\ Home(k, q) /\ Before(q, j, k)
    BY <2>1 DEF TimerInv, PairInv
  <2>3. \A i : Unpushed(i) => i \notin started
    BY DEF Unpushed, Unstarted
  <2>4. \A m \in items : m.job \notin started
    BY <2>3 DEF TimerInv, OnceInv, Undue
  <2>. QED  BY <2>2, <2>3, <2>4 DEF Before, BothListed, DueBefore, PushedBefore, QueuedBefore,
                                    TakenBefore, BothLate, Unstarted
<1>. QED  BY <1>1, TimerInitInv, TimerStep, PTL DEF TimerSpec

\* Underneath the timer, too, the job queues are serial executors: what it reserves,
\* distributes and drops, and the jobs it counts on another thread's behalf, are
\* nothing to them until they are queued (JobTimer.cpp 7-48, JobQueue.cpp 5-63).
THEOREM TimerImplementsExecutors == TimerSpec => ImplementsSerialExecutor
<1>1. TimerInit => Serial!Init
  <2>. SUFFICES ASSUME TimerInit PROVE Serial!Init
    OBVIOUS
  <2>1. \A q \in Queues : ExecutorOf(q) = {} /\ jobs[q] = <<>>
    BY SetsAssumption DEF TimerInit, Init, ExecutorOf
  <2>2. \A q \in Queues : Running(q) = NoJob /\ Pending(q) = <<>>
    BY <2>1 DEF Running, Pending
  <2>. QED  BY <2>2 DEF TimerInit, Init, Serial!Init
<1>2. TimerInv /\ TimerInv' /\ Seen /\ Seen' /\ [TimerNext]_allVars => [Serial!Next]_(Serial!avars)
  <2>. SUFFICES ASSUME TimerInv, TimerInv', Seen, Seen', [TimerNext]_allVars
                PROVE  [Serial!Next]_(Serial!avars)
    OBVIOUS
  <2>1. ASSUME [Next]_vars PROVE [Serial!Next]_(Serial!avars)
    BY <2>1, StepRefines DEF TimerInv
  <2>2. ASSUME jobs' = jobs, cur' = cur, at' = at, batch' = batch, forgotten' = forgotten
        PROVE  UNCHANGED Serial!avars
    <3>1. \A u \in Threads : Doing(u)' = Doing(u) /\ Taken(u)' = Taken(u)
      BY <2>2 DEF Doing, Taken
    <3>2. \A q \in Queues : Same(q)
      BY <2>2, <3>1, SameQueue
    <3>. QED  BY <2>2, <3>2 DEF Same, Serial!avars
  <2>3. ASSUME NEW t \in Threads, QueueWork(t) \/ QueueCall(t) \/ QueueClear(t) PROVE Next
    BY <2>3 DEF QueueWork, QueueInside, QueueCall, QueueClear, Next, Work, Call
  <2>4. ASSUME NEW t \in Threads,
               \/ ReserveInsert(t) \/ Distribute(t) \/ Clear(t)
               \/ \E q \in Queues, j \in Jobs, d \in Delays : ReserveTick(t, q, j, d)
        PROVE  jobs' = jobs /\ cur' = cur /\ at' = at /\ batch' = batch /\ forgotten' = forgotten
    BY <2>4 DEF ReserveInsert, Distribute, DistributeInside, DistributeCall, DistributeEnter, DistributeTake,
                DistributeOne, DistributeDone, Clear, ReserveTick, vars
  <2>5. ASSUME Tick \/ (\E q \in Queues : DropQueue(q)) \/ UNCHANGED allVars
        PROVE  jobs' = jobs /\ cur' = cur /\ at' = at /\ batch' = batch /\ forgotten' = forgotten
    BY <2>5 DEF Tick, DropQueue, allVars, vars
  <2>. QED  BY <2>1, <2>2, <2>3, <2>4, <2>5 DEF TimerNext
<1>3. TimerInv => Seen
  BY SeenIs DEF TimerInv
<1>. QED  BY <1>1, <1>2, <1>3, TimerInitInv, TimerStep, PTL
          DEF TimerSpec, ImplementsSerialExecutor, Serial!Spec

===============================================================================
