--------------------------- MODULE DeadLockProfiler ---------------------------
(***************************************************************************)
(* The DeadLockProfiler of debug builds (DeadLockProfiler.cpp) at work in  *)
(* WriteLock and WriteUnlock (Lock.cpp): it records which lock is asked    *)
(* for while which is held, by name, and crashes the program on a cycle.   *)
(* PushLock and PopLock run under the profiler's mutex and are one action  *)
(* each; the lock is taken after PushLock and given up after PopLock.      *)
(***************************************************************************)
EXTENDS Integers, Sequences, FiniteSets, SequencesExt

CONSTANTS
    Callers,    \* the threads that use the locks
    Locks,      \* the Lock objects
    NameOf,     \* NameOf[l]: the name of l, typeid(this).name() of its owner
    NoLock,
    MaxNesting  \* bound: guards a thread nests

ASSUME LocksAssumption == IsFiniteSet(Locks) /\ NoLock \notin Locks

Names == {NameOf[l] : l \in Locks}

VARIABLES
    nameToId,  \* the names in the order of their ids: _nameToId, _idToName
    history,   \* _lockHistory as a set of pairs of ids
    stack,     \* stack[t]: LLockStack
    want,      \* want[t]: the lock t asks for
    guards,    \* guards[t]: the locks t holds, innermost last
    leaving,   \* leaving[t]: t is between PopLock and the end of WriteUnlock
    crash      \* the cause CRASH was called with

profilerVars == <<nameToId, history, stack, want, guards, leaving, crash>>

Ids == 0..(Cardinality(Names) - 1)

ProfilerTypeOK ==
    /\ nameToId \in Seq(Names) /\ Len(nameToId) <= Cardinality(Names)
    /\ history \subseteq Ids \X Ids
    /\ stack \in [Callers -> Seq(Ids)]
    /\ want \in [Callers -> Locks \union {NoLock}]
    /\ guards \in [Callers -> Seq(Locks)]
    /\ leaving \in [Callers -> BOOLEAN]
    /\ crash \in {"no", "DEADLOCK_DETECTED", "MULTIPLE_UNLOCK", "INVALID_UNLOCK"}

-------------------------------------------------------------------------------
(* CheckCycle *)

\* What a search keeps: _discoveredOrder, _discoveredCount, _finished, and
\* whether CRASH("DEADLOCK_DETECTED") has been called.
Searches(lockCount) ==
    LET ids == 0..(lockCount - 1)
    IN  [order : [ids -> Int], count : Nat, finished : [ids -> BOOLEAN], found : BOOLEAN]

\* for (i = 0; i < n; i++) body[i], on what start holds.
Loop(body, start, n) ==
    LET after[i \in 0..n] == IF i = 0 THEN start ELSE body[i - 1][after[i - 1]]
    IN  after[n]

\* Dfs(here) on a search, the calls Dfs(there) it makes given by deeper.
DfsOver(edges, lockCount, deeper) ==
    [here \in 0..(lockCount - 1) |-> [d \in Searches(lockCount) |->
        IF d.found \/ d.order[here] # -1 THEN d
        ELSE LET entered == [d EXCEPT !.order[here] = d.count, !.count = @ + 1]
                 visit == [there \in 0..(lockCount - 1) |-> [s \in Searches(lockCount) |->
                     IF s.found \/ <<here, there>> \notin edges THEN s
                     ELSE IF s.order[there] = -1 THEN deeper[there][s]
                     ELSE [s EXCEPT !.found = s.order[here] >= s.order[there] /\ ~s.finished[there]]]]
             IN  [Loop(visit, entered, lockCount) EXCEPT !.finished[here] = TRUE]]]

\* Dfs: its calls are never nested more often than there are locks.
Dfs(edges, lockCount) ==
    LET nested[depth \in 0..lockCount] ==
            IF depth = 0 THEN [here \in 0..(lockCount - 1) |-> [d \in Searches(lockCount) |-> d]]
            ELSE DfsOver(edges, lockCount, nested[depth - 1])
    IN  nested[lockCount]

\* CheckCycle clears the search before it begins.
Cleared(lockCount) ==
    [order |-> [i \in 0..(lockCount - 1) |-> -1], count |-> 0,
     finished |-> [i \in 0..(lockCount - 1) |-> FALSE], found |-> FALSE]

\* Mutants of CheckCycle: only the first lock is searched from,
CheckCycleFromFirst(edges, lockCount) == Dfs(edges, lockCount)[0][Cleared(lockCount)].found

\* and only two locks taken in opposite orders are noticed.
CheckCycleOfTwo(edges, lockCount) == \E e \in edges : <<e[2], e[1]>> \in edges

CheckCycle(edges, lockCount) == Loop(Dfs(edges, lockCount), Cleared(lockCount), lockCount).found

-------------------------------------------------------------------------------
\* The id of l's name; the size of _nameToId before a name is inserted.
IdOf(names, l) == (CHOOSE i \in DOMAIN names : names[i] = NameOf[l]) - 1

\* WriteLock(name) begins: PushLock finds or issues the id, records the order
\* and checks it when it is new.
PushLock(t, l) ==
    LET known == NameOf[l] \in ToSet(nameToId)
        names == IF known THEN nameToId ELSE Append(nameToId, NameOf[l])
        lockId == IdOf(names, l)
        edge == <<Last(stack[t]), lockId>>
        isNew == stack[t] # <<>> /\ edge[1] # lockId /\ edge \notin history
        edges == IF isNew THEN history \union {edge} ELSE history
    IN  /\ crash = "no" /\ want[t] = NoLock /\ ~leaving[t]
        /\ Len(guards[t]) < MaxNesting
        /\ nameToId' = names
        /\ history' = edges
        /\ IF isNew /\ CheckCycle(edges, Len(names))
           THEN crash' = "DEADLOCK_DETECTED" /\ UNCHANGED stack
           ELSE crash' = crash /\ stack' = [stack EXCEPT ![t] = Append(@, lockId)]
        /\ want' = [want EXCEPT ![t] = l]
        /\ UNCHANGED <<guards, leaving>>

\* The spin loop of WriteLock gets the lock: free, or the thread's own.
Acquire(t) ==
    /\ crash = "no" /\ want[t] # NoLock
    /\ \A u \in Callers \ {t} : want[t] \notin ToSet(guards[u])
    /\ guards' = [guards EXCEPT ![t] = Append(@, want[t])]
    /\ want' = [want EXCEPT ![t] = NoLock]
    /\ UNCHANGED <<nameToId, history, stack, leaving, crash>>

\* WriteUnlock(name) begins with PopLock.
PopLock(t) ==
    LET lockId == IdOf(nameToId, Last(guards[t]))
    IN  /\ crash = "no" /\ want[t] = NoLock /\ ~leaving[t]
        /\ guards[t] # <<>>
        /\ IF stack[t] = <<>>
           THEN crash' = "MULTIPLE_UNLOCK" /\ UNCHANGED <<stack, leaving>>
           ELSE IF Last(stack[t]) # lockId
           THEN crash' = "INVALID_UNLOCK" /\ UNCHANGED <<stack, leaving>>
           ELSE /\ stack' = [stack EXCEPT ![t] = Front(@)]
                /\ leaving' = [leaving EXCEPT ![t] = TRUE]
                /\ UNCHANGED crash
        /\ UNCHANGED <<nameToId, history, want, guards>>

\* The lock is given up.
Release(t) ==
    /\ crash = "no" /\ leaving[t]
    /\ guards' = [guards EXCEPT ![t] = Front(@)]
    /\ leaving' = [leaving EXCEPT ![t] = FALSE]
    /\ UNCHANGED <<nameToId, history, stack, want, crash>>

ProfilerInit ==
    /\ nameToId = <<>> /\ history = {}
    /\ stack = [t \in Callers |-> <<>>]
    /\ want = [t \in Callers |-> NoLock]
    /\ guards = [t \in Callers |-> <<>>]
    /\ leaving = [t \in Callers |-> FALSE]
    /\ crash = "no"

ProfilerNext ==
    \E t \in Callers :
        \/ \E l \in Locks : PushLock(t, l)
        \/ Acquire(t) \/ PopLock(t) \/ Release(t)

ProfilerSpec == ProfilerInit /\ [][ProfilerNext]_profilerVars

-------------------------------------------------------------------------------
(* Properties *)

\* The orders recorded so far contain a cycle: some locks are each followed by
\* one of them.
Cyclic(edges, ids) == \E C \in SUBSET ids : C # {} /\ \A i \in C : \E j \in C : <<i, j>> \in edges

\* The profiler ends the program exactly when the orders have a cycle: the
\* depth-first search is run whenever one can have come up and finds it, and
\* guards that leave in scope order never make PopLock crash
\* (DeadLockProfiler.cpp 35-39, 46-126).
CycleIsFound == crash = IF Cyclic(history, Ids) THEN "DEADLOCK_DETECTED" ELSE "no"

\* Callers that wait for each other for good.
Deadlocked(D) ==
    /\ D # {}
    /\ \A t \in D : want[t] # NoLock /\ \E u \in D \ {t} : want[t] \in ToSet(guards[u])

\* The locks the threads of D have or ask for.
LocksOf(D) == {want[t] : t \in D} \union UNION {ToSet(guards[t]) : t \in D}

\* The profiler crashes the program before threads deadlock, unless two of the
\* locks they have or ask for bear the same name: PushLock records no order
\* between locks of one class (DeadLockProfiler.cpp:32).
DeadlockIsAnnounced ==
    crash = "no" => \A D \in SUBSET Callers : Deadlocked(D) =>
        \E k, l \in LocksOf(D) : k # l /\ NameOf[k] = NameOf[l]

===============================================================================
