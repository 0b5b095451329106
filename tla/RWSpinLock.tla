------------------------------ MODULE RWSpinLock ------------------------------
(***************************************************************************)
(* The readers/writer spin lock of ClientNetworkCore/Lock.cpp, one action  *)
(* per atomic access to _lockFlag or _writeCount, used through the scoped  *)
(* guards of Lock.h (READ_LOCK / WRITE_LOCK).                              *)
(*                                                                         *)
(* _lockFlag packs the id of the writing thread (upper half, 0 = nobody)   *)
(* and the number of read guards (lower half): flag = [owner, readers].    *)
(***************************************************************************)
EXTENDS Naturals, Sequences, FiniteSets

CONSTANTS
    Threads,       \* LThreadId of the threads that use the lock
    MaxDepth,      \* bound: guards one thread nests on this lock
    ReadCountMask, \* READ_COUNT_MASK, 16#FFFF in the code
    AllowUpgrade,  \* callers may take a write guard inside a read guard
    AllowTimeout   \* a thread may spin for ACQUIRE_TIMEOUT_TICK

\* ThreadManager::InitTLS hands out the ids 1, 2, ...: 0 is nobody's.
ASSUME ThreadsAssumption == Threads \subseteq 1..ReadCountMask

\* The guards of all threads together fit the lower half of _lockFlag.
ASSUME BoundAssumption ==
    /\ MaxDepth \in Nat \ {0}
    /\ ReadCountMask \in Nat
    /\ Cardinality(Threads) * MaxDepth <= ReadCountMask

ASSUME ModeAssumption == AllowUpgrade \in BOOLEAN /\ AllowTimeout \in BOOLEAN

VARIABLES
    flag,        \* _lockFlag
    writeCount,  \* _writeCount
    pc,          \* pc[t]: where t is inside a Lock operation
    expected,    \* expected[t]: t's local variable in ReadLock's spin loop
    held,        \* held[t]: the guards t has acquired, innermost last
    crashed      \* the cause CRASH was called with, "no" while running

vars == <<flag, writeCount, pc, expected, held, crashed>>

Guard == {"R", "W"}
EmptyFlag == [owner |-> 0, readers |-> 0]
PC == {"out", "w_load", "w_own", "w_spin", "w_count",
       "w_unlock", "w_dec", "w_empty", "r_load", "r_own", "r_spin", "r_cas"}
Causes == {"no", "LOCK_TIMEOUT", "INVALID_UNLOCK_ORDER", "MULTIPLE_UNLOCK"}

TypeOK ==
    /\ flag \in [owner : 0..ReadCountMask, readers : 0..ReadCountMask]
    /\ writeCount \in 0..ReadCountMask
    /\ pc \in [Threads -> PC]
    /\ expected \in [Threads -> 0..ReadCountMask]
    /\ held \in [Threads -> Seq(Guard)]
    /\ crashed \in Causes

\* t holds at least one guard of kind k.
Holds(t, k) == \E i \in DOMAIN held[t] : held[t][i] = k

-------------------------------------------------------------------------------
\* Arithmetic on uint16: _writeCount and each half of _lockFlag.
Inc16(n) == IF n = ReadCountMask THEN 0 ELSE n + 1
Dec16(n) == IF n = 0 THEN ReadCountMask ELSE n - 1

\* fetch_add(1) and fetch_sub(1) on the packed word carry into the owner.
FlagPlusOne(f) ==
    [owner   |-> IF f.readers = ReadCountMask THEN Inc16(f.owner) ELSE f.owner,
     readers |-> Inc16(f.readers)]

FlagMinusOne(f) ==
    [owner   |-> IF f.readers = 0 THEN Dec16(f.owner) ELSE f.owner,
     readers |-> Dec16(f.readers)]

Running(t, at) == crashed = "no" /\ pc[t] = at
Goto(t, at) == pc' = [pc EXCEPT ![t] = at]
PushGuard(t, k) == held' = [held EXCEPT ![t] = Append(@, k)]
PopGuard(t) == held' = [held EXCEPT ![t] = SubSeq(@, 1, Len(@) - 1)]
Top(t) == held[t][Len(held[t])]

-------------------------------------------------------------------------------
(* WriteLock *)

\* A caller constructs a WriteLockGuard.
CallWriteLock(t) ==
    /\ Running(t, "out")
    /\ Len(held[t]) < MaxDepth
    /\ AllowUpgrade \/ ~Holds(t, "R")
    /\ Goto(t, "w_load")
    /\ UNCHANGED <<flag, writeCount, expected, held, crashed>>

\* The owner test: the thread that owns the lock always succeeds.
WriteLockLoad(t) ==
    /\ Running(t, "w_load")
    /\ Goto(t, IF flag.owner = t THEN "w_own" ELSE "w_spin")
    /\ UNCHANGED <<flag, writeCount, expected, held, crashed>>

\* The owner's _writeCount++.
WriteLockReenter(t) ==
    /\ Running(t, "w_own")
    /\ writeCount' = Inc16(writeCount)
    /\ PushGuard(t, "W")
    /\ Goto(t, "out")
    /\ UNCHANGED <<flag, expected, crashed>>

\* Mutant of WriteLockCas: a lone reader does not keep a writer out.
WriteLockCasOneReader(t) ==
    /\ Running(t, "w_spin")
    /\ flag.owner = 0 /\ flag.readers <= 1
    /\ flag' = [owner |-> t, readers |-> 0]
    /\ PushGuard(t, "W")
    /\ Goto(t, "w_count")
    /\ UNCHANGED <<writeCount, expected, crashed>>

\* The compare_exchange that succeeds; a failed one changes nothing.
WriteLockCas(t) ==
    /\ Running(t, "w_spin")
    /\ flag = EmptyFlag
    /\ flag' = [owner |-> t, readers |-> 0]
    /\ PushGuard(t, "W")
    /\ Goto(t, "w_count")
    /\ UNCHANGED <<writeCount, expected, crashed>>

WriteLockCount(t) ==
    /\ Running(t, "w_count")
    /\ writeCount' = Inc16(writeCount)
    /\ Goto(t, "out")
    /\ UNCHANGED <<flag, expected, held, crashed>>

-------------------------------------------------------------------------------
(* WriteUnlock *)

\* A WriteLockGuard goes out of scope.
CallWriteUnlock(t) ==
    /\ Running(t, "out")
    /\ held[t] # <<>>
    /\ Top(t) = "W"
    /\ Goto(t, "w_unlock")
    /\ UNCHANGED <<flag, writeCount, expected, held, crashed>>

\* No read guard may be left when a write guard is released.
WriteUnlockCheck(t) ==
    /\ Running(t, "w_unlock")
    /\ IF flag.readers # 0
       THEN crashed' = "INVALID_UNLOCK_ORDER" /\ UNCHANGED pc
       ELSE Goto(t, "w_dec") /\ UNCHANGED crashed
    /\ UNCHANGED <<flag, writeCount, expected, held>>

\* Mutant of WriteUnlockDec: an inner guard already opens the lock.
WriteUnlockDecEarly(t) ==
    /\ Running(t, "w_dec")
    /\ writeCount' = Dec16(writeCount)
    /\ IF writeCount <= 2
       THEN Goto(t, "w_empty") /\ UNCHANGED held
       ELSE Goto(t, "out") /\ PopGuard(t)
    /\ UNCHANGED <<flag, expected, crashed>>

\* --_writeCount, and the end of the call unless this was the last one.
WriteUnlockDec(t) ==
    /\ Running(t, "w_dec")
    /\ writeCount' = Dec16(writeCount)
    /\ IF writeCount = 1
       THEN Goto(t, "w_empty") /\ UNCHANGED held
       ELSE Goto(t, "out") /\ PopGuard(t)
    /\ UNCHANGED <<flag, expected, crashed>>

\* Mutant of WriteUnlockStore: the flag is not emptied.
WriteUnlockStoreNothing(t) ==
    /\ Running(t, "w_empty")
    /\ PopGuard(t)
    /\ Goto(t, "out")
    /\ UNCHANGED <<flag, writeCount, expected, crashed>>

WriteUnlockStore(t) ==
    /\ Running(t, "w_empty")
    /\ flag' = EmptyFlag
    /\ PopGuard(t)
    /\ Goto(t, "out")
    /\ UNCHANGED <<writeCount, expected, crashed>>

-------------------------------------------------------------------------------
(* ReadLock *)

CallReadLock(t) ==
    /\ Running(t, "out")
    /\ Len(held[t]) < MaxDepth
    /\ Goto(t, "r_load")
    /\ UNCHANGED <<flag, writeCount, expected, held, crashed>>

ReadLockLoad(t) ==
    /\ Running(t, "r_load")
    /\ Goto(t, IF flag.owner = t THEN "r_own" ELSE "r_spin")
    /\ UNCHANGED <<flag, writeCount, expected, held, crashed>>

\* The owner's fetch_add.
ReadLockReenter(t) ==
    /\ Running(t, "r_own")
    /\ flag' = FlagPlusOne(flag)
    /\ PushGuard(t, "R")
    /\ Goto(t, "out")
    /\ UNCHANGED <<writeCount, expected, crashed>>

\* expected = _lockFlag.load() & READ_COUNT_MASK.
ReadLockExpect(t) ==
    /\ Running(t, "r_spin")
    /\ expected' = [expected EXCEPT ![t] = flag.readers]
    /\ Goto(t, "r_cas")
    /\ UNCHANGED <<flag, writeCount, held, crashed>>

\* Mutants of ReadLockCas: the owner is not compared,
ReadLockCasAnyOwner(t) ==
    /\ Running(t, "r_cas")
    /\ IF flag.readers = expected[t]
       THEN flag' = FlagPlusOne(flag) /\ PushGuard(t, "R") /\ Goto(t, "out")
       ELSE Goto(t, "r_spin") /\ UNCHANGED <<flag, held>>
    /\ expected' = [expected EXCEPT ![t] = 0]
    /\ UNCHANGED <<writeCount, crashed>>

\* and a plain store instead of the compare-exchange.
ReadLockCasStale(t) ==
    /\ Running(t, "r_cas")
    /\ IF flag.owner = 0
       THEN /\ flag' = [owner |-> 0, readers |-> Inc16(expected[t])]
            /\ PushGuard(t, "R")
            /\ Goto(t, "out")
       ELSE Goto(t, "r_spin") /\ UNCHANGED <<flag, held>>
    /\ expected' = [expected EXCEPT ![t] = 0]
    /\ UNCHANGED <<writeCount, crashed>>

\* compare_exchange(expected, expected + 1): retried when the word moved on.
ReadLockCas(t) ==
    /\ Running(t, "r_cas")
    /\ IF flag = [owner |-> 0, readers |-> expected[t]]
       THEN flag' = FlagPlusOne(flag) /\ PushGuard(t, "R") /\ Goto(t, "out")
       ELSE Goto(t, "r_spin") /\ UNCHANGED <<flag, held>>
    /\ expected' = [expected EXCEPT ![t] = 0]
    /\ UNCHANGED <<writeCount, crashed>>

-------------------------------------------------------------------------------
(* ReadUnlock: a ReadLockGuard goes out of scope. *)

\* Mutant of ReadUnlock: the count is tested after the subtraction.
ReadUnlockLate(t) ==
    /\ Running(t, "out")
    /\ held[t] # <<>>
    /\ Top(t) = "R"
    /\ flag' = FlagMinusOne(flag)
    /\ IF flag.readers <= 1
       THEN crashed' = "MULTIPLE_UNLOCK" /\ UNCHANGED held
       ELSE PopGuard(t) /\ UNCHANGED crashed
    /\ UNCHANGED <<writeCount, pc, expected>>

ReadUnlock(t) ==
    /\ Running(t, "out")
    /\ held[t] # <<>>
    /\ Top(t) = "R"
    /\ flag' = FlagMinusOne(flag)
    /\ IF flag.readers = 0
       THEN crashed' = "MULTIPLE_UNLOCK" /\ UNCHANGED held
       ELSE PopGuard(t) /\ UNCHANGED crashed
    /\ UNCHANGED <<writeCount, pc, expected>>

\* Ten seconds in one of the spin loops end the program.
SpinTimeout(t) ==
    /\ AllowTimeout
    /\ crashed = "no"
    /\ pc[t] \in {"w_spin", "r_spin"}
    /\ crashed' = "LOCK_TIMEOUT"
    /\ UNCHANGED <<flag, writeCount, pc, expected, held>>

-------------------------------------------------------------------------------
Init ==
    /\ flag = EmptyFlag
    /\ writeCount = 0
    /\ pc = [t \in Threads |-> "out"]
    /\ expected = [t \in Threads |-> 0]
    /\ held = [t \in Threads |-> <<>>]
    /\ crashed = "no"

\* The steps that finish what a thread has begun: it leaves its critical
\* section and runs the Lock operation it is in.
Proceed(t) ==
    \/ WriteLockLoad(t) \/ WriteLockReenter(t) \/ WriteLockCas(t)
    \/ WriteLockCount(t)
    \/ CallWriteUnlock(t) \/ WriteUnlockCheck(t) \/ WriteUnlockDec(t)
    \/ WriteUnlockStore(t)
    \/ ReadLockLoad(t) \/ ReadLockReenter(t) \/ ReadLockExpect(t)
    \/ ReadLockCas(t) \/ ReadUnlock(t)

Step(t) == CallWriteLock(t) \/ CallReadLock(t) \/ Proceed(t) \/ SpinTimeout(t)

Next == \E t \in Threads : Step(t)

Spec == Init /\ [][Next]_vars

\* A thread the operating system keeps scheduling leaves its scopes and its
\* Lock calls; nobody is obliged to take the lock.
FairSpec == Spec /\ \A t \in Threads : WF_vars(Proceed(t))

-------------------------------------------------------------------------------
(* Properties *)

\* The lock implements the abstract readers/writer lock: it lets a guard in
\* only when the guards of the other threads allow it (Lock.cpp 13-32, 64-80)
\* and guards leave in scope order.
Abstract == INSTANCE RWLockSpec
ImplementsRWLock == Abstract!Spec

\* A write guard shuts out every guard of every other thread, whatever loads
\* and compare-exchanges of ReadLock and WriteLock interleave.
MutualExclusion ==
    \A t, u \in Threads : t # u /\ Holds(t, "W") => held[u] = <<>>

\* All the read guards in scope, over all threads.
ReadGuards ==
    {g \in Threads \X (1..MaxDepth) :
        g[2] \in DOMAIN held[g[1]] /\ held[g[1]][g[2]] = "R"}

\* The lower half of _lockFlag is the number of read guards in scope: the
\* fetch_add of the owner, the compare_exchange of the others and ReadUnlock's
\* fetch_sub never lose or double one, and never carry into the owner's half.
ReadCountIsExact == flag.readers = Cardinality(ReadGuards)

\* A release crashes the program only when a write guard was taken inside a
\* read guard inside a write guard; ReadUnlock never does (Lock.cpp 49, 95).
UnlockCrashNeedsNestedWrite ==
    crashed \in {"INVALID_UNLOCK_ORDER", "MULTIPLE_UNLOCK"} =>
        /\ crashed = "INVALID_UNLOCK_ORDER"
        /\ AllowUpgrade
        /\ \E t \in Threads : \E i, j \in DOMAIN held[t] :
              i < j /\ held[t][i] = "R" /\ held[t][j] = "W"

\* t asks for a write guard from inside a read guard of its own.
Upgrading(t) == pc[t] = "w_spin" /\ Holds(t, "R")

\* WriteLock waits for every read guard to go, its caller's own included: a
\* thread that upgrades is in the spin loop until the timeout ends the program.
UpgradeNeverSucceeds ==
    [][\A t \in Threads : Upgrading(t) => Upgrading(t)']_vars

\* Some thread is inside ReadLock or WriteLock.
SomeoneWaits == \E t \in Threads : pc[t] \in {"w_spin", "r_spin", "r_cas"}
SomeoneIsIn == \E t \in Threads : pc[t] = "out" /\ held[t] # <<>>

\* While threads compete for the lock, one of them gets in again and again: no
\* release is lost and no two waiting threads hold each other up, unless a
\* thread upgrades or the program has crashed (Lock.cpp 22-39, 72-86).
LockMakesProgress ==
    SomeoneWaits ~> SomeoneIsIn \/ crashed # "no" \/ \E t \in Threads : Upgrading(t)

===============================================================================
