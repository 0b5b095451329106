------------------------------ MODULE Lock_proofs ------------------------------
(***************************************************************************)
(* The locks and their profiler. Of RWSpinLock: its inductive invariant    *)
(* and what follows from it for any set of threads, any nesting depth and  *)
(* any caller discipline. Of DeadLockProfiler: what its depth-first search *)
(* finds in any set of recorded orders, the inductive invariant of its     *)
(* lock stacks, and that a deadlock is announced, for any finite set of    *)
(* locks, any names and any number of threads.                             *)
(***************************************************************************)
EXTENDS RWSpinLock, DeadLockProfiler, FiniteSetTheorems, SequenceTheorems,
        WellFoundedInduction, TLAPS

-------------------------------------------------------------------------------
(* RWSpinLock *)

\* The write guards of t.
WriteGuards(t) == {i \in 1..Len(held[t]) : held[t][i] = "W"}

\* Nesting stays within the bound, with room for the guard being acquired.
DepthInv ==
    \A t \in Threads :
        /\ Len(held[t]) <= MaxDepth
        /\ pc[t] \in {"w_load", "w_own", "w_spin", "r_load", "r_own", "r_spin",
                      "r_cas"} => Len(held[t]) < MaxDepth

\* The upper half of _lockFlag names the thread that holds write guards; its
\* outermost guard is a write guard and the others hold nothing.
OwnerInv ==
    /\ flag.owner \in Threads \union {0}
    /\ \A t \in Threads :
        IF flag.owner = t
        THEN /\ held[t] # <<>>
             /\ held[t][1] = "W"
             /\ \A u \in Threads \ {t} : held[u] = <<>>
        ELSE \A i \in 1..Len(held[t]) : held[t][i] = "R"

\* Where a thread is inside an operation tells what it knows of the lock.
PcInv ==
    \A t \in Threads :
        /\ pc[t] \in {"w_own", "r_own", "w_count", "w_unlock", "w_dec", "w_empty"}
              => flag.owner = t
        /\ pc[t] \in {"w_spin", "r_spin", "r_cas"} => flag.owner # t
        /\ pc[t] \in {"w_count", "w_empty"} => held[t] = <<"W">>
        /\ pc[t] \in {"w_unlock", "w_dec"} => held[t][Len(held[t])] = "W"
        /\ pc[t] = "w_dec" => flag.readers = 0

\* _writeCount is the number of the owner's write guards, except between the
\* compare_exchange and the increment and between the decrement and the store.
WriteCountInv ==
    /\ flag.owner = 0 => writeCount = 0
    /\ \A t \in Threads :
        flag.owner = t =>
            IF pc[t] \in {"w_count", "w_empty"} THEN writeCount = 0
            ELSE writeCount = Cardinality(WriteGuards(t))

\* The only crash a release can cause, and the guards that cause it.
CrashInv ==
    /\ crashed # "MULTIPLE_UNLOCK"
    /\ ~AllowUpgrade => \A t \in Threads : \A i, j \in 1..Len(held[t]) :
            i < j /\ held[t][i] = "R" => held[t][j] = "R"
    /\ ~AllowUpgrade => \A t \in Threads : pc[t] \in {"w_load", "w_own", "w_spin"}
            => \A i \in 1..Len(held[t]) : held[t][i] = "W"
    /\ crashed = "INVALID_UNLOCK_ORDER" =>
            \E t \in Threads : \E i, j \in 1..Len(held[t]) :
               i < j /\ held[t][i] = "R" /\ held[t][j] = "W"

\* The inductive invariant of RWSpinLock.
IInv ==
    /\ TypeOK /\ DepthInv /\ OwnerInv /\ PcInv /\ WriteCountInv
    /\ ReadCountIsExact /\ CrashInv

-------------------------------------------------------------------------------
(* What pushing and popping a guard does to the guard stacks. *)

\* A pushed guard is the last one; everything below it and every other
\* thread's guards stay.
LEMMA PushFacts ==
    ASSUME TypeOK, NEW t \in Threads, NEW k \in Guard, PushGuard(t, k)
    PROVE  /\ held' \in [Threads -> Seq(Guard)]
           /\ \A u \in Threads \ {t} : held'[u] = held[u]
           /\ held'[t] # <<>>
           /\ Len(held[t]) \in Nat
           /\ Len(held'[t]) = Len(held[t]) + 1
           /\ held'[t][Len(held[t]) + 1] = k
           /\ \A i \in 1..Len(held[t]) : held'[t][i] = held[t][i]
<1>1. held[t] \in Seq(Guard)
  BY DEF TypeOK
<1>2. held' = [held EXCEPT ![t] = Append(held[t], k)]
  BY DEF PushGuard
<1>3. held'[t] = Append(held[t], k) /\ \A u \in Threads \ {t} : held'[u] = held[u]
  BY <1>2 DEF TypeOK
<1>4. /\ Append(held[t], k) \in Seq(Guard)
      /\ Append(held[t], k) # <<>>
      /\ Len(held[t]) \in Nat
      /\ Len(Append(held[t], k)) = Len(held[t]) + 1
      /\ Append(held[t], k)[Len(held[t]) + 1] = k
      /\ \A i \in 1..Len(held[t]) : Append(held[t], k)[i] = held[t][i]
  BY <1>1
<1>5. held' \in [Threads -> Seq(Guard)]
  BY <1>2, <1>4 DEF TypeOK
<1>. QED  BY <1>3, <1>4, <1>5

\* All but the last element of a sequence.
LEMMA FrontFacts ==
    ASSUME NEW S, NEW s \in Seq(S), s # <<>>
    PROVE  /\ SubSeq(s, 1, Len(s) - 1) \in Seq(S)
           /\ Len(SubSeq(s, 1, Len(s) - 1)) \in Nat
           /\ Len(s) = Len(SubSeq(s, 1, Len(s) - 1)) + 1
           /\ \A i \in 1..Len(SubSeq(s, 1, Len(s) - 1)) :
                  SubSeq(s, 1, Len(s) - 1)[i] = s[i]
<1>1. PICK n \in Nat : Len(s) = n + 1
  <2>1. Len(s) \in Nat /\ Len(s) # 0
    OBVIOUS
  <2>2. Len(s) - 1 \in Nat /\ Len(s) = (Len(s) - 1) + 1
    BY <2>1
  <2>. QED  BY <2>2
<1>2. Len(s) - 1 = n
  BY <1>1
<1>3. \A i \in 1..n : s[i] \in S
  BY <1>1
<1>4. /\ SubSeq(s, 1, n) \in Seq(S)
      /\ Len(SubSeq(s, 1, n)) = n
      /\ \A i \in 1..n : SubSeq(s, 1, n)[i] = s[i]
  <2>1. /\ SubSeq(s, 1, n) \in Seq(S)
        /\ Len(SubSeq(s, 1, n)) = IF 1 <= n THEN n - 1 + 1 ELSE 0
        /\ \A i \in 1..(n - 1 + 1) : SubSeq(s, 1, n)[i] = s[1 + i - 1]
    BY <1>3, SubSeqProperties
  <2>2. n - 1 + 1 = n /\ \A i \in 1..n : 1 + i - 1 = i
    OBVIOUS
  <2>3. Len(SubSeq(s, 1, n)) = n
    BY <2>1
  <2>. QED  BY <2>1, <2>2, <2>3
<1>. QED  BY <1>1, <1>2, <1>4

\* A popped guard was the last one.
LEMMA PopFacts ==
    ASSUME TypeOK, NEW t \in Threads, held[t] # <<>>, PopGuard(t)
    PROVE  /\ held' \in [Threads -> Seq(Guard)]
           /\ \A u \in Threads \ {t} : held'[u] = held[u]
           /\ Len(held'[t]) \in Nat
           /\ Len(held[t]) = Len(held'[t]) + 1
           /\ \A i \in 1..Len(held'[t]) : held'[t][i] = held[t][i]
<1>1. held[t] \in Seq(Guard)
  BY DEF TypeOK
<1>2. held' = [held EXCEPT ![t] = SubSeq(held[t], 1, Len(held[t]) - 1)]
  BY DEF PopGuard
<1>3. /\ held'[t] = SubSeq(held[t], 1, Len(held[t]) - 1)
      /\ \A u \in Threads \ {t} : held'[u] = held[u]
  BY <1>2 DEF TypeOK
<1>4. held' \in [Threads -> Seq(Guard)]
  BY <1>1, <1>2, FrontFacts DEF TypeOK
<1>. QED  BY <1>1, <1>3, <1>4, FrontFacts

\* Guards of these threads, nested this deep, are finitely many and fit the
\* read count.
LEMMA GuardsBound ==
    ASSUME NEW G \in SUBSET (Threads \X (1..MaxDepth))
    PROVE  /\ IsFiniteSet(G)
           /\ Cardinality(G) \in Nat
           /\ Cardinality(G) <= ReadCountMask
<1>1. IsFiniteSet(Threads) /\ Cardinality(Threads) \in Nat
  <2>1. IsFiniteSet(1..ReadCountMask)
    BY BoundAssumption, FS_Interval
  <2>. QED  BY <2>1, ThreadsAssumption, FS_Subset, FS_CardinalityType
<1>2. IsFiniteSet(1..MaxDepth) /\ Cardinality(1..MaxDepth) = MaxDepth
  BY BoundAssumption, FS_Interval
<1>3. /\ IsFiniteSet(Threads \X (1..MaxDepth))
      /\ Cardinality(Threads \X (1..MaxDepth)) = Cardinality(Threads) * MaxDepth
  BY <1>1, <1>2, FS_Product
<1>4. IsFiniteSet(G) /\ Cardinality(G) <= Cardinality(Threads) * MaxDepth
  BY <1>3, FS_Subset
<1>5. Cardinality(G) \in Nat
  BY <1>4, FS_CardinalityType
<1>6. Cardinality(Threads) * MaxDepth \in Nat
  BY <1>1, BoundAssumption
<1>. QED  BY <1>4, <1>5, <1>6, BoundAssumption

\* A new read guard adds one to the count and leaves room for it.
LEMMA PushRead ==
    ASSUME TypeOK, NEW t \in Threads, PushGuard(t, "R"), Len(held[t]) < MaxDepth
    PROVE  /\ Cardinality(ReadGuards') = Cardinality(ReadGuards) + 1
           /\ Cardinality(ReadGuards) < ReadCountMask
<1>1. ReadGuards' = ReadGuards \union {<<t, Len(held[t]) + 1>>}
  <2>. DEFINE n == Len(held[t])
  <2>1. \A u \in Threads, i \in 1..MaxDepth :
            (i \in DOMAIN held'[u] /\ held'[u][i] = "R") <=>
            (i \in DOMAIN held[u] /\ held[u][i] = "R") \/ (u = t /\ i = n + 1)
    <3>1. "R" \in Guard
      BY DEF Guard
    <3>2. \A i \in 1..MaxDepth :
            (i \in DOMAIN held'[t] /\ held'[t][i] = "R") <=>
            (i \in DOMAIN held[t] /\ held[t][i] = "R") \/ i = n + 1
      <4>1. DOMAIN held'[t] = 1..(n + 1) /\ DOMAIN held[t] = 1..n
        BY <3>1, PushFacts DEF TypeOK
      <4>. QED  BY <3>1, <4>1, PushFacts
    <3>. QED  BY <3>1, <3>2, PushFacts
  <2>2. n + 1 \in 1..MaxDepth
    BY BoundAssumption DEF TypeOK
  <2>. QED  BY <2>1, <2>2 DEF ReadGuards
<1>2. <<t, Len(held[t]) + 1>> \notin ReadGuards
  BY DEF ReadGuards, TypeOK
<1>3. /\ IsFiniteSet(ReadGuards)
      /\ Cardinality(ReadGuards) \in Nat
  BY GuardsBound DEF ReadGuards
<1>4. Cardinality(ReadGuards') = Cardinality(ReadGuards) + 1
  BY <1>1, <1>2, <1>3, FS_AddElement
<1>5. Cardinality(ReadGuards') <= ReadCountMask
  <2>1. ReadGuards' \in SUBSET (Threads \X (1..MaxDepth))
    BY DEF ReadGuards
  <2>. QED  BY <2>1, GuardsBound
<1>. QED  BY <1>3, <1>4, <1>5, BoundAssumption

\* A new write guard is not counted as a read guard.
LEMMA PushWrite ==
    ASSUME TypeOK, NEW t \in Threads, PushGuard(t, "W")
    PROVE  ReadGuards' = ReadGuards
<1>1. \A u \in Threads, i \in 1..MaxDepth :
            (i \in DOMAIN held'[u] /\ held'[u][i] = "R") <=>
            (i \in DOMAIN held[u] /\ held[u][i] = "R")
  <2>1. "W" \in Guard
    BY DEF Guard
  <2>2. \A i \in 1..MaxDepth :
            (i \in DOMAIN held'[t] /\ held'[t][i] = "R") <=>
            (i \in DOMAIN held[t] /\ held[t][i] = "R")
    <3>1. /\ DOMAIN held'[t] = 1..(Len(held[t]) + 1)
          /\ DOMAIN held[t] = 1..Len(held[t])
      BY <2>1, PushFacts DEF TypeOK
    <3>. QED  BY <2>1, <3>1, PushFacts
  <2>. QED  BY <2>1, <2>2, PushFacts
<1>. QED  BY <1>1 DEF ReadGuards

\* Dropping the innermost read guard takes one from the count.
LEMMA PopRead ==
    ASSUME TypeOK, DepthInv, NEW t \in Threads, held[t] # <<>>, Top(t) = "R",
           PopGuard(t)
    PROVE  /\ Cardinality(ReadGuards') = Cardinality(ReadGuards) - 1
           /\ Cardinality(ReadGuards) > 0
<1>. DEFINE n == Len(held[t])
<1>1. \A u \in Threads, i \in 1..MaxDepth :
            (i \in DOMAIN held'[u] /\ held'[u][i] = "R") <=>
            (i \in DOMAIN held[u] /\ held[u][i] = "R") /\ <<u, i>> # <<t, n>>
  <2>1. ASSUME NEW u \in Threads \ {t}, NEW i \in 1..MaxDepth
        PROVE  held'[u] = held[u] /\ <<u, i>> # <<t, n>>
    BY <2>1, PopFacts
  <2>2. ASSUME NEW i \in 1..MaxDepth
        PROVE  (i \in DOMAIN held'[t] /\ held'[t][i] = "R") <=>
               (i \in DOMAIN held[t] /\ held[t][i] = "R") /\ i # n
    <3>1. /\ DOMAIN held'[t] = 1..Len(held'[t])
          /\ DOMAIN held[t] = 1..Len(held[t])
      <4>1. held[t] \in Seq(Guard) /\ held'[t] \in Seq(Guard)
        BY PopFacts DEF TypeOK
      <4>. QED  BY <4>1
    <3>. QED  BY <3>1, PopFacts
  <2>. QED  BY <2>1, <2>2
<1>2. ReadGuards' = ReadGuards \ {<<t, n>>}
  BY <1>1 DEF ReadGuards
<1>3. <<t, n>> \in ReadGuards
  BY PopFacts, BoundAssumption DEF ReadGuards, TypeOK, DepthInv, Top
<1>4. IsFiniteSet(ReadGuards) /\ Cardinality(ReadGuards) \in Nat
  BY GuardsBound DEF ReadGuards
<1>5. Cardinality(ReadGuards) # 0
  BY <1>3, <1>4, FS_EmptySet
<1>6. Cardinality(ReadGuards \ {<<t, n>>}) = Cardinality(ReadGuards) - 1
  BY <1>3, <1>4, FS_RemoveElement
<1>. QED  BY <1>2, <1>4, <1>5, <1>6

\* Dropping a write guard does not change the read guards.
LEMMA PopWrite ==
    ASSUME TypeOK, DepthInv, NEW t \in Threads, held[t] # <<>>, Top(t) = "W",
           PopGuard(t)
    PROVE  ReadGuards' = ReadGuards
<1>1. \A u \in Threads, i \in 1..MaxDepth :
            (i \in DOMAIN held'[u] /\ held'[u][i] = "R") <=>
            (i \in DOMAIN held[u] /\ held[u][i] = "R")
  <2>1. \A i \in 1..MaxDepth :
            (i \in DOMAIN held'[t] /\ held'[t][i] = "R") <=>
            (i \in DOMAIN held[t] /\ held[t][i] = "R")
    <3>1. /\ DOMAIN held[t] = 1..(Len(held'[t]) + 1)
          /\ DOMAIN held'[t] = 1..Len(held'[t])
      BY PopFacts DEF TypeOK
    <3>. QED  BY <3>1, PopFacts DEF Top
  <2>. QED  BY <2>1, PopFacts
<1>. QED  BY <1>1 DEF ReadGuards

-------------------------------------------------------------------------------
(* The write guards of one thread. *)

\* A thread's write guards are at most MaxDepth, which fits _writeCount.
LEMMA WriteGuardsBound ==
    ASSUME TypeOK, DepthInv, NEW t \in Threads
    PROVE  /\ IsFiniteSet(WriteGuards(t))
           /\ Cardinality(WriteGuards(t)) \in Nat
           /\ Cardinality(WriteGuards(t)) <= Len(held[t])
           /\ MaxDepth <= ReadCountMask
<1>1. Len(held[t]) \in Nat
  BY DEF TypeOK
<1>2. IsFiniteSet(1..Len(held[t])) /\ Cardinality(1..Len(held[t])) = Len(held[t])
  BY <1>1, FS_Interval
<1>3. WriteGuards(t) \in SUBSET (1..Len(held[t]))
  BY DEF WriteGuards
<1>4. /\ IsFiniteSet(WriteGuards(t))
      /\ Cardinality(WriteGuards(t)) <= Len(held[t])
  BY <1>2, <1>3, FS_Subset
<1>5. MaxDepth <= ReadCountMask
  <2>1. IsFiniteSet(1..MaxDepth) /\ Cardinality(1..MaxDepth) = MaxDepth
    BY BoundAssumption, FS_Interval
  <2>2. Cardinality({t} \X (1..MaxDepth)) = MaxDepth
    <3>1. IsFiniteSet({t}) /\ Cardinality({t}) = 1
      BY FS_Singleton
    <3>2. Cardinality({t} \X (1..MaxDepth)) = Cardinality({t}) * Cardinality(1..MaxDepth)
      BY <2>1, <3>1, FS_Product
    <3>. QED  BY <2>1, <3>1, <3>2, BoundAssumption
  <2>3. Cardinality({t} \X (1..MaxDepth)) <= ReadCountMask
    BY GuardsBound
  <2>. QED  BY <2>2, <2>3, BoundAssumption
<1>. QED  BY <1>4, <1>5, FS_CardinalityType

\* A new write guard is one more for _writeCount, which has room for it.
LEMMA PushWriteCount ==
    ASSUME TypeOK, DepthInv, NEW t \in Threads, PushGuard(t, "W"),
           Len(held[t]) < MaxDepth
    PROVE  /\ Cardinality(WriteGuards(t)') = Cardinality(WriteGuards(t)) + 1
           /\ Cardinality(WriteGuards(t)) < ReadCountMask
<1>. DEFINE n == Len(held[t])
<1>0. "W" \in Guard /\ n \in Nat
  BY DEF Guard, TypeOK
<1>1. WriteGuards(t)' = WriteGuards(t) \union {n + 1}
  BY <1>0, PushFacts DEF WriteGuards
<1>2. n + 1 \notin WriteGuards(t)
  BY <1>0 DEF WriteGuards
<1>3. Cardinality(WriteGuards(t)') = Cardinality(WriteGuards(t)) + 1
  BY <1>1, <1>2, WriteGuardsBound, FS_AddElement
<1>. QED  BY <1>0, <1>3, WriteGuardsBound, BoundAssumption

\* A read guard leaves the write guards alone, coming and going.
LEMMA ReadKeepsWriteGuards ==
    ASSUME TypeOK, NEW t \in Threads,
           \/ PushGuard(t, "R")
           \/ held[t] # <<>> /\ Top(t) = "R" /\ PopGuard(t)
    PROVE  WriteGuards(t)' = WriteGuards(t)
<1>0. "R" \in Guard /\ Len(held[t]) \in Nat
  BY DEF Guard, TypeOK
<1>1. CASE PushGuard(t, "R")
  BY <1>0, <1>1, PushFacts DEF WriteGuards
<1>2. CASE held[t] # <<>> /\ Top(t) = "R" /\ PopGuard(t)
  BY <1>0, <1>2, PopFacts DEF WriteGuards, Top
<1>. QED  BY <1>1, <1>2

\* Dropping a write guard is one less for _writeCount.
LEMMA PopWriteCount ==
    ASSUME TypeOK, DepthInv, NEW t \in Threads, held[t] # <<>>, Top(t) = "W",
           PopGuard(t)
    PROVE  /\ Cardinality(WriteGuards(t)') = Cardinality(WriteGuards(t)) - 1
           /\ Cardinality(WriteGuards(t)) > 0
<1>. DEFINE n == Len(held[t])
<1>1. n \in Nat
  BY DEF TypeOK
<1>2. WriteGuards(t)' = WriteGuards(t) \ {n}
  BY <1>1, PopFacts DEF WriteGuards
<1>3. n \in WriteGuards(t)
  BY <1>1, PopFacts DEF WriteGuards, Top
<1>4. Cardinality(WriteGuards(t)') = Cardinality(WriteGuards(t)) - 1
  BY <1>2, <1>3, WriteGuardsBound, FS_RemoveElement
<1>5. Cardinality(WriteGuards(t)) # 0
  BY <1>3, WriteGuardsBound, FS_EmptySet
<1>. QED  BY <1>4, <1>5, WriteGuardsBound

\* A thread whose first and last guards are write guards and whose
\* _writeCount is 1 holds that guard only.
LEMMA LastWriteGuard ==
    ASSUME TypeOK, DepthInv, NEW t \in Threads, held[t] # <<>>,
           held[t][1] = "W", Top(t) = "W", Cardinality(WriteGuards(t)) = 1
    PROVE  held[t] = <<"W">>
<1>1. Len(held[t]) \in Nat \ {0}
  BY DEF TypeOK
<1>2. PICK x : WriteGuards(t) = {x}
  BY WriteGuardsBound, FS_Singleton
<1>3. 1 \in WriteGuards(t) /\ Len(held[t]) \in WriteGuards(t)
  BY <1>1 DEF WriteGuards, Top
<1>4. Len(held[t]) = 1
  BY <1>2, <1>3
<1>. QED  BY <1>4 DEF TypeOK

-------------------------------------------------------------------------------
(* The inductive invariant. *)

\* The invariant holds when the lock is constructed.
LEMMA InitIInv == Init => IInv
<1>. SUFFICES ASSUME Init PROVE IInv
  OBVIOUS
<1>1. ReadGuards = {}
  BY DEF Init, ReadGuards
<1>2. ReadCountIsExact
  BY <1>1, FS_EmptySet DEF Init, ReadCountIsExact, EmptyFlag
<1>3. TypeOK /\ DepthInv /\ OwnerInv /\ PcInv /\ WriteCountInv /\ CrashInv
  BY ThreadsAssumption, BoundAssumption
     DEF Init, TypeOK, DepthInv, OwnerInv, PcInv, WriteCountInv, CrashInv,
         EmptyFlag, PC, Causes
<1>. QED  BY <1>2, <1>3 DEF IInv

\* Steps that leave _lockFlag, _writeCount and the guards alone.
LEMMA QuietStep ==
    ASSUME IInv, NEW t \in Threads,
           \/ CallWriteLock(t) \/ WriteLockLoad(t) \/ CallWriteUnlock(t)
           \/ CallReadLock(t) \/ ReadLockLoad(t) \/ ReadLockExpect(t)
           \/ WriteUnlockCheck(t) \/ SpinTimeout(t)
           \/ ReadLockCas(t) /\ flag # [owner |-> 0, readers |-> expected[t]]
    PROVE  IInv'
<1>. USE DEF IInv, Running, Goto
<1>0. /\ flag' = flag /\ writeCount' = writeCount /\ held' = held
      /\ pc' \in [Threads -> PC] /\ pc[t] \notin {"w_count", "w_empty"}
      /\ \A u \in Threads \ {t} : pc'[u] = pc[u]
  <2>1. pc \in [Threads -> PC]
    BY DEF TypeOK
  <2>2. /\ flag' = flag /\ writeCount' = writeCount /\ held' = held
        /\ pc[t] \notin {"w_count", "w_empty"}
    BY DEF CallWriteLock, WriteLockLoad, CallWriteUnlock, CallReadLock,
           ReadLockLoad, ReadLockExpect, WriteUnlockCheck, SpinTimeout, ReadLockCas
  <2>3. pc' = pc \/ \E at \in PC : pc' = [pc EXCEPT ![t] = at]
    <3>. USE DEF PC
    <3>1. CASE CallWriteLock(t) \/ WriteLockLoad(t) \/ CallWriteUnlock(t)
      BY <3>1 DEF CallWriteLock, WriteLockLoad, CallWriteUnlock
    <3>2. CASE CallReadLock(t) \/ ReadLockLoad(t) \/ ReadLockExpect(t)
      BY <3>2 DEF CallReadLock, ReadLockLoad, ReadLockExpect
    <3>3. CASE WriteUnlockCheck(t) \/ SpinTimeout(t) \/ ReadLockCas(t)
      BY <3>3 DEF WriteUnlockCheck, SpinTimeout, ReadLockCas
    <3>. QED  BY <3>1, <3>2, <3>3
  <2>. QED  BY <2>1, <2>2, <2>3
<1>1. TypeOK'
  <2>1. crashed' \in Causes
    BY DEF CallWriteLock, WriteLockLoad, CallWriteUnlock, CallReadLock, ReadLockLoad,
           ReadLockExpect, WriteUnlockCheck, SpinTimeout, ReadLockCas, TypeOK, Causes
  <2>2. expected' \in [Threads -> 0..ReadCountMask]
    <3>1. 0 \in 0..ReadCountMask /\ flag.readers \in 0..ReadCountMask
      BY BoundAssumption DEF TypeOK
    <3>2. CASE ReadLockExpect(t)
      BY <3>1, <3>2 DEF ReadLockExpect, TypeOK
    <3>3. CASE ReadLockCas(t)
      BY <3>1, <3>3 DEF ReadLockCas, TypeOK
    <3>4. CASE ~ReadLockExpect(t) /\ ~ReadLockCas(t)
      BY <3>4 DEF CallWriteLock, WriteLockLoad, CallWriteUnlock, CallReadLock,
                  ReadLockLoad, WriteUnlockCheck, SpinTimeout, TypeOK
    <3>. QED  BY <3>2, <3>3, <3>4
  <2>. QED  BY <1>0, <2>1, <2>2 DEF TypeOK
<1>2. DepthInv'
  BY <1>0 DEF CallWriteLock, WriteLockLoad, CallWriteUnlock, CallReadLock,
         ReadLockLoad, ReadLockExpect, WriteUnlockCheck, SpinTimeout,
         ReadLockCas, TypeOK, DepthInv
<1>3. OwnerInv'
  BY <1>0 DEF OwnerInv
<1>4. PcInv'
  <2>1. CASE CallWriteUnlock(t)
    <3>1. /\ Len(held[t]) \in 1..Len(held[t])
          /\ held[t][Len(held[t])] = "W"
      BY <2>1 DEF CallWriteUnlock, TypeOK, Top
    <3>2. flag.owner = t
      BY <3>1 DEF OwnerInv
    <3>. QED  BY <1>0, <2>1, <3>1, <3>2 DEF CallWriteUnlock, PcInv, TypeOK
  <2>2. CASE WriteUnlockCheck(t)
    BY <1>0, <2>2 DEF WriteUnlockCheck, PcInv, TypeOK
  <2>3. CASE \/ CallWriteLock(t) \/ WriteLockLoad(t) \/ CallReadLock(t)
             \/ ReadLockLoad(t) \/ ReadLockExpect(t) \/ SpinTimeout(t)
             \/ ReadLockCas(t) /\ flag # [owner |-> 0, readers |-> expected[t]]
    BY <1>0, <2>3 DEF CallWriteLock, WriteLockLoad, CallReadLock, ReadLockLoad,
                      ReadLockExpect, ReadLockCas, SpinTimeout, PcInv, TypeOK
  <2>. QED  BY <2>1, <2>2, <2>3
<1>5. WriteCountInv'
  BY <1>0 DEF CallWriteLock, WriteLockLoad, CallWriteUnlock, CallReadLock,
         ReadLockLoad, ReadLockExpect, WriteUnlockCheck, SpinTimeout,
         ReadLockCas, TypeOK,
         WriteCountInv, WriteGuards
<1>6. ReadCountIsExact'
  BY <1>0 DEF ReadCountIsExact, ReadGuards
<1>7. CrashInv'
  <2>1. CASE WriteUnlockCheck(t) /\ flag.readers # 0
    <3>1. PICK g \in Threads \X (1..MaxDepth) :
             g[2] \in DOMAIN held[g[1]] /\ held[g[1]][g[2]] = "R"
      <4>1. ReadGuards # {}
        BY <2>1, FS_EmptySet DEF ReadCountIsExact
      <4>. QED  BY <4>1 DEF ReadGuards
    <3>2. pc[t] = "w_unlock" /\ flag.owner = t /\ held[t][Len(held[t])] = "W"
      BY <2>1 DEF WriteUnlockCheck, PcInv
    <3>3. g[1] = t
      BY <3>1, <3>2 DEF OwnerInv
    <3>4. /\ g[2] \in 1..Len(held[t]) /\ held[t][g[2]] = "R"
          /\ Len(held[t]) \in 1..Len(held[t])
      BY <3>1, <3>3 DEF TypeOK
    <3>5. g[2] < Len(held[t])
      BY <3>2, <3>4
    <3>. QED  BY <1>0, <2>1, <3>2, <3>4, <3>5 DEF CrashInv, WriteUnlockCheck
  <2>2. CASE CallWriteLock(t)
    <3>1. ~AllowUpgrade => \A i \in 1..Len(held[t]) : held[t][i] = "W"
      BY <2>2 DEF CallWriteLock, Holds, TypeOK, Guard
    <3>. QED  BY <1>0, <2>2, <3>1 DEF CallWriteLock, CrashInv
  <2>3. CASE \/ WriteLockLoad(t) \/ CallReadLock(t) \/ CallWriteUnlock(t)
             \/ ReadLockLoad(t) \/ ReadLockExpect(t) \/ SpinTimeout(t)
             \/ WriteUnlockCheck(t) /\ flag.readers = 0
             \/ ReadLockCas(t) /\ flag # [owner |-> 0, readers |-> expected[t]]
    <3>1. /\ crashed' = crashed \/ crashed' = "LOCK_TIMEOUT"
          /\ pc'[t] \in {"w_load", "w_own", "w_spin"} =>
                pc[t] \in {"w_load", "w_own", "w_spin"}
      BY <2>3 DEF WriteLockLoad, CallReadLock, CallWriteUnlock, ReadLockLoad,
                  ReadLockExpect, ReadLockCas, SpinTimeout, WriteUnlockCheck,
                  TypeOK
    <3>. QED  BY <1>0, <3>1 DEF CrashInv
  <2>. QED  BY <2>1, <2>2, <2>3
<1>. QED  BY <1>1, <1>2, <1>3, <1>4, <1>5, <1>6, <1>7

\* An empty _lockFlag means that nobody holds a guard.
LEMMA EmptyFlagMeansFree ==
    ASSUME IInv, flag = EmptyFlag
    PROVE  \A u \in Threads : held[u] = <<>>
<1>1. Cardinality(ReadGuards) = 0 /\ flag.owner = 0
  BY DEF ReadCountIsExact, EmptyFlag, IInv
<1>2. ReadGuards = {}
  BY <1>1, GuardsBound, FS_EmptySet DEF ReadGuards
<1>3. ASSUME NEW u \in Threads, held[u] # <<>> PROVE FALSE
  <2>1. 1 \in DOMAIN held[u] /\ 1 \in 1..Len(held[u]) /\ 1 \in 1..MaxDepth
    BY <1>3, BoundAssumption DEF TypeOK, IInv
  <2>2. held[u][1] = "R"
    <3>1. flag.owner # u
      BY <1>1, ThreadsAssumption
    <3>. QED  BY <2>1, <3>1 DEF OwnerInv, IInv
  <2>3. <<u, 1>> \in ReadGuards
    BY <2>1, <2>2 DEF ReadGuards
  <2>. QED  BY <1>2, <2>3
<1>. QED  BY <1>3

\* Steps that add a guard.
LEMMA AcquireStep ==
    ASSUME IInv, NEW t \in Threads,
           \/ WriteLockReenter(t) \/ WriteLockCas(t) \/ ReadLockReenter(t)
           \/ ReadLockCas(t) /\ flag = [owner |-> 0, readers |-> expected[t]]
    PROVE  IInv'
<1>. USE DEF IInv, Running, Goto
<1>0. t # 0 /\ t \in 0..ReadCountMask /\ ReadCountMask \in Nat /\ MaxDepth \in Nat
  BY ThreadsAssumption, BoundAssumption
<1>1. CASE WriteLockReenter(t)
  <2>1. /\ PushGuard(t, "W") /\ flag' = flag /\ crashed' = crashed
        /\ flag.owner = t /\ Len(held[t]) < MaxDepth
        /\ pc[t] = "w_own" /\ pc' = [pc EXCEPT ![t] = "out"]
        /\ expected' = expected /\ crashed = "no"
    BY <1>1 DEF WriteLockReenter, PcInv, DepthInv
  <2>2. /\ held' \in [Threads -> Seq(Guard)]
        /\ \A u \in Threads \ {t} : held'[u] = held[u]
        /\ held'[t] # <<>>
        /\ Len(held[t]) \in Nat
        /\ Len(held'[t]) = Len(held[t]) + 1
        /\ held'[t][Len(held[t]) + 1] = "W"
        /\ \A i \in 1..Len(held[t]) : held'[t][i] = held[t][i]
    <3>1. "W" \in Guard
      BY DEF Guard
    <3>. QED  BY <2>1, <3>1, PushFacts
  <2>3. /\ writeCount' = writeCount + 1 /\ writeCount' \in 0..ReadCountMask
        /\ writeCount' = Cardinality(WriteGuards(t)')
    BY <1>1, <2>1, PushWriteCount, BoundAssumption
       DEF WriteLockReenter, WriteCountInv, Inc16, TypeOK
  <2>4. TypeOK'
    BY <2>1, <2>2, <2>3 DEF TypeOK, PC
  <2>5. DepthInv'
    BY <1>0, <2>1, <2>2 DEF TypeOK, DepthInv
  <2>6. OwnerInv'
    <3>1. held[t] # <<>> /\ held[t][1] = "W"
      BY <2>1 DEF OwnerInv
    <3>2. 1 \in 1..Len(held[t])
      BY <3>1 DEF TypeOK
    <3>3. held'[t][1] = "W"
      BY <2>2, <3>1, <3>2
    <3>. QED  BY <2>1, <2>2, <3>3 DEF OwnerInv
  <2>7. PcInv'
    BY <2>1, <2>2 DEF PcInv, TypeOK
  <2>8. WriteCountInv'
    BY <1>0, <2>1, <2>3 DEF WriteCountInv, TypeOK
  <2>9. ReadCountIsExact'
    BY <2>1, PushWrite DEF ReadCountIsExact
  <2>10. CrashInv'
    <3>1. ASSUME ~AllowUpgrade
          PROVE  \A i, j \in 1..Len(held'[t]) : i < j => held'[t][i] = "W"
      <4>1. \A i \in 1..Len(held[t]) : held[t][i] = "W"
        BY <2>1, <3>1 DEF CrashInv
      <4>. QED  BY <2>2, <4>1
    <3>2. \A u \in Threads : pc'[u] \in {"w_load", "w_own", "w_spin"} =>
              u # t /\ pc'[u] = pc[u]
      BY <2>1 DEF TypeOK
    <3>3. ASSUME ~AllowUpgrade, NEW u \in Threads
          PROVE  \A i, j \in 1..Len(held'[u]) :
                    i < j /\ held'[u][i] = "R" => held'[u][j] = "R"
      <4>1. CASE u = t
        BY <3>1, <3>3, <4>1
      <4>2. CASE u # t
        BY <2>2, <3>3, <4>2 DEF CrashInv
      <4>. QED  BY <4>1, <4>2
    <3>4. ASSUME ~AllowUpgrade, NEW u \in Threads,
                 pc'[u] \in {"w_load", "w_own", "w_spin"}
          PROVE  \A i \in 1..Len(held'[u]) : held'[u][i] = "W"
      BY <2>2, <3>2, <3>4 DEF CrashInv
    <3>. QED  BY <2>1, <3>3, <3>4 DEF CrashInv
  <2>. QED  BY <2>4, <2>5, <2>6, <2>7, <2>8, <2>9, <2>10
<1>2. CASE WriteLockCas(t)
  <2>1. /\ PushGuard(t, "W") /\ flag = EmptyFlag /\ crashed' = crashed
        /\ flag' = [owner |-> t, readers |-> 0] /\ Len(held[t]) < MaxDepth
        /\ pc[t] = "w_spin" /\ pc' = [pc EXCEPT ![t] = "w_count"]
        /\ expected' = expected /\ writeCount' = writeCount /\ crashed = "no"
    BY <1>2 DEF WriteLockCas, DepthInv
  <2>2. /\ held' \in [Threads -> Seq(Guard)]
        /\ \A u \in Threads \ {t} : held'[u] = held[u]
        /\ held'[t] # <<>>
        /\ Len(held[t]) \in Nat
        /\ Len(held'[t]) = Len(held[t]) + 1
        /\ held'[t][Len(held[t]) + 1] = "W"
        /\ \A i \in 1..Len(held[t]) : held'[t][i] = held[t][i]
    <3>1. "W" \in Guard
      BY DEF Guard
    <3>. QED  BY <2>1, <3>1, PushFacts
  <2>3. \A u \in Threads : held[u] = <<>>
    BY <2>1, EmptyFlagMeansFree
  <2>4. held'[t] = <<"W">> /\ \A u \in Threads \ {t} : held'[u] = <<>>
    <3>1. held'[t] = Append(<<>>, "W")
      BY <2>1, <2>3 DEF PushGuard, TypeOK
    <3>. QED  BY <2>2, <2>3, <3>1
  <2>5. TypeOK'
    <3>1. flag' \in [owner : 0..ReadCountMask, readers : 0..ReadCountMask]
      BY <1>0, <2>1
    <3>. QED  BY <2>1, <2>2, <3>1 DEF TypeOK, PC
  <2>6. DepthInv'
    BY <1>0, <2>1, <2>2 DEF TypeOK, DepthInv
  <2>7. OwnerInv'
    BY <2>1, <2>4 DEF OwnerInv, TypeOK
  <2>8. PcInv'
    BY <1>0, <2>1, <2>4, ThreadsAssumption DEF PcInv, TypeOK, EmptyFlag
  <2>9. WriteCountInv'
    BY <1>0, <2>1 DEF WriteCountInv, TypeOK, EmptyFlag
  <2>10. ReadCountIsExact'
    BY <2>1, PushWrite DEF ReadCountIsExact, EmptyFlag
  <2>11. CrashInv'
    BY <2>1, <2>4 DEF CrashInv, TypeOK
  <2>. QED  BY <2>5, <2>6, <2>7, <2>8, <2>9, <2>10, <2>11
<1>3. CASE \/ ReadLockReenter(t)
           \/ ReadLockCas(t) /\ flag = [owner |-> 0, readers |-> expected[t]]
  <2>1. /\ PushGuard(t, "R") /\ Len(held[t]) < MaxDepth
        /\ flag' = FlagPlusOne(flag) /\ flag.owner \in {0, t}
        /\ pc[t] \in {"r_own", "r_cas"} /\ pc' = [pc EXCEPT ![t] = "out"]
        /\ expected' \in [Threads -> 0..ReadCountMask]
        /\ writeCount' = writeCount /\ crashed' = crashed /\ crashed = "no"
    BY <1>0, <1>3 DEF ReadLockReenter, ReadLockCas, DepthInv, PcInv, TypeOK
  <2>2. /\ held' \in [Threads -> Seq(Guard)]
        /\ \A u \in Threads \ {t} : held'[u] = held[u]
        /\ held'[t] # <<>>
        /\ Len(held[t]) \in Nat
        /\ Len(held'[t]) = Len(held[t]) + 1
        /\ held'[t][Len(held[t]) + 1] = "R"
        /\ \A i \in 1..Len(held[t]) : held'[t][i] = held[t][i]
    <3>1. "R" \in Guard
      BY DEF Guard
    <3>. QED  BY <2>1, <3>1, PushFacts
  <2>3. /\ flag'.owner = flag.owner /\ flag'.readers = flag.readers + 1
        /\ flag'.readers = Cardinality(ReadGuards')
        /\ flag' \in [owner : 0..ReadCountMask, readers : 0..ReadCountMask]
    BY <1>0, <2>1, PushRead DEF ReadCountIsExact, FlagPlusOne, Inc16, TypeOK
  <2>4. TypeOK'
    BY <2>1, <2>2, <2>3 DEF TypeOK, PC
  <2>5. DepthInv'
    BY <1>0, <2>1, <2>2 DEF TypeOK, DepthInv
  <2>6. OwnerInv'
    <3>1. CASE flag.owner = 0
      <4>1. \A u \in Threads : flag.owner # u
        BY <3>1, ThreadsAssumption
      <4>2. \A i \in 1..Len(held'[t]) : held'[t][i] = "R"
        <5>1. \A i \in 1..Len(held[t]) : held[t][i] = "R"
          BY <4>1 DEF OwnerInv
        <5>. QED  BY <2>2, <5>1
      <4>3. \A u \in Threads \ {t} : \A i \in 1..Len(held'[u]) : held'[u][i] = "R"
        BY <2>2, <4>1 DEF OwnerInv
      <4>4. \A u \in Threads : flag'.owner # u /\ \A i \in 1..Len(held'[u]) : held'[u][i] = "R"
        BY <2>3, <4>1, <4>2, <4>3
      <4>5. flag'.owner \in Threads \union {0}
        BY <2>3, <3>1
      <4>. QED  BY <4>4, <4>5 DEF OwnerInv
    <3>2. CASE flag.owner = t
      <4>1. held[t] # <<>> /\ held[t][1] = "W"
        BY <3>2 DEF OwnerInv
      <4>2. 1 \in 1..Len(held[t])
        BY <4>1 DEF TypeOK
      <4>3. held'[t][1] = "W"
        BY <2>2, <4>1, <4>2
      <4>4. held'[t] # <<>>
        BY <2>2, <4>1 DEF TypeOK
      <4>5. \A u \in Threads \ {t} : held'[u] = <<>> /\ flag'.owner # u
        BY <2>2, <2>3, <3>2 DEF OwnerInv
      <4>6. flag'.owner = t
        BY <2>3, <3>2
      <4>. QED  BY <4>3, <4>4, <4>5, <4>6 DEF OwnerInv
    <3>. QED  BY <2>1, <3>1, <3>2
  <2>7. PcInv'
    <3>1. \A u \in Threads : pc'[u] # "out" => u # t /\ pc'[u] = pc[u] /\ held'[u] = held[u]
      BY <2>1, <2>2 DEF TypeOK
    <3>2. \A u \in Threads : u # t => flag.owner # u
      BY <1>0, <2>1, ThreadsAssumption
    <3>. QED  BY <2>3, <3>1, <3>2 DEF PcInv
  <2>8. WriteCountInv'
    <3>1. \A u \in Threads : flag.owner = u => u = t
      BY <2>1, ThreadsAssumption
    <3>2. WriteGuards(t)' = WriteGuards(t)
      BY <2>1, ReadKeepsWriteGuards
    <3>. QED  BY <2>1, <2>3, <3>1, <3>2 DEF WriteCountInv, TypeOK
  <2>9. ReadCountIsExact'
    BY <2>3 DEF ReadCountIsExact
  <2>10. CrashInv'
    <3>1. ASSUME ~AllowUpgrade
          PROVE  \A i, j \in 1..Len(held'[t]) :
                    i < j /\ held'[t][i] = "R" => held'[t][j] = "R"
      <4>1. \A i, j \in 1..Len(held[t]) :
                    i < j /\ held[t][i] = "R" => held[t][j] = "R"
        BY <3>1 DEF CrashInv
      <4>. SUFFICES ASSUME NEW i \in 1..Len(held'[t]), NEW j \in 1..Len(held'[t]),
                           i < j, held'[t][i] = "R"
                    PROVE  held'[t][j] = "R"
        OBVIOUS
      <4>2. i \in 1..Len(held[t]) /\ (j \in 1..Len(held[t]) \/ j = Len(held[t]) + 1)
        BY <2>2
      <4>. QED  BY <2>2, <4>1, <4>2
    <3>2. \A u \in Threads : pc'[u] \in {"w_load", "w_own", "w_spin"} =>
              u # t /\ pc'[u] = pc[u]
      BY <2>1 DEF TypeOK
    <3>3. ASSUME ~AllowUpgrade, NEW u \in Threads
          PROVE  \A i, j \in 1..Len(held'[u]) :
                    i < j /\ held'[u][i] = "R" => held'[u][j] = "R"
      <4>1. CASE u = t
        BY <3>1, <3>3, <4>1
      <4>2. CASE u # t
        BY <2>2, <3>3, <4>2 DEF CrashInv
      <4>. QED  BY <4>1, <4>2
    <3>4. ASSUME ~AllowUpgrade, NEW u \in Threads,
                 pc'[u] \in {"w_load", "w_own", "w_spin"}
          PROVE  \A i \in 1..Len(held'[u]) : held'[u][i] = "W"
      BY <2>2, <3>2, <3>4 DEF CrashInv
    <3>. QED  BY <2>1, <3>3, <3>4 DEF CrashInv
  <2>. QED  BY <2>4, <2>5, <2>6, <2>7, <2>8, <2>9, <2>10
<1>. QED  BY <1>1, <1>2, <1>3

\* The owner's _writeCount++ after its compare_exchange.
LEMMA CountStep ==
    ASSUME IInv, NEW t \in Threads, WriteLockCount(t)
    PROVE  IInv'
<1>. USE DEF IInv
<1>1. /\ flag' = flag /\ held' = held /\ expected' = expected /\ crashed' = crashed
      /\ pc[t] = "w_count" /\ pc' = [pc EXCEPT ![t] = "out"]
      /\ flag.owner = t /\ held[t] = <<"W">> /\ writeCount = 0
  BY DEF WriteLockCount, Running, Goto, PcInv, WriteCountInv
<1>2. t # 0 /\ ReadCountMask \in Nat /\ ReadCountMask # 0
  BY ThreadsAssumption, BoundAssumption
<1>3. writeCount' = 1
  BY <1>1, <1>2 DEF WriteLockCount, Inc16
<1>4. Cardinality(WriteGuards(t)) = 1
  <2>1. WriteGuards(t) = {1}
    BY <1>1 DEF WriteGuards
  <2>. QED  BY <2>1, FS_Singleton
<1>5. TypeOK'
  BY <1>1, <1>2, <1>3 DEF TypeOK, PC
<1>6. DepthInv'
  BY <1>1 DEF TypeOK, DepthInv
<1>7. OwnerInv'
  BY <1>1 DEF OwnerInv
<1>8. PcInv'
  BY <1>1 DEF TypeOK, PcInv
<1>9. WriteCountInv'
  <2>1. \A u \in Threads : u = t <=> flag.owner = u
    BY <1>1
  <2>2. pc'[t] = "out"
    BY <1>1 DEF TypeOK
  <2>3. WriteGuards(t)' = WriteGuards(t)
    BY <1>1 DEF WriteGuards
  <2>4. writeCount' = Cardinality(WriteGuards(t)')
    BY <1>3, <1>4, <2>3
  <2>. QED  BY <1>1, <1>2, <2>1, <2>2, <2>4 DEF WriteCountInv
<1>10. ReadCountIsExact'
  BY <1>1 DEF ReadCountIsExact, ReadGuards
<1>11. CrashInv'
  BY <1>1 DEF TypeOK, CrashInv
<1>. QED  BY <1>5, <1>6, <1>7, <1>8, <1>9, <1>10, <1>11

\* Dropping the innermost guard keeps the order of the others.
LEMMA PopKeepsCrashInv ==
    ASSUME TypeOK, CrashInv, NEW t \in Threads, crashed = "no", crashed' = crashed,
           pc' = pc \/ pc' = [pc EXCEPT ![t] = "out"],
           Len(held'[t]) \in Nat,
           Len(held[t]) = Len(held'[t]) + 1,
           \A i \in 1..Len(held'[t]) : held'[t][i] = held[t][i],
           \A u \in Threads \ {t} : held'[u] = held[u]
    PROVE  CrashInv'
<1>1. \A u \in Threads : \A i \in 1..Len(held'[u]) :
          i \in 1..Len(held[u]) /\ held'[u][i] = held[u][i]
  <2>1. \A i \in 1..Len(held'[t]) : i \in 1..Len(held[t]) /\ held'[t][i] = held[t][i]
    OBVIOUS
  <2>. QED  BY <2>1
<1>2. \A u \in Threads : pc'[u] \in {"w_load", "w_own", "w_spin"} => pc'[u] = pc[u]
  BY DEF TypeOK
<1>3. ASSUME ~AllowUpgrade, NEW u \in Threads
      PROVE  \A i, j \in 1..Len(held'[u]) :
                i < j /\ held'[u][i] = "R" => held'[u][j] = "R"
  BY <1>1, <1>3 DEF CrashInv
<1>4. ASSUME ~AllowUpgrade, NEW u \in Threads,
             pc'[u] \in {"w_load", "w_own", "w_spin"}
      PROVE  \A i \in 1..Len(held'[u]) : held'[u][i] = "W"
  BY <1>1, <1>2, <1>4 DEF CrashInv
<1>. QED  BY <1>3, <1>4 DEF CrashInv

\* Steps that release a guard.
LEMMA ReleaseStep ==
    ASSUME IInv, NEW t \in Threads,
           WriteUnlockDec(t) \/ WriteUnlockStore(t) \/ ReadUnlock(t)
    PROVE  IInv'
<1>. USE DEF IInv, Running, Goto
<1>0. t # 0 /\ t \in 0..ReadCountMask /\ ReadCountMask \in Nat /\ MaxDepth \in Nat
  BY ThreadsAssumption, BoundAssumption
<1>1. CASE WriteUnlockDec(t)
  <2>1. /\ pc[t] = "w_dec" /\ flag.owner = t /\ flag.readers = 0 /\ Top(t) = "W"
        /\ held[t] # <<>> /\ held[t][1] = "W"
        /\ writeCount = Cardinality(WriteGuards(t))
        /\ flag' = flag /\ expected' = expected /\ crashed' = crashed /\ crashed = "no"
    BY <1>1 DEF WriteUnlockDec, PcInv, OwnerInv, WriteCountInv, Top
  <2>2. CASE writeCount = 1
    <3>1. held' = held /\ pc' = [pc EXCEPT ![t] = "w_empty"] /\ writeCount' = 0
      BY <1>1, <2>2 DEF WriteUnlockDec, Dec16
    <3>2. held[t] = <<"W">>
      BY <2>1, <2>2, LastWriteGuard
    <3>3. TypeOK'
      BY <1>0, <2>1, <3>1 DEF TypeOK, PC
    <3>4. DepthInv'
      BY <2>1, <3>1 DEF TypeOK, DepthInv
    <3>5. OwnerInv'
      BY <2>1, <3>1 DEF OwnerInv
    <3>6. PcInv'
      BY <2>1, <3>1, <3>2 DEF TypeOK, PcInv
    <3>7. WriteCountInv'
      BY <1>0, <2>1, <3>1 DEF TypeOK, WriteCountInv
    <3>8. ReadCountIsExact'
      BY <2>1, <3>1 DEF ReadCountIsExact, ReadGuards
    <3>9. CrashInv'
      BY <2>1, <3>1 DEF TypeOK, CrashInv
    <3>. QED  BY <3>3, <3>4, <3>5, <3>6, <3>7, <3>8, <3>9
  <2>3. CASE writeCount # 1
    <3>1. PopGuard(t) /\ pc' = [pc EXCEPT ![t] = "out"] /\ writeCount' = Dec16(writeCount)
      BY <1>1, <2>3 DEF WriteUnlockDec
    <3>2. /\ held' \in [Threads -> Seq(Guard)]
          /\ \A u \in Threads \ {t} : held'[u] = held[u]
          /\ Len(held'[t]) \in Nat
          /\ Len(held[t]) = Len(held'[t]) + 1
          /\ \A i \in 1..Len(held'[t]) : held'[t][i] = held[t][i]
      BY <2>1, <3>1, PopFacts
    <3>3. /\ writeCount' = writeCount - 1 /\ writeCount' \in 0..ReadCountMask
          /\ writeCount' = Cardinality(WriteGuards(t)')
          /\ Cardinality(WriteGuards(t)) > 1
      BY <1>0, <2>1, <2>3, <3>1, PopWriteCount DEF Dec16, TypeOK
    <3>4. Len(held'[t]) >= 1
      BY <3>2, <3>3, WriteGuardsBound
    <3>5. TypeOK'
      BY <2>1, <3>1, <3>2, <3>3 DEF TypeOK, PC
    <3>6. DepthInv'
      BY <1>0, <2>1, <3>1, <3>2 DEF TypeOK, DepthInv
    <3>7. OwnerInv'
      <4>1. held'[t] # <<>> /\ held'[t][1] = "W"
        BY <2>1, <3>2, <3>4
      <4>. QED  BY <2>1, <3>2, <4>1 DEF OwnerInv
    <3>8. PcInv'
      BY <2>1, <3>1, <3>2 DEF TypeOK, PcInv
    <3>9. WriteCountInv'
      BY <1>0, <2>1, <3>1, <3>3 DEF TypeOK, WriteCountInv
    <3>10. ReadCountIsExact'
      BY <2>1, <3>1, PopWrite DEF ReadCountIsExact
    <3>11. CrashInv'
      BY <2>1, <3>1, <3>2, PopKeepsCrashInv
    <3>. QED  BY <3>5, <3>6, <3>7, <3>8, <3>9, <3>10, <3>11
  <2>. QED  BY <2>2, <2>3
<1>2. CASE WriteUnlockStore(t)
  <2>1. /\ pc[t] = "w_empty" /\ flag.owner = t /\ held[t] = <<"W">>
        /\ writeCount = 0 /\ writeCount' = 0 /\ PopGuard(t)
        /\ pc' = [pc EXCEPT ![t] = "out"] /\ flag' = EmptyFlag
        /\ expected' = expected /\ crashed' = crashed /\ crashed = "no"
    BY <1>2 DEF WriteUnlockStore, PcInv, WriteCountInv
  <2>2. held[t] # <<>> /\ Top(t) = "W" /\ Len(held[t]) = 1
    BY <2>1 DEF Top
  <2>3. /\ held' \in [Threads -> Seq(Guard)]
        /\ Len(held'[t]) \in Nat
        /\ Len(held[t]) = Len(held'[t]) + 1
        /\ \A u \in Threads \ {t} : held'[u] = held[u]
    BY <2>1, <2>2, PopFacts
  <2>4. \A u \in Threads : held'[u] = <<>>
    <3>1. Len(held'[t]) = 0
      <4>1. Len(held'[t]) \in Nat /\ 1 = Len(held'[t]) + 1
        BY <2>2, <2>3
      <4>. QED  BY <4>1
    <3>2. held'[t] = <<>>
      BY <2>3, <3>1
    <3>. QED  BY <2>1, <2>3, <3>2 DEF OwnerInv
  <2>5. TypeOK'
    BY <1>0, <2>1, <2>3 DEF TypeOK, PC, EmptyFlag
  <2>6. DepthInv'
    BY <1>0, <2>1, <2>2, <2>3 DEF TypeOK, DepthInv
  <2>7. OwnerInv'
    BY <2>1, <2>4, ThreadsAssumption DEF OwnerInv, EmptyFlag
  <2>8. PcInv'
    BY <2>1, <2>3, ThreadsAssumption DEF TypeOK, PcInv, EmptyFlag
  <2>9. WriteCountInv'
    BY <2>1, ThreadsAssumption DEF WriteCountInv, EmptyFlag
  <2>10. ReadCountIsExact'
    <3>1. ReadGuards' = {}
      BY <2>4 DEF ReadGuards
    <3>. QED  BY <2>1, <3>1, FS_EmptySet DEF ReadCountIsExact, EmptyFlag
  <2>11. CrashInv'
    BY <2>1, <2>4 DEF CrashInv
  <2>. QED  BY <2>5, <2>6, <2>7, <2>8, <2>9, <2>10, <2>11
<1>3. CASE ReadUnlock(t)
  <2>1. /\ held[t] # <<>> /\ Top(t) = "R" /\ pc[t] = "out" /\ crashed = "no"
        /\ pc' = pc /\ writeCount' = writeCount /\ expected' = expected
        /\ flag' = FlagMinusOne(flag)
    BY <1>3 DEF ReadUnlock
  <2>2. flag.readers # 0
    <3>1. Len(held[t]) \in 1..Len(held[t]) /\ Len(held[t]) \in 1..MaxDepth
      BY <1>0, <2>1 DEF TypeOK, DepthInv
    <3>2. <<t, Len(held[t])>> \in ReadGuards
      BY <2>1, <3>1 DEF ReadGuards, Top, TypeOK
    <3>. QED  BY <3>2, GuardsBound, FS_EmptySet DEF ReadCountIsExact, ReadGuards
  <2>3. PopGuard(t) /\ crashed' = crashed
    BY <1>3, <2>2 DEF ReadUnlock
  <2>4. /\ held' \in [Threads -> Seq(Guard)]
        /\ \A u \in Threads \ {t} : held'[u] = held[u]
        /\ Len(held'[t]) \in Nat
        /\ Len(held[t]) = Len(held'[t]) + 1
        /\ \A i \in 1..Len(held'[t]) : held'[t][i] = held[t][i]
    BY <2>1, <2>3, PopFacts
  <2>5. /\ flag'.owner = flag.owner /\ flag'.readers = flag.readers - 1
        /\ flag' \in [owner : 0..ReadCountMask, readers : 0..ReadCountMask]
        /\ flag'.readers = Cardinality(ReadGuards')
    BY <1>0, <2>1, <2>2, <2>3, PopRead
       DEF FlagMinusOne, Dec16, TypeOK, ReadCountIsExact
  <2>6. TypeOK'
    BY <2>1, <2>3, <2>4, <2>5 DEF TypeOK
  <2>7. DepthInv'
    BY <1>0, <2>1, <2>4 DEF TypeOK, DepthInv
  <2>8. OwnerInv'
    <3>1. CASE flag.owner = t
      <4>1. held[t][1] = "W" /\ Len(held[t]) # 1
        BY <2>1, <3>1 DEF OwnerInv, Top
      <4>2. held'[t] # <<>> /\ held'[t][1] = "W"
        BY <2>4, <4>1
      <4>3. \A u \in Threads \ {t} : held'[u] = <<>>
        BY <2>4, <3>1 DEF OwnerInv
      <4>4. flag'.owner = t
        BY <2>5, <3>1
      <4>. QED  BY <4>2, <4>3, <4>4 DEF OwnerInv
    <3>2. CASE flag.owner # t
      <4>1. \A i \in 1..Len(held'[t]) : held'[t][i] = "R"
        <5>1. \A i \in 1..Len(held[t]) : held[t][i] = "R"
          BY <3>2 DEF OwnerInv
        <5>. QED  BY <2>4, <5>1
      <4>2. \A u \in Threads : flag.owner # u
        <5>1. ASSUME NEW u \in Threads, flag.owner = u PROVE FALSE
          BY <2>1, <3>2, <5>1 DEF OwnerInv
        <5>. QED  BY <5>1
      <4>3. \A u \in Threads : \A i \in 1..Len(held'[u]) : held'[u][i] = "R"
        BY <2>4, <4>1, <4>2 DEF OwnerInv
      <4>. QED  BY <2>5, <4>2, <4>3 DEF OwnerInv
    <3>. QED  BY <3>1, <3>2
  <2>9. PcInv'
    <3>1. \A u \in Threads : pc[u] = "w_dec" => flag.owner = u
      BY DEF PcInv
    <3>2. \A u \in Threads : flag.owner = u => u = t
      BY <2>1 DEF OwnerInv
    <3>. QED  BY <2>1, <2>4, <2>5, <3>1, <3>2 DEF PcInv
  <2>10. WriteCountInv'
    <3>1. WriteGuards(t)' = WriteGuards(t)
      BY <2>1, <2>3, ReadKeepsWriteGuards
    <3>2. \A u \in Threads : flag.owner = u => u = t
      BY <2>1 DEF OwnerInv
    <3>. QED  BY <2>1, <2>5, <3>1, <3>2 DEF WriteCountInv
  <2>11. ReadCountIsExact'
    BY <2>5 DEF ReadCountIsExact
  <2>12. CrashInv'
    BY <2>1, <2>3, <2>4, PopKeepsCrashInv
  <2>. QED  BY <2>6, <2>7, <2>8, <2>9, <2>10, <2>11, <2>12
<1>. QED  BY <1>1, <1>2, <1>3

\* Every step of every thread keeps the invariant.
LEMMA NextIInv == IInv /\ [Next]_vars => IInv'
<1>. SUFFICES ASSUME IInv, [Next]_vars PROVE IInv'
  OBVIOUS
<1>1. CASE UNCHANGED vars
  <2>. USE <1>1 DEF vars
  <2>1. TypeOK'
    BY DEF IInv, TypeOK
  <2>2. DepthInv' /\ OwnerInv' /\ PcInv'
    BY DEF IInv, DepthInv, OwnerInv, PcInv
  <2>3. WriteCountInv'
    BY DEF IInv, WriteCountInv, WriteGuards
  <2>4. ReadCountIsExact'
    BY DEF IInv, ReadCountIsExact, ReadGuards
  <2>5. CrashInv'
    BY DEF IInv, CrashInv
  <2>. QED  BY <2>1, <2>2, <2>3, <2>4, <2>5 DEF IInv
<1>2. ASSUME NEW t \in Threads, Step(t) PROVE IInv'
  BY <1>2, QuietStep, AcquireStep, CountStep, ReleaseStep DEF Step, Proceed
<1>. QED  BY <1>1, <1>2 DEF Next

-------------------------------------------------------------------------------
(* What the invariant gives. *)

\* Type correctness of the lock, for any threads and nesting depth: neither
\* half of _lockFlag nor _writeCount ever leaves its 16 bits.
THEOREM TypeCorrect == Spec => []TypeOK
<1>1. IInv => TypeOK
  BY DEF IInv
<1>. QED  BY <1>1, InitIInv, NextIInv, PTL DEF Spec

\* A write guard shuts out every guard of every other thread.
THEOREM Exclusion == Spec => []MutualExclusion
<1>1. ASSUME IInv PROVE MutualExclusion
  <2>. SUFFICES ASSUME NEW t \in Threads, NEW u \in Threads, t # u, Holds(t, "W")
                PROVE  held[u] = <<>>
    BY DEF MutualExclusion
  <2>1. PICK i \in 1..Len(held[t]) : held[t][i] = "W"
    BY <1>1 DEF Holds, IInv, TypeOK
  <2>2. flag.owner = t
    BY <1>1, <2>1 DEF IInv, OwnerInv
  <2>. QED  BY <1>1, <2>2 DEF IInv, OwnerInv
<1>. QED  BY <1>1, InitIInv, NextIInv, PTL DEF Spec

\* The read count is exact in every reachable state.
THEOREM ReadCount == Spec => []ReadCountIsExact
<1>1. IInv => ReadCountIsExact
  BY DEF IInv
<1>. QED  BY <1>1, InitIInv, NextIInv, PTL DEF Spec

\* A release crashes only for a write guard nested in a read guard.
THEOREM UnlockCrash == Spec => []UnlockCrashNeedsNestedWrite
<1>1. ASSUME IInv PROVE UnlockCrashNeedsNestedWrite
  <2>. SUFFICES ASSUME crashed \in {"INVALID_UNLOCK_ORDER", "MULTIPLE_UNLOCK"}
                PROVE  /\ crashed = "INVALID_UNLOCK_ORDER"
                       /\ AllowUpgrade
                       /\ \E t \in Threads : \E i, j \in DOMAIN held[t] :
                             i < j /\ held[t][i] = "R" /\ held[t][j] = "W"
    BY DEF UnlockCrashNeedsNestedWrite
  <2>1. crashed = "INVALID_UNLOCK_ORDER"
    BY <1>1 DEF IInv, CrashInv
  <2>2. PICK t \in Threads : \E i, j \in 1..Len(held[t]) :
               i < j /\ held[t][i] = "R" /\ held[t][j] = "W"
    BY <1>1, <2>1 DEF IInv, CrashInv
  <2>3. AllowUpgrade
    BY <1>1, <2>2 DEF IInv, CrashInv
  <2>4. DOMAIN held[t] = 1..Len(held[t])
    BY <1>1 DEF IInv, TypeOK
  <2>. QED  BY <2>1, <2>2, <2>3, <2>4
<1>. QED  BY <1>1, InitIInv, NextIInv, PTL DEF Spec

\* A thread that asks for a write guard inside its own read guard never gets it.
THEOREM UpgradeStuck == Spec => UpgradeNeverSucceeds
<1>1. ASSUME IInv, Next, NEW t \in Threads, Upgrading(t) PROVE Upgrading(t)'
  <2>1. PICK u \in Threads : Step(u)
    BY <1>1 DEF Next
  <2>2. pc[t] = "w_spin" /\ Holds(t, "R") /\ held[t] # <<>>
    BY <1>1 DEF Upgrading, Holds
  <2>3. flag # EmptyFlag
    BY <1>1, <2>2, EmptyFlagMeansFree
  <2>4. pc'[t] = pc[t] /\ held'[t] = held[t]
    <3>1. CASE u = t
      BY <1>1, <2>1, <2>2, <2>3, <3>1
         DEF Step, Proceed, Running, CallWriteLock, CallReadLock, SpinTimeout,
             WriteLockLoad, WriteLockReenter, WriteLockCas, WriteLockCount,
             CallWriteUnlock, WriteUnlockCheck, WriteUnlockDec, WriteUnlockStore,
             ReadLockLoad, ReadLockReenter, ReadLockExpect, ReadLockCas, ReadUnlock
    <3>2. CASE u # t
      BY <1>1, <2>1, <3>2
         DEF IInv, TypeOK, Step, Proceed, Goto, PushGuard, PopGuard,
             CallWriteLock, CallReadLock, SpinTimeout,
             WriteLockLoad, WriteLockReenter, WriteLockCas, WriteLockCount,
             CallWriteUnlock, WriteUnlockCheck, WriteUnlockDec, WriteUnlockStore,
             ReadLockLoad, ReadLockReenter, ReadLockExpect, ReadLockCas, ReadUnlock
    <3>. QED  BY <3>1, <3>2
  <2>. QED  BY <2>2, <2>4 DEF Upgrading, Holds
<1>2. IInv /\ [Next]_vars => [\A t \in Threads : Upgrading(t) => Upgrading(t)']_vars
  BY <1>1
<1>. QED  BY <1>2, InitIInv, NextIInv, PTL DEF Spec, UpgradeNeverSucceeds

\* The spin lock implements the abstract readers/writer lock.
THEOREM Implements == Spec => ImplementsRWLock
<1>1. Init => Abstract!Init
  BY DEF Init, Abstract!Init
<1>2. ASSUME IInv, NEW t \in Threads, Step(t)
      PROVE  held' = held \/ Abstract!Next
  <2>. USE DEF Running
  <2>0. /\ \A u \in Threads : Len(held[u]) \in Nat /\ DOMAIN held[u] = 1..Len(held[u])
        /\ 0 \notin Threads
    BY <1>2, ThreadsAssumption DEF IInv, TypeOK
  <2>1. CASE WriteLockReenter(t) \/ WriteLockCas(t)
    <3>1. \A u \in Threads \ {t} : held[u] = <<>>
      <4>1. CASE WriteLockReenter(t)
        BY <1>2, <4>1 DEF WriteLockReenter, IInv, PcInv, OwnerInv
      <4>2. CASE WriteLockCas(t)
        BY <1>2, <4>2, EmptyFlagMeansFree DEF WriteLockCas
      <4>. QED  BY <2>1, <4>1, <4>2
    <3>2. PushGuard(t, "W")
      BY <2>1 DEF WriteLockReenter, WriteLockCas
    <3>3. Abstract!AcquireWrite(t)
      BY <3>1, <3>2 DEF Abstract!AcquireWrite, PushGuard
    <3>. QED  BY <3>3 DEF Abstract!Next
  <2>2. CASE \/ ReadLockReenter(t)
             \/ ReadLockCas(t) /\ flag = [owner |-> 0, readers |-> expected[t]]
    <3>1. \A u \in Threads \ {t} : ~Abstract!Holds(u, "W")
      <4>1. flag.owner \in {0, t}
        BY <1>2, <2>2 DEF ReadLockReenter, IInv, PcInv
      <4>2. \A u \in Threads \ {t} : flag.owner # u
        BY <2>0, <4>1
      <4>. QED  BY <1>2, <2>0, <4>2 DEF IInv, OwnerInv, Abstract!Holds
    <3>2. PushGuard(t, "R")
      BY <2>2 DEF ReadLockReenter, ReadLockCas
    <3>3. Abstract!AcquireRead(t)
      BY <3>1, <3>2 DEF Abstract!AcquireRead, PushGuard
    <3>. QED  BY <3>3 DEF Abstract!Next
  <2>3. CASE WriteUnlockDec(t) \/ WriteUnlockStore(t) \/ ReadUnlock(t)
    <3>1. held' = held \/ (PopGuard(t) /\ held[t] # <<>>)
      <4>1. CASE WriteUnlockDec(t) \/ WriteUnlockStore(t)
        <5>1. flag.owner = t
          BY <1>2, <4>1 DEF IInv, PcInv, WriteUnlockDec, WriteUnlockStore
        <5>2. held[t] # <<>>
          BY <1>2, <5>1 DEF IInv, OwnerInv
        <5>. QED  BY <4>1, <5>2 DEF WriteUnlockDec, WriteUnlockStore
      <4>2. CASE ReadUnlock(t)
        BY <4>2 DEF ReadUnlock
      <4>. QED  BY <2>3, <4>1, <4>2
    <3>2. PopGuard(t) /\ held[t] # <<>> => Abstract!Release(t)
      BY DEF PopGuard, Abstract!Release
    <3>. QED  BY <3>1, <3>2 DEF Abstract!Next
  <2>4. CASE \/ CallWriteLock(t) \/ CallReadLock(t) \/ SpinTimeout(t)
             \/ WriteLockLoad(t) \/ WriteLockCount(t) \/ CallWriteUnlock(t)
             \/ WriteUnlockCheck(t) \/ ReadLockLoad(t) \/ ReadLockExpect(t)
             \/ ReadLockCas(t) /\ flag # [owner |-> 0, readers |-> expected[t]]
    BY <2>4 DEF CallWriteLock, CallReadLock, SpinTimeout, WriteLockLoad,
                WriteLockCount, CallWriteUnlock, WriteUnlockCheck, ReadLockLoad,
                ReadLockExpect, ReadLockCas
  <2>. QED  BY <1>2, <2>1, <2>2, <2>3, <2>4 DEF Step, Proceed
<1>3. IInv /\ [Next]_vars => [Abstract!Next]_held
  BY <1>2 DEF Next, vars
<1>. QED  BY <1>1, <1>3, InitIInv, NextIInv, PTL DEF Spec, ImplementsRWLock, Abstract!Spec

-------------------------------------------------------------------------------
(* The loops *)

\* A set of numbers that is not empty has a least one.
LEMMA LeastNat ==
    ASSUME NEW T, T \subseteq Nat, T # {}
    PROVE  \E m \in T : \A n \in T : m <= n
<1>1. PICK m \in T : \A n \in T : ~(<<n, m>> \in OpToRel(<, Nat))
  BY NatLessThanWellFounded, WFMin
<1>2. \A n \in T : ~(n < m)
  BY <1>1, Zenon DEF OpToRel
<1> QED
  BY <1>2

\* A set that holds 0 and with every number the next one holds every number.
LEMMA InductNat ==
    ASSUME NEW G \in SUBSET Nat, 0 \in G, \A n \in G : n + 1 \in G
    PROVE  G = Nat
<1> SUFFICES ASSUME G # Nat PROVE FALSE
  OBVIOUS
<1>1. PICK m \in Nat \ G : \A k \in Nat \ G : m <= k
  BY LeastNat
<1>2. m # 0 /\ m - 1 \in G
  BY <1>1
<1> QED
  BY <1>1, <1>2

\* What a loop does after each of its rounds.
Rounds(f, body, start, n) ==
    f = [i \in 0..n |-> IF i = 0 THEN start ELSE body[i - 1][f[i - 1]]]

\* Every loop has rounds.
LEMMA RoundsExist ==
    ASSUME NEW body, NEW start, NEW n \in Nat
    PROVE  \E f : Rounds(f, body, start, n)
<1> DEFINE G == {m \in Nat : \E f : Rounds(f, body, start, m)}
<1>1. 0 \in G
  <2>1. Rounds([i \in 0..0 |-> start], body, start, 0)
    BY DEF Rounds
  <2> QED
    BY <2>1
<1>2. ASSUME NEW m \in G PROVE m + 1 \in G
  <2>1. PICK f : Rounds(f, body, start, m)
    OBVIOUS
  <2>2. m \in Nat
    OBVIOUS
  <2> DEFINE g == [i \in 0..(m + 1) |-> IF i = m + 1 THEN body[m][f[m]] ELSE f[i]]
  <2>3. ASSUME NEW i \in 0..(m + 1)
        PROVE  g[i] = IF i = 0 THEN start ELSE body[i - 1][g[i - 1]]
    <3>1. CASE i = m + 1
      <4>1. g[i] = body[m][f[m]] /\ g[m] = f[m] /\ i # 0 /\ i - 1 = m
        BY <2>2, <3>1
      <4> QED
        BY <4>1
    <3>2. CASE i # m + 1 /\ i # 0
      <4>1. i \in 0..m /\ i - 1 \in 0..(m + 1) /\ i - 1 # m + 1
        BY <2>2, <3>2
      <4>2. f[i] = body[i - 1][f[i - 1]]
        BY <2>1, <3>2, <4>1 DEF Rounds
      <4>3. g[i] = f[i] /\ g[i - 1] = f[i - 1]
        BY <3>2, <4>1
      <4> QED
        BY <3>2, <4>2, <4>3
    <3>3. CASE i # m + 1 /\ i = 0
      <4>1. 0 \in 0..m /\ f[0] = start
        BY <2>1, <2>2 DEF Rounds
      <4> QED
        BY <3>3, <4>1
    <3> QED
      BY <3>1, <3>2, <3>3
  <2>4. DOMAIN g = 0..(m + 1) /\ g = [i \in 0..(m + 1) |-> g[i]]
    OBVIOUS
  <2>5. Rounds(g, body, start, m + 1)
    <3> HIDE DEF g
    <3> QED
      BY <2>3, <2>4 DEF Rounds
  <2> QED
    BY <2>2, <2>5
<1>3. G = Nat
  <2> HIDE DEF G
  <2>1. G \in SUBSET Nat
    BY DEF G
  <2> QED
    BY <1>1, <1>2, <2>1, InductNat
<1>4. n \in G
  <2> HIDE DEF G
  <2> QED
    BY <1>3
<1> QED
  BY <1>4, Zenon

\* A loop ends in I[n] when every round leads from I[k] to I[k + 1].
LEMMA LoopStays ==
    ASSUME NEW n \in Nat, NEW body, NEW I, NEW start \in I[0],
           \A k \in 0..(n - 1) : \A s \in I[k] : body[k][s] \in I[k + 1]
    PROVE  Loop(body, start, n) \in I[n]
<1> DEFINE after == CHOOSE f : Rounds(f, body, start, n)
<1>1. Rounds(after, body, start, n)
  BY RoundsExist
<1>2. Loop(body, start, n) = after[n]
  BY DEF Loop, Rounds
<1> HIDE DEF after
<1> DEFINE G == {k \in Nat : k <= n => after[k] \in I[k]}
<1>3. 0 \in G
  <2>1. after[0] = start
    BY <1>1 DEF Rounds
  <2> QED
    BY <2>1
<1>4. ASSUME NEW k \in G PROVE k + 1 \in G
  <2> SUFFICES ASSUME k + 1 <= n PROVE after[k + 1] \in I[k + 1]
    OBVIOUS
  <2>1. k \in 0..(n - 1) /\ k + 1 \in 0..n /\ k + 1 # 0 /\ (k + 1) - 1 = k /\ after[k] \in I[k]
    OBVIOUS
  <2>2. after[k + 1] = body[k][after[k]]
    BY <1>1, <2>1 DEF Rounds
  <2> QED
    BY <2>1, <2>2
<1>5. G = Nat
  <2> HIDE DEF G
  <2>1. G \in SUBSET Nat
    BY DEF G
  <2> QED
    BY <1>3, <1>4, <2>1, InductNat
<1>6. n \in G
  <2> HIDE DEF G
  <2> QED
    BY <1>5
<1> QED
  BY <1>2, <1>6

-------------------------------------------------------------------------------
(* The depth-first search *)

\* What holds of a search that has found nothing: ids are discovered in order,
\* what follows a finished one is finished, and no finished ones form a cycle.
GoodSearch(E, n, d) ==
    /\ d \in Searches(n) /\ ~d.found
    /\ \A i \in 0..(n - 1) : -1 <= d.order[i] /\ d.order[i] < d.count
    /\ \A i \in 0..(n - 1) : d.finished[i] =>
           d.order[i] # -1 /\ \A j \in 0..(n - 1) : <<i, j>> \in E => d.finished[j]
    /\ \A C \in SUBSET (0..(n - 1)) : C # {} /\ (\A i \in C : d.finished[i]) =>
           \E i \in C : \A j \in C : <<i, j>> \notin E

\* The ids that have not been discovered,
White(n, d) == {i \in 0..(n - 1) : d.order[i] = -1}

\* and those whose Dfs has not returned.
Gray(n, d) == {i \in 0..(n - 1) : d.order[i] # -1 /\ ~d.finished[i]}

\* What a search may add to d: ids that it finishes.
Extends(n, d, e) ==
    \A i \in 0..(n - 1) :
        IF d.order[i] = -1 THEN e.order[i] = -1 \/ e.finished[i]
        ELSE e.order[i] = d.order[i] /\ e.finished[i] = d.finished[i]

\* The calls that have not returned form a path that ends in here.
Leads(E, n, d, here) ==
    \A g \in Gray(n, d) :
        \/ <<g, here>> \in E
        \/ \E h \in Gray(n, d) : d.order[g] < d.order[h] /\ <<g, h>> \in E

\* Among them here is the last that was entered.
Innermost(E, n, d, here) ==
    /\ here \in Gray(n, d)
    /\ \A g \in Gray(n, d) :
           /\ d.order[g] <= d.order[here]
           /\ \/ g = here
              \/ \E h \in Gray(n, d) : d.order[g] < d.order[h] /\ <<g, h>> \in E

\* Dfs(here) is called on d, with at most m ids to discover.
Called(E, n, m, d, here) ==
    /\ GoodSearch(E, n, d) /\ Leads(E, n, d, here)
    /\ here \in White(n, d) /\ Cardinality(White(n, d)) <= m

\* Dfs(here) returns e.
Returned(E, n, d, here, e) ==
    /\ e \in Searches(n)
    /\ e.found => Cyclic(E, 0..(n - 1))
    /\ ~e.found => GoodSearch(E, n, e) /\ Extends(n, d, e) /\ e.finished[here]

\* What Dfs does when at most m ids are left to discover.
Searching(E, n, m, dfs) ==
    \A here \in 0..(n - 1) : \A d \in Searches(n) :
        /\ d.found \/ d.order[here] # -1 => dfs[here][d] = d
        /\ Called(E, n, m, d, here) => Returned(E, n, d, here, dfs[here][d])

\* The types of what a search keeps.
LEMMA SearchTyped ==
    ASSUME NEW n \in Nat, NEW d \in Searches(n)
    PROVE  /\ d.order \in [0..(n - 1) -> Int] /\ d.count \in Nat
           /\ d.finished \in [0..(n - 1) -> BOOLEAN] /\ d.found \in BOOLEAN
           /\ \A i \in 0..(n - 1) : d.order[i] \in Int /\ d.finished[i] \in BOOLEAN
  BY DEF Searches

\* A search that extends another has discovered more and has the same calls open.
LEMMA ExtendsSame ==
    ASSUME NEW n \in Nat, NEW d \in Searches(n), NEW e \in Searches(n),
           Extends(n, d, e),
           \A i \in 0..(n - 1) : d.finished[i] => d.order[i] # -1
    PROVE  /\ White(n, e) \subseteq White(n, d) /\ Gray(n, e) = Gray(n, d)
           /\ \A g \in Gray(n, d) : e.order[g] = d.order[g]
           /\ \A i \in 0..(n - 1) : d.finished[i] => e.finished[i]
<1>1. ASSUME NEW i \in White(n, e) PROVE i \in White(n, d)
  BY <1>1 DEF White, Extends
<1>2. ASSUME NEW i \in Gray(n, e) PROVE i \in Gray(n, d)
  BY <1>2 DEF Gray, Extends
<1>3. ASSUME NEW i \in Gray(n, d) PROVE i \in Gray(n, e) /\ e.order[i] = d.order[i]
  BY <1>3 DEF Gray, Extends
<1>4. ASSUME NEW i \in 0..(n - 1), d.finished[i] PROVE e.finished[i]
  BY <1>4 DEF Extends
<1> QED
  BY <1>1, <1>2, <1>3, <1>4

\* What extends an extension extends the search.
LEMMA ExtendsTransitive ==
    ASSUME NEW n \in Nat, NEW a, NEW b, NEW c, Extends(n, a, b), Extends(n, b, c),
           \A i \in 0..(n - 1) : b.finished[i] => b.order[i] # -1
    PROVE  Extends(n, a, c)
  BY DEF Extends

\* The innermost call stays innermost while the search goes on inside it.
LEMMA InnermostStays ==
    ASSUME NEW E, NEW n \in Nat, NEW d, NEW e, NEW here, Innermost(E, n, d, here),
           Gray(n, e) = Gray(n, d), \A g \in Gray(n, d) : e.order[g] = d.order[g]
    PROVE  Innermost(E, n, e, here)
  BY DEF Innermost

\* An id that is reached again while its call is open is on a cycle.
LEMMA OpenMeansCycle ==
    ASSUME NEW E, NEW n \in Nat, NEW d \in Searches(n), NEW here, Innermost(E, n, d, here),
           NEW there \in Gray(n, d), <<here, there>> \in E
    PROVE  Cyclic(E, 0..(n - 1))
<1> DEFINE C == {g \in Gray(n, d) : d.order[there] <= d.order[g]}
<1>0. \A g \in Gray(n, d) : d.order[g] \in Int /\ g \in 0..(n - 1)
  BY SearchTyped DEF Gray
<1>1. there \in C /\ C \in SUBSET (0..(n - 1))
  BY <1>0
<1>2. ASSUME NEW g \in C PROVE \E h \in C : <<g, h>> \in E
  <2>1. CASE g = here
    BY <1>1, <2>1
  <2>2. CASE g # here
    <3>1. PICK h \in Gray(n, d) : d.order[g] < d.order[h] /\ <<g, h>> \in E
      BY <2>2 DEF Innermost
    <3>2. d.order[there] <= d.order[h]
      BY <1>0, <3>1
    <3> QED
      BY <3>1, <3>2
  <2> QED
    BY <2>1, <2>2
<1> QED
  <2> HIDE DEF C
  <2> QED
    BY <1>1, <1>2 DEF Cyclic

\* Dfs(here) enters here: here is discovered and is the innermost call.
LEMMA Enters ==
    ASSUME NEW E, NEW n \in Nat, NEW m, NEW d, NEW here, Called(E, n, m + 1, d, here), m \in Nat
    PROVE  LET s == [d EXCEPT !.order[here] = d.count, !.count = @ + 1]
           IN  /\ GoodSearch(E, n, s) /\ Innermost(E, n, s, here)
               /\ s.order = [d.order EXCEPT ![here] = d.count] /\ s.finished = d.finished
               /\ Cardinality(White(n, s)) <= m
<1> DEFINE s == [d EXCEPT !.order[here] = d.count, !.count = @ + 1]
<1>1. /\ d \in Searches(n) /\ ~d.found /\ here \in 0..(n - 1) /\ d.order[here] = -1
      /\ d.order \in [0..(n - 1) -> Int] /\ d.count \in Nat
      /\ d.finished \in [0..(n - 1) -> BOOLEAN]
  BY SearchTyped DEF Called, GoodSearch, White
<1>2. s = [order |-> [d.order EXCEPT ![here] = d.count], count |-> d.count + 1,
           finished |-> d.finished, found |-> d.found]
  <2>1. d = [order |-> d.order, count |-> d.count, finished |-> d.finished, found |-> d.found]
    BY <1>1 DEF Searches
  <2> DEFINE r == [d EXCEPT !.order[here] = d.count]
  <2>2. r = [order |-> [d.order EXCEPT ![here] = d.count], count |-> d.count,
             finished |-> d.finished, found |-> d.found]
    BY <2>1
  <2>3. s = [r EXCEPT !.count = @ + 1]
    BY <2>1
  <2> HIDE DEF r, s
  <2> QED
    BY <2>2, <2>3
<1> HIDE DEF s
<1>3. /\ s \in Searches(n) /\ ~s.found /\ s.count = d.count + 1 /\ s.finished = d.finished
      /\ s.order = [d.order EXCEPT ![here] = d.count]
      /\ s.order[here] = d.count /\ \A i \in 0..(n - 1) \ {here} : s.order[i] = d.order[i]
  BY <1>1, <1>2 DEF Searches
<1>4. ~d.finished[here]
  BY <1>1 DEF Called, GoodSearch
<1>5. GoodSearch(E, n, s)
  <2>1. ASSUME NEW i \in 0..(n - 1) PROVE -1 <= s.order[i] /\ s.order[i] < s.count
    <3>1. -1 <= d.order[i] /\ d.order[i] < d.count /\ d.order[i] \in Int
      BY <1>1 DEF Called, GoodSearch
    <3> QED
      BY <1>1, <1>3, <3>1
  <2>2. ASSUME NEW i \in 0..(n - 1), s.finished[i]
        PROVE  s.order[i] # -1 /\ \A j \in 0..(n - 1) : <<i, j>> \in E => s.finished[j]
    <3>1. d.order[i] # -1 /\ \A j \in 0..(n - 1) : <<i, j>> \in E => d.finished[j]
      BY <1>3, <2>2 DEF Called, GoodSearch
    <3> QED
      BY <1>1, <1>3, <3>1
  <2>3. \A C \in SUBSET (0..(n - 1)) : C # {} /\ (\A i \in C : s.finished[i]) =>
           \E i \in C : \A j \in C : <<i, j>> \notin E
    BY <1>3 DEF Called, GoodSearch
  <2> QED
    BY <1>3, <2>1, <2>2, <2>3 DEF GoodSearch
<1>6. Gray(n, s) = Gray(n, d) \union {here}
  BY <1>1, <1>3, <1>4 DEF Gray
<1>7. Innermost(E, n, s, here)
  <2>1. \A g \in Gray(n, d) : s.order[g] = d.order[g] /\ d.order[g] < d.count /\ d.order[g] \in Int
    BY <1>1, <1>3 DEF Called, GoodSearch, Gray
  <2>2. ASSUME NEW g \in Gray(n, d), ~(\E h \in Gray(n, s) : s.order[g] < s.order[h] /\ <<g, h>> \in E)
        PROVE  FALSE
    <3>1. <<g, here>> \notin E
      BY <1>1, <1>3, <1>6, <2>1, <2>2
    <3>2. PICK h \in Gray(n, d) : d.order[g] < d.order[h] /\ <<g, h>> \in E
      BY <3>1 DEF Called, Leads
    <3> QED
      BY <1>6, <2>1, <2>2, <3>2
  <2>3. \A g \in Gray(n, s) : s.order[g] <= s.order[here]
    BY <1>1, <1>3, <1>6, <2>1
  <2> QED
    BY <1>6, <2>2, <2>3 DEF Innermost
<1>8. Cardinality(White(n, s)) <= m
  <2>1. White(n, s) = White(n, d) \ {here}
    BY <1>1, <1>3 DEF White
  <2>2. IsFiniteSet(White(n, d))
    <3>1. White(n, d) \subseteq 0..(n - 1)
      BY DEF White
    <3>2. IsFiniteSet(0..(n - 1))
      BY FS_Interval
    <3> QED
      BY <3>1, <3>2, FS_Subset
  <2>3. here \in White(n, d)
    BY DEF Called
  <2>4. Cardinality(White(n, s)) = Cardinality(White(n, d)) - 1
    BY <2>1, <2>2, <2>3, FS_RemoveElement
  <2>5. Cardinality(White(n, d)) \in Nat
    BY <2>2, FS_CardinalityType
  <2>6. Cardinality(White(n, d)) <= m + 1
    BY DEF Called
  <2> QED
    BY <2>4, <2>5, <2>6
<1> QED
  BY <1>3, <1>5, <1>7, <1>8 DEF s

\* The loop over the locks that follow here goes on with the search s.
Visiting(E, n, m, here, s) ==
    /\ s \in Searches(n) /\ ~s.found /\ GoodSearch(E, n, s) /\ Innermost(E, n, s, here)
    /\ Cardinality(White(n, s)) <= m

\* A round with there, which follows here,
Visit(dfs, here, there, s) ==
    IF s.order[there] = -1 THEN dfs[there][s]
    ELSE [s EXCEPT !.found = s.order[here] >= s.order[there] /\ ~s.finished[there]]

\* and what it makes of s.
Visited(E, n, here, there, s, e) ==
    /\ e \in Searches(n)
    /\ e.found => Cyclic(E, 0..(n - 1))
    /\ ~e.found => /\ GoodSearch(E, n, e) /\ Innermost(E, n, e, here)
                   /\ Extends(n, s, e) /\ e.finished[there]

\* What a round finds stays right, and there is finished if it follows here.
LEMMA Visits ==
    ASSUME NEW E, NEW n \in Nat, NEW m \in Nat, NEW dfs, Searching(E, n, m, dfs),
           NEW here, NEW there \in 0..(n - 1), NEW s, Visiting(E, n, m, here, s),
           <<here, there>> \in E
    PROVE  Visited(E, n, here, there, s, Visit(dfs, here, there, s))
<1> DEFINE e == Visit(dfs, here, there, s)
<1>0. /\ s \in Searches(n) /\ ~s.found /\ GoodSearch(E, n, s) /\ Innermost(E, n, s, here)
      /\ Cardinality(White(n, s)) <= m
      /\ e = IF s.order[there] = -1 THEN dfs[there][s]
             ELSE [s EXCEPT !.found = s.order[here] >= s.order[there] /\ ~s.finished[there]]
  BY DEF Visiting, Visit
<1> SUFFICES Visited(E, n, here, there, s, e)
  OBVIOUS
<1> HIDE DEF e
<1>1. /\ s.order \in [0..(n - 1) -> Int] /\ s.finished \in [0..(n - 1) -> BOOLEAN]
      /\ \A i \in 0..(n - 1) : s.order[i] \in Int /\ s.finished[i] \in BOOLEAN
      /\ \A i \in 0..(n - 1) : s.finished[i] => s.order[i] # -1
  BY <1>0, SearchTyped DEF GoodSearch
<1>2. CASE s.order[there] = -1
  <2>1. Leads(E, n, s, there)
    BY <1>0 DEF Innermost, Leads
  <2>2. Called(E, n, m, s, there)
    BY <1>0, <1>2, <2>1 DEF Called, White
  <2>3. Returned(E, n, s, there, dfs[there][s])
    BY <1>0, <2>2 DEF Searching
  <2>4. Returned(E, n, s, there, e)
    BY <1>0, <1>2, <2>3
  <2>5. e \in Searches(n) /\ (e.found => Cyclic(E, 0..(n - 1)))
    BY <2>4 DEF Returned
  <2>6. ASSUME ~e.found
        PROVE  GoodSearch(E, n, e) /\ Innermost(E, n, e, here) /\ Extends(n, s, e) /\ e.finished[there]
    <3>1. GoodSearch(E, n, e) /\ Extends(n, s, e) /\ e.finished[there]
      BY <2>4, <2>6 DEF Returned
    <3>2. Gray(n, e) = Gray(n, s) /\ \A g \in Gray(n, s) : e.order[g] = s.order[g]
      BY <1>0, <1>1, <2>5, <3>1, ExtendsSame
    <3>3. Innermost(E, n, e, here)
      BY <1>0, <3>2, InnermostStays
    <3> QED
      BY <3>1, <3>3
  <2> QED
    BY <2>5, <2>6 DEF Visited
<1>3. CASE s.order[there] # -1
  <2> DEFINE back == s.order[here] >= s.order[there] /\ ~s.finished[there]
  <2>1. e = [s EXCEPT !.found = back]
    BY <1>0, <1>3
  <2>2. here \in 0..(n - 1) /\ back \in BOOLEAN
    BY <1>0, <1>1 DEF Innermost, Gray
  <2>3. there \in Gray(n, s) => s.order[there] <= s.order[here]
    BY <1>0 DEF Innermost
  <2>4. back <=> there \in Gray(n, s)
    BY <1>1, <1>3, <2>2, <2>3 DEF Gray
  <2> HIDE DEF back
  <2>5. e \in Searches(n) /\ (e.found <=> back)
    BY <1>0, <2>1, <2>2 DEF Searches
  <2>6. e.found => Cyclic(E, 0..(n - 1))
    BY <1>0, <2>4, <2>5, OpenMeansCycle
  <2>7. ASSUME ~e.found
        PROVE  GoodSearch(E, n, e) /\ Innermost(E, n, e, here) /\ Extends(n, s, e) /\ e.finished[there]
    <3>1. s.found = FALSE
      <4>1. s.found \in BOOLEAN
        BY <1>0, SearchTyped
      <4> QED
        BY <1>0, <4>1
    <3>2. back = FALSE
      BY <2>2, <2>5, <2>7
    <3>3. s = [s EXCEPT !.found = FALSE]
      BY <1>0, <3>1 DEF Searches
    <3>4. e = s
      BY <2>1, <3>2, <3>3
    <3>5. s.finished[there]
      BY <1>3, <2>4, <3>2 DEF Gray
    <3>6. Extends(n, s, s)
      BY DEF Extends
    <3> QED
      BY <1>0, <3>4, <3>5, <3>6
  <2> QED
    BY <2>5, <2>6, <2>7 DEF Visited
<1> QED
  BY <1>2, <1>3

\* Dfs(here), called on d, entered here in ent and has gone through what follows it
\* in s; it leaves here finished.
Through(E, n, d, here, ent, s) ==
    /\ d \in Searches(n) /\ here \in 0..(n - 1) /\ d.order[here] = -1
    /\ ent.order = [d.order EXCEPT ![here] = d.count] /\ ent.finished = d.finished
    /\ s \in Searches(n) /\ ~s.found /\ GoodSearch(E, n, s) /\ Innermost(E, n, s, here)
    /\ Extends(n, ent, s) /\ \A j \in 0..(n - 1) : <<here, j>> \in E => s.finished[j]

\* The end of Dfs(here).
Leave(here, s) == [s EXCEPT !.finished[here] = TRUE]

\* What Dfs(here) returns when it has gone through what follows here.
LEMMA Leaves ==
    ASSUME NEW E, NEW n \in Nat, NEW d, NEW here, NEW ent, NEW s, Through(E, n, d, here, ent, s)
    PROVE  Returned(E, n, d, here, Leave(here, s))
<1> DEFINE e == Leave(here, s)
<1>0. /\ d \in Searches(n) /\ here \in 0..(n - 1) /\ d.order[here] = -1
      /\ ent.order = [d.order EXCEPT ![here] = d.count] /\ ent.finished = d.finished
      /\ s \in Searches(n) /\ ~s.found /\ GoodSearch(E, n, s) /\ Innermost(E, n, s, here)
      /\ Extends(n, ent, s) /\ \A j \in 0..(n - 1) : <<here, j>> \in E => s.finished[j]
      /\ e = [s EXCEPT !.finished[here] = TRUE]
  BY DEF Through, Leave
<1> SUFFICES Returned(E, n, d, here, e)
  OBVIOUS
<1> HIDE DEF e
<1>1. /\ s.order \in [0..(n - 1) -> Int] /\ s.count \in Nat
      /\ s.finished \in [0..(n - 1) -> BOOLEAN] /\ d.order \in [0..(n - 1) -> Int]
  BY <1>0, SearchTyped
<1>2. /\ e \in Searches(n) /\ e.found = s.found /\ e.order = s.order /\ e.count = s.count
      /\ e.finished = [s.finished EXCEPT ![here] = TRUE]
  <2>1. e.found = s.found /\ e.order = s.order /\ e.count = s.count
        /\ e.finished = [s.finished EXCEPT ![here] = TRUE]
    BY <1>0 DEF Searches
  <2>2. [s.finished EXCEPT ![here] = TRUE] \in [0..(n - 1) -> BOOLEAN]
    BY <1>0, <1>1
  <2>3. e = [s EXCEPT !.finished = [s.finished EXCEPT ![here] = TRUE]]
    BY <1>0
  <2>4. e \in Searches(n)
    BY <1>0, <2>2, <2>3 DEF Searches
  <2> QED
    BY <2>1, <2>4
<1>3. e.finished[here] /\ \A i \in 0..(n - 1) \ {here} : e.finished[i] = s.finished[i]
  BY <1>0, <1>1, <1>2
<1>4. s.order[here] # -1 /\ ~s.finished[here]
  BY <1>0 DEF Innermost, Gray
<1>5. Extends(n, d, e)
  <2> SUFFICES ASSUME NEW i \in 0..(n - 1)
               PROVE  IF d.order[i] = -1 THEN e.order[i] = -1 \/ e.finished[i]
                      ELSE e.order[i] = d.order[i] /\ e.finished[i] = d.finished[i]
    BY DEF Extends
  <2>1. CASE i = here
    BY <1>0, <1>3, <2>1
  <2>2. CASE i # here
    <3>1. ent.order[i] = d.order[i] /\ ent.finished[i] = d.finished[i]
      BY <1>0, <1>1, <2>2
    <3>2. IF ent.order[i] = -1 THEN s.order[i] = -1 \/ s.finished[i]
          ELSE s.order[i] = ent.order[i] /\ s.finished[i] = ent.finished[i]
      BY <1>0 DEF Extends
    <3> QED
      BY <1>2, <1>3, <2>2, <3>1, <3>2
  <2> QED
    BY <2>1, <2>2
<1>6. ASSUME NEW i \in 0..(n - 1), e.finished[i]
      PROVE  e.order[i] # -1 /\ \A j \in 0..(n - 1) : <<i, j>> \in E => e.finished[j]
  <2>1. \A j \in 0..(n - 1) : s.finished[j] => e.finished[j]
    BY <1>3
  <2>2. CASE i = here
    BY <1>0, <1>2, <1>4, <2>1, <2>2
  <2>3. CASE i # here
    <3>1. s.order[i] # -1 /\ \A j \in 0..(n - 1) : <<i, j>> \in E => s.finished[j]
      BY <1>0, <1>3, <1>6, <2>3 DEF GoodSearch
    <3> QED
      BY <1>2, <2>1, <3>1
  <2> QED
    BY <2>2, <2>3
<1>7. ASSUME NEW C \in SUBSET (0..(n - 1)), C # {}, \A i \in C : e.finished[i]
      PROVE  \E i \in C : \A j \in C : <<i, j>> \notin E
  <2> DEFINE B == C \ {here}
  <2>1. B \in SUBSET (0..(n - 1)) /\ \A i \in B : s.finished[i]
    BY <1>3, <1>7
  <2>2. CASE B = {}
    <3>1. C = {here}
      BY <1>7, <2>2
    <3>2. <<here, here>> \notin E
      BY <1>0, <1>4
    <3> QED
      BY <3>1, <3>2
  <2>3. CASE B # {}
    <3>1. PICK i \in B : \A j \in B : <<i, j>> \notin E
      <4> HIDE DEF B
      <4> QED
        BY <1>0, <2>1, <2>3 DEF GoodSearch
    <3>2. s.finished[i] /\ \A j \in 0..(n - 1) : <<i, j>> \in E => s.finished[j]
      BY <1>0, <2>1 DEF GoodSearch
    <3>3. <<i, here>> \notin E
      BY <1>0, <1>4, <3>2
    <3> QED
      BY <3>1, <3>3
  <2> QED
    BY <2>2, <2>3
<1>8. \A i \in 0..(n - 1) : -1 <= e.order[i] /\ e.order[i] < e.count
  BY <1>0, <1>2 DEF GoodSearch
<1>9. GoodSearch(E, n, e) /\ ~e.found
  BY <1>0, <1>2, <1>6, <1>7, <1>8 DEF GoodSearch
<1> QED
  BY <1>2, <1>3, <1>5, <1>9 DEF Returned

\* Dfs is right with m + 1 ids to discover when the calls it makes are with m.
LEMMA DfsOverSearches ==
    ASSUME NEW E, NEW n \in Nat, NEW m \in Nat, NEW dfs, Searching(E, n, m, dfs)
    PROVE  Searching(E, n, m + 1, DfsOver(E, n, dfs))
<1> SUFFICES ASSUME NEW here \in 0..(n - 1), NEW d \in Searches(n)
             PROVE  /\ d.found \/ d.order[here] # -1 => DfsOver(E, n, dfs)[here][d] = d
                    /\ Called(E, n, m + 1, d, here) =>
                           Returned(E, n, d, here, DfsOver(E, n, dfs)[here][d])
  BY DEF Searching
<1> DEFINE entered == [d EXCEPT !.order[here] = d.count, !.count = @ + 1]
           visit == [there \in 0..(n - 1) |-> [s \in Searches(n) |->
                     IF s.found \/ <<here, there>> \notin E THEN s
                     ELSE IF s.order[there] = -1 THEN dfs[there][s]
                     ELSE [s EXCEPT !.found = s.order[here] >= s.order[there] /\ ~s.finished[there]]]]
           left == Loop(visit, entered, n)
<1>1. DfsOver(E, n, dfs)[here][d]
        = IF d.found \/ d.order[here] # -1 THEN d ELSE [left EXCEPT !.finished[here] = TRUE]
  BY DEF DfsOver
<1>2. ASSUME Called(E, n, m + 1, d, here)
      PROVE  Returned(E, n, d, here, DfsOver(E, n, dfs)[here][d])
  <2>1. ~d.found /\ d.order[here] = -1 /\ d.count \in Nat
    BY <1>2, SearchTyped DEF Called, GoodSearch, White
  <2>2. /\ GoodSearch(E, n, entered) /\ Innermost(E, n, entered, here)
        /\ entered.order = [d.order EXCEPT ![here] = d.count] /\ entered.finished = d.finished
        /\ Cardinality(White(n, entered)) <= m
    BY <1>2, Enters
  <2> HIDE DEF entered
  <2>3. /\ entered \in Searches(n) /\ ~entered.found
        /\ \A i \in 0..(n - 1) : entered.finished[i] => entered.order[i] # -1
    BY <2>2 DEF GoodSearch
  <2> DEFINE I == [k \in 0..n |-> {s \in Searches(n) :
                 /\ s.found => Cyclic(E, 0..(n - 1))
                 /\ ~s.found => /\ GoodSearch(E, n, s) /\ Innermost(E, n, s, here)
                                /\ Extends(n, entered, s)
                                /\ \A j \in 0..(k - 1) : <<here, j>> \in E => s.finished[j]}]
  <2>4. entered \in I[0]
    <3>1. Extends(n, entered, entered)
      BY DEF Extends
    <3> QED
      BY <2>2, <2>3, <3>1
  <2>5. ASSUME NEW k \in 0..(n - 1), NEW s \in I[k] PROVE visit[k][s] \in I[k + 1]
    <3>1. k \in 0..n /\ k + 1 \in 0..n /\ (k + 1) - 1 = k /\ 0..k = 0..(k - 1) \union {k}
      OBVIOUS
    <3>2. /\ s \in Searches(n) /\ (s.found => Cyclic(E, 0..(n - 1)))
          /\ ~s.found => /\ GoodSearch(E, n, s) /\ Innermost(E, n, s, here)
                         /\ Extends(n, entered, s)
                         /\ \A j \in 0..(k - 1) : <<here, j>> \in E => s.finished[j]
      BY <3>1
    <3> DEFINE e == visit[k][s]
    <3> SUFFICES /\ e \in Searches(n) /\ (e.found => Cyclic(E, 0..(n - 1)))
                 /\ ~e.found => /\ GoodSearch(E, n, e) /\ Innermost(E, n, e, here)
                                /\ Extends(n, entered, e)
                                /\ \A j \in 0..(k - 1) \union {k} : <<here, j>> \in E => e.finished[j]
      <4> HIDE DEF e
      <4>1. e \in I[k + 1]
        BY <3>1
      <4> QED
        BY <4>1 DEF e
    <3>3. e = IF s.found \/ <<here, k>> \notin E THEN s
              ELSE IF s.order[k] = -1 THEN dfs[k][s]
              ELSE [s EXCEPT !.found = s.order[here] >= s.order[k] /\ ~s.finished[k]]
      BY <3>2
    <3> HIDE DEF e, I, visit
    <3>4. CASE s.found \/ <<here, k>> \notin E
      <4>1. e = s
        BY <3>3, <3>4
      <4> QED
        BY <3>2, <3>4, <4>1
    <3>5. CASE ~s.found /\ <<here, k>> \in E
      <4>0. /\ s \in Searches(n) /\ ~s.found /\ GoodSearch(E, n, s) /\ Innermost(E, n, s, here)
            /\ Extends(n, entered, s) /\ <<here, k>> \in E
        BY <3>2, <3>5
      <4>1. White(n, s) \subseteq White(n, entered)
        BY <2>3, <4>0, ExtendsSame
      <4>2. Cardinality(White(n, s)) <= m
        <5>1. IsFiniteSet(White(n, entered))
          <6>1. IsFiniteSet(0..(n - 1))
            BY FS_Interval
          <6>2. White(n, entered) \subseteq 0..(n - 1)
            BY DEF White
          <6> QED
            BY <6>1, <6>2, FS_Subset
        <5>2. /\ IsFiniteSet(White(n, s))
              /\ Cardinality(White(n, s)) <= Cardinality(White(n, entered))
          BY <4>1, <5>1, FS_Subset
        <5>3. Cardinality(White(n, s)) \in Nat /\ Cardinality(White(n, entered)) \in Nat
          BY <5>1, <5>2, FS_CardinalityType
        <5> QED
          BY <2>2, <5>2, <5>3
      <4>3. e = IF s.order[k] = -1 THEN dfs[k][s]
                ELSE [s EXCEPT !.found = s.order[here] >= s.order[k] /\ ~s.finished[k]]
        BY <3>3, <3>5
      <4>4. /\ e \in Searches(n)
            /\ e.found => Cyclic(E, 0..(n - 1))
            /\ ~e.found => /\ GoodSearch(E, n, e) /\ Innermost(E, n, e, here)
                           /\ Extends(n, s, e) /\ e.finished[k]
        <5>1. Visiting(E, n, m, here, s)
          BY <4>0, <4>2 DEF Visiting
        <5>2. Visited(E, n, here, k, s, Visit(dfs, here, k, s))
          BY <4>0, <5>1, Visits
        <5>3. e = Visit(dfs, here, k, s)
          BY <4>3 DEF Visit
        <5>4. Visited(E, n, here, k, s, e)
          BY <5>2, <5>3
        <5> QED
          BY <5>4 DEF Visited
      <4>5. ASSUME ~e.found
            PROVE  Extends(n, entered, e) /\
                   \A j \in 0..(k - 1) \union {k} : <<here, j>> \in E => e.finished[j]
        <5>1. \A i \in 0..(n - 1) : s.finished[i] => s.order[i] # -1
          BY <3>2, <3>5 DEF GoodSearch
        <5>2. Extends(n, s, e) /\ Extends(n, entered, s)
          BY <3>2, <3>5, <4>4, <4>5
        <5>3. Extends(n, entered, e)
          BY <5>1, <5>2, ExtendsTransitive
        <5>9. e \in Searches(n)
          BY <4>4
        <5>4. \A i \in 0..(n - 1) : s.finished[i] => e.finished[i]
          BY <4>0, <5>9, <5>1, <5>2, ExtendsSame
        <5>5. 0..(k - 1) \subseteq 0..(n - 1)
          OBVIOUS
        <5> QED
          BY <3>2, <3>5, <4>4, <4>5, <5>3, <5>4, <5>5
      <4> QED
        BY <4>4, <4>5
    <3> QED
      BY <3>4, <3>5
  <2>6. left \in I[n]
    <3> HIDE DEF I, visit
    <3> QED
      BY <2>4, <2>5, LoopStays
  <2>7. /\ left \in Searches(n) /\ (left.found => Cyclic(E, 0..(n - 1)))
        /\ ~left.found => /\ GoodSearch(E, n, left) /\ Innermost(E, n, left, here)
                          /\ Extends(n, entered, left)
                          /\ \A j \in 0..(n - 1) : <<here, j>> \in E => left.finished[j]
    <3> HIDE DEF left
    <3>1. n \in 0..n
      OBVIOUS
    <3> QED
      BY <2>6, <3>1
  <2> DEFINE e == [left EXCEPT !.finished[here] = TRUE]
  <2> HIDE DEF left
  <2>8. e = Leave(here, left)
    BY DEF Leave
  <2>9. DfsOver(E, n, dfs)[here][d] = e
    BY <1>1, <2>1
  <2> HIDE DEF e
  <2>10. CASE left.found
    <3>1. e.found /\ e \in Searches(n)
      <4> DEFINE f == [left.finished EXCEPT ![here] = TRUE]
      <4>1. f \in [0..(n - 1) -> BOOLEAN]
        BY <2>7, SearchTyped
      <4>2. e = [left EXCEPT !.finished = f]
        BY <2>8 DEF Leave
      <4> HIDE DEF f
      <4> QED
        BY <2>7, <2>10, <4>1, <4>2 DEF Searches
    <3> QED
      BY <2>7, <2>9, <2>10, <3>1 DEF Returned
  <2>11. CASE ~left.found
    <3>1. Through(E, n, d, here, entered, left)
      BY <2>1, <2>2, <2>7, <2>11 DEF Through
    <3> QED
      BY <2>8, <2>9, <3>1, Leaves
  <2> QED
    BY <2>10, <2>11
<1> QED
  BY <1>1, <1>2

\* Dfs is right for all ids there are.
LEMMA DfsSearches ==
    ASSUME NEW E, NEW n \in Nat
    PROVE  Searching(E, n, n, Dfs(E, n))
<1> DEFINE None == [here \in 0..(n - 1) |-> [d \in Searches(n) |-> d]]
           Depths(f, m) ==
               f = [depth \in 0..m |-> IF depth = 0 THEN None ELSE DfsOver(E, n, f[depth - 1])]
           G == {m \in Nat : \E f : Depths(f, m)}
           nested == CHOOSE f : Depths(f, n)
<1>1. Dfs(E, n) = nested[n]
  BY DEF Dfs
<1> HIDE DEF nested, None
<1>2. 0 \in G
  <2>1. Depths([depth \in 0..0 |-> None], 0)
    OBVIOUS
  <2> QED
    BY <2>1
<1>3. ASSUME NEW m \in G PROVE m + 1 \in G
  <2>1. PICK f : Depths(f, m)
    OBVIOUS
  <2>2. m \in Nat
    OBVIOUS
  <2> DEFINE last == DfsOver(E, n, f[m])
             g == [depth \in 0..(m + 1) |-> IF depth = m + 1 THEN last ELSE f[depth]]
  <2>3. ASSUME NEW i \in 0..(m + 1)
        PROVE  g[i] = IF i = 0 THEN None ELSE DfsOver(E, n, g[i - 1])
    <3>1. CASE i = m + 1
      <4>1. g[i] = DfsOver(E, n, f[m]) /\ g[m] = f[m] /\ i # 0 /\ i - 1 = m
        BY <2>2, <3>1
      <4> QED
        BY <4>1
    <3>2. CASE i # m + 1 /\ i # 0
      <4>1. i \in 0..m /\ i - 1 \in 0..(m + 1) /\ i - 1 # m + 1
        BY <2>2, <3>2
      <4>2. f[i] = DfsOver(E, n, f[i - 1])
        BY <2>1, <3>2, <4>1
      <4>3. g[i] = f[i] /\ g[i - 1] = f[i - 1]
        BY <3>2, <4>1
      <4> QED
        BY <3>2, <4>2, <4>3
    <3>3. CASE i # m + 1 /\ i = 0
      <4>1. 0 \in 0..m /\ f[0] = None
        BY <2>1, <2>2
      <4>2. g[0] = f[0]
        BY <2>2, <3>3
      <4> QED
        BY <3>3, <4>1, <4>2
    <3> QED
      BY <3>1, <3>2, <3>3
  <2>4. g = [depth \in 0..(m + 1) |-> g[depth]]
    OBVIOUS
  <2>5. Depths(g, m + 1)
    <3> HIDE DEF g
    <3> QED
      BY <2>3, <2>4
  <2>6. \E h : Depths(h, m + 1)
    <3> HIDE DEF g, Depths
    <3> QED
      BY <2>5
  <2> QED
    BY <2>2, <2>6
<1>4. G = Nat
  <2> HIDE DEF G
  <2>1. G \in SUBSET Nat
    BY DEF G
  <2> QED
    BY <1>2, <1>3, <2>1, InductNat
<1>5. \E f : Depths(f, n)
  <2>1. n \in G
    <3> HIDE DEF G
    <3> QED
      BY <1>4
  <2> QED
    BY <2>1, Zenon
<1>6. Depths(nested, n)
  BY <1>5 DEF nested
<1> DEFINE H == {m \in Nat : m <= n => Searching(E, n, m, nested[m])}
<1>7. 0 \in H
  <2>1. nested[0] = None
    BY <1>6
  <2>2. ASSUME NEW here \in 0..(n - 1), NEW d \in Searches(n), Called(E, n, 0, d, here)
        PROVE  FALSE
    <3>1. IsFiniteSet(White(n, d))
      <4>1. IsFiniteSet(0..(n - 1))
        BY FS_Interval
      <4>2. White(n, d) \subseteq 0..(n - 1)
        BY DEF White
      <4> QED
        BY <4>1, <4>2, FS_Subset
    <3>2. Cardinality(White(n, d)) <= 0 /\ here \in White(n, d)
      BY <2>2 DEF Called
    <3>3. Cardinality(White(n, d)) \in Nat
      BY <3>1, FS_CardinalityType
    <3>4. Cardinality(White(n, d)) = 0
      BY <3>2, <3>3
    <3> QED
      BY <3>1, <3>2, <3>4, FS_EmptySet
  <2>3. \A here \in 0..(n - 1) : \A d \in Searches(n) : nested[0][here][d] = d
    BY <2>1 DEF None
  <2>4. Searching(E, n, 0, nested[0])
    BY <2>2, <2>3 DEF Searching
  <2> QED
    BY <2>4
<1>8. ASSUME NEW m \in H PROVE m + 1 \in H
  <2> SUFFICES ASSUME m + 1 <= n PROVE Searching(E, n, m + 1, nested[m + 1])
    OBVIOUS
  <2>1. m \in Nat /\ m + 1 \in 0..n /\ m + 1 # 0 /\ (m + 1) - 1 = m
    OBVIOUS
  <2>2. nested[m + 1] = DfsOver(E, n, nested[m])
    BY <1>6, <2>1
  <2>3. Searching(E, n, m, nested[m])
    OBVIOUS
  <2>4. Searching(E, n, m + 1, DfsOver(E, n, nested[m]))
    BY <2>1, <2>3, DfsOverSearches
  <2> QED
    BY <2>2, <2>4
<1>9. H = Nat
  <2> HIDE DEF H
  <2>1. H \in SUBSET Nat
    BY DEF H
  <2> QED
    BY <1>7, <1>8, <2>1, InductNat
<1>10. n <= n => Searching(E, n, n, nested[n])
  <2>1. n \in H
    <3> HIDE DEF H
    <3> QED
      BY <1>9
  <2> QED
    BY <2>1, Zenon
<1> QED
  BY <1>1, <1>10

\* CheckCycle crashes exactly when the orders have a cycle: Dfs, called on one lock
\* after the other, crosses a lock that is still open when there is one and finishes
\* all locks when there is none (DeadLockProfiler.cpp 60-126).
THEOREM CheckCycleIsRight ==
    ASSUME NEW E, NEW n \in Nat
    PROVE  CheckCycle(E, n) \in BOOLEAN /\ (CheckCycle(E, n) <=> Cyclic(E, 0..(n - 1)))
<1> DEFINE dfs == Dfs(E, n)
           end == Loop(dfs, Cleared(n), n)
<1>1. Searching(E, n, n, dfs)
  BY DfsSearches
<1> HIDE DEF dfs
<1> DEFINE I == [k \in 0..n |-> {s \in Searches(n) :
                 /\ s.found => Cyclic(E, 0..(n - 1))
                 /\ ~s.found => /\ GoodSearch(E, n, s) /\ Gray(n, s) = {}
                                /\ \A j \in 0..(k - 1) : s.finished[j]}]
<1>2. Cleared(n) \in I[0]
  <2>1. Cleared(n) \in Searches(n) /\ ~Cleared(n).found
    BY DEF Cleared, Searches
  <2>2. \A i \in 0..(n - 1) : Cleared(n).order[i] = -1 /\ ~Cleared(n).finished[i]
    BY DEF Cleared
  <2>3. Cleared(n).count = 0
    BY DEF Cleared
  <2>4. Gray(n, Cleared(n)) = {}
    BY <2>2 DEF Gray
  <2>5. GoodSearch(E, n, Cleared(n))
    <3> DEFINE c == Cleared(n)
    <3> HIDE DEF c
    <3>1. /\ c \in Searches(n) /\ ~c.found /\ c.count = 0
          /\ \A i \in 0..(n - 1) : c.order[i] = -1 /\ ~c.finished[i]
      BY <2>1, <2>2, <2>3 DEF c
    <3>2. \A i \in 0..(n - 1) : -1 <= c.order[i] /\ c.order[i] < c.count
      BY <3>1
    <3>3. \A C \in SUBSET (0..(n - 1)) : C # {} => ~(\A i \in C : c.finished[i])
      BY <3>1
    <3>4. GoodSearch(E, n, c)
      BY <3>1, <3>2, <3>3 DEF GoodSearch
    <3> QED
      BY <3>4 DEF c
  <2> QED
    BY <2>1, <2>4, <2>5
<1>3. ASSUME NEW k \in 0..(n - 1), NEW s \in I[k] PROVE dfs[k][s] \in I[k + 1]
  <2>1. k \in 0..n /\ k + 1 \in 0..n /\ (k + 1) - 1 = k /\ 0..k = 0..(k - 1) \union {k}
        /\ 0..(k - 1) \subseteq 0..(n - 1)
    OBVIOUS
  <2>2. /\ s \in Searches(n) /\ (s.found => Cyclic(E, 0..(n - 1)))
        /\ ~s.found => /\ GoodSearch(E, n, s) /\ Gray(n, s) = {}
                       /\ \A j \in 0..(k - 1) : s.finished[j]
    BY <2>1
  <2> DEFINE e == dfs[k][s]
  <2> HIDE DEF e
  <2> SUFFICES /\ e \in Searches(n) /\ (e.found => Cyclic(E, 0..(n - 1)))
               /\ ~e.found => /\ GoodSearch(E, n, e) /\ Gray(n, e) = {}
                              /\ \A j \in 0..(k - 1) \union {k} : e.finished[j]
    <3>1. e \in I[k + 1]
      BY <2>1
    <3> QED
      BY <3>1 DEF e
  <2> HIDE DEF I
  <2>3. CASE s.found \/ s.order[k] # -1
    <3>1. e = s
      BY <1>1, <2>2, <2>3 DEF Searching, e
    <3>2. ~s.found => s.finished[k]
      BY <2>2, <2>3 DEF Gray
    <3> QED
      BY <2>2, <3>1, <3>2
  <2>4. CASE ~s.found /\ s.order[k] = -1
    <3>0. s \in Searches(n) /\ ~s.found /\ GoodSearch(E, n, s) /\ Gray(n, s) = {}
          /\ \A j \in 0..(k - 1) : s.finished[j]
      BY <2>2, <2>4
    <3>1. Cardinality(White(n, s)) <= n
      <4>1. IsFiniteSet(0..(n - 1)) /\ Cardinality(0..(n - 1)) = n
        <5>1. 0 \in Int /\ n - 1 \in Int /\ ~(0 > n - 1)
          OBVIOUS
        <5> QED
          BY <5>1, FS_Interval
      <4>2. White(n, s) \subseteq 0..(n - 1)
        BY DEF White
      <4> QED
        BY <4>1, <4>2, FS_Subset
    <3>2. Called(E, n, n, s, k)
      BY <2>4, <3>0, <3>1 DEF Called, Leads, White
    <3>3. Returned(E, n, s, k, e)
      BY <1>1, <3>0, <3>2 DEF Searching, e
    <3>4. e \in Searches(n) /\ (e.found => Cyclic(E, 0..(n - 1)))
      BY <3>3 DEF Returned
    <3>5. ASSUME ~e.found
          PROVE  /\ GoodSearch(E, n, e) /\ Gray(n, e) = {}
                 /\ \A j \in 0..(k - 1) \union {k} : e.finished[j]
      <4>1. GoodSearch(E, n, e) /\ Extends(n, s, e) /\ e.finished[k]
        BY <3>3, <3>5 DEF Returned
      <4>2. \A i \in 0..(n - 1) : s.finished[i] => s.order[i] # -1
        BY <3>0 DEF GoodSearch
      <4>3. Gray(n, e) = Gray(n, s) /\ \A i \in 0..(n - 1) : s.finished[i] => e.finished[i]
        BY <3>0, <3>4, <4>1, <4>2, ExtendsSame
      <4> QED
        BY <2>1, <3>0, <4>1, <4>3
    <3> QED
      BY <3>4, <3>5
  <2> QED
    BY <2>3, <2>4
<1>4. end \in I[n]
  <2> HIDE DEF I
  <2> QED
    BY <1>2, <1>3, LoopStays
<1>5. CheckCycle(E, n) = end.found
  BY DEF CheckCycle, dfs
<1> HIDE DEF end
<1>6. /\ end \in Searches(n) /\ (end.found => Cyclic(E, 0..(n - 1)))
      /\ ~end.found => GoodSearch(E, n, end) /\ \A j \in 0..(n - 1) : end.finished[j]
  <2>1. n \in 0..n
    OBVIOUS
  <2> QED
    BY <1>4, <2>1
<1>7. end.found \in BOOLEAN
  BY <1>6, SearchTyped
<1>8. ASSUME ~end.found PROVE ~Cyclic(E, 0..(n - 1))
  <2> SUFFICES ASSUME NEW C \in SUBSET (0..(n - 1)), C # {}
               PROVE  \E i \in C : \A j \in C : <<i, j>> \notin E
    BY DEF Cyclic
  <2>1. \A i \in C : end.finished[i]
    BY <1>6, <1>8
  <2> QED
    BY <1>6, <1>8, <2>1 DEF GoodSearch
<1> QED
  BY <1>5, <1>6, <1>7, <1>8

-------------------------------------------------------------------------------
(* The profiler *)

\* Every name has one id, and the recorded orders are between ids.
NamesInv ==
    /\ \A i, j \in 1..Len(nameToId) : nameToId[i] = nameToId[j] => i = j
    /\ history \subseteq (0..(Len(nameToId) - 1)) \X (0..(Len(nameToId) - 1))

\* The locks that stand on the lock stack of t: those it holds and the one it asks
\* for, without the one it is about to give up.
Nested(t) ==
    IF want[t] # NoLock THEN Append(guards[t], want[t])
    ELSE IF leaving[t] THEN SubSeq(guards[t], 1, Len(guards[t]) - 1)
    ELSE guards[t]

\* The lock stack has the ids of the names of those locks, in their order.
StackInv ==
    \A t \in Callers :
        /\ Len(stack[t]) = Len(Nested(t))
        /\ \A i \in 1..Len(stack[t]) :
               /\ stack[t][i] \in 0..(Len(nameToId) - 1)
               /\ nameToId[stack[t][i] + 1] = NameOf[Nested(t)[i]]

\* What is nested has been recorded.
RecordedInv ==
    \A t \in Callers : \A i \in 1..(Len(stack[t]) - 1) :
        stack[t][i] = stack[t][i + 1] \/ <<stack[t][i], stack[t][i + 1]>> \in history

\* A lock is held by one thread; a thread that gives one up holds it still.
ExclusiveInv ==
    /\ \A t, u \in Callers : t # u =>
           \A i \in 1..Len(guards[t]) : \A j \in 1..Len(guards[u]) : guards[t][i] # guards[u][j]
    /\ \A t \in Callers : leaving[t] => want[t] = NoLock /\ guards[t] # <<>>

\* The inductive invariant. After a crash nothing is said of the locks any more.
ProfilerInv ==
    /\ ProfilerTypeOK /\ NamesInv /\ CycleIsFound
    /\ crash = "no" => StackInv /\ RecordedInv /\ ExclusiveInv

\* There are finitely many names, and no more ids than names.
LEMMA NamesFinite == IsFiniteSet(Names) /\ Cardinality(Names) \in Nat
<1> DEFINE f == [l \in Locks |-> NameOf[l]]
<1>1. f \in Surjection(Locks, Names)
  BY DEF Surjection, Names
<1>2. IsFiniteSet(Names)
  BY <1>1, FS_Surjection, LocksAssumption
<1> QED
  BY <1>2, FS_CardinalityType

\* Names that are all different are not more than there are.
LEMMA IdsEnough ==
    ASSUME NEW s \in Seq(Names), \A i, j \in 1..Len(s) : s[i] = s[j] => i = j
    PROVE  Len(s) <= Cardinality(Names)
<1> SUFFICES ASSUME Cardinality(Names) < Len(s) PROVE FALSE
  BY NamesFinite
<1>1. IsFiniteSet(1..Len(s)) /\ Cardinality(1..Len(s)) = Len(s)
  <2>1. Len(s) \in Nat /\ Len(s) > 0
    BY NamesFinite
  <2> QED
    BY <2>1, FS_Interval
<1>2. s \in [1..Len(s) -> Names]
  OBVIOUS
<1> QED
  BY <1>1, <1>2, NamesFinite, FS_PigeonHole

\* The id of a name that has one.
LEMMA IdOfIs ==
    ASSUME NEW s \in Seq(Names), NEW l, \E i \in 1..Len(s) : s[i] = NameOf[l]
    PROVE  IdOf(s, l) \in 0..(Len(s) - 1) /\ s[IdOf(s, l) + 1] = NameOf[l]
<1> DEFINE k == CHOOSE i \in DOMAIN s : s[i] = NameOf[l]
<1>1. k \in 1..Len(s) /\ s[k] = NameOf[l]
  OBVIOUS
<1>2. IdOf(s, l) = k - 1
  BY DEF IdOf
<1> HIDE DEF k
<1> QED
  BY <1>1, <1>2

\* Ids without a recorded order are on no cycle.
LEMMA CyclicAmong ==
    ASSUME NEW n \in Nat, n <= Cardinality(Names), NEW E, E \subseteq (0..(n - 1)) \X (0..(n - 1))
    PROVE  Cyclic(E, Ids) <=> Cyclic(E, 0..(n - 1))
<1>1. 0..(n - 1) \subseteq Ids
  BY NamesFinite DEF Ids
<1>2. ASSUME NEW C \in SUBSET (0..(n - 1)) PROVE C \in SUBSET Ids
  BY <1>1
<1>3. ASSUME NEW C \in SUBSET Ids, \A i \in C : \E j \in C : <<i, j>> \in E
      PROVE  C \in SUBSET (0..(n - 1))
  BY <1>3
<1> QED
  BY <1>2, <1>3 DEF Cyclic

\* What PushLock does, step by step: it finds or issues the id,
LEMMA PushLockNames ==
    ASSUME ProfilerTypeOK, NamesInv, NEW t \in Callers, NEW l \in Locks, PushLock(t, l)
    PROVE  /\ nameToId' \in Seq(Names) /\ Len(nameToId) <= Len(nameToId')
           /\ Len(nameToId') <= Cardinality(Names)
           /\ \A i \in 1..Len(nameToId) : nameToId'[i] = nameToId[i]
           /\ \A i, j \in 1..Len(nameToId') : nameToId'[i] = nameToId'[j] => i = j
           /\ IdOf(nameToId', l) \in 0..(Len(nameToId') - 1)
           /\ nameToId'[IdOf(nameToId', l) + 1] = NameOf[l]
<1>0. nameToId \in Seq(Names) /\ NameOf[l] \in Names
  BY DEF ProfilerTypeOK, Names
<1>1. CASE NameOf[l] \in ToSet(nameToId)
  <2>1. nameToId' = nameToId
    BY <1>1 DEF PushLock
  <2>2. \E i \in 1..Len(nameToId) : nameToId[i] = NameOf[l]
    BY <1>0, <1>1 DEF ToSet
  <2>3. /\ IdOf(nameToId, l) \in 0..(Len(nameToId) - 1)
        /\ nameToId[IdOf(nameToId, l) + 1] = NameOf[l]
    BY <1>0, <2>2, IdOfIs
  <2>4. IdOf(nameToId', l) = IdOf(nameToId, l)
    BY <2>1
  <2> QED
    BY <1>0, <2>1, <2>3, <2>4 DEF ProfilerTypeOK, NamesInv
<1>2. CASE NameOf[l] \notin ToSet(nameToId)
  <2> DEFINE s == Append(nameToId, NameOf[l])
  <2>1. nameToId' = s
    BY <1>2 DEF PushLock
  <2>2. \A i \in 1..Len(nameToId) : nameToId[i] # NameOf[l]
    BY <1>0, <1>2 DEF ToSet
  <2>3. /\ s \in Seq(Names) /\ Len(s) = Len(nameToId) + 1 /\ Len(nameToId) \in Nat
        /\ s[Len(s)] = NameOf[l] /\ \A i \in 1..Len(nameToId) : s[i] = nameToId[i]
    BY <1>0
  <2> HIDE DEF s
  <2>4. ASSUME NEW i \in 1..Len(s), NEW j \in 1..Len(s), s[i] = s[j] PROVE i = j
    <3>1. CASE i = Len(s) \/ j = Len(s)
      BY <2>2, <2>3, <2>4, <3>1
    <3>2. CASE i # Len(s) /\ j # Len(s)
      <4>1. i \in 1..Len(nameToId) /\ j \in 1..Len(nameToId)
        BY <2>3, <3>2
      <4> QED
        BY <2>3, <2>4, <4>1 DEF NamesInv
    <3> QED
      BY <3>1, <3>2
  <2>5. Len(s) <= Cardinality(Names)
    BY <2>3, <2>4, IdsEnough
  <2>6. \E i \in 1..Len(s) : s[i] = NameOf[l]
    BY <2>3
  <2>7. IdOf(s, l) \in 0..(Len(s) - 1) /\ s[IdOf(s, l) + 1] = NameOf[l]
    BY <2>3, <2>6, IdOfIs
  <2> HIDE DEF s
  <2>8. /\ s \in Seq(Names) /\ Len(nameToId) <= Len(s) /\ Len(s) <= Cardinality(Names)
        /\ \A i \in 1..Len(nameToId) : s[i] = nameToId[i]
        /\ \A i, j \in 1..Len(s) : s[i] = s[j] => i = j
    BY <2>3, <2>4, <2>5
  <2> QED
    BY <2>1, <2>7, <2>8
<1> QED
  BY <1>1, <1>2

\* records the order of the locks and crashes if it closes a cycle.
LEMMA PushLockOrders ==
    ASSUME ProfilerInv, NEW t \in Callers, NEW l \in Locks, PushLock(t, l)
    PROVE  /\ history \subseteq history'
           /\ history' \subseteq (0..(Len(nameToId') - 1)) \X (0..(Len(nameToId') - 1))
           /\ \/ crash' = "DEADLOCK_DETECTED" /\ stack' = stack /\ Cyclic(history', Ids)
              \/ /\ crash' = "no" /\ ~Cyclic(history', Ids)
                 /\ stack' = [stack EXCEPT ![t] = Append(@, IdOf(nameToId', l))]
                 /\ \/ stack[t] = <<>> \/ stack[t][Len(stack[t])] = IdOf(nameToId', l)
                    \/ <<stack[t][Len(stack[t])], IdOf(nameToId', l)>> \in history'
<1> DEFINE lockId == IdOf(nameToId', l)
           edge == <<stack[t][Len(stack[t])], lockId>>
           isNew == stack[t] # <<>> /\ edge[1] # lockId /\ edge \notin history
           edges == IF isNew THEN history \union {edge} ELSE history
<1>0. ProfilerTypeOK /\ NamesInv /\ CycleIsFound /\ StackInv /\ crash = "no"
  BY DEF ProfilerInv, PushLock
<1>1. /\ nameToId' \in Seq(Names) /\ nameToId \in Seq(Names) /\ Len(nameToId) <= Len(nameToId')
      /\ Len(nameToId') <= Cardinality(Names)
      /\ lockId \in 0..(Len(nameToId') - 1)
  <2>1. nameToId \in Seq(Names)
    BY <1>0 DEF ProfilerTypeOK
  <2> QED
    BY <1>0, <2>1, PushLockNames
<1>2. /\ history' = edges
      /\ IF isNew /\ CheckCycle(edges, Len(nameToId'))
         THEN crash' = "DEADLOCK_DETECTED" /\ stack' = stack
         ELSE crash' = crash /\ stack' = [stack EXCEPT ![t] = Append(@, lockId)]
  BY DEF PushLock, Last
<1> HIDE DEF lockId
<1>3. /\ Len(nameToId) \in Nat /\ Len(nameToId') \in Nat
      /\ 0..(Len(nameToId) - 1) \subseteq 0..(Len(nameToId') - 1)
  BY <1>1
<1>4. edges \subseteq (0..(Len(nameToId') - 1)) \X (0..(Len(nameToId') - 1)) /\ history \subseteq edges
  <2>1. history \subseteq (0..(Len(nameToId') - 1)) \X (0..(Len(nameToId') - 1))
    BY <1>0, <1>3 DEF NamesInv
  <2>2. CASE isNew
    <3>1. stack[t] \in Seq(Ids) /\ stack[t] # <<>>
      BY <1>0, <2>2 DEF ProfilerTypeOK
    <3>2. Len(stack[t]) \in 1..Len(stack[t])
      BY <3>1
    <3>3. stack[t][Len(stack[t])] \in 0..(Len(nameToId) - 1)
      BY <1>0, <3>2 DEF StackInv
    <3>4. edge \in (0..(Len(nameToId') - 1)) \X (0..(Len(nameToId') - 1))
      BY <1>1, <1>3, <3>3
    <3> HIDE DEF edge
    <3> QED
      BY <2>1, <2>2, <3>4
  <2>3. CASE ~isNew
    BY <2>1, <2>3
  <2> QED
    BY <2>2, <2>3
<1>5. ~Cyclic(history, Ids)
  BY <1>0 DEF CycleIsFound
<1>6. isNew \in BOOLEAN /\ (isNew <=> stack[t] # <<>> /\ edge[1] # lockId /\ edge \notin history)
      /\ edge[1] = stack[t][Len(stack[t])]
  OBVIOUS
<1>7. edges = (IF isNew THEN history \union {edge} ELSE history)
  OBVIOUS
<1> HIDE DEF edges, isNew
<1>8. /\ CheckCycle(edges, Len(nameToId')) \in BOOLEAN
      /\ CheckCycle(edges, Len(nameToId')) <=> Cyclic(edges, Ids)
  <2>1. /\ CheckCycle(edges, Len(nameToId')) \in BOOLEAN
        /\ CheckCycle(edges, Len(nameToId')) <=> Cyclic(edges, 0..(Len(nameToId') - 1))
    BY <1>3, CheckCycleIsRight
  <2>2. Cyclic(edges, Ids) <=> Cyclic(edges, 0..(Len(nameToId') - 1))
    BY <1>1, <1>3, <1>4, CyclicAmong
  <2> QED
    BY <2>1, <2>2
<1>9. CASE isNew /\ CheckCycle(edges, Len(nameToId'))
  BY <1>2, <1>4, <1>8, <1>9
<1>10. CASE ~(isNew /\ CheckCycle(edges, Len(nameToId')))
  <2>1. ~Cyclic(edges, Ids)
    BY <1>5, <1>6, <1>7, <1>8, <1>10
  <2>2. crash' = "no" /\ stack' = [stack EXCEPT ![t] = Append(@, lockId)]
    BY <1>0, <1>2, <1>10
  <2>3. stack[t] = <<>> \/ edge[1] = lockId \/ edge \in edges
    BY <1>6, <1>7
  <2> QED
    BY <1>2, <1>4, <1>6, <2>1, <2>2, <2>3 DEF lockId
<1> QED
  BY <1>9, <1>10

\* It keeps the invariant.
LEMMA PushLockStep ==
    ASSUME ProfilerInv, NEW t \in Callers, NEW l \in Locks, PushLock(t, l)
    PROVE  ProfilerInv'
<1> DEFINE lockId == IdOf(nameToId', l)
           n == Len(stack[t])
<1>1. /\ history \subseteq history'
      /\ history' \subseteq (0..(Len(nameToId') - 1)) \X (0..(Len(nameToId') - 1))
      /\ \/ crash' = "DEADLOCK_DETECTED" /\ stack' = stack /\ Cyclic(history', Ids)
         \/ /\ crash' = "no" /\ ~Cyclic(history', Ids)
            /\ stack' = [stack EXCEPT ![t] = Append(@, lockId)]
            /\ \/ stack[t] = <<>> \/ stack[t][n] = lockId \/ <<stack[t][n], lockId>> \in history'
  BY PushLockOrders
<1>2. ProfilerTypeOK /\ NamesInv /\ CycleIsFound /\ StackInv /\ RecordedInv /\ ExclusiveInv /\ crash = "no"
  BY DEF ProfilerInv, PushLock
<1>3. /\ nameToId' \in Seq(Names) /\ Len(nameToId) <= Len(nameToId')
      /\ Len(nameToId') <= Cardinality(Names)
      /\ \A i \in 1..Len(nameToId) : nameToId'[i] = nameToId[i]
      /\ \A i, j \in 1..Len(nameToId') : nameToId'[i] = nameToId'[j] => i = j
      /\ lockId \in 0..(Len(nameToId') - 1) /\ nameToId'[lockId + 1] = NameOf[l]
  BY <1>2, PushLockNames
<1> HIDE DEF lockId
<1>4. want[t] = NoLock /\ ~leaving[t] /\ want' = [want EXCEPT ![t] = l] /\ guards' = guards
      /\ leaving' = leaving
  BY DEF PushLock
<1>5. /\ nameToId \in Seq(Names) /\ stack \in [Callers -> Seq(Ids)] /\ guards \in [Callers -> Seq(Locks)]
      /\ want \in [Callers -> Locks \union {NoLock}] /\ leaving \in [Callers -> BOOLEAN]
      /\ Len(nameToId) \in Nat /\ Len(nameToId') \in Nat
  BY <1>2, <1>3 DEF ProfilerTypeOK
<1>6. 0..(Len(nameToId') - 1) \subseteq Ids
  BY <1>3, <1>5, NamesFinite DEF Ids
<1>7. ProfilerTypeOK'
  <2>1. history' \subseteq Ids \X Ids
    BY <1>1, <1>6
  <2>2. stack' \in [Callers -> Seq(Ids)]
    <3>0. lockId \in Ids /\ stack[t] \in Seq(Ids)
      BY <1>3, <1>5, <1>6
    <3>1. Append(stack[t], lockId) \in Seq(Ids)
      BY <3>0
    <3> QED
      BY <1>1, <1>5, <3>1
  <2>3. want' \in [Callers -> Locks \union {NoLock}]
    BY <1>4, <1>5
  <2> QED
    BY <1>1, <1>3, <1>4, <1>5, <2>1, <2>2, <2>3 DEF ProfilerTypeOK
<1>8. NamesInv' /\ CycleIsFound'
  <2>1. NamesInv'
    BY <1>1, <1>3 DEF NamesInv
  <2>2. CycleIsFound'
    BY <1>1 DEF CycleIsFound, Ids, Names
  <2> QED
    BY <2>1, <2>2
<1>9. ASSUME crash' = "no" PROVE StackInv' /\ RecordedInv' /\ ExclusiveInv'
  <2>0. /\ stack' = [stack EXCEPT ![t] = Append(@, lockId)]
        /\ \/ stack[t] = <<>> \/ stack[t][n] = lockId \/ <<stack[t][n], lockId>> \in history'
    BY <1>1, <1>9
  <2>1. /\ stack'[t] = Append(stack[t], lockId) /\ Len(stack'[t]) = n + 1 /\ n \in Nat
        /\ stack'[t][n + 1] = lockId /\ \A i \in 1..n : stack'[t][i] = stack[t][i]
        /\ \A u \in Callers \ {t} : stack'[u] = stack[u]
    BY <1>3, <1>5, <1>6, <2>0
  <2>2. l # NoLock /\ want'[t] = l /\ \A u \in Callers \ {t} : want'[u] = want[u]
    BY <1>4, <1>5, LocksAssumption
  <2>3. /\ \A u \in Callers \ {t} : Nested(u)' = Nested(u)
        /\ Nested(t) = guards[t] /\ Nested(t)' = Append(guards[t], l)
    BY <1>4, <2>2 DEF Nested
  <2>4. ASSUME NEW u \in Callers, NEW i \in 1..Len(stack[u])
        PROVE  /\ stack[u][i] \in 0..(Len(nameToId') - 1)
               /\ nameToId'[stack[u][i] + 1] = NameOf[Nested(u)[i]]
    <3>1. stack[u][i] \in 0..(Len(nameToId) - 1) /\ nameToId[stack[u][i] + 1] = NameOf[Nested(u)[i]]
      BY <1>2 DEF StackInv
    <3>2. stack[u][i] \in 0..(Len(nameToId') - 1) /\ stack[u][i] + 1 \in 1..Len(nameToId)
      BY <1>3, <1>5, <3>1
    <3>3. nameToId'[stack[u][i] + 1] = nameToId[stack[u][i] + 1]
      BY <1>3, <3>2
    <3> QED
      BY <3>1, <3>2, <3>3
  <2>5. StackInv'
    <3> SUFFICES ASSUME NEW u \in Callers
                 PROVE  /\ Len(stack'[u]) = Len(Nested(u)')
                        /\ \A i \in 1..Len(stack'[u]) :
                               /\ stack'[u][i] \in 0..(Len(nameToId') - 1)
                               /\ nameToId'[stack'[u][i] + 1] = NameOf[Nested(u)'[i]]
      BY DEF StackInv
    <3>1. CASE u # t
      <4>1. stack'[u] = stack[u] /\ Nested(u)' = Nested(u)
        BY <2>1, <2>3, <3>1
      <4>2. Len(stack[u]) = Len(Nested(u))
        BY <1>2 DEF StackInv
      <4> QED
        BY <2>4, <4>1, <4>2
    <3>2. CASE u = t
      <4>1. Len(guards[t]) = n /\ guards[t] \in Seq(Locks)
        BY <1>2, <1>5, <2>3 DEF StackInv
      <4>2. /\ Nested(t)'[n + 1] = l /\ Len(Nested(t)') = n + 1
            /\ \A i \in 1..n : Nested(t)'[i] = Nested(t)[i]
        BY <2>3, <4>1
      <4>3. ASSUME NEW i \in 1..(n + 1)
            PROVE  /\ stack'[t][i] \in 0..(Len(nameToId') - 1)
                   /\ nameToId'[stack'[t][i] + 1] = NameOf[Nested(t)'[i]]
        <5>1. CASE i = n + 1
          BY <1>3, <2>1, <4>2, <5>1
        <5>2. CASE i # n + 1
          <6>1. i \in 1..Len(stack[t])
            BY <2>1, <5>2
          <6> QED
            BY <2>1, <2>4, <4>2, <6>1
        <5> QED
          BY <5>1, <5>2
      <4> QED
        BY <2>1, <3>2, <4>2, <4>3
    <3> QED
      BY <3>1, <3>2
  <2>6. RecordedInv'
    <3> SUFFICES ASSUME NEW u \in Callers, NEW i \in 1..(Len(stack'[u]) - 1)
                 PROVE  \/ stack'[u][i] = stack'[u][i + 1]
                        \/ <<stack'[u][i], stack'[u][i + 1]>> \in history'
      BY DEF RecordedInv
    <3>1. \A v \in Callers : \A k \in 1..(Len(stack[v]) - 1) :
              stack[v][k] = stack[v][k + 1] \/ <<stack[v][k], stack[v][k + 1]>> \in history'
      BY <1>1, <1>2 DEF RecordedInv
    <3>2. CASE u # t
      <4>1. stack'[u] = stack[u]
        BY <2>1, <3>2
      <4> QED
        BY <3>1, <4>1
    <3>3. CASE u = t /\ i = n
      <4>1. stack'[u][i] = stack[t][n] /\ stack'[u][i + 1] = lockId /\ stack[t] # <<>>
        BY <1>5, <2>1, <3>3
      <4> QED
        BY <2>0, <4>1
    <3>4. CASE u = t /\ i # n
      <4>1. i \in 1..(n - 1) /\ i \in 1..n /\ i + 1 \in 1..n
        BY <2>1, <3>4
      <4>2. stack'[u][i] = stack[t][i] /\ stack'[u][i + 1] = stack[t][i + 1]
        BY <2>1, <3>4, <4>1
      <4> QED
        BY <3>1, <4>1, <4>2
    <3> QED
      BY <3>2, <3>3, <3>4
  <2>7. ExclusiveInv'
    <3>1. \A u \in Callers : leaving[u] => u # t
      BY <1>4
    <3> QED
      BY <1>2, <1>4, <2>2, <3>1 DEF ExclusiveInv
  <2> QED
    BY <2>5, <2>6, <2>7
<1> QED
  BY <1>7, <1>8, <1>9 DEF ProfilerInv
\* Taking the lock keeps it: the spin loop ends only when no other thread has it.
LEMMA WriteLockStep ==
    ASSUME ProfilerInv, NEW t \in Callers, Acquire(t)
    PROVE  ProfilerInv'
<1>1. /\ ProfilerTypeOK /\ NamesInv /\ CycleIsFound /\ StackInv /\ RecordedInv /\ ExclusiveInv
      /\ crash = "no" /\ want[t] # NoLock
      /\ \A u \in Callers \ {t} : want[t] \notin ToSet(guards[u])
      /\ guards' = [guards EXCEPT ![t] = Append(@, want[t])]
      /\ want' = [want EXCEPT ![t] = NoLock]
      /\ nameToId' = nameToId /\ history' = history /\ stack' = stack /\ leaving' = leaving /\ crash' = crash
  BY DEF ProfilerInv, Acquire
<1>2. /\ guards \in [Callers -> Seq(Locks)] /\ want \in [Callers -> Locks \union {NoLock}]
      /\ guards[t] \in Seq(Locks) /\ want[t] \in Locks /\ ~leaving[t] /\ leaving \in [Callers -> BOOLEAN]
  BY <1>1 DEF ProfilerTypeOK, ExclusiveInv
<1>3. /\ guards'[t] = Append(guards[t], want[t]) /\ want'[t] = NoLock
      /\ \A u \in Callers \ {t} : guards'[u] = guards[u] /\ want'[u] = want[u]
  BY <1>1, <1>2
<1>4. ProfilerTypeOK'
  <2>1. Append(guards[t], want[t]) \in Seq(Locks)
    BY <1>2
  <2>2. guards' \in [Callers -> Seq(Locks)] /\ want' \in [Callers -> Locks \union {NoLock}]
    BY <1>1, <1>2, <2>1
  <2> QED
    BY <1>1, <2>2 DEF ProfilerTypeOK
<1>5. NamesInv' /\ CycleIsFound' /\ RecordedInv'
  BY <1>1 DEF NamesInv, CycleIsFound, RecordedInv
<1>6. \A u \in Callers : Nested(u)' = Nested(u)
  BY <1>1, <1>2, <1>3 DEF Nested
<1>7. StackInv'
  BY <1>1, <1>6 DEF StackInv
<1>8. ExclusiveInv'
  <2>1. ASSUME NEW u \in Callers, NEW v \in Callers, u # v,
               NEW i \in 1..Len(guards'[u]), NEW j \in 1..Len(guards'[v])
        PROVE  guards'[u][i] # guards'[v][j]
    <3>1. /\ Len(guards'[t]) = Len(guards[t]) + 1 /\ Len(guards[t]) \in Nat
          /\ guards'[t][Len(guards[t]) + 1] = want[t]
          /\ \A k \in 1..Len(guards[t]) : guards'[t][k] = guards[t][k]
      BY <1>2, <1>3
    <3>2. \A w \in Callers \ {t} : \A k \in 1..Len(guards[w]) : guards[w][k] # want[t]
      BY <1>1, <1>2 DEF ToSet
    <3>3. \A w \in Callers \ {t} : \A k \in 1..Len(guards[w]) : \A m \in 1..Len(guards[t]) :
              guards[w][k] # guards[t][m]
      BY <1>1 DEF ExclusiveInv
    <3>4. \A w \in Callers \ {t} : \A k \in 1..Len(guards[w]) : \A m \in 1..Len(guards'[t]) :
              guards[w][k] # guards'[t][m]
      <4> SUFFICES ASSUME NEW w \in Callers \ {t}, NEW k \in 1..Len(guards[w]), NEW m \in 1..Len(guards'[t])
                   PROVE  guards[w][k] # guards'[t][m]
        OBVIOUS
      <4>1. m = Len(guards[t]) + 1 \/ m \in 1..Len(guards[t])
        BY <3>1
      <4> QED
        BY <3>1, <3>2, <3>3, <4>1
    <3>5. CASE u = t
      <4>1. v \in Callers \ {t} /\ guards'[v] = guards[v] /\ j \in 1..Len(guards[v])
        BY <1>3, <2>1, <3>5
      <4>2. i \in 1..Len(guards'[t])
        BY <3>5
      <4>3. guards[v][j] # guards'[t][i]
        BY <3>4, <4>1, <4>2
      <4> QED
        BY <3>5, <4>1, <4>3
    <3>6. CASE v = t
      <4>1. u \in Callers \ {t} /\ guards'[u] = guards[u] /\ i \in 1..Len(guards[u])
        BY <1>3, <2>1, <3>6
      <4>2. j \in 1..Len(guards'[t])
        BY <3>6
      <4>3. guards[u][i] # guards'[t][j]
        BY <3>4, <4>1, <4>2
      <4> QED
        BY <3>6, <4>1, <4>3
    <3>7. CASE u # t /\ v # t
      <4>1. guards'[u] = guards[u] /\ guards'[v] = guards[v]
        BY <1>3, <3>7
      <4>2. i \in 1..Len(guards[u]) /\ j \in 1..Len(guards[v])
        BY <4>1
      <4>3. guards[u][i] # guards[v][j]
        BY <1>1, <2>1, <4>2 DEF ExclusiveInv
      <4> QED
        BY <4>1, <4>3
    <3> QED
      BY <3>5, <3>6, <3>7
  <2>2. \A u \in Callers : leaving'[u] => want'[u] = NoLock /\ guards'[u] # <<>>
    <3>1. \A u \in Callers : leaving[u] => u # t
      BY <1>2
    <3> QED
      BY <1>1, <1>3, <3>1 DEF ExclusiveInv
  <2> QED
    BY <2>1, <2>2 DEF ExclusiveInv
<1> QED
  BY <1>1, <1>4, <1>5, <1>7, <1>8 DEF ProfilerInv

\* What the lock stack of a thread ends in when it begins to give a lock up: the
\* id of that lock, so PopLock finds nothing wrong.
LEMMA PopLockFinds ==
    ASSUME ProfilerInv, crash = "no", NEW t \in Callers, want[t] = NoLock, ~leaving[t], guards[t] # <<>>
    PROVE  /\ stack[t] # <<>> /\ Len(stack[t]) = Len(guards[t])
           /\ Last(stack[t]) = IdOf(nameToId, Last(guards[t]))
<1> DEFINE n == Len(guards[t])
<1>1. ProfilerTypeOK /\ NamesInv /\ StackInv
  BY DEF ProfilerInv
<1>2. guards[t] \in Seq(Locks) /\ stack[t] \in Seq(Ids) /\ nameToId \in Seq(Names) /\ Len(nameToId) \in Nat
  BY <1>1 DEF ProfilerTypeOK
<1>3. n \in Nat /\ n \in 1..n /\ n - 1 \in Nat
  BY <1>2
<1>4. Nested(t) = guards[t]
  BY DEF Nested
<1>5. /\ Len(stack[t]) = n
      /\ stack[t][n] \in 0..(Len(nameToId) - 1)
      /\ nameToId[stack[t][n] + 1] = NameOf[guards[t][n]]
  BY <1>1, <1>3, <1>4 DEF StackInv
<1>6. Last(guards[t]) = guards[t][n] /\ Last(stack[t]) = stack[t][n]
  BY <1>5 DEF Last
<1>7. stack[t][n] + 1 \in 1..Len(nameToId)
  BY <1>2, <1>5
<1> DEFINE k == IdOf(nameToId, guards[t][n])
<1>8. k \in 0..(Len(nameToId) - 1) /\ nameToId[k + 1] = NameOf[guards[t][n]]
  <2>1. \E i \in 1..Len(nameToId) : nameToId[i] = NameOf[guards[t][n]]
    BY <1>5, <1>7
  <2> QED
    BY <1>2, <2>1, IdOfIs
<1> HIDE DEF k
<1>9. k + 1 \in 1..Len(nameToId)
  BY <1>2, <1>8
<1>10. k + 1 = stack[t][n] + 1
  BY <1>1, <1>5, <1>7, <1>8, <1>9 DEF NamesInv
<1>11. k = stack[t][n]
  BY <1>5, <1>8, <1>10
<1> QED
  BY <1>2, <1>3, <1>5, <1>6, <1>11 DEF k

\* PopLock takes the innermost id off the stack.
LEMMA PopLockStep ==
    ASSUME ProfilerInv, NEW t \in Callers, PopLock(t)
    PROVE  ProfilerInv'
<1> DEFINE n == Len(guards[t])
<1>1. /\ ProfilerTypeOK /\ NamesInv /\ CycleIsFound /\ StackInv /\ RecordedInv /\ ExclusiveInv
      /\ crash = "no" /\ want[t] = NoLock /\ ~leaving[t] /\ guards[t] # <<>>
      /\ nameToId' = nameToId /\ history' = history /\ want' = want /\ guards' = guards
  BY DEF ProfilerInv, PopLock
<1>2. /\ stack[t] # <<>> /\ Len(stack[t]) = n
      /\ Last(stack[t]) = IdOf(nameToId, Last(guards[t]))
  BY <1>1, PopLockFinds
<1>3. /\ stack' = [stack EXCEPT ![t] = Front(@)]
      /\ leaving' = [leaving EXCEPT ![t] = TRUE] /\ crash' = crash
  BY <1>2 DEF PopLock
<1>4. /\ stack \in [Callers -> Seq(Ids)] /\ stack[t] \in Seq(Ids) /\ guards[t] \in Seq(Locks)
      /\ leaving \in [Callers -> BOOLEAN]
  BY <1>1 DEF ProfilerTypeOK
<1>5. n \in Nat /\ n - 1 \in Nat
  BY <1>1, <1>4
<1>6. Front(stack[t]) = SubSeq(stack[t], 1, n - 1)
  BY <1>2 DEF Front
<1>7. /\ Front(stack[t]) \in Seq(Ids) /\ Len(Front(stack[t])) = n - 1
      /\ \A i \in 1..(n - 1) : Front(stack[t])[i] = stack[t][i]
  BY <1>2, <1>4, <1>5, <1>6
<1>8. /\ stack'[t] = Front(stack[t]) /\ leaving'[t] = TRUE
      /\ \A u \in Callers \ {t} : stack'[u] = stack[u] /\ leaving'[u] = leaving[u]
  BY <1>3, <1>4
<1>9. ProfilerTypeOK'
  <2>1. stack' \in [Callers -> Seq(Ids)] /\ leaving' \in [Callers -> BOOLEAN]
    BY <1>3, <1>4, <1>7
  <2> QED
    BY <1>1, <1>3, <2>1 DEF ProfilerTypeOK
<1>10. NamesInv' /\ CycleIsFound'
  BY <1>1, <1>3 DEF NamesInv, CycleIsFound
<1>11. StackInv'
  <2> SUFFICES ASSUME NEW u \in Callers
               PROVE  /\ Len(stack'[u]) = Len(Nested(u)')
                      /\ \A i \in 1..Len(stack'[u]) :
                             /\ stack'[u][i] \in 0..(Len(nameToId) - 1)
                             /\ nameToId[stack'[u][i] + 1] = NameOf[Nested(u)'[i]]
    BY <1>1 DEF StackInv
  <2>1. CASE u # t
    <3>1. Nested(u)' = Nested(u) /\ stack'[u] = stack[u]
      BY <1>1, <1>8, <2>1 DEF Nested
    <3> QED
      BY <1>1, <3>1 DEF StackInv
  <2>2. CASE u = t
    <3>1. Nested(t)' = SubSeq(guards[t], 1, n - 1) /\ Nested(t) = guards[t]
      BY <1>1, <1>8 DEF Nested
    <3>2. Len(Nested(t)') = n - 1 /\ \A i \in 1..(n - 1) : Nested(t)'[i] = guards[t][i]
      BY <1>4, <1>5, <3>1
    <3>3. \A i \in 1..n : /\ stack[t][i] \in 0..(Len(nameToId) - 1)
                          /\ nameToId[stack[t][i] + 1] = NameOf[guards[t][i]]
      BY <1>1, <1>2, <3>1 DEF StackInv
    <3>4. \A i \in 1..(n - 1) : i \in 1..n
      BY <1>5
    <3>5. \A i \in 1..(n - 1) : stack'[t][i] = stack[t][i]
      BY <1>7, <1>8
    <3> HIDE DEF n
    <3>6. ASSUME NEW i \in 1..(n - 1)
          PROVE  /\ stack'[t][i] \in 0..(Len(nameToId) - 1)
                 /\ nameToId[stack'[t][i] + 1] = NameOf[Nested(t)'[i]]
      <4>1. stack'[t][i] = stack[t][i] /\ Nested(t)'[i] = guards[t][i] /\ i \in 1..n
        BY <3>2, <3>4, <3>5
      <4> QED
        BY <3>3, <4>1
    <3>7. Len(stack'[t]) = n - 1
      BY <1>7, <1>8
    <3> QED
      BY <2>2, <3>2, <3>6, <3>7
  <2> QED
    BY <2>1, <2>2
<1>12. RecordedInv'
  <2> SUFFICES ASSUME NEW u \in Callers, NEW i \in 1..(Len(stack'[u]) - 1)
               PROVE  \/ stack'[u][i] = stack'[u][i + 1]
                      \/ <<stack'[u][i], stack'[u][i + 1]>> \in history
    BY <1>1 DEF RecordedInv
  <2>1. CASE u # t
    <3>1. stack'[u] = stack[u]
      BY <1>8, <2>1
    <3> QED
      BY <1>1, <3>1 DEF RecordedInv
  <2>2. CASE u = t
    <3>1. i \in 1..(n - 1) /\ i + 1 \in 1..(n - 1)
      BY <1>5, <1>7, <1>8, <2>2
    <3>2. stack'[u][i] = stack[t][i] /\ stack'[u][i + 1] = stack[t][i + 1]
      BY <1>7, <1>8, <2>2, <3>1
    <3> QED
      BY <1>1, <1>2, <3>1, <3>2 DEF RecordedInv
  <2> QED
    BY <2>1, <2>2
<1>13. ExclusiveInv'
  BY <1>1, <1>8 DEF ExclusiveInv
<1> QED
  BY <1>1, <1>3, <1>9, <1>10, <1>11, <1>12, <1>13 DEF ProfilerInv

\* Giving the lock up leaves what stands on the stack.
LEMMA WriteUnlockStep ==
    ASSUME ProfilerInv, NEW t \in Callers, Release(t)
    PROVE  ProfilerInv'
<1> DEFINE n == Len(guards[t])
<1>1. /\ ProfilerTypeOK /\ NamesInv /\ CycleIsFound /\ StackInv /\ RecordedInv /\ ExclusiveInv
      /\ crash = "no" /\ leaving[t] /\ crash' = crash
      /\ guards' = [guards EXCEPT ![t] = Front(@)] /\ leaving' = [leaving EXCEPT ![t] = FALSE]
      /\ nameToId' = nameToId /\ history' = history /\ want' = want /\ stack' = stack
  BY DEF ProfilerInv, Release
<1>2. /\ guards \in [Callers -> Seq(Locks)] /\ guards[t] \in Seq(Locks) /\ leaving \in [Callers -> BOOLEAN]
      /\ want[t] = NoLock /\ guards[t] # <<>>
  BY <1>1 DEF ProfilerTypeOK, ExclusiveInv
<1>3. n \in Nat /\ n - 1 \in Nat
  BY <1>2
<1>4. Front(guards[t]) = SubSeq(guards[t], 1, n - 1)
  BY DEF Front
<1>5. /\ Front(guards[t]) \in Seq(Locks) /\ Len(Front(guards[t])) = n - 1
      /\ \A i \in 1..(n - 1) : Front(guards[t])[i] = guards[t][i]
  <2> DEFINE g == guards[t]
  <2>1. g \in Seq(Locks) /\ n = Len(g)
    BY <1>2
  <2> HIDE DEF g, n
  <2>2. /\ SubSeq(g, 1, n - 1) \in Seq(Locks) /\ Len(SubSeq(g, 1, n - 1)) = n - 1
        /\ \A i \in 1..(n - 1) : SubSeq(g, 1, n - 1)[i] = g[i]
    BY <1>3, <2>1
  <2> QED
    BY <1>4, <2>2 DEF g
<1>6. /\ guards'[t] = Front(guards[t]) /\ leaving'[t] = FALSE
      /\ \A u \in Callers \ {t} : guards'[u] = guards[u] /\ leaving'[u] = leaving[u]
  BY <1>1, <1>2
<1>7. ProfilerTypeOK'
  <2>1. guards' \in [Callers -> Seq(Locks)] /\ leaving' \in [Callers -> BOOLEAN]
    BY <1>1, <1>2, <1>5
  <2> QED
    BY <1>1, <2>1 DEF ProfilerTypeOK
<1>8. NamesInv' /\ CycleIsFound' /\ RecordedInv'
  BY <1>1 DEF NamesInv, CycleIsFound, RecordedInv
<1>9. StackInv'
  <2>1. \A u \in Callers : Nested(u)' = Nested(u)
    <3> SUFFICES ASSUME NEW u \in Callers PROVE Nested(u)' = Nested(u)
      OBVIOUS
    <3>1. CASE u = t
      BY <1>1, <1>2, <1>4, <1>6, <3>1 DEF Nested
    <3>2. CASE u # t
      BY <1>1, <1>6, <3>2 DEF Nested
    <3> QED
      BY <3>1, <3>2
  <2> QED
    BY <1>1, <2>1 DEF StackInv
<1>10. ExclusiveInv'
  <2>1. \A u \in Callers : \A i \in 1..Len(guards'[u]) :
            i \in 1..Len(guards[u]) /\ guards'[u][i] = guards[u][i]
    <3> SUFFICES ASSUME NEW u \in Callers, NEW i \in 1..Len(guards'[u])
                 PROVE  i \in 1..Len(guards[u]) /\ guards'[u][i] = guards[u][i]
      OBVIOUS
    <3>1. CASE u = t
      BY <1>3, <1>5, <1>6, <3>1
    <3>2. CASE u # t
      BY <1>6, <3>2
    <3> QED
      BY <3>1, <3>2
  <2>2. ASSUME NEW u \in Callers, NEW v \in Callers, u # v,
               NEW i \in 1..Len(guards'[u]), NEW j \in 1..Len(guards'[v])
        PROVE  guards'[u][i] # guards'[v][j]
    <3>1. i \in 1..Len(guards[u]) /\ guards'[u][i] = guards[u][i]
      BY <2>1
    <3>2. j \in 1..Len(guards[v]) /\ guards'[v][j] = guards[v][j]
      BY <2>1
    <3> QED
      BY <1>1, <2>2, <3>1, <3>2 DEF ExclusiveInv
  <2>3. \A u \in Callers : leaving'[u] => want'[u] = NoLock /\ guards'[u] # <<>>
    BY <1>1, <1>6 DEF ExclusiveInv
  <2> QED
    BY <2>2, <2>3 DEF ExclusiveInv
<1> QED
  BY <1>1, <1>7, <1>8, <1>9, <1>10 DEF ProfilerInv

\* All of it holds in every state that can be reached.
LEMMA ProfilerInvariant == ProfilerSpec => []ProfilerInv
<1>1. ProfilerInit => ProfilerInv
  <2> SUFFICES ASSUME ProfilerInit PROVE ProfilerInv
    OBVIOUS
  <2>1. /\ nameToId = <<>> /\ history = {} /\ crash = "no"
        /\ stack = [t \in Callers |-> <<>>] /\ want = [t \in Callers |-> NoLock]
        /\ guards = [t \in Callers |-> <<>>] /\ leaving = [t \in Callers |-> FALSE]
    BY DEF ProfilerInit
  <2>2. ProfilerTypeOK
    BY <2>1, NamesFinite DEF ProfilerTypeOK
  <2>3. NamesInv /\ CycleIsFound
    BY <2>1 DEF NamesInv, CycleIsFound, Cyclic
  <2>4. StackInv
    <3>1. \A t \in Callers : Nested(t) = <<>> /\ stack[t] = <<>>
      BY <2>1 DEF Nested
    <3> QED
      BY <3>1 DEF StackInv
  <2>5. RecordedInv /\ ExclusiveInv
    BY <2>1 DEF RecordedInv, ExclusiveInv
  <2> QED
    BY <2>2, <2>3, <2>4, <2>5 DEF ProfilerInv
<1>2. ProfilerInv /\ [ProfilerNext]_profilerVars => ProfilerInv'
  <2> SUFFICES ASSUME ProfilerInv, [ProfilerNext]_profilerVars PROVE ProfilerInv'
    OBVIOUS
  <2>1. ASSUME NEW t \in Callers, NEW l \in Locks, PushLock(t, l) PROVE ProfilerInv'
    BY <2>1, PushLockStep
  <2>2. ASSUME NEW t \in Callers, Acquire(t) PROVE ProfilerInv'
    BY <2>2, WriteLockStep
  <2>3. ASSUME NEW t \in Callers, PopLock(t) PROVE ProfilerInv'
    BY <2>3, PopLockStep
  <2>4. ASSUME NEW t \in Callers, Release(t) PROVE ProfilerInv'
    BY <2>4, WriteUnlockStep
  <2>5. CASE UNCHANGED profilerVars
    <3>1. /\ nameToId' = nameToId /\ history' = history /\ stack' = stack /\ want' = want
          /\ guards' = guards /\ leaving' = leaving /\ crash' = crash
      BY <2>5 DEF profilerVars
    <3>2. ProfilerTypeOK' = ProfilerTypeOK
      BY <3>1 DEF ProfilerTypeOK
    <3>3. NamesInv' = NamesInv /\ CycleIsFound' = CycleIsFound
      BY <3>1 DEF NamesInv, CycleIsFound
    <3>4. StackInv' = StackInv
      BY <3>1 DEF StackInv, Nested
    <3>5. RecordedInv' = RecordedInv /\ ExclusiveInv' = ExclusiveInv
      BY <3>1 DEF RecordedInv, ExclusiveInv
    <3> QED
      BY <3>1, <3>2, <3>3, <3>4, <3>5 DEF ProfilerInv
  <2> QED
    BY <2>1, <2>2, <2>3, <2>4, <2>5 DEF ProfilerNext
<1> QED
  BY <1>1, <1>2, PTL DEF ProfilerSpec

\* The variables of PushLock, PopLock and of the locks they watch keep their types
\* (DeadLockProfiler.cpp, Lock.cpp WriteLock and WriteUnlock).
THEOREM ProfilerTypeCorrect == ProfilerSpec => []ProfilerTypeOK
<1>1. ProfilerInv => ProfilerTypeOK
  BY DEF ProfilerInv
<1> QED
  BY <1>1, ProfilerInvariant, PTL

\* The profiler ends the program exactly when the orders recorded so far have a
\* cycle, and PopLock never finds a stack it does not expect (DeadLockProfiler.cpp
\* 27-58).
THEOREM CycleFound == ProfilerSpec => []CycleIsFound
<1>1. ProfilerInv => CycleIsFound
  BY DEF ProfilerInv
<1> QED
  BY <1>1, ProfilerInvariant, PTL
\* A sequence that does not end in what it has at j steps off that value after j.
LEMMA StepsOff ==
    ASSUME NEW S, NEW s \in Seq(S), NEW j \in 1..Len(s), s[j] # s[Len(s)]
    PROVE  \E k \in j..(Len(s) - 1) : s[k] = s[j] /\ s[k + 1] # s[j]
<1> SUFFICES ASSUME \A k \in j..(Len(s) - 1) : s[k] = s[j] => s[k + 1] = s[j] PROVE FALSE
  OBVIOUS
<1> DEFINE G == {m \in Nat : j + m <= Len(s) => s[j + m] = s[j]}
<1>1. j \in Nat /\ Len(s) \in Nat /\ j <= Len(s) /\ 1 <= j
  OBVIOUS
<1>2. 0 \in G
  BY <1>1
<1>3. ASSUME NEW m \in G PROVE m + 1 \in G
  <2>1. m \in Nat
    OBVIOUS
  <2>2. ASSUME j + (m + 1) <= Len(s) PROVE s[j + (m + 1)] = s[j]
    <3>1. j + m \in j..(Len(s) - 1) /\ j + m <= Len(s) /\ j + (m + 1) = (j + m) + 1
      BY <1>1, <2>1, <2>2
    <3>2. s[j + m] = s[j]
      BY <3>1
    <3> QED
      BY <3>1, <3>2
  <2> QED
    BY <2>1, <2>2
<1>4. G \in SUBSET Nat
  OBVIOUS
<1> HIDE DEF G
<1>5. G = Nat
  BY <1>2, <1>3, <1>4, InductNat
<1>6. Len(s) - j \in G
  BY <1>1, <1>5
<1>7. j + (Len(s) - j) = Len(s)
  BY <1>1
<1> QED
  BY <1>1, <1>6, <1>7 DEF G

\* An id below the top of a lock stack is followed by one on that stack.
LEMMA BelowTopIsFollowed ==
    ASSUME ProfilerInv, crash = "no", NEW u \in Callers, NEW j \in 1..Len(stack[u]),
           stack[u][j] # stack[u][Len(stack[u])]
    PROVE  \E k \in 1..Len(stack[u]) : <<stack[u][j], stack[u][k]>> \in history
<1>1. stack[u] \in Seq(Ids) /\ Len(stack[u]) \in Nat /\ RecordedInv
  BY DEF ProfilerInv, ProfilerTypeOK
<1>2. PICK k \in j..(Len(stack[u]) - 1) :
          stack[u][k] = stack[u][j] /\ stack[u][k + 1] # stack[u][j]
  BY <1>1, StepsOff
<1>3. k \in 1..(Len(stack[u]) - 1) /\ k + 1 \in 1..Len(stack[u])
  BY <1>1
<1>4. <<stack[u][k], stack[u][k + 1]>> \in history
  BY <1>1, <1>2, <1>3 DEF RecordedInv
<1> QED
  BY <1>2, <1>3, <1>4

\* The lock stack of a thread that asks for a lock: the locks it holds, and that one.
LEMMA StackOfWaiting ==
    ASSUME ProfilerInv, crash = "no", NEW u \in Callers, want[u] # NoLock
    PROVE  /\ Len(stack[u]) = Len(guards[u]) + 1 /\ Len(guards[u]) \in Nat
           /\ \A i \in 1..Len(guards[u]) : stack[u][i] + 1 \in 1..Len(nameToId)
                                       /\ nameToId[stack[u][i] + 1] = NameOf[guards[u][i]]
           /\ stack[u][Len(stack[u])] + 1 \in 1..Len(nameToId)
           /\ nameToId[stack[u][Len(stack[u])] + 1] = NameOf[want[u]]
           /\ \A i \in 1..Len(stack[u]) : stack[u][i] \in Ids
<1> DEFINE n == Len(guards[u])
<1>1. ProfilerTypeOK /\ StackInv
  BY DEF ProfilerInv
<1>2. /\ guards[u] \in Seq(Locks) /\ want[u] \in Locks /\ stack[u] \in Seq(Ids)
      /\ nameToId \in Seq(Names) /\ Len(nameToId) \in Nat
  BY <1>1 DEF ProfilerTypeOK
<1>3. Nested(u) = Append(guards[u], want[u])
  BY DEF Nested
<1>4. /\ n \in Nat /\ Len(Nested(u)) = n + 1 /\ Nested(u)[n + 1] = want[u]
      /\ \A i \in 1..n : Nested(u)[i] = guards[u][i]
  BY <1>2, <1>3
<1>5. Len(stack[u]) = n + 1
  BY <1>1, <1>4 DEF StackInv
<1>6. \A i \in 1..(n + 1) : /\ stack[u][i] \in 0..(Len(nameToId) - 1)
                            /\ nameToId[stack[u][i] + 1] = NameOf[Nested(u)[i]]
  BY <1>1, <1>5 DEF StackInv
<1> HIDE DEF n
<1>7. \A i \in 1..(n + 1) : stack[u][i] + 1 \in 1..Len(nameToId)
  BY <1>2, <1>6
<1>8. (\A i \in 1..n : i \in 1..(n + 1)) /\ n + 1 \in 1..(n + 1)
  BY <1>4
<1>9. /\ \A i \in 1..n : stack[u][i] + 1 \in 1..Len(nameToId) /\ nameToId[stack[u][i] + 1] = NameOf[guards[u][i]]
      /\ stack[u][n + 1] + 1 \in 1..Len(nameToId) /\ nameToId[stack[u][n + 1] + 1] = NameOf[want[u]]
  BY <1>4, <1>6, <1>7, <1>8
<1>10. \A i \in 1..Len(stack[u]) : stack[u][i] \in Ids
  BY <1>2
<1> QED
  BY <1>4, <1>5, <1>9, <1>10 DEF n

\* The ids on the lock stacks of deadlocked threads whose locks have names of
\* their own are on a cycle.
LEMMA DeadlockIsCycle ==
    ASSUME ProfilerInv, crash = "no", NEW D \in SUBSET Callers, Deadlocked(D),
           \A k, l \in LocksOf(D) : NameOf[k] = NameOf[l] => k = l
    PROVE  Cyclic(history, Ids)
<1> DEFINE TopId(u) == stack[u][Len(stack[u])]
           X == {i \in Ids : \E u \in D : \E k \in 1..Len(stack[u]) : stack[u][k] = i}
<1>1. ProfilerTypeOK /\ NamesInv /\ ExclusiveInv
  BY DEF ProfilerInv
<1>2. \A u \in D : /\ Len(stack[u]) = Len(guards[u]) + 1 /\ Len(guards[u]) \in Nat
                   /\ \A i \in 1..Len(guards[u]) : /\ stack[u][i] + 1 \in 1..Len(nameToId)
                                                   /\ nameToId[stack[u][i] + 1] = NameOf[guards[u][i]]
                   /\ TopId(u) + 1 \in 1..Len(nameToId) /\ nameToId[TopId(u) + 1] = NameOf[want[u]]
                   /\ \A i \in 1..Len(stack[u]) : stack[u][i] \in Ids
  BY StackOfWaiting DEF Deadlocked
<1>3. \A u \in D : /\ want[u] \in LocksOf(D)
                   /\ \A i \in 1..Len(guards[u]) : guards[u][i] \in LocksOf(D)
  BY <1>1 DEF LocksOf, ToSet, ProfilerTypeOK
<1>4. \A u \in D : \E v \in D \ {u} : \E i \in 1..Len(guards[v]) : guards[v][i] = want[u]
  <2> SUFFICES ASSUME NEW u \in D
               PROVE  \E v \in D \ {u} : \E i \in 1..Len(guards[v]) : guards[v][i] = want[u]
    OBVIOUS
  <2>1. PICK v \in D \ {u} : want[u] \in ToSet(guards[v])
    BY DEF Deadlocked
  <2>2. guards[v] \in Seq(Locks)
    BY <1>1 DEF ProfilerTypeOK
  <2>3. \E i \in 1..Len(guards[v]) : guards[v][i] = want[u]
    BY <2>1, <2>2 DEF ToSet
  <2> QED
    BY <2>3
<1>5. Ids \subseteq Int
  BY DEF Ids
<1>6. ASSUME NEW u \in D, NEW k \in 1..Len(stack[u]), stack[u][k] # TopId(u)
      PROVE  \E y \in X : <<stack[u][k], y>> \in history
  <2>1. PICK m \in 1..Len(stack[u]) : <<stack[u][k], stack[u][m]>> \in history
    BY <1>6, BelowTopIsFollowed
  <2>2. stack[u][m] \in X
    BY <1>2
  <2> QED
    BY <2>1, <2>2
<1>7. ASSUME NEW u \in D PROVE \E y \in X : <<TopId(u), y>> \in history
  <2>1. PICK v \in D \ {u} : \E i \in 1..Len(guards[v]) : guards[v][i] = want[u]
    BY <1>4
  <2>2. PICK j \in 1..Len(guards[v]) : guards[v][j] = want[u]
    BY <2>1
  <2>3. j \in 1..Len(stack[v])
    BY <1>2
  <2>4. stack[v][j] = TopId(u)
    <3>1. /\ stack[v][j] + 1 \in 1..Len(nameToId) /\ TopId(u) + 1 \in 1..Len(nameToId)
          /\ nameToId[stack[v][j] + 1] = nameToId[TopId(u) + 1]
      BY <1>2, <2>2
    <3>2. stack[v][j] + 1 = TopId(u) + 1
      BY <1>1, <3>1 DEF NamesInv
    <3>3. stack[v][j] \in Int /\ TopId(u) \in Int
      <4>1. Len(stack[u]) \in 1..Len(stack[u])
        BY <1>2
      <4> QED
        BY <1>2, <1>5, <2>3, <4>1
    <3> HIDE DEF TopId
    <3> QED
      BY <3>2, <3>3
  <2>5. TopId(v) # TopId(u)
    <3> SUFFICES ASSUME TopId(v) = TopId(u) PROVE FALSE
      OBVIOUS
    <3>1. NameOf[want[v]] = NameOf[want[u]]
      BY <1>2
    <3>2. want[v] = want[u]
      BY <1>3, <3>1
    <3>3. PICK w \in D \ {v} : \E i \in 1..Len(guards[w]) : guards[w][i] = want[v]
      BY <1>4
    <3>4. PICK i \in 1..Len(guards[w]) : guards[w][i] = want[v]
      BY <3>3
    <3>5. guards[w][i] = guards[v][j] /\ w # v /\ w \in Callers /\ v \in Callers
      BY <2>2, <3>2, <3>4
    <3> QED
      BY <1>1, <3>5 DEF ExclusiveInv
  <2> HIDE DEF TopId, X
  <2>6. \E y \in X : <<stack[v][j], y>> \in history
    BY <1>6, <2>3, <2>4, <2>5
  <2> QED
    BY <2>4, <2>6
<1>8. X # {}
  <2>1. PICK u \in D : TRUE
    BY DEF Deadlocked
  <2>2. Len(stack[u]) \in 1..Len(stack[u])
    BY <1>2
  <2>3. TopId(u) \in X
    BY <1>2, <2>2
  <2> QED
    BY <2>3
<1>9. ASSUME NEW x \in X PROVE \E y \in X : <<x, y>> \in history
  <2>1. PICK u \in D : \E k \in 1..Len(stack[u]) : stack[u][k] = x
    OBVIOUS
  <2>2. PICK k \in 1..Len(stack[u]) : stack[u][k] = x
    BY <2>1
  <2> HIDE DEF TopId, X
  <2> QED
    BY <1>6, <1>7, <2>2
<1>10. X \in SUBSET Ids
  OBVIOUS
<1> HIDE DEF X
<1> QED
  BY <1>8, <1>9, <1>10 DEF Cyclic

\* Threads deadlock only after the profiler has ended the program, unless two of
\* their locks bear the same name, between which PushLock records no order
\* (DeadLockProfiler.cpp 32).
THEOREM DeadlockAnnounced == ProfilerSpec => []DeadlockIsAnnounced
<1>1. ProfilerInv => DeadlockIsAnnounced
  <2> SUFFICES ASSUME ProfilerInv, crash = "no", NEW D \in SUBSET Callers, Deadlocked(D)
               PROVE  \E k, l \in LocksOf(D) : k # l /\ NameOf[k] = NameOf[l]
    BY DEF DeadlockIsAnnounced
  <2>1. ~Cyclic(history, Ids)
    BY DEF ProfilerInv, CycleIsFound
  <2> QED
    BY <2>1, DeadlockIsCycle
<1> QED
  BY <1>1, ProfilerInvariant, PTL

===============================================================================
