------------------------------ MODULE RWLockSpec ------------------------------
(***************************************************************************)
(* What a reentrant readers/writer lock promises its callers, without      *)
(* saying how: the guards every thread holds, acquired and released in     *)
(* scope order.  RWSpinLock (Lock.cpp) is shown to implement it.           *)
(***************************************************************************)
EXTENDS Naturals, Sequences

CONSTANTS Threads   \* the threads that use the lock

VARIABLE held       \* held[t]: the guards t holds, innermost last

Guard == {"R", "W"}

\* t holds at least one guard of kind k.
Holds(t, k) == \E i \in DOMAIN held[t] : held[t][i] = k

\* A read guard excludes the write guards of the other threads.
AcquireRead(t) ==
    /\ \A u \in Threads \ {t} : ~Holds(u, "W")
    /\ held' = [held EXCEPT ![t] = Append(@, "R")]

\* A write guard excludes every guard of the other threads.
AcquireWrite(t) ==
    /\ \A u \in Threads \ {t} : held[u] = <<>>
    /\ held' = [held EXCEPT ![t] = Append(@, "W")]

\* Guards are scoped objects: the innermost one goes first.
Release(t) ==
    /\ held[t] # <<>>
    /\ held' = [held EXCEPT ![t] = SubSeq(@, 1, Len(@) - 1)]

Init == held = [t \in Threads |-> <<>>]

Next == \E t \in Threads : AcquireRead(t) \/ AcquireWrite(t) \/ Release(t)

Spec == Init /\ [][Next]_held

===============================================================================
