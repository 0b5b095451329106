-------------------------- MODULE MCDeadLockProfiler --------------------------
(* Small instances of DeadLockProfiler for TLC. *)
EXTENDS DeadLockProfiler, Relation

CONSTANTS t1, t2, t3, a, b, c, d

ThreeCallers == {t1, t2, t3}
FourLocks == {a, b, c, d}

\* Two of the locks belong to objects of the same class.
SharedName == [l \in FourLocks |->
                 IF l = a THEN "A" ELSE IF l = b THEN "B" ELSE "C"]

\* Cyclic is what the transitive closure calls a cycle, on all orders of three locks.
ASSUME CyclicIsNotIrreflexive ==
    \A edges \in SUBSET ((0..2) \X (0..2)) :
        Cyclic(edges, 0..2) <=>
            ~IsIrreflexive(TransitiveClosure([e \in (0..2) \X (0..2) |-> e \in edges], 0..2), 0..2)

CallerSymmetry == Permutations(ThreeCallers)

===============================================================================
