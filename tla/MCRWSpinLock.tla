----------------------------- MODULE MCRWSpinLock -----------------------------
(* Small instances of RWSpinLock for TLC. *)
EXTENDS RWSpinLock

TwoThreads == {1, 2}
ThreeThreads == {1, 2, 3}

===============================================================================
