----------------------------- MODULE MCSendBuffer -----------------------------
(* A small instance of SendBuffer for TLC. *)
EXTENDS SendBuffer, TLC

CONSTANTS t1, t2, c1, c2, c3

TwoThreads == {t1, t2}
ThreeChunks == {c1, c2, c3}

\* One byte, half a chunk, and more than a chunk.
PacketSizes == {1, 2, 4}

Symmetry == Permutations(TwoThreads) \union Permutations(ThreeChunks)

===============================================================================
