---------------------------- MODULE MCReliableUdp ----------------------------
(* A small instance of ReliableUdp for TLC. *)
EXTENDS ReliableUdp, TLC

CONSTANTS game, handler, p1, p2, p3, p4, p5

TwoSenders == {game, handler}
FivePackets == {p1, p2, p3, p4, p5}

\* Zeroed memory, and memory with an old sequence in it.
ChunkMemory == {0, 2}

Symmetry == Permutations(TwoSenders) \union Permutations(FivePackets)

===============================================================================
