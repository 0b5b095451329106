----------------------------- MODULE MCTcpReceive -----------------------------
(* Small instances of TcpReceive for TLC. *)
EXTENDS TcpReceive, FiniteSetsExt, SequencesExt

\* A packet of size n: its size, then a byte that is no valid size.
Packet(n) == <<n>> \o [i \in 1..(n - 1) |-> 0]

\* The stream of packets with these sizes, in segments of at most n bytes.
StreamOf(sizes, n) ==
    [bytes |-> FlattenSeq([i \in DOMAIN sizes |-> Packet(sizes[i])]),
     starts |-> {1 + FoldSeq(LAMBDA size, sum : size + sum, 0, SubSeq(sizes, 1, k)) :
                    k \in 0..Len(sizes)},
     segment |-> n]

\* Every order of three or four packets of two to four bytes, in segments as
\* large as a packet or as large as the buffer.
Paced == {StreamOf(z, 4) : z \in [1..3 -> 2..4] \union [1..4 -> 2..4]}
Bursts == {StreamOf(z, 12) : z \in [1..3 -> 2..4] \union [1..4 -> 2..4]}

\* A peer that sends a header with a size below sizeof(TcpPacketHeader).
BadStreams == {StreamOf(z, 12) : z \in {<<3, 1, 2, 4, 4, 4, 4>>, <<2, 1, 1, 1, 4, 4, 4, 4>>}}

AllStreams == Paced \union Bursts \union BadStreams

===============================================================================
