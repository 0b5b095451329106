------------------------------ MODULE ReliableUdp ------------------------------
(***************************************************************************)
(* Reliable packets over UDP (ReliableUdpSession of Session.cpp and        *)
(* HandlePacket of ServerPacketHandler.h): one direction between two       *)
(* sessions.  The sending side draws a sequence number for every packet    *)
(* and keeps the packet until it is acknowledged; the receiving side       *)
(* remembers which sequences it has seen in _receiveHistory and answers a  *)
(* new one with an acknowledgement that also covers its predecessors.  The *)
(* client has both sides; its peer is taken to run the same class.         *)
(*                                                                         *)
(* The network loses, repeats and reorders: a datagram stays in the set of *)
(* datagrams and is received never, once or often.  The game loop and the  *)
(* packet handlers send from different threads; datagrams are handled one  *)
(* at a time, since the client has one receive outstanding.  Nothing calls *)
(* ReliableUdpSession::Update, so packets are sent once.                   *)
(***************************************************************************)
EXTENDS Integers, FiniteSets

CONSTANTS
    Senders,    \* the threads that call SendReliable
    Packets,    \* the reliable packets, each sent once
    NoPacket,
    SeqMod,     \* the number of sequences, 2^16
    Window,     \* the size of _receiveHistory, 1024
    AckBits,    \* the bits of an acknowledgement, 32
    StaleSeqs   \* what the header of an unreliable packet may hold as sequence

ASSUME ReliableUdpAssumption ==
    /\ NoPacket \notin Packets
    /\ Window \in Nat \ {0} /\ AckBits \in 0..(Window - 1)
    /\ SeqMod \in Nat /\ 4 * Window < SeqMod
    /\ SeqMod % Window = 0 /\ SeqMod % 2 = 0

Seqs == 0..(SeqMod - 1)
ASSUME StaleAssumption == StaleSeqs \subseteq Seqs

VARIABLES
    sendSeq,   \* _sendSeq
    pending,   \* pending[s]: the packet of _pendingAckMap[s], or NoPacket
    pc,        \* pc[t]: where sender t is in SendReliable
    seq,       \* seq[t]: the sequence t has drawn
    pkt,       \* pkt[t]: the packet t sends
    data,      \* the datagrams with packets: sequence and packet
    acks,      \* the datagrams with acknowledgements: C_ACK or S_ACK
    history,   \* _receiveHistory, as the set of its true positions
    latest,    \* _latestSeq
    drawn,     \* how many sequences have been drawn
    acked,     \* the packets that HandleAck took off the map
    handled,   \* the datagrams that reached their packet handler
    mixed      \* draws that overlapped, or a stale sequence that was received

vars == <<sendSeq, pending, pc, seq, pkt, data, acks, history, latest, drawn, acked, handled, mixed>>

Datagrams == [seq : Seqs, pkt : Packets]
Acks == [latest : Seqs, bits : SUBSET (1..AckBits)]

TypeOK ==
    /\ sendSeq \in Seqs /\ latest \in Seqs
    /\ pending \in [Seqs -> Packets \union {NoPacket}]
    /\ pc \in [Senders -> {"idle", "store", "send"}]
    /\ seq \in [Senders -> Seqs]
    /\ pkt \in [Senders -> Packets \union {NoPacket}]
    /\ data \subseteq Datagrams /\ handled \subseteq data
    /\ acks \subseteq Acks
    /\ history \subseteq 0..(Window - 1)
    /\ drawn \in Nat
    /\ acked \subseteq Packets
    /\ mixed \subseteq {"race", "stale"}

-------------------------------------------------------------------------------
(* Sequence numbers *)

\* a - i as a uint16.
Minus(a, i) == (a - i) % SeqMod

\* Mutant of IsSeqGreater: without the wrap of int16.
IsSeqGreaterPlain(a, b) == a > b

IsSeqGreater(a, b) == (a - b) % SeqMod \in 1..(SeqMod \div 2 - 1)

-------------------------------------------------------------------------------
(* The sending side *)

\* SendReliable begins: _sendSeq++ reads the sequence.
SendReliable(t, p) ==
    /\ pc[t] = "idle"
    /\ \A d \in data : d.pkt # p
    /\ \A u \in Senders : pkt[u] # p
    /\ seq' = [seq EXCEPT ![t] = sendSeq]
    /\ pkt' = [pkt EXCEPT ![t] = p]
    /\ pc' = [pc EXCEPT ![t] = "store"]
    /\ mixed' = IF \E u \in Senders : pc[u] = "store" THEN mixed \union {"race"} ELSE mixed
    /\ UNCHANGED <<sendSeq, pending, data, acks, history, latest, drawn, acked, handled>>

\* Mutant of StoreSeq: the sequence is not stored back.
StoreSeqNothing(t) ==
    /\ pc[t] = "store"
    /\ drawn' = drawn + 1
    /\ pc' = [pc EXCEPT ![t] = "send"]
    /\ UNCHANGED <<sendSeq, pending, seq, pkt, data, acks, history, latest, acked, handled, mixed>>

\* _sendSeq++ stores its successor.
StoreSeq(t) ==
    /\ pc[t] = "store"
    /\ sendSeq' = (seq[t] + 1) % SeqMod
    /\ drawn' = drawn + 1
    /\ pc' = [pc EXCEPT ![t] = "send"]
    /\ UNCHANGED <<pending, seq, pkt, data, acks, history, latest, acked, handled, mixed>>

\* The header gets the sequence, the packet goes into _pendingAckMap and out.
RegisterSend(t) ==
    /\ pc[t] = "send"
    /\ pending' = [pending EXCEPT ![seq[t]] = pkt[t]]
    /\ data' = data \union {[seq |-> seq[t], pkt |-> pkt[t]]}
    /\ pc' = [pc EXCEPT ![t] = "idle"]
    /\ pkt' = [pkt EXCEPT ![t] = NoPacket]
    /\ UNCHANGED <<sendSeq, seq, acks, history, latest, drawn, acked, handled, mixed>>

\* The sequences an acknowledgement covers.
AckedSeqs(a) == {Minus(a.latest, i) : i \in {0} \union a.bits}

\* An acknowledgement arrives.
HandleAck(a) ==
    LET gone == {s \in AckedSeqs(a) : pending[s] # NoPacket}
    IN  /\ acked' = acked \union {pending[s] : s \in gone}
        /\ pending' = [s \in Seqs |-> IF s \in gone THEN NoPacket ELSE pending[s]]
        /\ UNCHANGED <<sendSeq, pc, seq, pkt, data, acks, history, latest, drawn, handled, mixed>>

-------------------------------------------------------------------------------
(* The receiving side *)

\* CheckAndRecordReceiveHistory says yes.
IsNew(s) == IsSeqGreater(s, Minus(latest, Window)) /\ s % Window \notin history

\* Mutant of GenerateAckBitfield: the window is not taken into account.
GenerateAckBitfieldAll(s, seen) == 1..AckBits

GenerateAckBitfield(s, seen) ==
    {i \in 1..AckBits : IsSeqGreater(s, Minus(s, i)) /\ Minus(s, i) % Window \in seen}

\* Mutant of Record: the history is not marked.
RecordNothing(s) ==
    IF s > 0 /\ IsNew(s)
    THEN /\ latest' = IF IsSeqGreater(s, latest) THEN s ELSE latest
         /\ acks' = acks \union {[latest |-> s, bits |-> GenerateAckBitfield(s, history)]}
         /\ UNCHANGED history
    ELSE UNCHANGED <<history, latest, acks>>

\* A sequence is recorded and acknowledged the first time.
Record(s) ==
    IF s > 0 /\ IsNew(s)
    THEN LET seen == history \union {s % Window}
         IN  /\ history' = seen
             /\ latest' = IF IsSeqGreater(s, latest) THEN s ELSE latest
             /\ acks' = acks \union {[latest |-> s, bits |-> GenerateAckBitfield(s, seen)]}
    ELSE UNCHANGED <<history, latest, acks>>

\* HandlePacket on a reliable packet.
HandlePacket(d) ==
    /\ Record(d.seq)
    /\ handled' = handled \union {d}
    /\ UNCHANGED <<sendSeq, pending, pc, seq, pkt, data, drawn, acked, mixed>>

\* HandlePacket on an unreliable one: MakeSendBufferImpl leaves its sequence as
\* the memory of the chunk has it, zero or that of an earlier packet.
HandleUnreliable(s) ==
    /\ Record(s)
    /\ mixed' = IF s > 0 THEN mixed \union {"stale"} ELSE mixed
    /\ UNCHANGED <<sendSeq, pending, pc, seq, pkt, data, drawn, acked, handled>>

Init ==
    /\ sendSeq = 1 /\ latest = 0 /\ history = {}
    /\ pending = [s \in Seqs |-> NoPacket]
    /\ pc = [t \in Senders |-> "idle"]
    /\ seq = [t \in Senders |-> 0]
    /\ pkt = [t \in Senders |-> NoPacket]
    /\ data = {} /\ acks = {} /\ handled = {}
    /\ drawn = 0 /\ acked = {} /\ mixed = {}

Next ==
    \/ \E t \in Senders :
          \/ \E p \in Packets : SendReliable(t, p)
          \/ StoreSeq(t) \/ RegisterSend(t)
    \/ \E a \in acks : HandleAck(a)
    \/ \E d \in data : HandlePacket(d)
    \/ \E s \in StaleSeqs : HandleUnreliable(s)

Spec == Init /\ [][Next]_vars

-------------------------------------------------------------------------------
(* Properties *)

\* The first Window sequences of a session, drawn one thread at a time, with no
\* stale sequence received.
FirstWindow == mixed = {} /\ drawn <= Window

\* A packet that an acknowledgement took off the map was received by the peer,
\* whatever was lost, repeated or reordered; acknowledgement bits never speak
\* for a sequence that did not arrive (Session.cpp 331-379).
AckedWasReceived ==
    FirstWindow => \A p \in acked : \E d \in handled : d.pkt = p

\* A packet that was received has been acknowledged: there is an acknowledgement
\* for its sequence, sent when it came in first (ServerPacketHandler.h 106-119).
ReceivedIsAcknowledged ==
    FirstWindow => \A d \in handled : \E a \in acks : d.seq \in AckedSeqs(a)

\* A packet sent stays in the map until it is acknowledged: no other packet takes
\* its place there before the sequences come round (Session.cpp 314-329).
SentIsPending ==
    mixed \subseteq {"stale"} /\ drawn < SeqMod =>
        \A d \in data : d.pkt \in acked \/ pending[d.seq] = d.pkt

\* _receiveHistory is never cleared: one session acknowledges Window packets at
\* most, however many it receives (Session.cpp 350-361).
AcksRunOut == Cardinality(acks) <= Window

===============================================================================
