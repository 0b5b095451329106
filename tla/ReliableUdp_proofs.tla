-------------------------- MODULE ReliableUdp_proofs --------------------------
(***************************************************************************)
(* The inductive invariant of ReliableUdp.  While draws do not overlap,    *)
(* sequences are 1, 2, 3, ... and name one packet each; while no more than *)
(* Window are drawn and none is stale, a position of _receiveHistory       *)
(* stands for one of them.                                                 *)
(***************************************************************************)
EXTENDS ReliableUdp, FiniteSetTheorems, TLAPS

\* A sender between the steps of SendReliable has a packet.
PktInv == \A t \in Senders : pc[t] # "idle" => pkt[t] \in Packets

\* Draws have not overlapped and have not come round.
OneByOne == "race" \notin mixed /\ drawn < SeqMod

\* The senders draw 1, 2, 3, ...
DrawInv ==
    OneByOne =>
        /\ sendSeq = (drawn + 1) % SeqMod
        /\ \A t, u \in Senders : pc[t] = "store" /\ pc[u] = "store" => t = u
        /\ \A t \in Senders : pc[t] = "store" => seq[t] = sendSeq
        /\ \A t \in Senders : pc[t] = "send" => seq[t] \in 1..drawn
        /\ \A t, u \in Senders : pc[t] = "send" /\ pc[u] = "send" /\ t # u => seq[t] # seq[u]

\* A sequence names one packet, in the map until it is acknowledged.
DataInv ==
    OneByOne =>
        /\ \A d \in data : d.seq \in 1..drawn
        /\ \A d \in data, t \in Senders : pc[t] = "send" => d.seq # seq[t]
        /\ \A d, e \in data : d.seq = e.seq => d = e
        /\ \A s \in Seqs : pending[s] # NoPacket => [seq |-> s, pkt |-> pending[s]] \in data
        /\ \A d \in data : d.pkt \in acked \/ pending[d.seq] = d.pkt

\* The history and the acknowledgements speak of what was received.
RecvInv ==
    FirstWindow =>
        /\ history = {d.seq % Window : d \in handled}
        /\ latest \in 0..drawn
        /\ \A a \in acks : \A s \in AckedSeqs(a) :
              s \in 1..Window => \E d \in handled : d.seq = s
        /\ \A d \in handled : \E a \in acks : d.seq \in AckedSeqs(a)
        /\ \A p \in acked : \E d \in handled : d.pkt = p

\* Every acknowledgement took a position of the history.
AckInv ==
    /\ IsFiniteSet(acks) /\ IsFiniteSet(history)
    /\ Cardinality(acks) <= Cardinality(history)

IInv == TypeOK /\ PktInv /\ DrawInv /\ DataInv /\ RecvInv /\ AckInv

-------------------------------------------------------------------------------
(* Arithmetic of sequence numbers. *)

LEMMA Constants ==
    /\ Window \in Nat /\ Window > 0 /\ SeqMod \in Nat /\ 4 * Window < SeqMod
    /\ 2 * Window < SeqMod \div 2
    /\ AckBits \in 0..(Window - 1) /\ NoPacket \notin Packets
  BY ReliableUdpAssumption

LEMMA ModRange == \A x \in Int : x % SeqMod \in Seqs /\ x % Window \in 0..(Window - 1)
  BY Constants DEF Seqs

LEMMA ModSmall == \A x \in 0..(SeqMod - 1) : x % SeqMod = x
  BY Constants

LEMMA ModNegative == \A x \in (0 - SeqMod)..(0 - 1) : x % SeqMod = x + SeqMod
  BY Constants

\* One position for each of the first Window sequences.
LEMMA OnePosition == \A x, y \in 1..Window : x % Window = y % Window => x = y
<1>1. \A x \in 0..(Window - 1) : x % Window = x
  BY Constants
<1>2. Window % Window = 0
  BY Constants
<1>. QED  BY <1>1, <1>2, Constants

\* A predecessor of one of the first sequences is one of them too, or out of
\* their range.
LEMMA Predecessor ==
    ASSUME NEW s \in 1..Window, NEW i \in 0..AckBits, Minus(s, i) \in 1..Window
    PROVE  Minus(s, i) = s - i /\ s - i \in 1..Window
<1>1. s - i \in (0 - Window)..Window
  BY Constants
<1>2. CASE s - i >= 0
  <2>1. s - i \in 0..(SeqMod - 1)
    BY <1>1, <1>2, Constants
  <2>. QED  BY <2>1, ModSmall DEF Minus
<1>3. CASE s - i < 0
  <2>1. Minus(s, i) = s - i + SeqMod
    BY <1>1, <1>3, ModNegative, Constants DEF Minus
  <2>. QED  BY <1>1, <2>1, Constants
<1>. QED  BY <1>1, <1>2, <1>3

\* The window test lets the first sequences pass.
LEMMA WindowPasses ==
    ASSUME NEW s \in 1..Window, NEW l \in 0..Window
    PROVE  IsSeqGreater(s, Minus(l, Window))
<1>1. l - Window \in (0 - Window)..0
  BY Constants
<1>2. CASE l = Window
  <2>1. Minus(l, Window) = 0
    BY <1>2, ModSmall, Constants DEF Minus
  <2>2. s - 0 \in 0..(SeqMod - 1) /\ s \in 1..(SeqMod \div 2 - 1)
    BY Constants
  <2>3. (s - 0) % SeqMod = s
    BY <2>2, ModSmall
  <2>. QED  BY <2>1, <2>2, <2>3 DEF IsSeqGreater
<1>3. CASE l # Window
  <2>1. Minus(l, Window) = l - Window + SeqMod
    <3>1. l - Window \in (0 - SeqMod)..(0 - 1)
      BY <1>1, <1>3, Constants
    <3>. QED  BY <3>1, ModNegative DEF Minus
  <2>2. (s - (l - Window + SeqMod)) % SeqMod = s - l + Window
    <3>1. s - (l - Window + SeqMod) \in (0 - SeqMod)..(0 - 1)
      BY Constants
    <3>. QED  BY <3>1, ModNegative, Constants
  <2>3. s - l + Window \in 1..(SeqMod \div 2 - 1)
    BY Constants
  <2>. QED  BY <2>1, <2>2, <2>3 DEF IsSeqGreater
<1>. QED  BY <1>2, <1>3

\* A sequence is among those its own acknowledgement covers.
LEMMA AcksItself ==
    ASSUME NEW s \in Seqs, NEW bits
    PROVE  s \in AckedSeqs([latest |-> s, bits |-> bits])
<1>1. Minus(s, 0) = s
  BY ModSmall, Constants DEF Minus, Seqs
<1>. QED  BY <1>1 DEF AckedSeqs

-------------------------------------------------------------------------------
(* Init and the steps. *)

LEMMA InitIInv == Init => IInv
<1>. SUFFICES ASSUME Init PROVE IInv
  OBVIOUS
<1>. USE Constants DEF Init
<1>1. TypeOK
  BY DEF TypeOK, Seqs
<1>2. PktInv /\ DataInv
  BY DEF PktInv, DataInv
<1>3. DrawInv
  <2>1. (0 + 1) % SeqMod = 1
    BY ModSmall
  <2>. QED  BY <2>1 DEF DrawInv
<1>4. RecvInv
  BY DEF RecvInv
<1>5. AckInv
  BY FS_EmptySet DEF AckInv
<1>. QED  BY <1>1, <1>2, <1>3, <1>4, <1>5 DEF IInv

LEMMA SendReliableIInv ==
    ASSUME IInv, NEW t \in Senders, NEW p \in Packets, SendReliable(t, p)
    PROVE  IInv'
<1>. USE Constants
<1>1. /\ pc[t] = "idle"
      /\ seq' = [seq EXCEPT ![t] = sendSeq]
      /\ pkt' = [pkt EXCEPT ![t] = p]
      /\ pc' = [pc EXCEPT ![t] = "store"]
      /\ mixed' = IF \E u \in Senders : pc[u] = "store" THEN mixed \union {"race"} ELSE mixed
      /\ UNCHANGED <<sendSeq, pending, data, acks, history, latest, drawn, acked, handled>>
  BY DEF SendReliable
<1>2. TypeOK
  BY DEF IInv
<1>3. TypeOK'
  BY <1>1, <1>2 DEF TypeOK
<1>4. PktInv'
  BY <1>1, <1>2 DEF IInv, PktInv, TypeOK
<1>5. OneByOne' => OneByOne /\ \A u \in Senders : pc[u] # "store"
  BY <1>1 DEF OneByOne
<1>6. /\ pc'[t] = "store" /\ seq'[t] = sendSeq
      /\ \A u \in Senders : u # t => pc'[u] = pc[u] /\ seq'[u] = seq[u]
  BY <1>1, <1>2 DEF TypeOK
<1>7. DrawInv'
  BY <1>1, <1>5, <1>6 DEF IInv, DrawInv
<1>8. DataInv'
  BY <1>1, <1>5, <1>6 DEF IInv, DataInv
<1>9. RecvInv'
  <2>1. FirstWindow' => FirstWindow
    BY <1>1 DEF FirstWindow
  <2>. QED  BY <1>1, <2>1 DEF IInv, RecvInv, AckedSeqs
<1>10. AckInv'
  BY <1>1 DEF IInv, AckInv
<1>. QED  BY <1>3, <1>4, <1>7, <1>8, <1>9, <1>10 DEF IInv

LEMMA StoreSeqIInv ==
    ASSUME IInv, NEW t \in Senders, StoreSeq(t)
    PROVE  IInv'
<1>. USE Constants
<1>1. /\ pc[t] = "store"
      /\ sendSeq' = (seq[t] + 1) % SeqMod
      /\ drawn' = drawn + 1
      /\ pc' = [pc EXCEPT ![t] = "send"]
      /\ UNCHANGED <<pending, seq, pkt, data, acks, history, latest, acked, handled, mixed>>
  BY DEF StoreSeq
<1>2. TypeOK /\ drawn \in Nat /\ seq[t] \in Nat
  BY DEF IInv, TypeOK, Seqs
<1>3. TypeOK'
  <2>1. sendSeq' \in Seqs
    BY <1>1, <1>2, ModRange
  <2>2. pc' \in [Senders -> {"idle", "store", "send"}]
    BY <1>1, <1>2 DEF TypeOK
  <2>. QED  BY <1>1, <1>2, <2>1, <2>2 DEF TypeOK
<1>4. PktInv'
  BY <1>1, <1>2 DEF IInv, PktInv, TypeOK
<1>5. pc'[t] = "send" /\ \A u \in Senders : u # t => pc'[u] = pc[u]
  BY <1>1, <1>2 DEF TypeOK
<1>6. ASSUME OneByOne'
      PROVE  OneByOne /\ seq[t] = drawn'
  <2>1. OneByOne
    BY <1>1, <1>2, <1>6 DEF OneByOne
  <2>2. seq[t] = (drawn + 1) % SeqMod
    BY <1>1, <2>1 DEF IInv, DrawInv
  <2>3. drawn + 1 \in 0..(SeqMod - 1)
    BY <1>1, <1>2, <1>6 DEF OneByOne
  <2>. QED  BY <1>1, <2>1, <2>2, <2>3, ModSmall
<1>7. DrawInv'
  <2>. SUFFICES ASSUME OneByOne'
                PROVE  /\ sendSeq' = (drawn' + 1) % SeqMod
                       /\ \A u, v \in Senders : pc'[u] = "store" /\ pc'[v] = "store" => u = v
                       /\ \A u \in Senders : pc'[u] = "store" => seq'[u] = sendSeq'
                       /\ \A u \in Senders : pc'[u] = "send" => seq'[u] \in 1..drawn'
                       /\ \A u, v \in Senders :
                             pc'[u] = "send" /\ pc'[v] = "send" /\ u # v => seq'[u] # seq'[v]
    BY DEF DrawInv
  <2>1. OneByOne /\ seq[t] = drawn'
    BY <1>6
  <2>2. \A u \in Senders : pc'[u] # "store"
    BY <1>1, <1>5, <2>1 DEF IInv, DrawInv
  <2>3. \A u \in Senders : u # t /\ pc'[u] = "send" => seq[u] \in 1..drawn
    BY <1>5, <2>1 DEF IInv, DrawInv
  <2>4. \A u \in Senders : pc'[u] = "send" => seq'[u] \in 1..drawn'
    BY <1>1, <1>2, <2>1, <2>3
  <2>5. \A u, v \in Senders :
           pc'[u] = "send" /\ pc'[v] = "send" /\ u # v => seq'[u] # seq'[v]
    <3>1. ASSUME NEW u \in Senders, NEW v \in Senders,
                 pc'[u] = "send", pc'[v] = "send", u # v, u # t, v # t
          PROVE  seq[u] # seq[v]
      BY <1>5, <2>1, <3>1 DEF IInv, DrawInv
    <3>2. \A u \in Senders : u # t /\ pc'[u] = "send" => seq[u] # seq[t]
      BY <1>1, <1>2, <2>1, <2>3
    <3>. QED  BY <1>1, <3>1, <3>2
  <2>. QED  BY <1>1, <2>1, <2>2, <2>4, <2>5
<1>8. DataInv'
  <2>. SUFFICES ASSUME OneByOne'
                PROVE  /\ \A d \in data' : d.seq \in 1..drawn'
                       /\ \A d \in data', u \in Senders : pc'[u] = "send" => d.seq # seq'[u]
                       /\ \A d, e \in data' : d.seq = e.seq => d = e
                       /\ \A s \in Seqs : pending'[s] # NoPacket => [seq |-> s, pkt |-> pending'[s]] \in data'
                       /\ \A d \in data' : d.pkt \in acked' \/ pending'[d.seq] = d.pkt
    BY DEF DataInv
  <2>1. OneByOne /\ seq[t] = drawn'
    BY <1>6
  <2>2. \A d \in data : d.seq \in 1..drawn
    BY <2>1 DEF IInv, DataInv
  <2>3. \A d \in data' : d.seq \in 1..drawn' /\ d.seq # seq'[t]
    BY <1>1, <1>2, <2>1, <2>2
  <2>4. \A d \in data', u \in Senders : pc'[u] = "send" => d.seq # seq'[u]
    BY <1>1, <1>5, <2>1, <2>3 DEF IInv, DataInv
  <2>. QED  BY <1>1, <2>1, <2>3, <2>4 DEF IInv, DataInv
<1>9. RecvInv'
  <2>1. FirstWindow' => FirstWindow
    BY <1>1, <1>2 DEF FirstWindow
  <2>2. latest \in 0..drawn => latest' \in 0..drawn'
    BY <1>1, <1>2
  <2>. QED  BY <1>1, <2>1, <2>2 DEF IInv, RecvInv, AckedSeqs
<1>10. AckInv'
  BY <1>1 DEF IInv, AckInv
<1>. QED  BY <1>3, <1>4, <1>7, <1>8, <1>9, <1>10 DEF IInv

LEMMA RegisterSendIInv ==
    ASSUME IInv, NEW t \in Senders, RegisterSend(t)
    PROVE  IInv'
<1>. USE Constants
<1>. PICK n \in Seqs, p \in Packets \union {NoPacket} : n = seq[t] /\ p = pkt[t]
  BY DEF IInv, TypeOK
<1>. DEFINE new == [seq |-> n, pkt |-> p]
<1>1. /\ pc[t] = "send"
      /\ pending' = [pending EXCEPT ![n] = p]
      /\ data' = data \union {new}
      /\ pc' = [pc EXCEPT ![t] = "idle"]
      /\ pkt' = [pkt EXCEPT ![t] = NoPacket]
      /\ UNCHANGED <<sendSeq, seq, acks, history, latest, drawn, acked, handled, mixed>>
  BY DEF RegisterSend
<1>2. TypeOK /\ p \in Packets
  BY <1>1 DEF IInv, PktInv
<1>3. new \in Datagrams /\ new.seq = n /\ new.pkt = p
  BY <1>2 DEF Datagrams
<1>4. TypeOK'
  <2>1. data' \subseteq Datagrams /\ handled' \subseteq data'
    BY <1>1, <1>2, <1>3 DEF TypeOK
  <2>2. pending' \in [Seqs -> Packets \union {NoPacket}]
    BY <1>1, <1>2 DEF TypeOK
  <2>3. pc' \in [Senders -> {"idle", "store", "send"}] /\ pkt' \in [Senders -> Packets \union {NoPacket}]
    BY <1>1, <1>2 DEF TypeOK
  <2>. QED  BY <1>1, <1>2, <2>1, <2>2, <2>3 DEF TypeOK
<1>5. PktInv'
  BY <1>1, <1>2 DEF IInv, PktInv, TypeOK
<1>6. pc'[t] = "idle" /\ \A u \in Senders : u # t => pc'[u] = pc[u]
  BY <1>1, <1>2 DEF TypeOK
<1>7. OneByOne' <=> OneByOne
  BY <1>1 DEF OneByOne
<1>8. DrawInv'
  BY <1>1, <1>6, <1>7 DEF IInv, DrawInv
<1>9. DataInv'
  <2>. SUFFICES ASSUME OneByOne'
                PROVE  /\ \A d \in data' : d.seq \in 1..drawn'
                       /\ \A d \in data', u \in Senders : pc'[u] = "send" => d.seq # seq'[u]
                       /\ \A d, e \in data' : d.seq = e.seq => d = e
                       /\ \A s \in Seqs : pending'[s] # NoPacket => [seq |-> s, pkt |-> pending'[s]] \in data'
                       /\ \A d \in data' : d.pkt \in acked' \/ pending'[d.seq] = d.pkt
    BY DEF DataInv
  <2>1. OneByOne
    BY <1>7
  <2>2. n \in 1..drawn /\ \A d \in data : d.seq # n
    BY <1>1, <2>1 DEF IInv, DrawInv, DataInv
  <2>3. \A u \in Senders : u # t /\ pc'[u] = "send" => seq[u] # n
    BY <1>1, <1>6, <2>1 DEF IInv, DrawInv
  <2>4. \A d \in data' : d.seq \in 1..drawn'
    BY <1>1, <1>3, <2>1, <2>2 DEF IInv, DataInv
  <2>5. \A d \in data', u \in Senders : pc'[u] = "send" => d.seq # seq'[u]
    BY <1>1, <1>3, <1>6, <2>1, <2>3 DEF IInv, DataInv
  <2>6. \A d, e \in data' : d.seq = e.seq => d = e
    BY <1>1, <1>3, <2>1, <2>2 DEF IInv, DataInv
  <2>7. pending'[n] = p /\ \A s \in Seqs : s # n => pending'[s] = pending[s]
    BY <1>1, <1>2 DEF TypeOK
  <2>8. \A s \in Seqs : pending'[s] # NoPacket => [seq |-> s, pkt |-> pending'[s]] \in data'
    BY <1>1, <2>1, <2>7 DEF IInv, DataInv
  <2>9. \A d \in data' : d.pkt \in acked' \/ pending'[d.seq] = d.pkt
    <3>1. \A d \in data : d.seq \in Seqs
      BY <1>2 DEF TypeOK, Datagrams
    <3>2. \A d \in data : d.pkt \in acked \/ pending'[d.seq] = d.pkt
      BY <2>1, <2>2, <2>7, <3>1 DEF IInv, DataInv
    <3>. QED  BY <1>1, <1>3, <2>7, <3>2
  <2>. QED  BY <2>4, <2>5, <2>6, <2>8, <2>9
<1>10. RecvInv'
  <2>1. FirstWindow' <=> FirstWindow
    BY <1>1 DEF FirstWindow
  <2>. QED  BY <1>1, <2>1 DEF IInv, RecvInv, AckedSeqs
<1>11. AckInv'
  BY <1>1 DEF IInv, AckInv
<1>. QED  BY <1>4, <1>5, <1>8, <1>9, <1>10, <1>11 DEF IInv

LEMMA HandleAckIInv ==
    ASSUME IInv, NEW a \in acks, HandleAck(a)
    PROVE  IInv'
<1>. USE Constants
<1>. DEFINE gone == {s \in AckedSeqs(a) : pending[s] # NoPacket}
<1>1. /\ acked' = acked \union {pending[s] : s \in gone}
      /\ pending' = [s \in Seqs |-> IF s \in gone THEN NoPacket ELSE pending[s]]
      /\ UNCHANGED <<sendSeq, pc, seq, pkt, data, acks, history, latest, drawn, handled, mixed>>
  BY DEF HandleAck
<1>2. TypeOK /\ a \in Acks
  BY DEF IInv, TypeOK
<1>3. AckedSeqs(a) \subseteq Seqs
  <2>1. a.latest \in Int /\ a.bits \subseteq Int
    BY <1>2 DEF Acks, Seqs
  <2>. QED  BY <2>1, ModRange DEF AckedSeqs, Minus
<1>4. \A s \in gone : s \in Seqs /\ pending[s] \in Packets
  BY <1>2, <1>3 DEF TypeOK
<1>5. TypeOK'
  <2>1. acked' \subseteq Packets
    BY <1>1, <1>2, <1>4 DEF TypeOK
  <2>2. pending' \in [Seqs -> Packets \union {NoPacket}]
    BY <1>1, <1>2 DEF TypeOK
  <2>. QED  BY <1>1, <1>2, <2>1, <2>2 DEF TypeOK
<1>6. PktInv' /\ AckInv'
  BY <1>1 DEF IInv, PktInv, AckInv
<1>7. OneByOne' <=> OneByOne
  BY <1>1 DEF OneByOne
<1>8. DrawInv'
  BY <1>1, <1>7 DEF IInv, DrawInv
<1>9. DataInv'
  <2>1. ASSUME OneByOne, NEW d \in data
        PROVE  d.pkt \in acked' \/ pending'[d.seq] = d.pkt
    <3>1. d.seq \in Seqs /\ d.pkt \in Packets
      BY <1>2 DEF TypeOK, Datagrams
    <3>2. d.pkt \in acked \/ pending[d.seq] = d.pkt
      BY <2>1 DEF IInv, DataInv
    <3>. QED  BY <1>1, <3>1, <3>2
  <2>2. ASSUME OneByOne, NEW s \in Seqs, pending'[s] # NoPacket
        PROVE  [seq |-> s, pkt |-> pending'[s]] \in data
    <3>1. pending'[s] = pending[s]
      BY <1>1, <2>2
    <3>. QED  BY <2>2, <3>1 DEF IInv, DataInv
  <2>. QED  BY <1>1, <1>7, <2>1, <2>2 DEF IInv, DataInv
<1>10. RecvInv'
  <2>. SUFFICES ASSUME FirstWindow
                PROVE  \A p \in acked' : \E d \in handled : d.pkt = p
    BY <1>1 DEF IInv, RecvInv, FirstWindow, AckedSeqs
  <2>1. OneByOne
    BY DEF FirstWindow, OneByOne, IInv, TypeOK
  <2>2. ASSUME NEW s \in gone
        PROVE  \E d \in handled : d.pkt = pending[s]
    <3>1. PICK e \in data : e.seq = s /\ e.pkt = pending[s]
      BY <1>4, <2>1, <2>2 DEF IInv, DataInv
    <3>2. s \in 1..Window
      <4>1. e.seq \in 1..drawn /\ drawn \in Nat /\ drawn <= Window
        BY <2>1 DEF IInv, DataInv, TypeOK, FirstWindow
      <4>. QED  BY <3>1, <4>1
    <3>3. PICK d \in handled : d.seq = s
      BY <2>2, <3>2 DEF IInv, RecvInv
    <3>4. d \in data
      BY <1>2 DEF TypeOK
    <3>. QED  BY <2>1, <3>1, <3>3, <3>4 DEF IInv, DataInv
  <2>. QED  BY <1>1, <2>2 DEF IInv, RecvInv
<1>. QED  BY <1>5, <1>6, <1>8, <1>9, <1>10 DEF IInv

\* What recording a sequence keeps, whoever sent it.
LEMMA RecordFacts ==
    ASSUME TypeOK, AckInv, NEW s \in Seqs, Record(s)
    PROVE  /\ latest' \in Seqs /\ acks' \subseteq Acks /\ history' \subseteq 0..(Window - 1)
           /\ AckInv'
<1>. USE Constants
<1>1. CASE ~(s > 0 /\ IsNew(s))
  BY <1>1 DEF Record, TypeOK, AckInv
<1>2. CASE s > 0 /\ IsNew(s)
  <2>. DEFINE seen == history \union {s % Window}
              ack == [latest |-> s, bits |-> GenerateAckBitfield(s, seen)]
  <2>1. /\ history' = seen
        /\ latest' = IF IsSeqGreater(s, latest) THEN s ELSE latest
        /\ acks' = acks \union {ack}
    BY <1>2 DEF Record
  <2>2. s % Window \in 0..(Window - 1)
    BY ModRange DEF Seqs
  <2>3. ack \in Acks
    BY DEF GenerateAckBitfield, Acks
  <2>4. s % Window \notin history
    BY <1>2 DEF IsNew
  <2>5. IsFiniteSet(seen) /\ Cardinality(seen) = Cardinality(history) + 1
    BY <2>4, FS_AddElement DEF AckInv
  <2>6. /\ IsFiniteSet(acks \union {ack})
        /\ Cardinality(acks \union {ack}) <= Cardinality(acks) + 1
    <3>1. /\ IsFiniteSet(acks) /\ Cardinality(acks) \in Nat
          /\ IsFiniteSet(acks \union {ack})
          /\ \/ Cardinality(acks \union {ack}) = Cardinality(acks)
             \/ Cardinality(acks \union {ack}) = Cardinality(acks) + 1
      BY FS_AddElement, FS_CardinalityType DEF AckInv
    <3>. QED  BY <3>1
  <2>7. /\ Cardinality(acks) \in Nat /\ Cardinality(history) \in Nat
        /\ Cardinality(acks \union {ack}) \in Nat
    BY <2>6, FS_CardinalityType DEF AckInv
  <2>8. AckInv'
    BY <2>1, <2>5, <2>6, <2>7 DEF AckInv
  <2>. QED  BY <2>1, <2>2, <2>3, <2>8 DEF TypeOK
<1>. QED  BY <1>1, <1>2

LEMMA HandlePacketIInv ==
    ASSUME IInv, NEW d \in data, HandlePacket(d)
    PROVE  IInv'
<1>. USE Constants
<1>1. /\ Record(d.seq)
      /\ handled' = handled \union {d}
      /\ UNCHANGED <<sendSeq, pending, pc, seq, pkt, data, drawn, acked, mixed>>
  BY DEF HandlePacket
<1>2. TypeOK /\ AckInv /\ d.seq \in Seqs
  BY DEF IInv, TypeOK, Datagrams
<1>3. /\ latest' \in Seqs /\ acks' \subseteq Acks /\ history' \subseteq 0..(Window - 1)
      /\ AckInv'
  BY <1>1, <1>2, RecordFacts
<1>4. TypeOK' /\ PktInv'
  BY <1>1, <1>2, <1>3 DEF IInv, TypeOK, PktInv
<1>5. DrawInv' /\ DataInv'
  BY <1>1 DEF IInv, DrawInv, DataInv, OneByOne
<1>6. RecvInv'
  <2>. SUFFICES ASSUME FirstWindow
                PROVE  /\ history' = {e.seq % Window : e \in handled'}
                       /\ latest' \in 0..drawn
                       /\ \A a \in acks' : \A s \in AckedSeqs(a) :
                             s \in 1..Window => \E e \in handled' : e.seq = s
                       /\ \A e \in handled' : \E a \in acks' : e.seq \in AckedSeqs(a)
                       /\ \A p \in acked' : \E e \in handled' : e.pkt = p
    BY <1>1 DEF RecvInv, FirstWindow, AckedSeqs
  <2>1. /\ OneByOne /\ drawn \in Nat /\ drawn <= Window
    BY DEF FirstWindow, OneByOne, IInv, TypeOK
  <2>2. \A e \in data : e.seq \in 1..drawn /\ e.seq \in 1..Window
    <3>1. \A e \in data : e.seq \in 1..drawn
      BY <2>1 DEF IInv, DataInv
    <3>. QED  BY <2>1, <3>1
  <2>3. handled \subseteq data
    BY <1>2 DEF TypeOK
  <2>. PICK s \in 1..Window : s = d.seq /\ s \in 1..drawn /\ s \in Seqs
    BY <1>2, <2>2
  <2>4. latest \in 0..drawn /\ latest \in 0..Window /\ history = {e.seq % Window : e \in handled}
    BY <2>1 DEF IInv, RecvInv
  <2>5. CASE ~IsNew(s)
    <3>1. UNCHANGED <<history, latest, acks>>
      BY <1>1, <2>5 DEF Record
    <3>2. s % Window \in history
      BY <2>4, <2>5, WindowPasses DEF IsNew
    <3>3. PICK e \in handled : e.seq % Window = s % Window
      BY <2>4, <3>2
    <3>4. e = d
      <4>1. e.seq = s
        BY <2>2, <2>3, <3>3, OnePosition
      <4>. QED  BY <2>1, <2>3, <4>1 DEF IInv, DataInv
    <3>. QED  BY <1>1, <3>1, <3>4 DEF IInv, RecvInv
  <2>6. CASE IsNew(s)
    <3>. DEFINE seen == history \union {s % Window}
                ack == [latest |-> s, bits |-> GenerateAckBitfield(s, seen)]
    <3>1. /\ history' = seen
          /\ latest' = IF IsSeqGreater(s, latest) THEN s ELSE latest
          /\ acks' = acks \union {ack}
      <4>1. s > 0
        OBVIOUS
      <4>2. Record(s)
        BY <1>1
      <4>. QED  BY <2>6, <4>1, <4>2 DEF Record
    <3>2. seen = {e.seq % Window : e \in handled'}
      BY <1>1, <2>4
    <3>3. latest' \in 0..drawn
      BY <2>4, <3>1
    <3>4. ASSUME NEW n \in AckedSeqs(ack), n \in 1..Window
          PROVE  \E e \in handled' : e.seq = n
      <4>1. PICK i \in {0} \union GenerateAckBitfield(s, seen) : n = Minus(s, i)
        BY <3>4 DEF AckedSeqs
      <4>2. i \in 0..AckBits /\ (i = 0 \/ Minus(s, i) % Window \in seen)
        BY <4>1 DEF GenerateAckBitfield
      <4>3. n = s - i
        BY <3>4, <4>1, <4>2, Predecessor
      <4>4. n % Window \in seen
        BY <4>1, <4>2, <4>3
      <4>5. PICK e \in handled' : e.seq % Window = n % Window
        BY <3>2, <4>4
      <4>6. e.seq \in 1..Window
        BY <1>1, <2>2, <2>3
      <4>. QED  BY <3>4, <4>5, <4>6, OnePosition
    <3>5. \A a \in acks' : \A n \in AckedSeqs(a) :
             n \in 1..Window => \E e \in handled' : e.seq = n
      <4>1. \A a \in acks : \A n \in AckedSeqs(a) :
               n \in 1..Window => \E e \in handled : e.seq = n
        BY DEF IInv, RecvInv
      <4>. QED  BY <1>1, <3>1, <3>4, <4>1
    <3>6. \A e \in handled' : \E a \in acks' : e.seq \in AckedSeqs(a)
      <4>1. s \in AckedSeqs(ack)
        BY AcksItself
      <4>2. \A e \in handled : \E a \in acks : e.seq \in AckedSeqs(a)
        BY DEF IInv, RecvInv
      <4>. QED  BY <1>1, <3>1, <4>1, <4>2
    <3>7. \A p \in acked' : \E e \in handled' : e.pkt = p
      BY <1>1 DEF IInv, RecvInv
    <3>. QED  BY <3>1, <3>2, <3>3, <3>5, <3>6, <3>7
  <2>. QED  BY <2>5, <2>6
<1>. QED  BY <1>3, <1>4, <1>5, <1>6 DEF IInv

LEMMA HandleUnreliableIInv ==
    ASSUME IInv, NEW s \in StaleSeqs, HandleUnreliable(s)
    PROVE  IInv'
<1>1. /\ Record(s)
      /\ mixed' = IF s > 0 THEN mixed \union {"stale"} ELSE mixed
      /\ UNCHANGED <<sendSeq, pending, pc, seq, pkt, data, drawn, acked, handled>>
  BY DEF HandleUnreliable
<1>2. TypeOK /\ AckInv /\ s \in Seqs
  BY StaleAssumption DEF IInv
<1>3. /\ latest' \in Seqs /\ acks' \subseteq Acks /\ history' \subseteq 0..(Window - 1)
      /\ AckInv'
  BY <1>1, <1>2, RecordFacts
<1>4. TypeOK' /\ PktInv'
  BY <1>1, <1>2, <1>3 DEF IInv, TypeOK, PktInv
<1>5. DrawInv' /\ DataInv'
  BY <1>1 DEF IInv, DrawInv, DataInv, OneByOne
<1>6. RecvInv'
  <2>1. CASE s > 0
    BY <1>1, <2>1 DEF RecvInv, FirstWindow
  <2>2. CASE ~(s > 0)
    <3>1. UNCHANGED <<history, latest, acks, mixed>>
      BY <1>1, <2>2 DEF Record
    <3>. QED  BY <1>1, <3>1 DEF IInv, RecvInv, FirstWindow, AckedSeqs
  <2>. QED  BY <2>1, <2>2
<1>. QED  BY <1>3, <1>4, <1>5, <1>6 DEF IInv

LEMMA NextIInv == IInv /\ [Next]_vars => IInv'
<1>. SUFFICES ASSUME IInv, [Next]_vars PROVE IInv'
  OBVIOUS
<1>1. CASE Next
  BY <1>1, SendReliableIInv, StoreSeqIInv, RegisterSendIInv, HandleAckIInv,
     HandlePacketIInv, HandleUnreliableIInv DEF Next
<1>2. CASE UNCHANGED vars
  <2>. USE <1>2 DEF vars
  <2>1. TypeOK' /\ PktInv' /\ AckInv'
    BY DEF IInv, TypeOK, PktInv, AckInv
  <2>2. DrawInv' /\ DataInv'
    BY DEF IInv, DrawInv, DataInv, OneByOne
  <2>3. RecvInv'
    BY DEF IInv, RecvInv, FirstWindow, AckedSeqs
  <2>. QED  BY <2>1, <2>2, <2>3 DEF IInv
<1>. QED  BY <1>1, <1>2

-------------------------------------------------------------------------------
(* The theorems. *)

LEMMA Invariant == Spec => []IInv
  BY InitIInv, NextIInv, PTL DEF Spec

\* Sequences, map, history and datagrams keep their types.
THEOREM TypeCorrect == Spec => []TypeOK
<1>1. IInv => TypeOK
  BY DEF IInv
<1>. QED  BY <1>1, Invariant, PTL

\* Within the first Window sequences, an acknowledged packet was received
\* (Session.cpp 331-379).
THEOREM AckSound == Spec => []AckedWasReceived
<1>1. IInv => AckedWasReceived
  BY DEF IInv, RecvInv, AckedWasReceived
<1>. QED  BY <1>1, Invariant, PTL

\* Within the first Window sequences, a received packet is acknowledged
\* (ServerPacketHandler.h 106-119).
THEOREM AckComplete == Spec => []ReceivedIsAcknowledged
<1>1. IInv => ReceivedIsAcknowledged
  BY DEF IInv, RecvInv, ReceivedIsAcknowledged
<1>. QED  BY <1>1, Invariant, PTL

\* Until the sequences come round, a packet stays in the map until it is
\* acknowledged (Session.cpp 314-329).
THEOREM KeptUntilAcked == Spec => []SentIsPending
<1>1. IInv => SentIsPending
  BY DEF IInv, DataInv, OneByOne, SentIsPending
<1>. QED  BY <1>1, Invariant, PTL

\* A session sends Window acknowledgements at most (Session.cpp 350-361).
THEOREM HistoryFillsUp == Spec => []AcksRunOut
<1>1. IInv => AcksRunOut
  <2>. SUFFICES ASSUME IInv PROVE Cardinality(acks) <= Window
    BY DEF AcksRunOut
  <2>1. IsFiniteSet(0..(Window - 1)) /\ Cardinality(0..(Window - 1)) = Window
    <3>1. /\ IsFiniteSet(0..(Window - 1))
          /\ Cardinality(0..(Window - 1)) = IF 0 > Window - 1 THEN 0 ELSE (Window - 1) - 0 + 1
      BY FS_Interval, Constants
    <3>. QED  BY <3>1, Constants
  <2>2. history \subseteq 0..(Window - 1)
    BY DEF IInv, TypeOK
  <2>3. Cardinality(history) <= Window
    BY <2>1, <2>2, FS_Subset
  <2>4. Cardinality(acks) \in Nat /\ Cardinality(history) \in Nat
    BY FS_CardinalityType DEF IInv, AckInv
  <2>. QED  BY <2>3, <2>4, Constants DEF IInv, AckInv
<1>. QED  BY <1>1, Invariant, PTL

===============================================================================
