--------------------------- MODULE TcpReceive_proofs ---------------------------
(***************************************************************************)
(* The receive path keeps the peer's stream, for every stream, every       *)
(* segmentation and every size of packet and buffer.                       *)
(*                                                                         *)
(* The unread bytes are the next of the stream (UnreadIsNextInStream) if   *)
(* the cursors tell how many they are (CursorInv); the packets handed out  *)
(* end where the unread bytes begin (FramesInv).  In a well-formed stream  *)
(* a packet begins there (StartsInv), so what the parser leaves is less    *)
(* than a packet, and the room it needs is what RoomInv counts.            *)
(***************************************************************************)
EXTENDS TcpReceive, SequenceTheorems, TLAPS

\* The cursors are in order, and say how much of the stream is unread.
CursorInv ==
    /\ readPos <= writePos
    /\ DataSize <= received
    /\ pc = "parse" => dataSize = DataSize /\ processLen <= DataSize
    /\ pc # "parse" => processLen = 0

\* The packets handed out lie side by side, and end where the next one begins.
FramesInv ==
    /\ delivered = << >> => NextAt = 1
    /\ delivered # << >> =>
         /\ delivered[1].at = 1
         /\ delivered[Len(delivered)].at + delivered[Len(delivered)].size = NextAt
    /\ \A i \in 1..(Len(delivered) - 1) :
         delivered[i + 1].at = delivered[i].at + delivered[i].size

\* In a well-formed stream they are the peer's, and so is the next one.
StartsInv ==
    WellFormed(stream) =>
        /\ NextAt \in stream.starts
        /\ \A i \in 1..Len(delivered) :
             /\ delivered[i].at \in stream.starts
             /\ delivered[i].size = stream.bytes[delivered[i].at]

\* Between receives less than a packet is left, at the front of the buffer.
RoomInv ==
    SegmentsLeaveRoom /\ WellFormed(stream) =>
        /\ pc = "recv" => readPos = 0 /\ writePos < MaxPacket
        /\ pc = "parse" => readPos = 0 /\ writePos < MaxPacket + stream.segment

IInv == TypeOK /\ CursorInv /\ UnreadIsNextInStream /\ FramesInv /\ StartsInv
        /\ NothingReadyWaits /\ RoomInv

-------------------------------------------------------------------------------
(* Cursors and positions *)

LEMMA StreamTyped ==
    ASSUME TypeOK
    PROVE  /\ stream.bytes \in Seq(0..MaxPacket) /\ stream.segment \in Nat \ {0}
           /\ stream.starts \subseteq Nat
           /\ \A p \in 1..Len(stream.bytes) : stream.bytes[p] \in 0..MaxPacket
           /\ received \in Nat /\ readPos \in Nat /\ writePos \in Nat
           /\ dataSize \in Nat /\ processLen \in Nat
           /\ Len(stream.bytes) \in Nat /\ received <= Len(stream.bytes)
<1>1. stream.bytes \in Seq(0..MaxPacket) /\ stream.segment \in Nat \ {0} /\ stream.starts \subseteq Nat
  BY StreamsAssumption DEF TypeOK
<1>2. \A p \in 1..Len(stream.bytes) : stream.bytes[p] \in 0..MaxPacket
  BY <1>1, ElementOfSeq
<1>3. Len(stream.bytes) \in Nat
  BY <1>1, LenProperties
<1> QED
  BY <1>1, <1>2, <1>3, SizeAssumption DEF TypeOK

\* What the parser reads as a header is what the stream has at the next position.
LEMMA HeaderIsNext ==
    ASSUME IInv, pc = "parse", HeaderReady
    PROVE  /\ NextAt \in 1..Len(stream.bytes)
           /\ HeaderValue = stream.bytes[NextAt]
           /\ HeaderValue \in 0..MaxPacket
           /\ processLen < DataSize
<1> USE SizeAssumption DEF IInv
<1>1. /\ received \in Nat /\ readPos \in Nat /\ writePos \in Nat /\ processLen \in Nat
      /\ Len(stream.bytes) \in Nat /\ received <= Len(stream.bytes)
      /\ \A p \in 1..Len(stream.bytes) : stream.bytes[p] \in 0..MaxPacket
  BY StreamTyped
<1>2. processLen \in 0..(DataSize - 1) /\ DataSize <= received
  BY <1>1 DEF CursorInv, HeaderReady, DataSize
<1>3. HeaderValue = stream.bytes[received - DataSize + 1 + processLen]
  BY <1>2 DEF UnreadIsNextInStream, HeaderValue
<1>4. NextAt = received - DataSize + 1 + processLen
  BY <1>1 DEF NextAt, DataSize
<1>5. NextAt \in 1..Len(stream.bytes)
  BY <1>1, <1>2, <1>4 DEF DataSize
<1> QED
  BY <1>1, <1>2, <1>3, <1>4, <1>5 DEF DataSize

LEMMA InitInv == Init => IInv
<1> SUFFICES ASSUME Init PROVE IInv
  OBVIOUS
<1> USE SizeAssumption, StreamsAssumption DEF Init
<1>1. TypeOK
  <2>1. stream.bytes \in Seq(0..MaxPacket)
    OBVIOUS
  <2>2. 0 \in 0..Len(stream.bytes)
    BY <2>1, LenProperties
  <2>3. delivered \in Seq([at : Nat, size : Nat])
    BY EmptySeq
  <2> QED
    BY <2>2, <2>3 DEF TypeOK
<1>2. CursorInv /\ UnreadIsNextInStream /\ NothingReadyWaits
  BY DEF CursorInv, UnreadIsNextInStream, NothingReadyWaits, DataSize
<1>3. NextAt = 1 /\ Len(delivered) = 0
  BY DEF NextAt, DataSize
<1>4. FramesInv /\ StartsInv
  BY <1>3 DEF FramesInv, StartsInv, WellFormed
<1>5. RoomInv
  BY DEF RoomInv
<1> QED
  BY <1>1, <1>2, <1>4, <1>5 DEF IInv

-------------------------------------------------------------------------------
(* A receive appends to the unread bytes *)

LEMMA ReceiveInv ==
    ASSUME IInv, NEW n \in 1..stream.segment, Receive(n)
    PROVE  IInv'
<1> USE SizeAssumption
<1>1. /\ TypeOK /\ CursorInv /\ UnreadIsNextInStream /\ FramesInv /\ StartsInv /\ RoomInv
      /\ stream.segment \in Nat \ {0}
      /\ received \in Nat /\ readPos \in Nat /\ writePos \in Nat
      /\ Len(stream.bytes) \in Nat /\ received <= Len(stream.bytes)
      /\ \A p \in 1..Len(stream.bytes) : stream.bytes[p] \in 0..MaxPacket
  BY StreamTyped DEF IInv
<1>2. /\ n \in Nat /\ n <= stream.segment /\ n >= 1
      /\ stream' = stream /\ readPos' = readPos /\ delivered' = delivered
      /\ received' = received + n /\ writePos' = writePos + n
      /\ processLen' = 0 /\ pc' = "parse" /\ pc = "recv" /\ processLen = 0
      /\ writePos + n <= Capacity /\ received + n <= Len(stream.bytes)
      /\ readPos <= writePos /\ DataSize <= received
  BY <1>1 DEF Receive, FreeSize, CursorInv, TypeOK
<1>3. /\ DataSize \in Nat /\ DataSize' = DataSize + n /\ dataSize' = DataSize'
      /\ received' - DataSize' = received - DataSize
  <2>1. dataSize' = DataSize + n
    BY DEF Receive
  <2>2. /\ received \in Nat /\ readPos \in Nat /\ writePos \in Nat /\ n \in Nat
        /\ readPos <= writePos /\ readPos' = readPos
        /\ received' = received + n /\ writePos' = writePos + n
    BY <1>1, <1>2
  <2>3. DataSize \in Nat /\ DataSize' = DataSize + n
    BY <2>2 DEF DataSize
  <2>4. received' - DataSize' = received - DataSize
    BY <2>2, <2>3
  <2> QED
    BY <2>1, <2>3, <2>4
<1>4. NextAt' = NextAt
  <2>1. NextAt' = (received' - DataSize') + 0 + 1
    BY <1>2 DEF NextAt
  <2>2. NextAt = (received - DataSize) + 0 + 1
    BY <1>2 DEF NextAt
  <2> QED
    BY <2>1, <2>2, <1>3, Zenon
<1>5. CursorInv'
  BY <1>1, <1>2, <1>3 DEF CursorInv, DataSize
<1>6. TypeOK'
  <2>1. buffer' \in [0..(Capacity - 1) -> 0..MaxPacket]
    <3>1. ASSUME NEW i \in 0..(Capacity - 1), writePos <= i, i < writePos + n
          PROVE  stream.bytes[received + 1 + (i - writePos)] \in 0..MaxPacket
      <4>1. received + 1 + (i - writePos) \in 1..Len(stream.bytes)
        BY <1>1, <1>2, <3>1
      <4> QED
        BY <4>1, <1>1
    <3> QED
      BY <3>1, <1>1 DEF Receive, TypeOK
  <2>2. dataSize' \in 0..Capacity
    <3>1. DataSize <= writePos /\ dataSize' = DataSize + n /\ Capacity \in Nat
      BY <1>1, <1>3 DEF DataSize
    <3> QED
      BY <3>1, <1>1, <1>2, <1>3
  <2> QED
    BY <1>1, <1>2, <2>1, <2>2 DEF TypeOK
<1>7. UnreadIsNextInStream'
  <2> SUFFICES ASSUME NEW i \in 0..(DataSize' - 1)
      PROVE  buffer'[readPos + i] = stream.bytes[received - DataSize + 1 + i]
    BY <1>2, <1>3 DEF UnreadIsNextInStream
  <2>1. readPos + i \in 0..(Capacity - 1) /\ i \in Nat
    BY <1>1, <1>2, <1>3 DEF DataSize
  <2>2. CASE i < DataSize
    <3>1. i \in 0..(DataSize - 1) /\ ~(writePos <= readPos + i)
      BY <2>1, <2>2, <1>1, <1>2 DEF DataSize
    <3>2. buffer'[readPos + i] = buffer[readPos + i]
      BY <3>1, <2>1 DEF Receive
    <3> QED
      BY <3>1, <3>2, <1>1 DEF UnreadIsNextInStream
  <2>3. CASE i >= DataSize
    <3>1. writePos <= readPos + i /\ readPos + i < writePos + n
      BY <2>1, <2>3, <1>1, <1>2, <1>3 DEF DataSize
    <3>2. buffer'[readPos + i] = stream.bytes[received + 1 + ((readPos + i) - writePos)]
      BY <3>1, <2>1 DEF Receive
    <3>3. received + 1 + ((readPos + i) - writePos) = received - DataSize + 1 + i
      BY <2>1, <1>1 DEF DataSize
    <3> QED
      BY <3>2, <3>3
  <2> QED
    BY <2>1, <2>2, <2>3, <1>3
<1>8. FramesInv'
  BY <1>1, <1>2, <1>4 DEF FramesInv
<1>9. StartsInv'
  BY <1>1, <1>2, <1>4 DEF StartsInv, WellFormed
<1>10. NothingReadyWaits'
  BY <1>2 DEF NothingReadyWaits
<1>11. RoomInv'
  BY <1>1, <1>2 DEF RoomInv, SegmentsLeaveRoom, WellFormed
<1> QED
  BY <1>5, <1>6, <1>7, <1>8, <1>9, <1>10, <1>11 DEF IInv

-------------------------------------------------------------------------------
(* The end of the connection *)

LEMMA ClosedInv ==
    ASSUME IInv, pc = "recv", pc' = "closed",
           UNCHANGED <<stream, received, buffer, readPos, writePos, dataSize,
                       processLen, delivered>>
    PROVE  IInv'
<1>1. TypeOK' /\ CursorInv'
  BY DEF IInv, TypeOK, CursorInv, DataSize
<1>2. UnreadIsNextInStream'
  BY DEF IInv, UnreadIsNextInStream, DataSize
<1>3. NextAt' = NextAt
  BY DEF NextAt, DataSize
<1>4. FramesInv' /\ StartsInv'
  BY <1>3 DEF IInv, FramesInv, StartsInv, WellFormed
<1>5. NothingReadyWaits' /\ RoomInv'
  BY DEF NothingReadyWaits, RoomInv
<1> QED
  BY <1>1, <1>2, <1>4, <1>5 DEF IInv

-------------------------------------------------------------------------------
(* A packet leaves the unread bytes where they are, and moves the next one *)

LEMMA ParsePacketInv ==
    ASSUME IInv, ParsePacket
    PROVE  IInv'
<1> USE SizeAssumption
<1>1. /\ TypeOK /\ CursorInv /\ UnreadIsNextInStream /\ FramesInv /\ StartsInv /\ RoomInv
      /\ received \in Nat /\ readPos \in Nat /\ writePos \in Nat /\ processLen \in Nat
      /\ Len(stream.bytes) \in Nat
  BY StreamTyped DEF IInv
<1>2. /\ NextAt \in 1..Len(stream.bytes) /\ HeaderValue = stream.bytes[NextAt]
      /\ HeaderValue \in Nat
  BY HeaderIsNext DEF ParsePacket, PacketReady
<1>3. /\ pc = "parse" /\ pc' = "parse" /\ dataSize = DataSize
      /\ DataSize' = DataSize /\ DataSize \in Nat
      /\ processLen' = processLen + HeaderValue /\ processLen' <= DataSize
      /\ delivered' = Append(delivered, [at |-> NextAt, size |-> HeaderValue])
      /\ UNCHANGED <<stream, received, buffer, readPos, writePos, dataSize, pc>>
  BY <1>1, <1>2 DEF ParsePacket, PacketReady, CursorInv, DataSize
<1>4. NextAt' = NextAt + HeaderValue /\ NextAt' \in Nat
  <2>1. NextAt' = received - DataSize + (processLen + HeaderValue) + 1
    BY <1>3 DEF NextAt
  <2>2. NextAt = received - DataSize + processLen + 1
    BY DEF NextAt
  <2>3. received \in Nat /\ DataSize \in Nat /\ processLen \in Nat /\ HeaderValue \in Nat
    BY <1>1, <1>2, <1>3
  <2>4. NextAt' = NextAt + HeaderValue
    BY <2>1, <2>2, <2>3
  <2> QED
    BY <2>4, <1>2
<1>5. TypeOK'
  <2>1. [at |-> NextAt, size |-> HeaderValue] \in [at : Nat, size : Nat]
    BY <1>2
  <2>2. delivered' \in Seq([at : Nat, size : Nat])
    BY <1>1, <1>3, <2>1, AppendProperties DEF TypeOK
  <2>3. processLen' \in 0..Capacity
    <3>1. DataSize <= writePos /\ writePos <= Capacity /\ Capacity \in Nat
      BY <1>1 DEF DataSize, TypeOK
    <3> QED
      BY <3>1, <1>1, <1>2, <1>3
  <2> QED
    BY <1>1, <1>3, <2>2, <2>3 DEF TypeOK
<1>6. CursorInv'
  BY <1>1, <1>3 DEF CursorInv
<1>7. UnreadIsNextInStream'
  BY <1>1, <1>3 DEF UnreadIsNextInStream
<1>8. PICK d, p : d = delivered /\ p = [at |-> NextAt, size |-> HeaderValue]
  OBVIOUS
<1>9. /\ d \in Seq([at : Nat, size : Nat]) /\ Len(d) \in Nat
      /\ p \in [at : Nat, size : Nat] /\ p.at = NextAt /\ p.size = HeaderValue
      /\ delivered' = Append(d, p)
      /\ (d = << >>) <=> (Len(d) = 0)
  BY <1>1, <1>2, <1>3, <1>8, LenProperties, EmptySeq DEF TypeOK
<1>10. /\ Len(delivered') = Len(d) + 1
       /\ \A i \in 1..Len(d) : delivered'[i] = d[i]
       /\ delivered'[Len(d) + 1] = p /\ delivered' # << >>
  BY <1>9, AppendProperties
<1>11. FramesInv'
  <2>1. /\ Len(d) = 0 => p.at = 1
        /\ Len(d) # 0 => d[1].at = 1 /\ d[Len(d)].at + d[Len(d)].size = p.at
        /\ \A i \in 1..(Len(d) - 1) : d[i + 1].at = d[i].at + d[i].size
    BY <1>1, <1>8, <1>9 DEF FramesInv
  <2>2. delivered'[1].at = 1
    <3>1. CASE Len(d) = 0
      BY <3>1, <2>1, <1>10
    <3>2. CASE Len(d) # 0
      BY <3>2, <2>1, <1>9, <1>10
    <3> QED
      BY <3>1, <3>2
  <2>3. delivered'[Len(delivered')].at + delivered'[Len(delivered')].size = NextAt'
    BY <1>4, <1>9, <1>10
  <2>4. ASSUME NEW i \in 1..(Len(delivered') - 1)
        PROVE  delivered'[i + 1].at = delivered'[i].at + delivered'[i].size
    <3>1. i \in 1..Len(d) /\ delivered'[i] = d[i]
      BY <1>9, <1>10
    <3>2. CASE i = Len(d)
      BY <3>1, <3>2, <2>1, <1>9, <1>10
    <3>3. CASE i # Len(d)
      <4>1. i \in 1..(Len(d) - 1) /\ i + 1 \in 1..Len(d)
        BY <3>1, <3>3, <1>9
      <4> QED
        BY <4>1, <3>1, <2>1, <1>10
    <3> QED
      BY <3>2, <3>3
  <2> QED
    BY <2>2, <2>3, <2>4, <1>10 DEF FramesInv
<1>12. StartsInv'
  <2> SUFFICES ASSUME WellFormed(stream)
      PROVE  /\ NextAt' \in stream.starts
             /\ \A i \in 1..Len(delivered') :
                  /\ delivered'[i].at \in stream.starts
                  /\ delivered'[i].size = stream.bytes[delivered'[i].at]
    BY <1>3 DEF StartsInv, WellFormed
  <2>1. /\ NextAt \in stream.starts
        /\ \A i \in 1..Len(d) : d[i].at \in stream.starts /\ d[i].size = stream.bytes[d[i].at]
    BY <1>1, <1>8 DEF StartsInv
  <2>2. NextAt + stream.bytes[NextAt] \in stream.starts
    BY <2>1, <1>2 DEF WellFormed
  <2>3. ASSUME NEW i \in 1..Len(delivered')
        PROVE  delivered'[i].at \in stream.starts /\ delivered'[i].size = stream.bytes[delivered'[i].at]
    <3>1. CASE i = Len(d) + 1
      BY <3>1, <2>1, <1>2, <1>9, <1>10
    <3>2. CASE i # Len(d) + 1
      <4>1. i \in 1..Len(d)
        BY <3>2, <1>9, <1>10
      <4> QED
        BY <4>1, <2>1, <1>10
    <3> QED
      BY <3>1, <3>2
  <2> QED
    BY <2>2, <2>3, <1>2, <1>4
<1>13. NothingReadyWaits'
  BY <1>3 DEF NothingReadyWaits
<1>14. RoomInv'
  BY <1>1, <1>3 DEF RoomInv, SegmentsLeaveRoom, WellFormed
<1> QED
  BY <1>5, <1>6, <1>7, <1>11, <1>12, <1>13, <1>14 DEF IInv

-------------------------------------------------------------------------------
(* The end of the loop drops what was parsed, and may move the rest *)

\* What is left unread when the parser stops is less than a packet.
LEMMA LessThanAPacket ==
    ASSUME IInv, pc = "parse", ~PacketReady
    PROVE  /\ DataSize - processLen >= HeaderSize =>
                HeaderValue < HeaderSize \/ HeaderValue > DataSize - processLen
           /\ WellFormed(stream) => DataSize - processLen < MaxPacket
<1> USE SizeAssumption
<1>1. /\ dataSize = DataSize /\ DataSize \in Nat /\ processLen \in Nat
  BY StreamTyped DEF IInv, CursorInv, DataSize
<1>2. ASSUME DataSize - processLen >= HeaderSize
      PROVE  /\ HeaderReady
             /\ HeaderValue \in 0..MaxPacket
             /\ HeaderValue < HeaderSize \/ HeaderValue > DataSize - processLen
             /\ WellFormed(stream) => HeaderValue >= HeaderSize
  <2>1. HeaderReady
    BY <1>1, <1>2 DEF HeaderReady
  <2>2. /\ HeaderValue \in 0..MaxPacket /\ HeaderValue = stream.bytes[NextAt]
        /\ NextAt \in 1..Len(stream.bytes)
    BY <2>1, HeaderIsNext
  <2>3. HeaderValue < HeaderSize \/ HeaderValue > DataSize - processLen
    BY <1>1, <2>1, <2>2 DEF PacketReady
  <2>4. ASSUME WellFormed(stream) PROVE HeaderValue >= HeaderSize
    <3>1. NextAt \in stream.starts /\ NextAt <= Len(stream.bytes)
      BY <2>2, <2>4, StreamTyped DEF IInv, StartsInv
    <3> QED
      BY <3>1, <2>2, <2>4 DEF WellFormed
  <2> QED
    BY <2>1, <2>2, <2>3, <2>4
<1>3. ASSUME WellFormed(stream) PROVE DataSize - processLen < MaxPacket
  <2>1. CASE DataSize - processLen >= HeaderSize
    BY <1>1, <1>2, <1>3, <2>1
  <2>2. CASE ~(DataSize - processLen >= HeaderSize)
    BY <1>1, <2>2
  <2> QED
    BY <2>1, <2>2
<1> QED
  BY <1>2, <1>3

\* Clean keeps the unread bytes, at the cursor it leaves.
LEMMA CleanKeeps ==
    ASSUME TypeOK, NEW r \in Nat, NEW w \in 0..Capacity, r <= w, Clean(r, w)
    PROVE  /\ readPos' \in 0..Capacity /\ writePos' \in 0..Capacity
           /\ readPos' <= writePos' /\ writePos' - readPos' = w - r
           /\ buffer' \in [0..(Capacity - 1) -> 0..MaxPacket]
           /\ \A i \in 0..(w - r - 1) : buffer'[readPos' + i] = buffer[r + i]
           /\ w = r \/ Capacity - w > BufferSize => readPos' = 0 /\ writePos' = w - r
<1> USE SizeAssumption DEF TypeOK
<1>1. CASE w = r
  BY <1>1 DEF Clean
<1>2. CASE w # r /\ Capacity - w > BufferSize
  <2>1. /\ readPos' = 0 /\ writePos' = w - r
        /\ buffer' = [i \in 0..(Capacity - 1) |->
                        IF i < w - r THEN buffer[r + i] ELSE buffer[i]]
    BY <1>2 DEF Clean
  <2>2. ASSUME NEW i \in 0..(w - r - 1)
        PROVE  i \in 0..(Capacity - 1) /\ r + i \in 0..(Capacity - 1) /\ i < w - r /\ i \in Nat
    OBVIOUS
  <2>3. \A i \in 0..(w - r - 1) : buffer'[readPos' + i] = buffer[r + i]
    BY <2>1, <2>2
  <2>4. buffer' \in [0..(Capacity - 1) -> 0..MaxPacket]
    <3>1. ASSUME NEW i \in 0..(Capacity - 1), i < w - r PROVE buffer[r + i] \in 0..MaxPacket
      <4>1. r + i \in 0..(Capacity - 1)
        BY <3>1
      <4> QED
        BY <4>1
    <3> QED
      BY <2>1, <3>1
  <2> QED
    BY <2>1, <2>3, <2>4
<1>3. CASE w # r /\ ~(Capacity - w > BufferSize)
  BY <1>3 DEF Clean
<1> QED
  BY <1>1, <1>2, <1>3

LEMMA ParseEndInv ==
    ASSUME IInv, ParseEnd
    PROVE  IInv'
<1> USE SizeAssumption
<1>1. /\ TypeOK /\ CursorInv /\ UnreadIsNextInStream /\ FramesInv /\ StartsInv /\ RoomInv
      /\ received \in Nat /\ readPos \in Nat /\ writePos \in Nat /\ processLen \in Nat
      /\ stream.segment \in Nat /\ writePos \in 0..Capacity
  BY StreamTyped DEF IInv, TypeOK
<1>2. /\ pc = "parse" /\ ~PacketReady /\ processLen <= DataSize /\ DataSize <= received
      /\ readPos <= writePos
  BY <1>1 DEF ParseEnd, CursorInv
<1>3. PICK r, L : r = readPos + processLen /\ L = DataSize - processLen
  OBVIOUS
<1>4. /\ r \in Nat /\ r <= writePos /\ L \in Nat /\ writePos - r = L
      /\ ~(processLen > DataSize) /\ L <= received
  BY <1>1, <1>2, <1>3 DEF DataSize
<1>5. /\ pc' = "recv" /\ Clean(r, writePos) /\ dataSize' = 0 /\ processLen' = 0
      /\ stream' = stream /\ received' = received /\ delivered' = delivered
  BY <1>3, <1>4 DEF ParseEnd
<1>6. /\ readPos' \in 0..Capacity /\ writePos' \in 0..Capacity
      /\ readPos' <= writePos' /\ DataSize' = L
      /\ buffer' \in [0..(Capacity - 1) -> 0..MaxPacket]
      /\ \A i \in 0..(L - 1) : buffer'[readPos' + i] = buffer[r + i]
      /\ L = 0 \/ Capacity - writePos > BufferSize => readPos' = 0 /\ writePos' = L
  <2>1. /\ readPos' \in 0..Capacity /\ writePos' \in 0..Capacity
        /\ readPos' <= writePos' /\ writePos' - readPos' = writePos - r
        /\ buffer' \in [0..(Capacity - 1) -> 0..MaxPacket]
        /\ \A i \in 0..(writePos - r - 1) : buffer'[readPos' + i] = buffer[r + i]
        /\ writePos = r \/ Capacity - writePos > BufferSize =>
              readPos' = 0 /\ writePos' = writePos - r
    BY <1>1, <1>4, <1>5, CleanKeeps
  <2>2. L = 0 => writePos = r
    BY <1>1, <1>4
  <2> QED
    BY <2>1, <2>2, <1>4 DEF DataSize
<1>7. NextAt' = NextAt
  <2>1. NextAt' = received - L + 0 + 1
    BY <1>5, <1>6 DEF NextAt
  <2>2. NextAt = received - DataSize + processLen + 1 /\ DataSize \in Nat
    BY <1>1, <1>2 DEF NextAt, DataSize
  <2> QED
    BY <2>1, <2>2, <1>1, <1>3
<1>8. TypeOK'
  BY <1>1, <1>5, <1>6 DEF TypeOK
<1>9. CursorInv'
  BY <1>4, <1>5, <1>6 DEF CursorInv
<1>10. UnreadIsNextInStream'
  <2> SUFFICES ASSUME NEW i \in 0..(L - 1)
      PROVE  buffer'[readPos' + i] = stream.bytes[received - L + 1 + i]
    BY <1>5, <1>6 DEF UnreadIsNextInStream
  <2>1. DataSize \in Nat /\ processLen + i \in 0..(DataSize - 1)
    BY <1>1, <1>2, <1>3, <1>4 DEF DataSize
  <2>2. /\ readPos + (processLen + i) = r + i
        /\ received - DataSize + 1 + (processLen + i) = received - L + 1 + i
    BY <2>1, <1>1, <1>3, <1>4
  <2>3. buffer[readPos + (processLen + i)] = stream.bytes[received - DataSize + 1 + (processLen + i)]
    BY <2>1, <1>1 DEF UnreadIsNextInStream
  <2> QED
    BY <2>2, <2>3, <1>6
<1>11. FramesInv' /\ StartsInv'
  BY <1>1, <1>5, <1>7 DEF FramesInv, StartsInv, WellFormed
<1>12. /\ L >= HeaderSize => HeaderValue < HeaderSize \/ HeaderValue > L
       /\ WellFormed(stream) => L < MaxPacket
  BY <1>2, <1>3, LessThanAPacket
<1>13. NothingReadyWaits'
  <2> SUFFICES ASSUME L >= HeaderSize, buffer'[readPos'] >= HeaderSize
      PROVE  buffer'[readPos'] > L
    BY <1>5, <1>6 DEF NothingReadyWaits
  <2>1. buffer'[readPos'] = buffer[r]
    <3>1. 0 \in 0..(L - 1)
      BY <1>4
    <3>2. buffer'[readPos' + 0] = buffer[r + 0]
      BY <3>1, <1>6
    <3>3. r + 0 = r
      BY <1>4
    <3>4. readPos' + 0 = readPos'
      <4>1. PICK p : p = readPos'
        OBVIOUS
      <4>2. p \in Nat
        BY <4>1, <1>6
      <4>3. p + 0 = p
        BY <4>2
      <4> QED
        BY <4>1, <4>3, Zenon
    <3> QED
      BY <3>2, <3>3, <3>4, Zenon
  <2>2. buffer'[readPos'] = HeaderValue
    BY <2>1, <1>3 DEF HeaderValue
  <2>3. HeaderValue \in 0..MaxPacket
    <3>1. HeaderReady
      BY <1>1, <1>2, <1>3 DEF HeaderReady, CursorInv
    <3> QED
      BY <3>1, <1>2, HeaderIsNext
  <2> QED
    BY <2>2, <2>3, <1>4, <1>12
<1>14. RoomInv'
  <2> SUFFICES ASSUME SegmentsLeaveRoom, WellFormed(stream)
      PROVE  readPos' = 0 /\ writePos' < MaxPacket
    BY <1>5 DEF RoomInv, SegmentsLeaveRoom, WellFormed
  <2>1. writePos < MaxPacket + stream.segment
    BY <1>1, <1>2 DEF RoomInv
  <2>2. Capacity - writePos > BufferSize
    BY <2>1, <1>1 DEF SegmentsLeaveRoom
  <2> QED
    BY <2>2, <1>6, <1>12
<1> QED
  BY <1>8, <1>9, <1>10, <1>11, <1>13, <1>14 DEF IInv

-------------------------------------------------------------------------------
(* Theorems *)

\* The invariant is inductive (RecvBuffer.cpp 19-56, Session.cpp 156-266).
THEOREM Inductive == Spec => []IInv
<1>1. Init => IInv
  BY InitInv
<1>2. IInv /\ [Next]_vars => IInv'
  <2> SUFFICES ASSUME IInv, [Next]_vars PROVE IInv'
    OBVIOUS
  <2>1. ASSUME NEW n \in 1..stream.segment, Receive(n) PROVE IInv'
    BY <2>1, ReceiveInv
  <2>2. CASE ReceiveNothing \/ ReceiveError
    BY <2>2, ClosedInv DEF ReceiveNothing, ReceiveError
  <2>3. CASE ParsePacket
    BY <2>3, ParsePacketInv
  <2>4. CASE ParseEnd
    BY <2>4, ParseEndInv
  <2>5. CASE UNCHANGED vars
    BY <2>5 DEF IInv, TypeOK, CursorInv, UnreadIsNextInStream, FramesInv, StartsInv,
                NothingReadyWaits, RoomInv, SegmentsLeaveRoom, WellFormed, NextAt,
                DataSize, vars
  <2> QED
    BY <2>1, <2>2, <2>3, <2>4, <2>5 DEF Next
<1> QED
  BY <1>1, <1>2, PTL DEF Spec

\* Cursors, buffer and delivered packets keep their types (RecvBuffer.h 10-35).
THEOREM TypeCorrect == Spec => []TypeOK
<1>1. IInv => TypeOK
  BY DEF IInv
<1> QED
  BY <1>1, Inductive, PTL

\* For every stream and segmentation, nothing of it is lost, repeated or moved
\* between the socket and OnRecv (RecvBuffer.cpp 19-56, Session.cpp 243-266).
THEOREM StreamKept == Spec => []StreamIntegrity
<1>1. IInv => StreamIntegrity
  <2> SUFFICES ASSUME IInv PROVE StreamIntegrity
    OBVIOUS
  <2>1. PacketsAreFrames
    BY DEF IInv, FramesInv, StartsInv, PacketsAreFrames
  <2> QED
    BY <2>1 DEF IInv, StreamIntegrity
<1> QED
  BY <1>1, Inductive, PTL

\* No complete packet is left in the buffer over a receive (Session.cpp 252-263).
THEOREM NothingWaits == Spec => []NothingReadyWaits
<1>1. IInv => NothingReadyWaits
  BY DEF IInv
<1> QED
  BY <1>1, Inductive, PTL

\* Where the segments leave room, the buffer never closes the session, whatever
\* the sizes of the packets (RecvBuffer.cpp 19-41).
THEOREM Room == Spec => []RoomForPacket
<1>1. IInv => RoomForPacket
  <2> SUFFICES ASSUME IInv, SegmentsLeaveRoom, WellFormed(stream), pc = "recv"
      PROVE  readPos = 0 /\ FreeSize >= MaxPacket
    BY DEF RoomForPacket
  <2>1. readPos = 0 /\ writePos < MaxPacket /\ writePos \in Nat /\ stream.segment \in Nat
    BY StreamTyped DEF IInv, RoomInv
  <2> QED
    BY <2>1, SizeAssumption, PacketAssumption DEF SegmentsLeaveRoom, FreeSize
<1> QED
  BY <1>1, Inductive, PTL

===============================================================================
