------------------------------ MODULE TcpReceive ------------------------------
(***************************************************************************)
(* The receive path of a TCP session: the RecvBuffer (RecvBuffer.cpp) that *)
(* async_receive fills and TcpSession::ProcessRecv cuts into packets.      *)
(* One receive is outstanding at a time, so the completion handler runs    *)
(* alone; every packet handed to OnRecv is a step of its own.              *)
(*                                                                         *)
(* The peer's byte stream is a sequence of numbers.  A packet starts with  *)
(* TcpPacketHeader; the stream holds the packet's size at its first byte.  *)
(***************************************************************************)
EXTENDS Integers, Sequences

CONSTANTS
    Streams,     \* what the peer may send: [bytes, starts, segment] (see below)
    HeaderSize,  \* sizeof(TcpPacketHeader)
    MaxPacket,   \* largest value of header->size, 65535 in the code
    BufferSize,  \* TcpSession::BUFFER_SIZE
    BufferCount  \* RecvBuffer::BUFFER_COUNT

Capacity == BufferSize * BufferCount

\* starts holds the positions at which the stream's packets begin, and the end;
\* segment bounds the bytes that one async_receive hands over.
WellFormed(s) ==
    /\ 1 \in s.starts
    /\ \A p \in s.starts : p <= Len(s.bytes) =>
          s.bytes[p] >= HeaderSize /\ p + s.bytes[p] \in s.starts

ASSUME SizeAssumption ==
    /\ HeaderSize \in Nat \ {0} /\ MaxPacket \in Nat
    /\ BufferSize \in Nat \ {0} /\ BufferCount \in Nat \ {0}
    /\ HeaderSize <= MaxPacket
    /\ Capacity \in Nat \ {0}

\* sizeof and BUFFER_SIZE: one buffer holds the largest packet (Session.h).
ASSUME PacketAssumption == MaxPacket <= BufferSize

ASSUME StreamsAssumption ==
    \A s \in Streams : /\ s.bytes \in Seq(0..MaxPacket) /\ s.starts \subseteq Nat \ {0}
                       /\ s.segment \in Nat \ {0}

VARIABLES
    stream,      \* what this peer sends
    received,    \* how much of it has been handed over by async_receive
    buffer,      \* _buffer: buffer[i] is _buffer[i]
    readPos,     \* _readPos
    writePos,    \* _writePos
    dataSize,    \* ProcessRecv's local dataSize
    processLen,  \* IsParsingPacket's local processLen
    delivered,   \* the packets given to OnRecv: [at, size], stream positions
    pc           \* "recv": async_receive is outstanding; "parse"; "closed"

vars == <<stream, received, buffer, readPos, writePos, dataSize, processLen,
          delivered, pc>>

DataSize == writePos - readPos
FreeSize == Capacity - writePos

TypeOK ==
    /\ stream \in Streams
    /\ received \in 0..Len(stream.bytes)
    /\ buffer \in [0..(Capacity - 1) -> 0..MaxPacket]
    /\ readPos \in 0..Capacity /\ writePos \in 0..Capacity
    /\ dataSize \in 0..Capacity /\ processLen \in 0..Capacity
    /\ delivered \in Seq([at : Nat, size : Nat])
    /\ pc \in {"recv", "parse", "closed"}

-------------------------------------------------------------------------------
\* async_receive completes with n bytes at WritePos(); OnWrite takes them over.
Receive(n) ==
    /\ pc = "recv"
    /\ n <= FreeSize
    /\ n <= Len(stream.bytes) - received
    /\ buffer' = [i \in 0..(Capacity - 1) |->
                    IF writePos <= i /\ i < writePos + n
                    THEN stream.bytes[received + 1 + (i - writePos)] ELSE buffer[i]]
    /\ received' = received + n
    /\ writePos' = writePos + n
    /\ dataSize' = DataSize + n
    /\ processLen' = 0
    /\ pc' = "parse"
    /\ UNCHANGED <<stream, readPos, delivered>>

\* A receive of no bytes ("Recv 0"): what a full buffer leads to.
ReceiveNothing ==
    /\ pc = "recv"
    /\ FreeSize = 0
    /\ pc' = "closed"
    /\ UNCHANGED <<stream, received, buffer, readPos, writePos, dataSize,
                   processLen, delivered>>

\* An error code from async_receive: the peer is gone.
ReceiveError ==
    /\ pc = "recv"
    /\ received = Len(stream.bytes)
    /\ pc' = "closed"
    /\ UNCHANGED <<stream, received, buffer, readPos, writePos, dataSize,
                   processLen, delivered>>

\* IsParsingPacket finds a complete packet at buffer[processLen].
HeaderReady == dataSize - processLen >= HeaderSize
HeaderValue == buffer[readPos + processLen]

\* Mutant of PacketReady: a packet that just fits is left for later.
PacketReadyStrict ==
    /\ HeaderReady
    /\ HeaderValue < dataSize - processLen
    /\ HeaderValue >= HeaderSize

PacketReady ==
    /\ HeaderReady
    /\ HeaderValue <= dataSize - processLen
    /\ HeaderValue >= HeaderSize

\* The stream position of the next packet.
NextAt == received - DataSize + processLen + 1

ParsePacket ==
    /\ pc = "parse"
    /\ PacketReady
    /\ delivered' = Append(delivered, [at |-> NextAt, size |-> HeaderValue])
    /\ processLen' = processLen + HeaderValue
    /\ UNCHANGED <<stream, received, buffer, readPos, writePos, dataSize, pc>>

\* Mutants of Clean: the cursors move and the data does not,
CleanCursorsOnly(r, w) ==
    IF Capacity - w > BufferSize
    THEN readPos' = 0 /\ writePos' = w - r /\ UNCHANGED buffer
    ELSE readPos' = r /\ writePos' = w /\ UNCHANGED buffer

\* and the data is never moved.
CleanNever(r, w) ==
    IF w = r
    THEN readPos' = 0 /\ writePos' = 0 /\ UNCHANGED buffer
    ELSE readPos' = r /\ writePos' = w /\ UNCHANGED buffer

\* The cursors after OnRead(n) and the content after Clean() moved the data.
\* The memcpy may overlap; the build's (MSVC x64) then copies as memmove does.
Clean(r, w) ==
    IF w = r
    THEN readPos' = 0 /\ writePos' = 0 /\ UNCHANGED buffer
    ELSE IF Capacity - w > BufferSize
    THEN /\ buffer' = [i \in 0..(Capacity - 1) |->
                         IF i < w - r THEN buffer[r + i] ELSE buffer[i]]
         /\ readPos' = 0
         /\ writePos' = w - r
    ELSE readPos' = r /\ writePos' = w /\ UNCHANGED buffer

\* The loop ends: OnRead(processLen), Clean, and the next async_receive.
ParseEnd ==
    /\ pc = "parse"
    /\ ~PacketReady
    /\ IF processLen > DataSize
       THEN pc' = "closed" /\ UNCHANGED <<buffer, readPos, writePos>>
       ELSE pc' = "recv" /\ Clean(readPos + processLen, writePos)
    /\ dataSize' = 0
    /\ processLen' = 0
    /\ UNCHANGED <<stream, received, delivered>>

-------------------------------------------------------------------------------
Init ==
    /\ stream \in Streams
    /\ received = 0
    /\ buffer = [i \in 0..(Capacity - 1) |-> 0]
    /\ readPos = 0 /\ writePos = 0
    /\ dataSize = 0 /\ processLen = 0
    /\ delivered = <<>>
    /\ pc = "recv"

Next ==
    \/ \E n \in 1..stream.segment : Receive(n)
    \/ ReceiveNothing \/ ReceiveError
    \/ ParsePacket \/ ParseEnd

Spec == Init /\ [][Next]_vars

\* The kernel hands over what has arrived and the handler runs to its end.
FairSpec == Spec /\ WF_vars(Next)

-------------------------------------------------------------------------------
(* Properties *)

\* The unread bytes of the buffer are the bytes of the stream that follow what
\* has been delivered: neither the compaction of Clean nor the cursors lose,
\* repeat or overwrite one (RecvBuffer.cpp 19-56).
UnreadIsNextInStream ==
    \A i \in 0..(DataSize - 1) :
        buffer[readPos + i] = stream.bytes[received - DataSize + 1 + i]

\* The packets given to OnRecv lie in the stream without a gap or an overlap,
\* the first at its beginning, and each begins where the peer began one.
PacketsAreFrames ==
    /\ delivered # <<>> => delivered[1].at = 1
    /\ \A i \in 1..(Len(delivered) - 1) :
          delivered[i + 1].at = delivered[i].at + delivered[i].size
    /\ WellFormed(stream) => \A i \in 1..Len(delivered) :
          /\ delivered[i].at \in stream.starts
          /\ delivered[i].size = stream.bytes[delivered[i].at]

\* Both together: between the socket and OnRecv no byte of the peer's stream is
\* lost, repeated, moved or split off its packet (RecvBuffer.cpp 19-56,
\* Session.cpp 243-266).
StreamIntegrity == UnreadIsNextInStream /\ PacketsAreFrames

\* No complete packet waits in the buffer for bytes that come later, whatever the
\* stream (Session.cpp 250-258).
NothingReadyWaits ==
    pc = "recv" /\ DataSize >= HeaderSize /\ buffer[readPos] >= HeaderSize =>
        buffer[readPos] > DataSize

\* While one receive never brings more than the buffer can hold beside an
\* unfinished packet and one free buffer, the next async_receive has room for
\* the rest of the packet.  Nothing in the code bounds a receive so: what
\* happens beyond is FullBufferIsPulled.
SegmentsLeaveRoom == stream.segment + MaxPacket + BufferSize <= Capacity
RoomForPacket ==
    SegmentsLeaveRoom /\ WellFormed(stream) /\ pc = "recv" => FreeSize >= MaxPacket

\* "If the free space is less than one buffer, the data is pulled to the front"
\* (the comment at RecvBuffer.cpp:30), here where no space is left at all and
\* the next async_receive is given none.  The code tests FreeSize() > _bufferSize
\* (line 31) and leaves the data where it is: the receive brings no bytes,
\* "Recv 0" closes the session and the rest of the stream is lost.
FullBufferIsPulled == pc = "recv" /\ FreeSize = 0 => readPos = 0

\* Under the same condition the whole stream reaches OnRecv.
StreamIsDelivered ==
    SegmentsLeaveRoom /\ WellFormed(stream) =>
        <>(/\ delivered # <<>>
           /\ delivered[Len(delivered)].at + delivered[Len(delivered)].size
                = Len(stream.bytes) + 1)

===============================================================================
