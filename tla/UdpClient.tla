------------------------------ MODULE UdpClient ------------------------------
(***************************************************************************)
(* The UDP side of the client: the receiver with its one outstanding       *)
(* receive (UdpReceiver.cpp), the registry of sessions by endpoint         *)
(* (Service.cpp), and the handlers that take the client into the game      *)
(* (ServerPacketHandler.cpp).                                              *)
(*                                                                         *)
(* An I/O thread runs the receive completion, another one the TCP handler  *)
(* Handle_S_ENTER_GAME, the main thread sends the player's inputs.  The    *)
(* network loses, repeats and reorders: a datagram stays in its set and is *)
(* received never, once or often.  A session is created once for the       *)
(* handshake and once for every endpoint a datagram comes from, and never  *)
(* leaves the registry: nothing calls ReliableUdpSession::ProcessDisconnect.*)
(* The main thread and the receive's handlers send on the same session; the*)
(* sequence they draw is read and written back without a lock.             *)
(***************************************************************************)
EXTENDS Integers, Sequences, FiniteSets

CONSTANTS
    Endpoints,    \* the endpoints datagrams come from
    Server,       \* the one S_ENTER_GAME names
    Nowhere,      \* udp::endpoint(udp::v4(), 0)
    MaxSessions,  \* bound: sessions created
    MaxInputs,    \* bound: inputs sent
    SeqMod,       \* the number of sequences, 2^16
    MaxPackets,   \* bound: reliable packets after which no S_HANDSHAKE comes
    BufferSize,   \* UdpReceiver::BUFFER_SIZE, in units of a packet header
    BufferCount,  \* RecvBuffer::BUFFER_COUNT
    Damages,      \* what header->size of a damaged datagram claims
    Misread       \* the size that payload claims when it is read as a header

Capacity == BufferSize * BufferCount

ASSUME UdpAssumption ==
    /\ Server \in Endpoints /\ Nowhere \notin Endpoints
    /\ MaxSessions \in Nat /\ MaxInputs \in Nat /\ MaxPackets \in Nat
    /\ Misread \in Nat
    /\ SeqMod \in Nat \ {0, 1}
    /\ BufferSize \in Nat \ {0} /\ BufferCount \in Nat \ {0}
    /\ Capacity \in Nat
    /\ Damages \subseteq Nat \ {2}

Sessions == 1..MaxSessions
NoSession == 0

VARIABLES
    made,        \* how many sessions have been created
    remote,      \* remote[s]: _remoteEndpoint of session s
    sendSeq,     \* sendSeq[s]: _sendSeq
    calls,       \* the calls of SendReliable that have read _sendSeq
    pendingAck,  \* pendingAck[s]: the packets in _pendingAckMap
    history,     \* history[s]: the sequences in _receiveHistory
    registered,  \* _udpSessions
    managed,     \* SessionManager's _udpSession
    inGame,      \* SceneManager's _isInGame
    inputs,      \* how many inputs have been sent
    recv,        \* the receive: "posted", "parsing" its data, or "stopped"
    session,     \* FindOrCreateUdpSession's result for the data being parsed
    buffer,      \* the bytes of _buffer from _readPos to _writePos
    readPos,     \* _readPos
    processLen,  \* IsParsingPacket's processLen
    toServer,    \* the packets sent
    toClient,    \* the datagrams sent to the client
    received,    \* the packets the server has received
    drawn,       \* history: drawn[s] sequences of session s have been read
    raced,       \* history: the sessions with two reads before a write
    acked,       \* history: the packets that HandleAck took off a map
    whole,       \* history: no packet was put together from several datagrams
    damaged      \* history: a damaged datagram has been received

regVars == <<made, remote, registered, managed>>
seqVars == <<sendSeq, calls, drawn, raced>>
sessionVars == <<regVars, seqVars, pendingAck, history>>
gameVars == <<inGame, inputs>>
recvVars == <<recv, session, buffer, readPos, processLen>>
netVars == <<toServer, toClient, received>>
ghostVars == <<acked, whole, damaged>>
vars == <<sessionVars, gameVars, recvVars, netVars, ghostVars>>

-------------------------------------------------------------------------------
(* Packets, and the bytes of a datagram *)

Kinds == {"C_HANDSHAKE", "C_SPAWN_ACTOR", "C_PLAYER_INPUT"}

\* The reliable packets that have been sent.
Reliable == {p \in toServer : p.kind \in Kinds}

\* A datagram holds one packet: its header, which claims a size, and a payload.
\* Empty ones hold nothing to keep (ReceiveEmpty).
Bytes(d) == <<[of |-> d, part |-> 1], [of |-> d, part |-> 2]>>

Claim(byte) == IF byte.part = 1 THEN byte.of.claim ELSE Misread

FreeSize == Capacity - readPos - Len(buffer)

\* Mutant of HasPacket: a header that claims no bytes is accepted.
HasPacketOfAnySize ==
    /\ processLen < Len(buffer)
    /\ Claim(buffer[processLen + 1]) <= Len(buffer) - processLen

\* IsParsingPacket finds a packet at processLen.
HasPacket ==
    /\ processLen < Len(buffer)
    /\ Claim(buffer[processLen + 1]) \in 1..(Len(buffer) - processLen)

\* What the packet at processLen was sent as; something nobody sent if its bytes
\* are not those of one datagram.
Header == buffer[processLen + 1]
IsWhole ==
    /\ Claim(Header) = 2
    /\ SubSeq(buffer, processLen + 1, processLen + 2) = Bytes(Header.of)

-------------------------------------------------------------------------------
(* Sessions *)

\* _sendSeq++ reads the sequence of the packet that thread t sends on session s.
DrawSeq(t, s, kind) ==
    LET p == [kind |-> kind, session |-> s, seq |-> sendSeq[s], to |-> remote'[s], n |-> drawn'[s]]
    IN  /\ drawn' = [drawn EXCEPT ![s] = @ + 1]
        /\ calls' = calls \union {[by |-> t, pkt |-> p]}
        /\ raced' = IF \E c \in calls : c.pkt.session = s THEN raced \union {s} ELSE raced
        /\ UNCHANGED <<sendSeq, pendingAck, toServer>>

\* It writes back its successor, a uint16; the packet goes into _pendingAckMap and
\* out.
SendReliable(c) ==
    /\ calls' = calls \ {c}
    /\ sendSeq' = [sendSeq EXCEPT ![c.pkt.session] = (c.pkt.seq + 1) % SeqMod]
    /\ pendingAck' = [pendingAck EXCEPT ![c.pkt.session] =
                        {q \in @ : q.seq # c.pkt.seq} \union {c.pkt}]
    /\ toServer' = toServer \union {c.pkt}
    /\ UNCHANGED <<regVars, drawn, raced, history, gameVars, recvVars, toClient, received,
                   ghostVars>>

\* Thread t is not in SendReliable.
Returned(t) == \A c \in calls : c.by # t

\* The registered sessions of an endpoint.
SessionsOf(e) == {s \in registered : remote[s] = e}

\* Mutant of FindOrCreateUdpSession: the registry is not searched.
FindOrCreateUdpSessionAnew(e) ==
    /\ made < MaxSessions
    /\ made' = made + 1
    /\ remote' = [remote EXCEPT ![made'] = e]
    /\ registered' = registered \union {made'}
    /\ managed' = made'
    /\ session' = made'

\* Under the lock of the Service: the registered session of the endpoint, or a
\* new one.  The new one enters the pending map, and ProcessConnect moves it to
\* the registry at once and makes it the SessionManager's.
FindOrCreateUdpSession(e) ==
    IF SessionsOf(e) # {}
    THEN /\ session' = CHOOSE s \in SessionsOf(e) : TRUE
         /\ UNCHANGED <<made, remote, registered, managed>>
    ELSE /\ made < MaxSessions
         /\ made' = made + 1
         /\ remote' = [remote EXCEPT ![made'] = e]
         /\ registered' = registered \union {made'}
         /\ managed' = made'
         /\ session' = made'

-------------------------------------------------------------------------------
(* The TCP handler, and the main thread *)

\* Handle_S_ENTER_GAME: a session of its own sends the handshake; it is neither
\* registered nor kept.
Handle_S_ENTER_GAME ==
    /\ Returned("tcp")
    /\ made < MaxSessions
    /\ made' = made + 1
    /\ remote' = [remote EXCEPT ![made'] = Server]
    /\ DrawSeq("tcp", made', "C_HANDSHAKE")
    /\ UNCHANGED <<history, registered, managed, gameVars, recvVars, toClient, received, ghostVars>>

\* SendInputToServer: once the player is there, on the SessionManager's session.
SendInputToServer ==
    /\ Returned("game")
    /\ inGame
    /\ managed # NoSession
    /\ inputs < MaxInputs
    /\ inputs' = inputs + 1
    /\ UNCHANGED remote
    /\ DrawSeq("game", managed, "C_PLAYER_INPUT")
    /\ UNCHANGED <<made, history, registered, managed, inGame, recvVars, toClient, received, ghostVars>>

-------------------------------------------------------------------------------
(* The receiver *)

\* async_receive_from completes with datagram d: the session is looked up, the
\* bytes are taken over by OnWrite.
ProcessRecv(d) ==
    /\ recv = "posted"
    /\ Len(Bytes(d)) <= FreeSize
    /\ d.kind = "S_HANDSHAKE" => Cardinality(Reliable) < MaxPackets
    /\ FindOrCreateUdpSession(d.from)
    /\ buffer' = buffer \o Bytes(d)
    /\ processLen' = 0
    /\ recv' = "parsing"
    /\ damaged' = (damaged \/ d.kind = "damaged")
    /\ UNCHANGED <<seqVars, pendingAck, history, gameVars, readPos, netVars, acked, whole>>

\* It completes with an error: no receive is posted again.
ReceiveError ==
    /\ recv = "posted"
    /\ recv' = "stopped"
    /\ UNCHANGED <<sessionVars, gameVars, session, buffer, readPos, processLen, netVars, ghostVars>>

\* It completes without an error and without a byte: an empty datagram, which any
\* endpoint may send at any time.  The same branch is taken.
ReceiveEmpty(e) ==
    /\ recv = "posted"
    /\ e \in Endpoints
    /\ recv' = "stopped"
    /\ UNCHANGED <<sessionVars, gameVars, session, buffer, readPos, processLen, netVars, ghostVars>>

\* CheckAndRecordReceiveHistory, in HandlePacket before the handler is called.
\* The acknowledgement it answers with is not reliable, and is left out.
Record(d) ==
    history' = IF d.seq > 0 THEN [history EXCEPT ![session] = @ \union {d.seq}] ELSE history

\* Mutant of HandleAck: the sequence after the acknowledged one goes too.
HandleAckNext(d) ==
    LET gone == {p \in pendingAck[session] : \E n \in d.acks : p.seq \in {n, n + 1}}
    IN  /\ pendingAck' = [pendingAck EXCEPT ![session] = @ \ gone]
        /\ acked' = acked \union gone

HandleAck(d) ==
    LET gone == {p \in pendingAck[session] : p.seq \in d.acks}
    IN  /\ pendingAck' = [pendingAck EXCEPT ![session] = @ \ gone]
        /\ acked' = acked \union gone

\* The handlers, on a packet that is one datagram's.
Handle_S_HANDSHAKE(d) ==
    /\ d.kind = "S_HANDSHAKE"
    /\ Record(d)
    /\ UNCHANGED remote
    /\ DrawSeq("udp", session, "C_SPAWN_ACTOR")
    /\ UNCHANGED <<inGame, acked>>

Handle_S_SPAWN_ACTOR(d) ==
    /\ d.kind = "S_SPAWN_ACTOR"
    /\ Record(d)
    /\ inGame' = TRUE
    /\ UNCHANGED <<remote, seqVars, pendingAck, toServer, acked>>

Handle_S_ACK(d) ==
    /\ d.kind = "S_ACK"
    /\ Record(d)
    /\ HandleAck(d)
    /\ UNCHANGED <<remote, seqVars, toServer, inGame>>

\* A packet no handler knows, or whose payload does not parse: what it has for a
\* sequence, if anything, is recorded all the same.
Handle_INVALID ==
    /\ \E n \in {0, 1} : Record([seq |-> n])
    /\ UNCHANGED <<remote, seqVars, pendingAck, toServer, inGame, acked>>

\* OnRecv for the packet at processLen.
OnRecv ==
    /\ recv = "parsing" /\ Returned("udp")
    /\ HasPacket
    /\ IF IsWhole /\ Header.of.kind # "damaged"
       THEN Handle_S_HANDSHAKE(Header.of) \/ Handle_S_SPAWN_ACTOR(Header.of) \/ Handle_S_ACK(Header.of)
       ELSE Handle_INVALID
    /\ whole' = (whole /\ IsWhole)
    /\ processLen' = processLen + Claim(Header)
    /\ UNCHANGED <<made, registered, managed, inputs, recv, session, buffer, readPos,
                   toClient, received, damaged>>

\* Mutant of FinishRecv: the buffer is not cleaned.
FinishRecvUncleaned ==
    /\ recv = "parsing" /\ Returned("udp")
    /\ ~HasPacket
    /\ buffer' = SubSeq(buffer, processLen + 1, Len(buffer))
    /\ readPos' = readPos + processLen
    /\ recv' = "posted"
    /\ UNCHANGED <<sessionVars, gameVars, session, processLen, netVars, ghostVars>>

\* The rest of ProcessRecv: OnRead, Clean and RegisterRecv.
FinishRecv ==
    /\ recv = "parsing" /\ Returned("udp")
    /\ ~HasPacket
    /\ buffer' = SubSeq(buffer, processLen + 1, Len(buffer))
    /\ readPos' = IF buffer' = << >> \/ FreeSize > BufferSize THEN 0 ELSE readPos + processLen
    /\ recv' = "posted"
    /\ UNCHANGED <<sessionVars, gameVars, session, processLen, netVars, ghostVars>>

-------------------------------------------------------------------------------
(* The server and the network *)

\* The sequences of the client that the server has seen: it has one session for
\* the client, whichever of the client's sessions sent.
Seen == {p.seq : p \in received}

Datagram(kind, seq, acks) ==
    [from |-> Server, kind |-> kind, seq |-> seq, acks |-> acks,
     claim |-> 2]

\* The answers to the client's packets.
Answers(kind) ==
    CASE kind = "C_HANDSHAKE"    -> {Datagram("S_HANDSHAKE", 1, {})}
      [] kind = "C_SPAWN_ACTOR"  -> {Datagram("S_SPAWN_ACTOR", 2, {})}
      [] kind = "C_PLAYER_INPUT" -> {}

\* The server handles a packet, and acknowledges a sequence it sees first; a
\* sequence of 0 stands for none.
ServerReceive(p) ==
    /\ p \in Reliable /\ p.to = Server
    /\ received' = received \union {p}
    /\ toClient' = toClient \union Answers(p.kind) \union
                     (IF p.seq = 0 \/ p.seq \in Seen THEN {}
                      ELSE {Datagram("S_ACK", 0, Seen \union {p.seq})})
    /\ UNCHANGED <<sessionVars, gameVars, recvVars, toServer, ghostVars>>

\* A datagram of another endpoint, say of a server that was started anew.
Stray(e) ==
    /\ e # Server
    /\ toClient' = toClient \union {[Datagram("S_ACK", 0, {}) EXCEPT !.from = e]}
    /\ UNCHANGED <<sessionVars, gameVars, recvVars, toServer, received, ghostVars>>

\* A datagram that arrives cut short or with a wrong size.
Damage(n) ==
    /\ toClient' = toClient \union {[Datagram("damaged", 0, {}) EXCEPT !.claim = n]}
    /\ UNCHANGED <<sessionVars, gameVars, recvVars, toServer, received, ghostVars>>

-------------------------------------------------------------------------------
Init ==
    /\ made = 0
    /\ remote = [s \in Sessions |-> Nowhere]
    /\ sendSeq = [s \in Sessions |-> 1]
    /\ calls = {}
    /\ drawn = [s \in Sessions |-> 0] /\ raced = {}
    /\ pendingAck = [s \in Sessions |-> {}]
    /\ history = [s \in Sessions |-> {}]
    /\ registered = {} /\ managed = NoSession
    /\ inGame = FALSE /\ inputs = 0
    /\ recv = "posted" /\ session = NoSession
    /\ buffer = << >> /\ readPos = 0 /\ processLen = 0
    /\ toServer = {} /\ toClient = {} /\ received = {}
    /\ acked = {} /\ whole = TRUE /\ damaged = FALSE

Next ==
    \/ Handle_S_ENTER_GAME \/ SendInputToServer
    \/ \E d \in toClient : ProcessRecv(d)
    \/ \E e \in Endpoints : ReceiveEmpty(e)
    \/ ReceiveError \/ OnRecv \/ FinishRecv
    \/ \E c \in calls : SendReliable(c)
    \/ \E p \in toServer : ServerReceive(p)
    \/ \E e \in Endpoints : Stray(e)
    \/ \E n \in Damages : Damage(n)

Spec == Init /\ [][Next]_vars

\* What the I/O thread that runs the completion does, in SendReliable and out of it.
Parse == OnRecv \/ FinishRecv \/ \E c \in calls : c.by = "udp" /\ SendReliable(c)

\* The thread goes on with the completion.
FairSpec == Spec /\ WF_vars(Parse)

-------------------------------------------------------------------------------
(* Properties *)

\* Session s may give out a sequence twice: two threads have read _sendSeq before
\* one of them wrote it back, or its uint16 has come round.
Repeats(s) == s \in raced \/ drawn[s] > SeqMod

\* Two reliable packets to one endpoint have the same sequence only when one is a
\* handshake or one session has sent both and repeats itself: an endpoint has one
\* session, whatever comes from it and however often, and sessions are told apart
\* by endpoint (Service.cpp 96-121, Session.cpp 314-329, GameUdpSession.cpp 12-16,
\* Player.cpp 53-59).
SequencesDistinct ==
    \A p, q \in Reliable :
        p # q /\ p.to = q.to /\ p.seq = q.seq =>
            \/ "C_HANDSHAKE" \in {p.kind, q.kind}
            \/ (p.session = q.session /\ Repeats(p.session))

\* An acknowledgement takes a packet off the map only if the server received it,
\* or received another one with the same sequence: of another session, since the
\* handshake and what the next session sends first both have sequence 1, or of the
\* same session if it repeats itself (Session.cpp 314-348, ServerPacketHandler.cpp
\* 109-118, 148-157).
AckMeansReceived ==
    \A p \in acked : p \notin received =>
        \E q \in received :
            q.seq = p.seq /\ (q.session # p.session \/ Repeats(p.session))

\* Each datagram stands alone: until a damaged one comes in, no packet is put
\* together from two of them, and every receive finds the buffer empty from its
\* start (UdpReceiver.cpp 55-101, RecvBuffer.cpp 19-38).
DatagramsStandAlone ==
    damaged \/ (whole /\ (recv = "posted" => buffer = << >> /\ readPos = 0))

\* A completion that has bytes posts the next receive, whatever they are.  With
\* that, reception ends by an error or by one empty datagram from anywhere, both
\* before ProcessRecv, and then for good (UdpReceiver.cpp 43-50, 55-76).
ReceiverRearms == recv = "parsing" ~> recv = "posted"

===============================================================================
